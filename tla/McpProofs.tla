------------------------------ MODULE McpProofs -------------------------------
(***************************************************************************)
(* The rate limiter of Mcp, for every limit, window and client, and the    *)
(* conversation with the client, for pipes of every size.                  *)
(***************************************************************************)
EXTENDS Mcp, ListLemmas

(* The time that counts for the limiter: the one it was asked with, or the *)
(* clock, from which the next call takes it.                               *)
Reference == IF asking = None THEN now ELSE asking

(* The calls that were let through and that the limiter has forgotten.     *)
Forgotten == Len(granted) - Len(calls)

LimiterTypes ==
  /\ now \in Nat
  /\ asking \in Nat \cup {None}
  /\ asking # None => asking <= now
  /\ calls \in Seq(Nat)
  /\ granted \in Seq(Nat)
  /\ Len(calls) <= Limit
  /\ Forgotten \in Nat

(* No call lies ahead of the limiter. *)
NoneAhead == \A i \in 1 .. Len(granted) : granted[i] <= Reference

(* The deque holds the most recent calls, *)
DequeIsSuffix == \A i \in 1 .. Len(calls) : calls[i] = granted[Forgotten + i]

(* and what it forgot is at least a window old. *)
ForgottenIsOld == \A i \in 1 .. Forgotten : Reference - granted[i] >= Window

(* RateBounded, with the domain spelled out. *)
SpacedOut ==
  \A i \in 1 .. Len(granted) :
    i + Limit <= Len(granted) => granted[i + Limit] - granted[i] >= Window

LimiterInv ==
  LimiterTypes /\ NoneAhead /\ DequeIsSuffix /\ ForgottenIsOld /\ SpacedOut

USE McpAssumption DEF McpAssumption

-----------------------------------------------------------------------------
LEMMA LimiterInvInit == Init => LimiterInv
BY DEF Init, LimiterInv, LimiterTypes, NoneAhead, DequeIsSuffix, ForgottenIsOld,
       SpacedOut, Forgotten, Reference

(* A step that leaves the deque and the history alone and lets the         *)
(* reference only grow keeps the invariant.                                *)
LEMMA LaterKeepsLimiterInv ==
  ASSUME LimiterInv, UNCHANGED <<calls, granted>>,
         now' \in Nat, now <= now', asking' \in Nat \cup {None},
         asking' # None => asking' <= now',
         Reference <= Reference'
  PROVE  LimiterInv'
<1>1. /\ Reference \in Nat /\ Reference' \in Nat
      /\ Forgotten' = Forgotten
  BY DEF LimiterInv, LimiterTypes, Reference, Forgotten
<1>2. LimiterTypes'
  BY <1>1 DEF LimiterInv, LimiterTypes
<1>3. NoneAhead'
  <2>1. \A i \in 1 .. Len(granted) : granted[i] \in Nat
    BY DEF LimiterInv, LimiterTypes
  <2> QED
    BY <1>1, <2>1 DEF LimiterInv, NoneAhead
<1>4. DequeIsSuffix'
  BY <1>1 DEF LimiterInv, DequeIsSuffix
<1>5. ForgottenIsOld'
  <2>1. \A i \in 1 .. Forgotten : granted[i] \in Nat
    BY DEF LimiterInv, LimiterTypes, Forgotten
  <2> QED
    BY <1>1, <2>1 DEF LimiterInv, ForgottenIsOld
<1>6. SpacedOut'
  BY DEF LimiterInv, SpacedOut
<1> QED
  BY <1>2, <1>3, <1>4, <1>5, <1>6 DEF LimiterInv

LEMMA ExpireKeepsLimiterInv ==
  ASSUME LimiterInv, Expire
  PROVE  LimiterInv'
<1> USE DEF LimiterInv, Expire, HasExpired
<1>1. /\ asking \in Nat /\ Reference = asking /\ Reference' = asking
      /\ calls # <<>> /\ Len(calls) \in Nat /\ Len(calls) >= 1
      /\ calls' = Tail(calls) /\ granted' = granted /\ now' = now /\ asking' = asking
      /\ Len(granted) \in Nat
  BY DEF LimiterTypes, Reference
<1>2. /\ calls' \in Seq(Nat)
      /\ Len(calls') = Len(calls) - 1
      /\ \A i \in 1 .. Len(calls') : calls'[i] = calls[i + 1]
  BY <1>1 DEF LimiterTypes
<1>3. Forgotten' = Forgotten + 1 /\ Forgotten \in Nat
  BY <1>1, <1>2 DEF Forgotten, LimiterTypes
<1>4. LimiterTypes'
  BY <1>1, <1>2, <1>3 DEF LimiterTypes
<1>5. NoneAhead'
  BY <1>1 DEF NoneAhead
<1>6. DequeIsSuffix'
  <2> SUFFICES ASSUME NEW i \in 1 .. Len(calls')
               PROVE  calls'[i] = granted[Forgotten' + i]
    BY <1>1 DEF DequeIsSuffix
  <2>1. calls'[i] = calls[i + 1] /\ i + 1 \in 1 .. Len(calls)
    BY <1>1, <1>2
  <2>2. calls[i + 1] = granted[Forgotten + (i + 1)]
    BY <2>1 DEF DequeIsSuffix
  <2> QED
    BY <1>3, <2>1, <2>2
<1>7. ForgottenIsOld'
  <2>1. asking - calls[1] >= Window
    BY <1>1
  <2>2. calls[1] = granted[Forgotten + 1]
    BY <1>1 DEF DequeIsSuffix
  <2> QED
    BY <1>1, <1>3, <2>1, <2>2 DEF ForgottenIsOld
<1>8. SpacedOut'
  BY <1>1 DEF SpacedOut
<1> QED
  BY <1>4, <1>5, <1>6, <1>7, <1>8

LEMMA GrantKeepsLimiterInv ==
  ASSUME LimiterInv, Grant
  PROVE  LimiterInv'
<1> DEFINE n == Len(granted)
<1>1. /\ asking \in Nat /\ now \in Nat /\ asking <= now
      /\ Reference = asking
      /\ now' = now /\ asking' = None /\ Reference' = now
  BY DEF LimiterInv, LimiterTypes, Reference, Grant
<1>2. /\ calls' = Append(calls, asking) /\ granted' = Append(granted, asking)
      /\ Len(calls) < Limit
  BY DEF LimiterInv, LimiterTypes, Grant, Full
<1>3. /\ calls' \in Seq(Nat) /\ Len(calls') = Len(calls) + 1 /\ Len(calls) \in Nat
      /\ \A i \in 1 .. Len(calls) : calls'[i] = calls[i]
      /\ calls'[Len(calls) + 1] = asking
  BY <1>1, <1>2 DEF LimiterInv, LimiterTypes
<1>4. /\ granted' \in Seq(Nat) /\ Len(granted') = n + 1 /\ n \in Nat
      /\ \A i \in 1 .. n : granted'[i] = granted[i] /\ granted[i] \in Nat
      /\ granted'[n + 1] = asking
  BY <1>1, <1>2 DEF LimiterInv, LimiterTypes
<1>5. Forgotten' = Forgotten /\ Forgotten \in Nat /\ Forgotten + Len(calls) = n
  BY <1>3, <1>4 DEF Forgotten, LimiterInv, LimiterTypes
<1>6. LimiterTypes'
  BY <1>1, <1>2, <1>3, <1>4, <1>5 DEF LimiterTypes
<1>7. NoneAhead'
  BY <1>1, <1>4 DEF NoneAhead, LimiterInv
<1>8. DequeIsSuffix'
  <2> SUFFICES ASSUME NEW i \in 1 .. Len(calls) + 1
               PROVE  calls'[i] = granted'[Forgotten + i]
    BY <1>3, <1>5 DEF DequeIsSuffix
  <2>1. CASE i = Len(calls) + 1
    <3>1. Forgotten + i = n + 1
      BY <1>3, <1>5, <2>1
    <3> QED
      BY <1>3, <1>4, <2>1, <3>1
  <2>2. CASE i \in 1 .. Len(calls)
    <3>1. Forgotten + i \in 1 .. n
      BY <1>3, <1>5, <2>2
    <3> QED
      BY <1>3, <1>4, <2>2, <3>1 DEF LimiterInv, DequeIsSuffix
  <2> QED
    BY <1>3, <2>1, <2>2
<1>9. ForgottenIsOld'
  <2>1. \A i \in 1 .. Forgotten : i \in 1 .. n
    BY <1>3, <1>4, <1>5
  <2> QED
    BY <1>1, <1>4, <1>5, <2>1 DEF LimiterInv, ForgottenIsOld
<1>10. SpacedOut'
  <2> SUFFICES ASSUME NEW i \in 1 .. n + 1, i + Limit <= n + 1
               PROVE  granted'[i + Limit] - granted'[i] >= Window
    BY <1>4 DEF SpacedOut
  <2>1. i \in 1 .. n
    BY <1>4
  <2>2. CASE i + Limit <= n
    <3>1. i + Limit \in 1 .. n
      BY <1>4, <2>1, <2>2
    <3>2. granted[i + Limit] - granted[i] >= Window
      BY <2>1, <2>2 DEF LimiterInv, SpacedOut
    <3>3. granted'[i + Limit] = granted[i + Limit] /\ granted'[i] = granted[i]
      BY <1>4, <2>1, <3>1
    <3> QED
      BY <1>1, <1>4, <2>1, <3>2, <3>3
  (* There was room in the deque, so call i is among those forgotten.      *)
  <2>3. CASE i + Limit = n + 1
    <3>1. i \in 1 .. Forgotten
      BY <1>2, <1>3, <1>4, <1>5, <2>1, <2>3
    <3>2. asking - granted[i] >= Window
      BY <1>1, <3>1 DEF LimiterInv, ForgottenIsOld
    <3>3. granted'[i] = granted[i] /\ granted'[i + Limit] = asking
      BY <1>4, <2>1, <2>3
    <3> QED
      BY <1>1, <1>4, <2>1, <3>2, <3>3
  <2>4. i + Limit <= n \/ i + Limit = n + 1
    BY <1>4, <2>1
  <2> QED
    BY <2>2, <2>3, <2>4
<1> QED
  BY <1>6, <1>7, <1>8, <1>9, <1>10 DEF LimiterInv

LEMMA LimiterInvNext ==
  ASSUME LimiterInv, [Next]_vars
  PROVE  LimiterInv'
<1>1. CASE Tick
  <2>1. /\ UNCHANGED <<calls, granted>> /\ now' = now + 1 /\ asking' = asking
    BY <1>1 DEF Tick, limiterVars
  <2>2. now \in Nat /\ asking \in Nat \cup {None} /\ (asking # None => asking <= now)
    BY DEF LimiterInv, LimiterTypes
  <2> QED
    BY <2>1, <2>2, LaterKeepsLimiterInv DEF Reference
<1>2. CASE CallTool
  <2>1. /\ UNCHANGED <<calls, granted>> /\ now' = now /\ asking = None /\ asking' = now
    BY <1>2 DEF CallTool, Handling
  <2>2. now \in Nat
    BY DEF LimiterInv, LimiterTypes
  <2> QED
    BY <2>1, <2>2, LaterKeepsLimiterInv DEF Reference
<1>3. CASE Expire
  BY <1>3, ExpireKeepsLimiterInv
<1>4. CASE Refuse
  <2>1. /\ UNCHANGED <<calls, granted>> /\ now' = now /\ asking # None /\ asking' = None
    BY <1>4 DEF Refuse
  <2>2. now \in Nat /\ asking \in Nat \cup {None} /\ asking <= now
    BY <2>1 DEF LimiterInv, LimiterTypes
  <2> QED
    BY <2>1, <2>2, LaterKeepsLimiterInv DEF Reference
<1>5. CASE Grant
  BY <1>5, GrantKeepsLimiterInv
<1>6. CASE UNCHANGED <<now, asking, calls, granted>>
  <2>1. /\ now \in Nat /\ asking \in Nat \cup {None}
        /\ asking # None => asking <= now
    BY DEF LimiterInv, LimiterTypes
  <2> QED
    BY <1>6, <2>1, LaterKeepsLimiterInv DEF Reference
<1>7. CASE \/ \E line \in Line : Send(line)
           \/ TakeAnswer \/ CloseInput \/ HangUp
           \/ Ignore \/ RejectLine \/ ReadFails \/ EndOfInput \/ AnswerAtOnce
           \/ WriteAnswer \/ WriteFails \/ Dropped
  BY <1>6, <1>7 DEF Send, TakeAnswer, CloseInput, HangUp, Ignore, RejectLine, ReadFails,
     EndOfInput, AnswerAtOnce, WriteAnswer, WriteFails, Dropped, limiterVars
<1>8. CASE UNCHANGED vars
  BY <1>6, <1>8 DEF vars
<1> QED
  BY <1>1, <1>2, <1>3, <1>4, <1>5, <1>7, <1>8 DEF Next, Serve

THEOREM LimiterInvariance == Spec => []LimiterInv
<1>1. Init => LimiterInv
  BY LimiterInvInit
<1>2. LimiterInv /\ [Next]_vars => LimiterInv'
  BY LimiterInvNext
<1> QED
  BY <1>1, <1>2, PTL DEF Spec

(* README: "tool calls are [...] rate-limited".  Whatever the limit and    *)
(* the window, of any Limit + 1 calls let through the first and the last   *)
(* are a window apart.                                                     *)
THEOREM CallsAreRateBounded == Spec => []RateBounded
<1>1. LimiterInv => RateBounded
  <2> SUFFICES ASSUME LimiterInv PROVE RateBounded
    OBVIOUS
  <2>1. DOMAIN granted = 1 .. Len(granted)
    BY DEF LimiterInv, LimiterTypes
  <2> QED
    BY <2>1 DEF LimiterInv, SpacedOut, RateBounded
<1> QED
  BY <1>1, LimiterInvariance, PTL

(* ToolRateLimiter::allow holds neither refused nor expired calls against  *)
(* a client: a refusal means that Limit calls ran within the last window.  *)
THEOREM NoNeedlessRefusal == Spec => RefusedOnlyWhenFull
<1> DEFINE Refused == answer = None /\ answer' # None /\ answer'.result = "refused"
           Deserved == /\ Len(granted) >= Limit
                       /\ asking - granted[Len(granted) - Limit + 1] < Window
<1>1. ASSUME LimiterInv, Next, Refused
      PROVE  Deserved
  <2>1. Refuse
    <3>1. CASE RejectLine \/ AnswerAtOnce
      BY <1>1, <3>1 DEF RejectLine, AnswerAtOnce, Respond
    <3>2. CASE Grant
      BY <1>1, <3>2 DEF Grant, Respond, ToolResults
    <3>3. CASE answer' = answer \/ answer' = None
      BY <1>1, <3>3
    <3> QED
      BY <1>1, <3>1, <3>2, <3>3 DEF Next, Serve, Tick, Send, TakeAnswer, CloseInput, HangUp,
         Ignore, ReadFails, EndOfInput, CallTool, Expire, WriteAnswer, WriteFails, Dropped
  <2>2. /\ asking \in Nat /\ Len(calls) = Limit /\ Len(granted) \in Nat
        /\ Forgotten = Len(granted) - Limit /\ Forgotten \in Nat
        /\ calls \in Seq(Nat)
    BY <1>1, <2>1 DEF Refuse, Full, LimiterInv, LimiterTypes, Forgotten
  <2>3. calls # <<>> /\ Head(calls) = calls[1] /\ calls[1] = granted[Forgotten + 1]
    BY <1>1, <2>2 DEF LimiterInv, DequeIsSuffix
  <2>4. calls[1] \in Nat
    BY <2>2
  <2>5. asking - calls[1] < Window
    BY <2>1, <2>2, <2>3, <2>4 DEF Refuse, HasExpired
  <2> QED
    BY <2>2, <2>3, <2>5
<1>2. LimiterInv /\ [Next]_vars => [Refused => Deserved]_vars
  BY <1>1
<1> QED
  BY <1>2, LimiterInvariance, PTL DEF Spec, RefusedOnlyWhenFull

-----------------------------------------------------------------------------
(***************************************************************************)
(* The conversation.                                                       *)
(***************************************************************************)

(* While the limiter is asked, the call waits at the head of the input.    *)
AskingInStep ==
  asking # None =>
    /\ answer = None /\ input # <<>>
    /\ Head(input).id # None /\ Head(input).kind \in ToolCall

(* Nothing turns the kill switch on but a request that confirms it.        *)
KillsAreConfirmed ==
  /\ killed => confirmed
  /\ \A i \in 1 .. Len(input) : AsksToKill(input[i]) => confirmed

(* The client waits for what was answered, in that order, *)
AnswersInOrder ==
  \A i \in 1 .. Len(Answered) :
    /\ Answered[i].id = owed[i].id
    /\ Answered[i].result = "triggered" => killed /\ owed[i].kill

(* and then for the answers to what was not handled yet. *)
RequestsInOrder ==
  \A i \in 1 .. Len(Unhandled) :
    /\ Unhandled[i].id = owed[Len(Answered) + i].id
    /\ Unhandled[i].kind = "kill" => owed[Len(Answered) + i].kill

ConversationInv ==
  /\ TypeOK
  /\ AskingInStep
  /\ KillsAreConfirmed
  /\ Len(owed) = Len(Answered) + Len(Unhandled)
  /\ AnswersInOrder
  /\ RequestsInOrder

LEMMA OneBehind ==
  ASSUME NEW X, NEW s \in Seq(X), NEW x \in X
  PROVE  s \o <<x>> = Append(s, x)
<1>1. <<>> \in Seq(X) /\ Append(<<>>, x) = <<x>>
  BY EmptySeq
<1>2. s \o Append(<<>>, x) = Append(s \o <<>>, x)
  BY <1>1, AppendBehind
<1>3. s \o <<>> = s
  BY ConcatEmptySeq
<1> QED
  BY <1>1, <1>2, <1>3

LEMMA AnswersTogether ==
  ASSUME NEW o \in Seq(Answer), NEW a \in Answer \cup {None}
  PROVE  o \o (IF a = None THEN <<>> ELSE <<a>>) = IF a = None THEN o ELSE Append(o, a)
<1>1. CASE a = None
  BY <1>1, ConcatEmptySeq
<1>2. CASE a # None
  BY <1>2, OneBehind
<1> QED
  BY <1>1, <1>2

LEMMA AnsweredTypes ==
  ASSUME TypeOK
  PROVE  /\ Answered = IF answer = None THEN output ELSE Append(output, answer)
         /\ Answered \in Seq(Answer) /\ Len(Answered) \in Nat
         /\ Unhandled \in Seq(Line) /\ Len(Unhandled) \in Nat
<1>1. output \in Seq(Answer) /\ answer \in Answer \cup {None} /\ input \in Seq(Line)
  BY DEF TypeOK
<1>2. Answered = IF answer = None THEN output ELSE Append(output, answer)
  BY <1>1, AnswersTogether DEF Answered
<1>3. Answered \in Seq(Answer)
  BY <1>1, <1>2, AppendProperties
<1>4. Unhandled \in Seq(Line \cap OwedLines) /\ Line \cap OwedLines \subseteq Line
  BY <1>1, SelectedType DEF Unhandled
<1>5. Unhandled \in Seq(Line)
  BY <1>4, SeqMonotonic
<1> QED
  BY <1>2, <1>3, <1>5, LenProperties

LEMMA ConversationInit == Init => ConversationInv
<1> SUFFICES ASSUME Init PROVE ConversationInv
  OBVIOUS
<1>1. /\ input = <<>> /\ output = <<>> /\ answer = None /\ owed = <<>> /\ asking = None
      /\ calls = <<>> /\ granted = <<>> /\ killed = FALSE /\ confirmed = FALSE
      /\ now = 0 /\ inputOpen = TRUE /\ outputOpen = TRUE /\ server = "serving"
  BY DEF Init
<1>2. /\ <<>> \in Seq(Line) /\ <<>> \in Seq(Answer) /\ <<>> \in Seq(0 .. MaxTime)
      /\ <<>> \in Seq(Expected) /\ Len(<<>>) = 0
  BY EmptySeq
<1>3. TypeOK
  <2>1. /\ now \in 0 .. MaxTime /\ Len(input) <= PipeSize /\ Len(output) <= PipeSize
        /\ Len(calls) <= Limit
    BY <1>1, <1>2
  <2>2. /\ input \in Seq(Line) /\ output \in Seq(Answer) /\ calls \in Seq(0 .. MaxTime)
        /\ granted \in Seq(0 .. MaxTime) /\ owed \in Seq(Expected)
    BY <1>1, <1>2
  <2>3. /\ inputOpen \in BOOLEAN /\ outputOpen \in BOOLEAN /\ killed \in BOOLEAN
        /\ confirmed \in BOOLEAN /\ server \in {"serving", "ended", "failed"}
        /\ answer \in Answer \cup {None} /\ asking \in 0 .. MaxTime \cup {None}
    BY <1>1
  <2> QED
    BY <2>1, <2>2, <2>3 DEF TypeOK
<1>4. Answered = <<>>
  BY <1>1, <1>3, AnsweredTypes
<1>5. Unhandled = <<>>
  BY <1>1, SelectedEmpty DEF Unhandled
<1> QED
  BY <1>1, <1>2, <1>3, <1>4, <1>5 DEF ConversationInv, AskingInStep, KillsAreConfirmed,
     AnswersInOrder, RequestsInOrder

(* What a step keeps that moves neither a line nor an answer.              *)
LEMMA SilenceKeepsOrder ==
  ASSUME ConversationInv, UNCHANGED <<input, output, answer, killed, owed, confirmed>>
  PROVE  /\ KillsAreConfirmed'
         /\ Len(owed') = Len(Answered') + Len(Unhandled')
         /\ AnswersInOrder' /\ RequestsInOrder'
<1>1. Answered' = Answered /\ Unhandled' = Unhandled
  BY DEF Answered, Unhandled
<1> QED
  BY <1>1 DEF ConversationInv, KillsAreConfirmed, AnswersInOrder, RequestsInOrder

LEMMA SilentSteps ==
  ASSUME ConversationInv,
         \/ Tick \/ CloseInput \/ HangUp \/ ReadFails \/ EndOfInput \/ WriteFails \/ Dropped
         \/ CallTool \/ Expire
  PROVE  ConversationInv'
<1>1. UNCHANGED <<input, output, answer, killed, owed, confirmed, granted>>
  BY DEF Tick, CloseInput, HangUp, ReadFails, EndOfInput, WriteFails, Dropped, CallTool, Expire,
     clientVars, limiterVars
<1>2. /\ now' \in 0 .. MaxTime /\ inputOpen' \in BOOLEAN /\ outputOpen' \in BOOLEAN
      /\ server' \in {"serving", "ended", "failed"} /\ asking' \in 0 .. MaxTime \cup {None}
  <2>1. /\ now \in 0 .. MaxTime /\ inputOpen \in BOOLEAN /\ outputOpen \in BOOLEAN
        /\ server \in {"serving", "ended", "failed"} /\ asking \in 0 .. MaxTime \cup {None}
    BY DEF ConversationInv, TypeOK
  <2>2. now' \in 0 .. MaxTime
    BY <2>1 DEF Tick, CloseInput, HangUp, ReadFails, EndOfInput, WriteFails, Dropped, CallTool,
       Expire
  <2>3. inputOpen' \in BOOLEAN /\ outputOpen' \in BOOLEAN
    BY <2>1 DEF Tick, CloseInput, HangUp, ReadFails, EndOfInput, WriteFails, Dropped, CallTool,
       Expire, clientVars
  <2>4. server' \in {"serving", "ended", "failed"}
    BY <2>1 DEF Tick, CloseInput, HangUp, ReadFails, EndOfInput, WriteFails, Dropped, CallTool,
       Expire
  <2>5. asking' \in {asking, now}
    BY DEF Tick, CloseInput, HangUp, ReadFails, EndOfInput, WriteFails, Dropped, CallTool, Expire,
       limiterVars
  <2> QED
    BY <2>1, <2>2, <2>3, <2>4, <2>5
<1>3. calls' \in Seq(0 .. MaxTime) /\ Len(calls') <= Limit
  <2>1. calls \in Seq(0 .. MaxTime) /\ Len(calls) <= Limit /\ Len(calls) \in Nat
    BY DEF ConversationInv, TypeOK
  <2>2. CASE Expire
    <3>1. calls # <<>> /\ calls' = Tail(calls)
      BY <2>2 DEF Expire, HasExpired
    <3>2. calls' \in Seq(0 .. MaxTime) /\ Len(calls') = Len(calls) - 1
      BY <2>1, <3>1, HeadTailProperties
    <3> QED
      BY <2>1, <3>2
  <2>3. CASE calls' = calls
    BY <2>1, <2>3
  <2> QED
    BY <2>2, <2>3 DEF Tick, CloseInput, HangUp, ReadFails, EndOfInput, WriteFails, Dropped,
       CallTool, clientVars, limiterVars
<1>4. TypeOK'
  BY <1>1, <1>2, <1>3 DEF ConversationInv, TypeOK
<1>5. AskingInStep'
  <2>1. CASE CallTool
    BY <1>1, <2>1 DEF CallTool, Handling, current, AskingInStep
  <2>2. CASE asking' = asking
    BY <1>1, <2>2 DEF ConversationInv, AskingInStep
  <2> QED
    BY <2>1, <2>2 DEF Tick, CloseInput, HangUp, ReadFails, EndOfInput, WriteFails, Dropped,
       Expire, clientVars, limiterVars
<1> QED
  BY <1>1, <1>4, <1>5, SilenceKeepsOrder DEF ConversationInv

LEMMA SendKeepsConversation ==
  ASSUME ConversationInv, NEW line \in Line, Send(line)
  PROVE  ConversationInv'
<1> DEFINE record == [id |-> line.id, kill |-> line.kind = "kill"]
<1>1. /\ input' = Append(input, line) /\ Len(input) < PipeSize
      /\ owed' = IF IsOwed(line) THEN Append(owed, record) ELSE owed
      /\ confirmed' = (confirmed \/ AsksToKill(line))
      /\ UNCHANGED <<now, inputOpen, output, outputOpen, server, answer, killed, asking, calls,
                     granted>>
  BY DEF Send, limiterVars
<1>2. /\ input \in Seq(Line) /\ owed \in Seq(Expected) /\ Len(input) \in Nat /\ Len(owed) \in Nat
  BY DEF ConversationInv, TypeOK
<1>3. record \in Expected /\ record.id = line.id /\ record.kill = (line.kind = "kill")
  BY DEF Line, Expected
<1> HIDE DEF record
<1>4. /\ input' \in Seq(Line) /\ Len(input') = Len(input) + 1
      /\ \A i \in 1 .. Len(input) : input'[i] = input[i]
      /\ input'[Len(input) + 1] = line
  BY <1>1, <1>2
<1>5. TypeOK'
  <2>1. owed' \in Seq(Expected)
    BY <1>1, <1>2, <1>3
  <2>2. confirmed' \in BOOLEAN
    BY <1>1 DEF ConversationInv, TypeOK, AsksToKill
  <2>3. Len(input') <= PipeSize
    BY <1>1, <1>2, <1>4
  <2> QED
    BY <1>1, <1>4, <2>1, <2>2, <2>3 DEF ConversationInv, TypeOK
<1>6. AskingInStep'
  <2>1. input # <<>> => input' # <<>> /\ Head(input') = Head(input)
    BY <1>2, <1>4
  <2> QED
    BY <1>1, <2>1 DEF ConversationInv, AskingInStep
<1>7. KillsAreConfirmed'
  <2>1. killed' => confirmed'
    BY <1>1 DEF ConversationInv, KillsAreConfirmed
  <2>2. ASSUME NEW i \in 1 .. Len(input'), AsksToKill(input'[i]) PROVE confirmed'
    <3>1. \/ i \in 1 .. Len(input) /\ input'[i] = input[i]
          \/ input'[i] = line
      BY <1>2, <1>4
    <3> QED
      BY <1>1, <2>2, <3>1 DEF ConversationInv, KillsAreConfirmed
  <2> QED
    BY <2>1, <2>2 DEF KillsAreConfirmed
<1>8. /\ Answered' = Answered /\ Len(Answered) \in Nat
      /\ Unhandled \in Seq(Line) /\ Len(Unhandled) \in Nat
  BY <1>1, AnsweredTypes DEF ConversationInv, Answered
<1>9. Unhandled' = IF IsOwed(line) THEN Append(Unhandled, line) ELSE Unhandled
  BY <1>1, <1>2, SelectedAppend DEF Unhandled, OwedLines
<1>10. /\ Len(owed) = Len(Answered) + Len(Unhandled)
       /\ AnswersInOrder /\ RequestsInOrder
  BY DEF ConversationInv
<1>11. CASE ~IsOwed(line)
  BY <1>1, <1>5, <1>6, <1>7, <1>8, <1>9, <1>10, <1>11 DEF ConversationInv, AnswersInOrder,
     RequestsInOrder
<1>12. CASE IsOwed(line)
  <2>1. /\ Len(owed') = Len(owed) + 1
        /\ \A i \in 1 .. Len(owed) : owed'[i] = owed[i]
        /\ owed'[Len(owed) + 1] = record
    BY <1>1, <1>2, <1>3, <1>12
  <2>2. /\ Len(Unhandled') = Len(Unhandled) + 1
        /\ \A i \in 1 .. Len(Unhandled) : Unhandled'[i] = Unhandled[i]
        /\ Unhandled'[Len(Unhandled) + 1] = line
    BY <1>8, <1>9, <1>12
  <2>3. Len(owed') = Len(Answered') + Len(Unhandled')
    BY <1>8, <1>10, <2>1, <2>2
  <2>4. AnswersInOrder'
    <3>1. ASSUME NEW i \in 1 .. Len(Answered)
          PROVE  /\ Answered[i].id = owed'[i].id
                 /\ Answered[i].result = "triggered" => killed' /\ owed'[i].kill
      <4>1. owed'[i] = owed[i]
        BY <1>8, <1>10, <2>1
      <4> QED
        BY <1>1, <1>10, <4>1 DEF AnswersInOrder
    <3> QED
      BY <1>8, <3>1 DEF AnswersInOrder
  <2>5. RequestsInOrder'
    <3> SUFFICES ASSUME NEW i \in 1 .. Len(Unhandled) + 1
                 PROVE  /\ Unhandled'[i].id = owed'[Len(Answered) + i].id
                        /\ Unhandled'[i].kind = "kill" => owed'[Len(Answered) + i].kill
      BY <1>8, <2>2 DEF RequestsInOrder
    <3>1. CASE i \in 1 .. Len(Unhandled)
      <4>1. Len(Answered) + i \in 1 .. Len(owed)
        BY <1>8, <1>10, <3>1
      <4>2. Unhandled'[i] = Unhandled[i] /\ owed'[Len(Answered) + i] = owed[Len(Answered) + i]
        BY <2>1, <2>2, <3>1, <4>1
      <4> QED
        BY <1>10, <3>1, <4>2 DEF RequestsInOrder
    <3>2. CASE i = Len(Unhandled) + 1
      <4>1. Len(Answered) + i = Len(owed) + 1
        BY <1>8, <1>10, <3>2
      <4> QED
        BY <1>3, <2>1, <2>2, <3>2, <4>1
    <3> QED
      BY <1>8, <3>1, <3>2
  <2> QED
    BY <1>5, <1>6, <1>7, <2>3, <2>4, <2>5 DEF ConversationInv
<1> QED
  BY <1>11, <1>12

LEMMA TakeAnswerKeepsConversation ==
  ASSUME ConversationInv, TakeAnswer
  PROVE  ConversationInv'
<1>1. /\ output # <<>> /\ output' = Tail(output) /\ owed' = Tail(owed)
      /\ UNCHANGED <<now, input, inputOpen, outputOpen, server, answer, killed, confirmed, asking,
                     calls, granted>>
  BY DEF TakeAnswer, limiterVars
<1>2. /\ output \in Seq(Answer) /\ Len(output) \in Nat \ {0} /\ Len(output) <= PipeSize
      /\ owed \in Seq(Expected) /\ answer \in Answer \cup {None}
  BY <1>1 DEF ConversationInv, TypeOK
<1>3. /\ Answered = IF answer = None THEN output ELSE Append(output, answer)
      /\ Answered \in Seq(Answer) /\ Len(Answered) \in Nat
      /\ Len(Unhandled) \in Nat
  BY AnsweredTypes DEF ConversationInv
<1>4. Len(owed) = Len(Answered) + Len(Unhandled) /\ AnswersInOrder /\ RequestsInOrder
  BY DEF ConversationInv
<1>5. Len(Answered) >= Len(output)
  BY <1>2, <1>3
<1>6. owed # <<>>
  BY <1>2, <1>3, <1>4, <1>5
<1>7. /\ owed' \in Seq(Expected) /\ Len(owed') = Len(owed) - 1
      /\ \A i \in 1 .. Len(owed) - 1 : owed'[i] = owed[i + 1]
  BY <1>1, <1>2, <1>6, HeadTailProperties
<1>8. /\ output' \in Seq(Answer) /\ Len(output') = Len(output) - 1
      /\ \A i \in 1 .. Len(output) - 1 : output'[i] = output[i + 1]
  BY <1>1, <1>2, HeadTailProperties
<1>9. TypeOK'
  <2>1. Len(output') <= PipeSize
    BY <1>2, <1>8
  <2> QED
    BY <1>1, <1>7, <1>8, <2>1 DEF ConversationInv, TypeOK
<1>10. Answered' = IF answer = None THEN output' ELSE Append(output', answer)
  BY <1>1, <1>2, <1>8, AnswersTogether DEF Answered
<1>11. /\ Len(Answered') = Len(Answered) - 1
       /\ \A i \in 1 .. Len(Answered) - 1 : Answered'[i] = Answered[i + 1]
  <2>1. CASE answer = None
    BY <1>3, <1>8, <1>10, <2>1
  <2>2. CASE answer # None
    <3>1. /\ answer \in Answer
          /\ Len(Answered') = Len(output') + 1 /\ Answered'[Len(output') + 1] = answer
          /\ \A i \in 1 .. Len(output') : Answered'[i] = output'[i]
      BY <1>2, <1>8, <1>10, <2>2
    <3>2. /\ Len(Answered) = Len(output) + 1 /\ Answered[Len(output) + 1] = answer
          /\ \A i \in 1 .. Len(output) : Answered[i] = output[i]
      BY <1>2, <1>3, <2>2
    <3> QED
      BY <1>2, <1>8, <3>1, <3>2
  <2> QED
    BY <2>1, <2>2
<1>12. Unhandled' = Unhandled
  BY <1>1 DEF Unhandled
<1>13. Len(owed') = Len(Answered') + Len(Unhandled')
  BY <1>3, <1>4, <1>7, <1>11, <1>12
<1>14. AnswersInOrder'
  <2> SUFFICES ASSUME NEW i \in 1 .. Len(Answered')
               PROVE  /\ Answered'[i].id = owed'[i].id
                      /\ Answered'[i].result = "triggered" => killed' /\ owed'[i].kill
    BY DEF AnswersInOrder
  <2>1. /\ i \in 1 .. Len(Answered) - 1 /\ i + 1 \in 1 .. Len(Answered)
        /\ i \in 1 .. Len(owed) - 1
    BY <1>3, <1>4, <1>11
  <2>2. Answered'[i] = Answered[i + 1] /\ owed'[i] = owed[i + 1]
    BY <1>7, <1>11, <2>1
  <2> QED
    BY <1>1, <1>4, <2>1, <2>2 DEF AnswersInOrder
<1>15. RequestsInOrder'
  <2> SUFFICES ASSUME NEW i \in 1 .. Len(Unhandled)
               PROVE  /\ Unhandled[i].id = owed'[Len(Answered') + i].id
                      /\ Unhandled[i].kind = "kill" => owed'[Len(Answered') + i].kill
    BY <1>12 DEF RequestsInOrder
  <2>1. /\ Len(Answered') + i \in 1 .. Len(owed) - 1
        /\ (Len(Answered') + i) + 1 = Len(Answered) + i
    BY <1>2, <1>3, <1>4, <1>5, <1>11
  <2>2. owed'[Len(Answered') + i] = owed[Len(Answered) + i]
    BY <1>7, <2>1
  <2> QED
    BY <1>4, <2>2 DEF RequestsInOrder
<1>16. AskingInStep' /\ KillsAreConfirmed'
  BY <1>1 DEF ConversationInv, AskingInStep, KillsAreConfirmed
<1> QED
  BY <1>9, <1>13, <1>14, <1>15, <1>16 DEF ConversationInv

(* A line that leaves the input was owed an answer, or it changes nothing  *)
(* for those that were.                                                    *)
LEMMA LineHandled ==
  ASSUME ConversationInv, input # <<>>, input' = Tail(input)
  PROVE  /\ Head(input) \in Line
         /\ input' \in Seq(Line) /\ Len(input') <= PipeSize
         /\ \A i \in 1 .. Len(input') : AsksToKill(input'[i]) => confirmed
         /\ AsksToKill(Head(input)) => confirmed
         /\ IF IsOwed(Head(input))
            THEN Unhandled # <<>> /\ Head(Unhandled) = Head(input) /\ Unhandled' = Tail(Unhandled)
            ELSE Unhandled' = Unhandled
<1>1. input \in Seq(Line) /\ Len(input) \in Nat \ {0} /\ Len(input) <= PipeSize
  BY DEF ConversationInv, TypeOK
<1>2. /\ Head(input) \in Line /\ input' \in Seq(Line) /\ Len(input') = Len(input) - 1
      /\ \A i \in 1 .. Len(input) - 1 : input'[i] = input[i + 1]
      /\ Head(input) = input[1]
  BY <1>1, HeadTailProperties
<1>3. \A i \in 1 .. Len(input) : AsksToKill(input[i]) => confirmed
  BY DEF ConversationInv, KillsAreConfirmed
<1>4. ASSUME NEW i \in 1 .. Len(input'), AsksToKill(input'[i]) PROVE confirmed
  <2>1. i + 1 \in 1 .. Len(input) /\ input'[i] = input[i + 1]
    BY <1>1, <1>2
  <2> QED
    BY <1>3, <1>4, <2>1
<1>5. Head(input) \in OwedLines <=> IsOwed(Head(input))
  BY <1>2 DEF OwedLines
<1>6. IF Head(input) \in OwedLines
      THEN Unhandled # <<>> /\ Head(Unhandled) = Head(input) /\ Unhandled' = Tail(Unhandled)
      ELSE Unhandled' = Unhandled
  BY <1>1, SelectedTail DEF Unhandled
<1>7. Len(input') <= PipeSize
  BY <1>1, <1>2
<1>8. 1 \in 1 .. Len(input)
  BY <1>1
<1> QED
  BY <1>2, <1>3, <1>4, <1>5, <1>6, <1>7, <1>8

LEMMA IgnoreKeepsConversation ==
  ASSUME ConversationInv, Ignore
  PROVE  ConversationInv'
<1>1. /\ input # <<>> /\ input' = Tail(input) /\ asking = None
      /\ UNCHANGED <<now, inputOpen, output, outputOpen, server, answer, killed, owed, confirmed,
                     asking, calls, granted>>
      /\ Head(input).kind = "blank" \/ (Head(input).kind \in RequestKind /\ Head(input).id = None)
  BY DEF Ignore, Handling, current, clientVars, limiterVars
<1>2. /\ Head(input) \in Line
      /\ input' \in Seq(Line) /\ Len(input') <= PipeSize
      /\ \A i \in 1 .. Len(input') : AsksToKill(input'[i]) => confirmed
      /\ IsOwed(Head(input)) \/ Unhandled' = Unhandled
  BY <1>1, LineHandled
<1>3. ~IsOwed(Head(input))
  BY <1>1, <1>2 DEF IsOwed, Line, RequestKind, OtherKind, ToolCall
<1>4. Answered' = Answered /\ Unhandled' = Unhandled
  BY <1>1, <1>2, <1>3 DEF Answered
<1>5. TypeOK' /\ AskingInStep' /\ KillsAreConfirmed'
  BY <1>1, <1>2 DEF ConversationInv, TypeOK, AskingInStep, KillsAreConfirmed
<1> QED
  BY <1>1, <1>4, <1>5 DEF ConversationInv, AnswersInOrder, RequestsInOrder

(* An answer takes the place of the line it answers.                       *)
LEMMA RespondKeepsOrder ==
  ASSUME ConversationInv, answer = None, input # <<>>, IsOwed(Head(input)),
         NEW result \in {"result", "error", "refused", "triggered"}, Respond(result),
         UNCHANGED <<output, owed, confirmed>>,
         killed' = (killed \/ result = "triggered"),
         result = "triggered" => Head(input).kind = "kill" /\ Head(input).id # None
  PROVE  /\ answer' \in Answer
         /\ input' \in Seq(Line) /\ Len(input') <= PipeSize
         /\ KillsAreConfirmed'
         /\ Len(owed') = Len(Answered') + Len(Unhandled')
         /\ AnswersInOrder' /\ RequestsInOrder'
<1> DEFINE a == [id |-> Head(input).id, result |-> result]
<1>1. input' = Tail(input) /\ answer' = a
  BY DEF Respond, current
<1>2. /\ Head(input) \in Line
      /\ input' \in Seq(Line) /\ Len(input') <= PipeSize
      /\ \A i \in 1 .. Len(input') : AsksToKill(input'[i]) => confirmed
      /\ AsksToKill(Head(input)) => confirmed
      /\ Unhandled # <<>> /\ Head(Unhandled) = Head(input) /\ Unhandled' = Tail(Unhandled)
  BY <1>1, LineHandled
<1>3. a \in Answer /\ a # None /\ a.id = Head(input).id /\ a.result = result
  <2>1. a \in Answer
    BY <1>2 DEF Answer, Line
  <2> QED
    BY <2>1, NoneIsNoAnswer
<1> HIDE DEF a
<1>4. output \in Seq(Answer) /\ Answered = output /\ Len(Answered) \in Nat
      /\ Unhandled \in Seq(Line) /\ Len(Unhandled) \in Nat
  BY AnsweredTypes DEF ConversationInv
<1>5. Answered' = Append(Answered, a)
  <2>1. output \o <<a>> = Append(output, a)
    BY <1>3, <1>4, OneBehind
  <2> QED
    BY <1>1, <1>3, <1>4, <2>1 DEF Answered
<1>6. /\ Len(Answered') = Len(Answered) + 1
      /\ \A i \in 1 .. Len(Answered) : Answered'[i] = Answered[i]
      /\ Answered'[Len(Answered) + 1] = a
  BY <1>3, <1>4, <1>5
<1>7. /\ Len(Unhandled) > 0 /\ Unhandled[1] = Head(input)
      /\ Len(Unhandled') = Len(Unhandled) - 1
      /\ \A i \in 1 .. Len(Unhandled) - 1 : Unhandled'[i] = Unhandled[i + 1]
  BY <1>2, <1>4, HeadTailProperties
<1>8. Len(owed) = Len(Answered) + Len(Unhandled) /\ AnswersInOrder /\ RequestsInOrder
  BY DEF ConversationInv
<1>9. Len(owed') = Len(Answered') + Len(Unhandled')
  BY <1>4, <1>6, <1>7, <1>8
<1>10. AnswersInOrder'
  <2> SUFFICES ASSUME NEW i \in 1 .. Len(Answered) + 1
               PROVE  /\ Answered'[i].id = owed[i].id
                      /\ Answered'[i].result = "triggered" => killed' /\ owed[i].kill
    BY <1>6 DEF AnswersInOrder
  <2>1. CASE i \in 1 .. Len(Answered)
    BY <1>6, <1>8, <2>1 DEF AnswersInOrder
  <2>2. CASE i = Len(Answered) + 1
    <3>1. 1 \in 1 .. Len(Unhandled)
      BY <1>4, <1>7
    <3>2. /\ Unhandled[1].id = owed[Len(Answered) + 1].id
          /\ Unhandled[1].kind = "kill" => owed[Len(Answered) + 1].kill
      BY <1>8, <3>1 DEF RequestsInOrder
    <3> QED
      BY <1>3, <1>6, <1>7, <2>2, <3>2
  <2> QED
    BY <1>4, <2>1, <2>2
<1>11. RequestsInOrder'
  <2> SUFFICES ASSUME NEW i \in 1 .. Len(Unhandled) - 1
               PROVE  /\ Unhandled'[i].id = owed[Len(Answered') + i].id
                      /\ Unhandled'[i].kind = "kill" => owed[Len(Answered') + i].kill
    BY <1>7 DEF RequestsInOrder
  <2>1. /\ i + 1 \in 1 .. Len(Unhandled)
        /\ Len(Answered') + i = Len(Answered) + (i + 1)
    BY <1>4, <1>6
  <2> QED
    BY <1>7, <1>8, <2>1 DEF RequestsInOrder
<1>12. KillsAreConfirmed'
  <2>1. killed => confirmed
    BY DEF ConversationInv, KillsAreConfirmed
  <2>2. killed' => confirmed'
    BY <1>2, <2>1 DEF AsksToKill
  <2> QED
    BY <1>2, <2>2 DEF KillsAreConfirmed
<1> QED
  BY <1>1, <1>2, <1>3, <1>9, <1>10, <1>11, <1>12

LEMMA AnswersKeepConversation ==
  ASSUME ConversationInv, RejectLine \/ AnswerAtOnce \/ Refuse \/ Grant
  PROVE  ConversationInv'
<1>1. /\ UNCHANGED <<now, inputOpen, output, outputOpen, server, owed, confirmed>>
      /\ asking' = None
  BY DEF RejectLine, AnswerAtOnce, Refuse, Grant, Handling, clientVars, limiterVars
<1>2. answer = None /\ input # <<>> /\ IsOwed(Head(input))
  BY DEF ConversationInv, AskingInStep, RejectLine, AnswerAtOnce, Refuse, Grant, Handling, current,
     IsOwed
<1>3. PICK result \in {"result", "error", "refused", "triggered"} :
        /\ Respond(result) /\ killed' = (killed \/ result = "triggered")
        /\ result = "triggered" => Head(input).kind = "kill" /\ Head(input).id # None
  <2>1. killed \in BOOLEAN
    BY DEF ConversationInv, TypeOK
  <2>2. CASE RejectLine
    BY <2>1, <2>2 DEF RejectLine
  <2>3. CASE AnswerAtOnce
    BY <2>1, <2>3 DEF AnswerAtOnce
  <2>4. CASE Refuse
    BY <2>1, <2>4 DEF Refuse
  <2>5. CASE Grant
    <3>1. asking # None /\ \E result \in ToolResults :
            Respond(result) /\ killed' = (killed \/ result = "triggered")
      BY <2>5 DEF Grant
    <3>2. Head(input).id # None
      BY <3>1 DEF ConversationInv, AskingInStep
    <3>3. /\ ToolResults \subseteq {"result", "error", "triggered"}
          /\ "triggered" \in ToolResults => Head(input).kind = "kill"
      BY DEF ToolResults, current
    <3> QED
      BY <3>1, <3>2, <3>3
  <2> QED
    BY <2>2, <2>3, <2>4, <2>5
<1>4. /\ answer' \in Answer
      /\ input' \in Seq(Line) /\ Len(input') <= PipeSize
      /\ KillsAreConfirmed'
      /\ Len(owed') = Len(Answered') + Len(Unhandled')
      /\ AnswersInOrder' /\ RequestsInOrder'
  BY <1>1, <1>2, <1>3, RespondKeepsOrder
<1>5. /\ calls' \in Seq(0 .. MaxTime) /\ Len(calls') <= Limit
      /\ granted' \in Seq(0 .. MaxTime)
  <2>1. /\ calls \in Seq(0 .. MaxTime) /\ Len(calls) \in Nat /\ Len(calls) <= Limit
        /\ granted \in Seq(0 .. MaxTime) /\ asking \in 0 .. MaxTime \cup {None}
    BY DEF ConversationInv, TypeOK
  <2>2. CASE Grant
    <3>1. /\ asking \in 0 .. MaxTime /\ Len(calls) < Limit
          /\ calls' = Append(calls, asking) /\ granted' = Append(granted, asking)
      BY <2>1, <2>2 DEF Grant, Full
    <3> QED
      BY <2>1, <3>1, AppendProperties
  <2>3. CASE UNCHANGED <<calls, granted>>
    BY <2>1, <2>3
  <2> QED
    BY <2>2, <2>3 DEF RejectLine, AnswerAtOnce, Refuse, limiterVars
<1>6. TypeOK'
  <2>1. killed' \in BOOLEAN
    BY <1>3
  <2> QED
    BY <1>1, <1>4, <1>5, <2>1 DEF ConversationInv, TypeOK
<1>7. AskingInStep'
  BY <1>1 DEF AskingInStep
<1> QED
  BY <1>4, <1>6, <1>7 DEF ConversationInv

LEMMA WriteKeepsConversation ==
  ASSUME ConversationInv, WriteAnswer
  PROVE  ConversationInv'
<1>1. /\ answer # None /\ Len(output) < PipeSize
      /\ output' = Append(output, answer) /\ answer' = None
      /\ UNCHANGED <<now, input, inputOpen, outputOpen, server, killed, owed, confirmed, asking,
                     calls, granted>>
  BY DEF WriteAnswer, clientVars, limiterVars
<1>2. /\ output \in Seq(Answer) /\ answer \in Answer /\ Len(output) \in Nat
  BY <1>1 DEF ConversationInv, TypeOK
<1>3. output' \in Seq(Answer) /\ Len(output') = Len(output) + 1
  BY <1>1, <1>2
<1>4. Answered = Append(output, answer)
  BY <1>1, AnsweredTypes DEF ConversationInv
<1>5. Answered' = output'
  BY <1>1, <1>3, ConcatEmptySeq DEF Answered
<1>6. Answered' = Answered /\ Unhandled' = Unhandled
  BY <1>1, <1>4, <1>5 DEF Unhandled
<1>7. TypeOK'
  <2>1. Len(output') <= PipeSize
    BY <1>1, <1>2, <1>3
  <2> QED
    BY <1>1, <1>3, <2>1 DEF ConversationInv, TypeOK
<1>8. AskingInStep' /\ KillsAreConfirmed'
  BY <1>1 DEF ConversationInv, AskingInStep, KillsAreConfirmed
<1> QED
  BY <1>1, <1>6, <1>7, <1>8 DEF ConversationInv, AnswersInOrder, RequestsInOrder

LEMMA ConversationNext ==
  ASSUME ConversationInv, [Next]_vars
  PROVE  ConversationInv'
<1>1. CASE UNCHANGED vars
  <2>1. UNCHANGED <<now, input, inputOpen, output, outputOpen, server, answer, asking, calls,
                    killed, granted, owed, confirmed>>
    BY <1>1 DEF vars
  <2>2. TypeOK' /\ AskingInStep'
    BY <2>1 DEF ConversationInv, TypeOK, AskingInStep
  <2> QED
    BY <2>1, <2>2, SilenceKeepsOrder DEF ConversationInv
<1>2. CASE Next
  BY <1>2, SilentSteps, SendKeepsConversation, TakeAnswerKeepsConversation,
     IgnoreKeepsConversation, AnswersKeepConversation, WriteKeepsConversation DEF Next, Serve
<1> QED
  BY <1>1, <1>2

(* The inductive invariant of the conversation: the answers under way and  *)
(* the lines to come, side by side with what the client waits for.         *)
THEOREM ConversationInvariance == Spec => []ConversationInv
<1> QED
  BY ConversationInit, ConversationNext, PTL DEF Spec

(* Every variable keeps its type: the pipes their size, the deque of the   *)
(* limiter its limit.                                                      *)
THEOREM McpTypes == Spec => []TypeOK
<1>1. ConversationInv => TypeOK
  BY DEF ConversationInv
<1> QED
  BY <1>1, ConversationInvariance, PTL

(* No answer of the server is lost, doubled, swapped or sent for a         *)
(* notification, however full the pipes are.                               *)
THEOREM AnswersAlwaysMatch == Spec => []AnswersMatchRequests
<1>1. ConversationInv => AnswersMatchRequests
  <2> SUFFICES ASSUME ConversationInv PROVE Underway = [i \in DOMAIN owed |-> owed[i].id]
    BY DEF AnswersMatchRequests
  <2> DEFINE Id == Ids \cup {None}
             answered == [i \in DOMAIN Answered |-> Answered[i].id]
             unhandled == [i \in DOMAIN Unhandled |-> Unhandled[i].id]
             expected == [i \in DOMAIN owed |-> owed[i].id]
             m == Len(Answered)
             n == Len(Unhandled)
  <2>1. /\ Answered \in Seq(Answer) /\ m \in Nat /\ Unhandled \in Seq(Line) /\ n \in Nat
        /\ owed \in Seq(Expected) /\ Len(owed) = m + n
        /\ DOMAIN Answered = 1 .. m /\ DOMAIN Unhandled = 1 .. n /\ DOMAIN owed = 1 .. m + n
    BY AnsweredTypes, LenProperties DEF ConversationInv, TypeOK
  <2>2. answered \in Seq(Id) /\ Len(answered) = m /\ \A i \in 1 .. m : answered[i] = Answered[i].id
    <3>1. \A i \in 1 .. m : Answered[i] \in Answer
      BY <2>1, ElementOfSeq
    <3>2. \A i \in 1 .. m : Answered[i].id \in Id
      BY <3>1 DEF Answer
    <3> QED
      BY <2>1, <3>2
  <2>3. unhandled \in Seq(Id) /\ Len(unhandled) = n
        /\ \A i \in 1 .. n : unhandled[i] = Unhandled[i].id
    <3>1. \A i \in 1 .. n : Unhandled[i] \in Line
      BY <2>1, ElementOfSeq
    <3>2. \A i \in 1 .. n : Unhandled[i].id \in Id
      BY <3>1 DEF Line
    <3> QED
      BY <2>1, <3>2
  <2>4. expected \in Seq(Id) /\ Len(expected) = m + n
        /\ \A i \in 1 .. m + n : expected[i] = owed[i].id
    <3>1. \A i \in 1 .. m + n : owed[i] \in Expected
      BY <2>1, ElementOfSeq
    <3>2. \A i \in 1 .. m + n : owed[i].id \in Id
      BY <3>1 DEF Expected
    <3> QED
      BY <2>1, <3>2
  <2>5. Underway = answered \o unhandled
    BY DEF Underway
  <2>6. /\ \A i \in 1 .. m : Answered[i].id = owed[i].id
        /\ \A i \in 1 .. n : Unhandled[i].id = owed[m + i].id
    BY DEF ConversationInv, AnswersInOrder, RequestsInOrder
  <2> HIDE DEF answered, unhandled, expected, m, n, Id
  <2>7. /\ answered \o unhandled \in Seq(Id) /\ Len(answered \o unhandled) = m + n
        /\ \A i \in 1 .. m + n :
             (answered \o unhandled)[i] = IF i <= m THEN answered[i] ELSE unhandled[i - m]
    <3>1. /\ answered \o unhandled \in Seq(Id)
          /\ Len(answered \o unhandled) = Len(answered) + Len(unhandled)
          /\ \A i \in 1 .. Len(answered) + Len(unhandled) :
               (answered \o unhandled)[i] =
                 IF i <= Len(answered) THEN answered[i] ELSE unhandled[i - Len(answered)]
      BY <2>2, <2>3, ConcatProperties
    <3> QED
      BY <2>2, <2>3, <3>1
  <2>8. ASSUME NEW i \in 1 .. m + n PROVE (answered \o unhandled)[i] = expected[i]
    <3>1. CASE i <= m
      <4>1. i \in 1 .. m
        BY <2>1, <3>1
      <4> QED
        BY <2>2, <2>4, <2>6, <2>7, <3>1, <4>1
    <3>2. CASE ~(i <= m)
      <4>1. i - m \in 1 .. n /\ m + (i - m) = i
        BY <2>1, <3>2
      <4>2. Unhandled[i - m].id = owed[i].id
        BY <2>6, <4>1
      <4> QED
        BY <2>3, <2>4, <2>7, <3>2, <4>1, <4>2
    <3> QED
      BY <3>1, <3>2
  <2>9. answered \o unhandled = expected
    BY <2>4, <2>7, <2>8, SeqEqual
  <2> QED
    BY <2>5, <2>9 DEF expected
<1> QED
  BY <1>1, ConversationInvariance, PTL

(* Control.TriggerKillSwitch of mcp.rs: the kill switch is on only after a *)
(* request that confirms it, and the client is never told otherwise.       *)
THEOREM KillSwitchAlwaysDeliberate == Spec => []KillSwitchIsDeliberate
<1>1. ConversationInv => KillSwitchIsDeliberate
  <2> SUFFICES ASSUME ConversationInv PROVE KillSwitchIsDeliberate
    OBVIOUS
  <2>1. killed => confirmed
    BY DEF ConversationInv, KillsAreConfirmed
  <2>2. output \in Seq(Answer) /\ answer \in Answer \cup {None} /\ DOMAIN output = 1 .. Len(output)
    BY LenProperties DEF ConversationInv, TypeOK
  <2>3. \A i \in 1 .. Len(output) : i \in 1 .. Len(Answered) /\ Answered[i] = output[i]
    <3>1. Answered = IF answer = None THEN output ELSE Append(output, answer)
      BY AnsweredTypes DEF ConversationInv
    <3>2. CASE answer = None
      BY <3>1, <3>2
    <3>3. CASE answer # None
      <4>1. answer \in Answer /\ Answered = Append(output, answer)
        BY <2>2, <3>1, <3>3
      <4> QED
        BY <2>2, <4>1
    <3> QED
      BY <3>2, <3>3
  <2>4. \A i \in 1 .. Len(Answered) : Answered[i].result = "triggered" => killed /\ owed[i].kill
    BY DEF ConversationInv, AnswersInOrder
  <2> QED
    BY <2>1, <2>2, <2>3, <2>4 DEF KillSwitchIsDeliberate
<1> QED
  BY <1>1, ConversationInvariance, PTL

=============================================================================
