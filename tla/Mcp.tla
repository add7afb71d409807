--------------------------------- MODULE Mcp ---------------------------------
(***************************************************************************)
(* src/mcp.rs: serve_stdio between two pipes, the tool rate limiter, and   *)
(* the one tool that changes the engine (its kill switch).                 *)
(*                                                                         *)
(* The server is one task: it reads a line, handles it, writes the answer  *)
(* and flushes it before it reads the next line.  A line is known by the   *)
(* branch it takes; of the engine (module Engine) the kill switch is kept. *)
(***************************************************************************)
EXTENDS Lists

CONSTANTS
  Ids,        \* ids of requests
  None,       \* no id, no line, no answer
  Limit,      \* tool calls that may run ...
  Window,     \* ... within this time
  PipeSize,   \* lines that fit into a pipe
  MaxTime     \* bound on the clock

ASSUME McpAssumption ==
  /\ None \notin Ids
  /\ Limit \in Nat \ {0}
  /\ Window \in Nat \ {0}
  /\ PipeSize \in Nat \ {0}
  /\ MaxTime \in Nat
  /\ None \notin Nat

VARIABLES
  now,        \* the monotonic clock
  input,      \* lines in the pipe to the server
  inputOpen,  \* whether the client may send more
  output,     \* answers in the pipe to the client
  outputOpen, \* whether the client still reads
  server,     \* "serving", "ended" after an Ok, "failed" after an error
  answer,     \* the answer being written, or None
  asking,     \* the time at which the limiter was asked, or None
  calls,      \* the limiter's deque of call times
  killed,     \* the engine's kill switch
  granted,    \* history: the times of all calls that were let through
  owed,       \* history: the answers the client waits for, in order
  confirmed   \* history: whether the client ever asked for the kill switch

clientVars  == <<inputOpen, outputOpen, owed, confirmed>>
limiterVars == <<asking, calls, granted>>
vars == <<now, input, inputOpen, output, outputOpen, server, answer, asking,
          calls, killed, granted, owed, confirmed>>

-----------------------------------------------------------------------------
(* Lines.  "unreadable" is not UTF-8, "malformed" not JSON, "invalid" lacks *)
(* the version or the method; a value that is not an object is "invalid"    *)
(* without an id.  The tool calls are a read, which may fail, a call with   *)
(* bad parameters, and the kill switch with and without its confirmation.   *)
ToolCall == {"read", "bad_arguments", "kill", "kill_unconfirmed"}
RequestKind == {"invalid", "unknown_method", "plain"} \cup ToolCall
OtherKind == {"blank", "unreadable", "oversize", "malformed"}

Line == [kind : RequestKind, id : Ids \cup {None}] \cup [kind : OtherKind, id : {None}]

Answer == [id : Ids \cup {None}, result : {"result", "error", "refused", "triggered"}]

ASSUME NoneIsNoAnswer == None \notin Answer

(* What the client may expect: nothing for a notification, and a null id   *)
(* where the server cannot know the id.  By the rules of JSON-RPC it would *)
(* also expect an error with a null id for an "invalid" line without an    *)
(* id; the server takes that for a notification and stays silent, and so   *)
(* does this.  An id that is null, which the server answers, is left out.  *)
IsOwed(line) == line.id # None \/ line.kind \in {"oversize", "malformed"}
OwedLines == {line \in Line : IsOwed(line)}
AsksToKill(line) == line.kind = "kill" /\ line.id # None
Expected == [id : Ids \cup {None}, kill : BOOLEAN]

TypeOK ==
  /\ now \in 0 .. MaxTime
  /\ input \in Seq(Line) /\ Len(input) <= PipeSize
  /\ inputOpen \in BOOLEAN
  /\ output \in Seq(Answer) /\ Len(output) <= PipeSize
  /\ outputOpen \in BOOLEAN
  /\ server \in {"serving", "ended", "failed"}
  /\ answer \in Answer \cup {None}
  /\ asking \in 0 .. MaxTime \cup {None}
  /\ calls \in Seq(0 .. MaxTime) /\ Len(calls) <= Limit
  /\ killed \in BOOLEAN
  /\ granted \in Seq(0 .. MaxTime)
  /\ owed \in Seq(Expected)
  /\ confirmed \in BOOLEAN

Init ==
  /\ now = 0
  /\ input = <<>> /\ inputOpen = TRUE
  /\ output = <<>> /\ outputOpen = TRUE
  /\ server = "serving"
  /\ answer = None
  /\ asking = None /\ calls = <<>>
  /\ killed = FALSE
  /\ granted = <<>> /\ owed = <<>> /\ confirmed = FALSE

Tick ==
  /\ server = "serving"
  /\ now < MaxTime
  /\ now' = now + 1
  /\ UNCHANGED <<input, output, server, answer, killed, clientVars, limiterVars>>

-----------------------------------------------------------------------------
(***************************************************************************)
(* The client: it does not reuse the id of an unanswered request.  What it *)
(* does after the server ended changes nothing here.                       *)
(***************************************************************************)
Send(line) ==
  /\ inputOpen /\ server = "serving"
  /\ Len(input) < PipeSize
  /\ line.id # None => \A i \in DOMAIN owed : owed[i].id # line.id
  /\ input' = Append(input, line)
  /\ owed' = IF IsOwed(line)
             THEN Append(owed, [id |-> line.id, kill |-> line.kind = "kill"])
             ELSE owed
  /\ confirmed' = (confirmed \/ AsksToKill(line))
  /\ UNCHANGED <<now, inputOpen, output, outputOpen, server, answer, killed, limiterVars>>

TakeAnswer ==
  /\ outputOpen
  /\ output # <<>>
  /\ output' = Tail(output)
  /\ owed' = Tail(owed)
  /\ UNCHANGED <<now, input, inputOpen, outputOpen, server, answer, killed, confirmed, limiterVars>>

CloseInput ==
  /\ inputOpen /\ server = "serving"
  /\ inputOpen' = FALSE
  /\ UNCHANGED <<now, input, output, outputOpen, server, answer, killed, owed, confirmed, limiterVars>>

HangUp ==
  /\ outputOpen /\ server = "serving"
  /\ outputOpen' = FALSE
  /\ UNCHANGED <<now, input, inputOpen, output, server, answer, killed, owed, confirmed, limiterVars>>

-----------------------------------------------------------------------------
(***************************************************************************)
(* serve_stdio and handle_request.                                         *)
(***************************************************************************)

(* The server has a line to handle. *)
Handling ==
  /\ server = "serving"
  /\ answer = None /\ asking = None
  /\ input # <<>>

current == Head(input)

Respond(result) ==
  /\ answer' = [id |-> current.id, result |-> result]
  /\ input' = Tail(input)

(* Blank lines and notifications: nothing is done, nothing is answered.    *)
Ignore ==
  /\ Handling
  /\ current.kind = "blank" \/ (current.kind \in RequestKind /\ current.id = None)
  /\ input' = Tail(input)
  /\ UNCHANGED <<now, output, server, answer, killed, clientVars, limiterVars>>

(* Mutant: a line that does not parse is dropped. *)
RejectLine_Silently ==
  /\ Handling
  /\ current.kind \in {"oversize", "malformed"}
  /\ input' = Tail(input)
  /\ UNCHANGED <<now, output, server, answer, killed, clientVars, limiterVars>>

RejectLine ==
  /\ Handling
  /\ current.kind \in {"oversize", "malformed"}
  /\ Respond("error")
  /\ UNCHANGED <<now, output, server, killed, clientVars, limiterVars>>

(* next_line fails. *)
ReadFails ==
  /\ Handling
  /\ current.kind = "unreadable"
  /\ server' = "failed"
  /\ UNCHANGED <<now, input, output, answer, killed, clientVars, limiterVars>>

EndOfInput ==
  /\ server = "serving"
  /\ answer = None /\ asking = None
  /\ input = <<>> /\ ~inputOpen
  /\ server' = "ended"
  /\ UNCHANGED <<now, input, output, answer, killed, clientVars, limiterVars>>

(* initialize, ping, tools/list, and what is no valid request for a method. *)
AnswerAtOnce ==
  /\ Handling
  /\ current.id # None
  /\ current.kind \in RequestKind \ ToolCall
  /\ Respond(IF current.kind = "plain" THEN "result" ELSE "error")
  /\ UNCHANGED <<now, output, server, killed, clientVars, limiterVars>>

(* Mutant: a notification's tool call is carried out as well. *)
CallTool_Notified ==
  /\ Handling
  /\ current.kind \in ToolCall
  /\ asking' = now
  /\ UNCHANGED <<now, input, output, server, answer, calls, killed, granted, clientVars>>

(* tools/call asks the limiter before it looks at the parameters.          *)
CallTool ==
  /\ Handling
  /\ current.id # None
  /\ current.kind \in ToolCall
  /\ asking' = now
  /\ UNCHANGED <<now, input, output, server, answer, calls, killed, granted, clientVars>>

-----------------------------------------------------------------------------
(***************************************************************************)
(* ToolRateLimiter::allow.                                                 *)
(***************************************************************************)

(* Mutant: a call exactly one window old still counts. *)
HasExpired_Late(at) == calls # <<>> /\ at - Head(calls) > Window

HasExpired(at) == calls # <<>> /\ at - Head(calls) >= Window

(* Mutant: a fixed window, which starts anew when its first call expires. *)
Expire_All ==
  /\ asking # None
  /\ HasExpired(asking)
  /\ calls' = <<>>
  /\ UNCHANGED <<now, input, output, server, answer, asking, killed, granted, clientVars>>

(* One turn of the loop. *)
Expire ==
  /\ asking # None
  /\ HasExpired(asking)
  /\ calls' = Tail(calls)
  /\ UNCHANGED <<now, input, output, server, answer, asking, killed, granted, clientVars>>

(* Mutant: off by one. *)
Full_Beyond == Len(calls) > Limit

Full == Len(calls) >= Limit

(* Mutant: the refusal is not answered. *)
Refuse_Silently ==
  /\ asking # None /\ ~HasExpired(asking)
  /\ Full
  /\ input' = Tail(input)
  /\ asking' = None
  /\ UNCHANGED <<now, output, server, answer, calls, killed, granted, clientVars>>

Refuse ==
  /\ asking # None /\ ~HasExpired(asking)
  /\ Full
  /\ Respond("refused")
  /\ asking' = None
  /\ UNCHANGED <<now, output, server, calls, killed, granted, clientVars>>

(* call_tool. *)
ToolResults ==
  CASE current.kind = "read" -> {"result", "error"}
    [] current.kind = "kill" -> {"triggered"}
    [] OTHER -> {"error"}

Grant ==
  /\ asking # None /\ ~HasExpired(asking)
  /\ ~Full
  /\ calls' = Append(calls, asking)
  /\ granted' = Append(granted, asking)
  /\ asking' = None
  /\ \E result \in ToolResults :
       /\ Respond(result)
       /\ killed' = (killed \/ result = "triggered")
  /\ UNCHANGED <<now, output, server, clientVars>>

-----------------------------------------------------------------------------
(***************************************************************************)
(* write_message: the answer is written and flushed, or the pipe is broken. *)
(***************************************************************************)

WriteAnswer ==
  /\ server = "serving" /\ answer # None
  /\ outputOpen
  /\ Len(output) < PipeSize
  /\ output' = Append(output, answer)
  /\ answer' = None
  /\ UNCHANGED <<now, input, server, killed, clientVars, limiterVars>>

WriteFails ==
  /\ server = "serving" /\ answer # None
  /\ ~outputOpen
  /\ server' = "failed"
  /\ UNCHANGED <<now, input, output, answer, killed, clientVars, limiterVars>>

(* run_source stops waiting for the server and drops it at an await. *)
Dropped ==
  /\ server = "serving" /\ asking = None
  /\ server' = "ended"
  /\ UNCHANGED <<now, input, output, answer, killed, clientVars, limiterVars>>

-----------------------------------------------------------------------------
Serve ==
  \/ Ignore \/ RejectLine \/ ReadFails \/ EndOfInput \/ AnswerAtOnce \/ CallTool
  \/ Expire \/ Refuse \/ Grant
  \/ WriteAnswer \/ WriteFails

Next ==
  \/ Tick
  \/ \E line \in Line : Send(line)
  \/ TakeAnswer \/ CloseInput \/ HangUp
  \/ Serve \/ Dropped

Spec == Init /\ [][Next]_vars

(* The runtime polls the server, and the client takes its answers.         *)
FairSpec == Spec /\ WF_vars(Serve) /\ WF_vars(TakeAnswer)

-----------------------------------------------------------------------------
(***************************************************************************)
(* Properties.                                                             *)
(***************************************************************************)

(* README: tool calls are rate-limited: of any Limit + 1 calls that were   *)
(* let through, the first and the last are at least a window apart.        *)
RateBounded ==
  \A i \in DOMAIN granted :
    i + Limit \in DOMAIN granted => granted[i + Limit] - granted[i] >= Window

(* A call is refused only when Limit calls were let through within the     *)
(* window before it: neither refused nor expired calls are held against it. *)
RefusedOnlyWhenFull ==
  [][answer = None /\ answer' # None /\ answer'.result = "refused" =>
       /\ Len(granted) >= Limit
       /\ asking - granted[Len(granted) - Limit + 1] < Window]_vars

(* The answers under way, then those to the lines not handled yet, are     *)
(* exactly what the client waits for, in the order of its requests: none   *)
(* is lost, doubled or sent for a notification.                            *)
Answered == output \o (IF answer = None THEN <<>> ELSE <<answer>>)
Unhandled == Selected(input, OwedLines)

Underway ==
  [i \in DOMAIN Answered |-> Answered[i].id] \o [i \in DOMAIN Unhandled |-> Unhandled[i].id]

AnswersMatchRequests ==
  server = "serving" => Underway = [i \in DOMAIN owed |-> owed[i].id]

(* The kill switch is on only if the client asked for it with a request    *)
(* that confirms it, and an answer that says it was triggered is true.     *)
KillSwitchIsDeliberate ==
  /\ killed => confirmed
  /\ \A i \in DOMAIN output :
       output[i].result = "triggered" => killed /\ owed[i].kill

(* A client that takes its answers gets one to each request, refused ones  *)
(* included, unless the server ended.                                      *)
EveryRequestIsAnswered ==
  \A id \in Ids :
    (\E i \in DOMAIN owed : owed[i].id = id)
      ~> \/ server # "serving" \/ ~outputOpen
         \/ \A i \in DOMAIN owed : owed[i].id # id

=============================================================================
