---------------------------- MODULE CaptureProofs -----------------------------
(***************************************************************************)
(* The safety properties of Capture, for any channel capacity and number   *)
(* of connections and frames.  First, which book each event will find:     *)
(* events of several connections may wait in the channel together, and     *)
(* still no delta meets a book of another one.  Then, that nothing is      *)
(* skipped on the way from the journal to the engine: Capture implements   *)
(* WriteAhead, and a run that returns normally has left nothing behind.    *)
(***************************************************************************)
EXTENDS Capture, ListLemmas

(* What the source does needs a connection, a frame, room in the journal.  *)
SourceInStep ==
  /\ source \in {"greeting", "streaming", "appending", "publishing", "mocking"} => session > 0
  /\ source \in {"appending", "publishing"} => frame \in Frame
  /\ source = "appending" => Len(journal) < MaxFrames
  /\ source = "mocking" => IsMock

(* Only statuses of the source itself may be older than any connection.    *)
EventsHaveSessions ==
  \A i \in 1 .. Len(channel) : channel[i].kind \in FrameKind => channel[i].session > 0

Resetting == {"connecting", "disconnected", "error"}

(* The book there is from event k of channel c on, if event k makes one;   *)
(* the engine has book b before the first event.                           *)
Book(b, c, k) ==
  IF k = 0 THEN b ELSE IF c[k].kind = "snapshot" THEN c[k].session ELSE None

ResetIn(c, k, i) == \E j \in k + 1 .. i - 1 : c[j].kind \in Resetting

(* Event i of the channel finds the book of connection s, or none.         *)
MeetsOnly(b, c, s, i) ==
  \A k \in 0 .. i - 1 : Book(b, c, k) \in {None, s} \/ ResetIn(c, k, i)

DeltasMeetTheirBook(b, c) ==
  \A i \in 1 .. Len(c) : c[i].kind = "delta" => MeetsOnly(b, c, c[i].session, i)

(* The next event will find the current connection's book or none; while   *)
(* there is no connection, none.                                           *)
ChannelInStep ==
  /\ consumer = "dead" => channel = <<>>
  /\ consumer # "dead" =>
       /\ DeltasMeetTheirBook(basis, channel)
       /\ MeetsOnly(basis, channel, session, Len(channel) + 1)
       /\ source \in {"connecting", "waiting"} =>
            MeetsOnly(basis, channel, None, Len(channel) + 1)

CaptureInv ==
  /\ TypeOK
  /\ SourceInStep
  /\ EventsHaveSessions
  /\ ChannelInStep

-----------------------------------------------------------------------------
(***************************************************************************)
(* The channel.                                                            *)
(***************************************************************************)

(* An event behind the others changes nothing for them,                    *)
LEMMA BehindOthers ==
  ASSUME NEW b, NEW s, NEW c \in Seq(Event), NEW e \in Event, NEW i \in 1 .. Len(c) + 1,
         MeetsOnly(b, c, s, i)
  PROVE  MeetsOnly(b, Append(c, e), s, i)
<1> DEFINE d == Append(c, e)
<1>1. \A k \in 1 .. Len(c) : d[k] = c[k]
  OBVIOUS
<1>2. \A k \in 0 .. i - 1 : Book(b, d, k) = Book(b, c, k) /\ (ResetIn(c, k, i) => ResetIn(d, k, i))
  BY <1>1 DEF Book, ResetIn
<1> HIDE DEF d
<1>3. MeetsOnly(b, d, s, i)
  BY <1>2 DEF MeetsOnly
<1> QED
  BY <1>3 DEF d

(* and what comes behind it finds no other book, unless it is a snapshot's.*)
LEMMA BehindEvent ==
  ASSUME NEW b, NEW s, NEW c \in Seq(Event), NEW e \in Event,
         MeetsOnly(b, c, s, Len(c) + 1), e.kind = "snapshot" => e.session = s
  PROVE  MeetsOnly(b, Append(c, e), s, Len(c) + 2)
<1> DEFINE d == Append(c, e)
<1>1. d[Len(c) + 1] = e /\ Len(c) \in Nat
  OBVIOUS
<1>2. MeetsOnly(b, d, s, Len(c) + 1)
  BY BehindOthers
<1> HIDE DEF d
<1>3. ASSUME NEW k \in 0 .. Len(c) PROVE Book(b, d, k) \in {None, s} \/ ResetIn(d, k, Len(c) + 2)
  BY <1>1, <1>2 DEF MeetsOnly, ResetIn
<1>4. Book(b, d, Len(c) + 1) \in {None, s}
  BY <1>1 DEF Book
<1>5. MeetsOnly(b, d, s, Len(c) + 2)
  BY <1>1, <1>3, <1>4 DEF MeetsOnly
<1> QED
  BY <1>5 DEF d

LEMMA BehindReset ==
  ASSUME NEW b, NEW s, NEW c \in Seq(Event), NEW e \in Event, e.kind \in Resetting
  PROVE  MeetsOnly(b, Append(c, e), s, Len(c) + 2)
<1> DEFINE d == Append(c, e)
<1>1. d[Len(c) + 1] = e /\ Len(c) \in Nat
  OBVIOUS
<1> HIDE DEF d
<1>2. ASSUME NEW k \in 0 .. Len(c) PROVE ResetIn(d, k, Len(c) + 2)
  BY <1>1 DEF ResetIn
<1>3. Book(b, d, Len(c) + 1) = None
  BY <1>1 DEF Book, Resetting
<1>4. MeetsOnly(b, d, s, Len(c) + 2)
  BY <1>1, <1>2, <1>3 DEF MeetsOnly
<1> QED
  BY <1>4 DEF d

(* Where all books are of no connection, they are of any.                  *)
LEMMA NoBookIsAnyBook ==
  ASSUME NEW b, NEW c, NEW s, NEW i, MeetsOnly(b, c, None, i) PROVE MeetsOnly(b, c, s, i)
BY DEF MeetsOnly

(* Handling the first event brings the others one place forward.           *)
LEMMA OnePlaceForward ==
  ASSUME NEW b, NEW s, NEW c \in Seq(Event), c # <<>>, NEW i \in 1 .. Len(c),
         MeetsOnly(b, c, s, i + 1)
  PROVE  MeetsOnly(BasisAfter(b, Head(c)), Tail(c), s, i)
<1> DEFINE d == Tail(c)
           a == BasisAfter(b, Head(c))
<1>1. Len(c) \in Nat /\ \A k \in 1 .. Len(c) - 1 : d[k] = c[k + 1]
  OBVIOUS
<1>2. Head(c) = c[1]
  OBVIOUS
<1>3. a = IF c[1].kind = "snapshot" THEN c[1].session
          ELSE IF c[1].kind \in Resetting THEN None ELSE b
  BY <1>2 DEF BasisAfter, Resetting
<1> HIDE DEF d, a
<1>4. \A k \in 1 .. i - 1 : Book(a, d, k) = Book(b, c, k + 1)
  BY <1>1 DEF Book
<1>5. ASSUME NEW k \in 0 .. i - 1, ResetIn(c, k + 1, i + 1) PROVE ResetIn(d, k, i)
  <2>1. PICK j \in k + 2 .. i : c[j].kind \in Resetting
    BY <1>5 DEF ResetIn
  <2>2. j - 1 \in k + 1 .. i - 1 /\ j - 1 \in 1 .. Len(c) - 1 /\ (j - 1) + 1 = j
    BY <1>1, <2>1
  <2>3. d[j - 1] = c[j]
    BY <1>1, <2>2
  <2> QED
    BY <2>1, <2>2, <2>3 DEF ResetIn
<1>6. ASSUME NEW k \in 1 .. i - 1 PROVE Book(a, d, k) \in {None, s} \/ ResetIn(d, k, i)
  <2>1. Book(b, c, k + 1) \in {None, s} \/ ResetIn(c, k + 1, i + 1)
    BY <1>1 DEF MeetsOnly
  <2> QED
    BY <1>4, <1>5, <2>1
<1>7. a \in {None, s} \/ ResetIn(d, 0, i)
  <2>1. CASE c[1].kind = "snapshot"
    <3>1. Book(b, c, 1) \in {None, s} \/ ResetIn(c, 1, i + 1)
      BY <1>1 DEF MeetsOnly
    <3>2. Book(b, c, 1) = a
      BY <1>3, <2>1 DEF Book
    <3>3. 0 \in 0 .. i - 1 /\ 0 + 1 = 1
      BY <1>1
    <3> QED
      BY <1>5, <3>1, <3>2, <3>3
  <2>2. CASE c[1].kind \in Resetting
    BY <1>3, <2>2 DEF Resetting
  <2>3. CASE c[1].kind # "snapshot" /\ c[1].kind \notin Resetting
    <3>1. b \in {None, s} \/ ResetIn(c, 0, i + 1)
      BY <1>1 DEF MeetsOnly, Book
    <3>2. ResetIn(c, 0, i + 1) => ResetIn(c, 1, i + 1)
      BY <1>1, <2>3 DEF ResetIn
    <3>3. 0 \in 0 .. i - 1 /\ 0 + 1 = 1
      BY <1>1
    <3> QED
      BY <1>3, <1>5, <2>3, <3>1, <3>2, <3>3
  <2> QED
    BY <2>1, <2>2, <2>3
<1>8. MeetsOnly(a, d, s, i)
  <2>1. Book(a, d, 0) = a
    BY DEF Book
  <2> QED
    BY <1>1, <1>6, <1>7, <2>1 DEF MeetsOnly
<1> QED
  BY <1>8 DEF a, d

-----------------------------------------------------------------------------
(***************************************************************************)
(* The steps.                                                              *)
(***************************************************************************)
LEMMA CaptureInvInit == Init => CaptureInv
<1> SUFFICES ASSUME Init PROVE CaptureInv
  OBVIOUS
<1> USE DEF Init
<1>1. IsMock => MaxSessions > 0 /\ MaxFrames > 0
  BY CaptureAssumption DEF IsMock, CaptureAssumption
<1>2. session \in 0 .. MaxSessions /\ MaxSessions \in Nat /\ MaxFrames \in Nat /\ Capacity \in Nat
  BY <1>1, CaptureAssumption DEF CaptureAssumption
<1>3. journal \in Seq(Frame) /\ Len(journal) = 0 /\ durable \in 0 .. Len(journal)
      /\ channel \in Seq(Event) /\ Len(channel) = 0 /\ applied \in Seq(Frame)
  OBVIOUS
<1>4. source \in {"mocking", "checking"} /\ (source = "mocking" => IsMock /\ session > 0)
  OBVIOUS
<1>5. frame = None /\ basis = None /\ consumer = "running" /\ supervisor = "waiting"
      /\ writer = "running" /\ cancel = FALSE
  OBVIOUS
<1>6. config \in [mode : Modes, valid : BOOLEAN]
  OBVIOUS
<1> USE DEF IsMock
<1>7. TypeOK
  <2>1. Len(journal) <= MaxFrames /\ Len(channel) <= Capacity
    BY <1>2, <1>3
  <2>2. frame \in Frame \cup {None} /\ basis \in 1 .. MaxSessions \cup {None}
        /\ cancel \in BOOLEAN
    BY <1>5
  <2>3. consumer \in {"running", "done", "dead"} /\ writer \in {"running", "stopped", "dead"}
        /\ supervisor \in {"waiting", "joining", "flushing", "closing", "draining",
                           "returned", "failed", "aborted"}
    BY <1>5
  <2> HIDE DEF Init, IsMock
  <2> QED
    BY <1>2, <1>3, <1>4, <1>6, <2>1, <2>2, <2>3 DEF TypeOK
<1>8. SourceInStep /\ EventsHaveSessions
  BY <1>3, <1>4 DEF SourceInStep, EventsHaveSessions
<1>9. ChannelInStep
  BY <1>3, <1>4, <1>5 DEF ChannelInStep, DeltasMeetTheirBook, MeetsOnly, Book
<1> QED
  BY <1>7, <1>8, <1>9 DEF CaptureInv

(* Steps that leave the channel, the book and the connection alone.        *)
LEMMA QuietStep ==
  ASSUME ChannelInStep, UNCHANGED <<channel, basis, session>>,
         consumer = "dead" <=> consumer' = "dead",
         source' \in {"connecting", "waiting"} => source' = source
  PROVE  ChannelInStep'
BY DEF ChannelInStep

(* A step that sends an event of the current connection.                   *)
LEMMA SendStep ==
  ASSUME CaptureInv, NEW kind, NEW next, Send(kind, next),
         [session |-> session, kind |-> kind] \in Event,
         kind \in FrameKind => session > 0,
         next \in {"connecting", "waiting"} => kind \in Resetting,
         UNCHANGED <<basis, session, consumer>>
  PROVE  /\ channel' \in Seq(Event) /\ Len(channel') <= Capacity
         /\ EventsHaveSessions' /\ ChannelInStep'
<1> DEFINE e == [session |-> session, kind |-> kind]
<1>1. /\ channel \in Seq(Event) /\ channel' = Append(channel, e) /\ e \in Event
      /\ Len(channel) < Capacity /\ Capacity \in Nat /\ consumer # "dead"
      /\ e.session = session /\ e.kind = kind /\ source' = next
  BY CaptureAssumption DEF CaptureInv, TypeOK, Send, CaptureAssumption
<1> HIDE DEF e
<1>2. /\ channel' \in Seq(Event) /\ Len(channel') = Len(channel) + 1 /\ Len(channel) \in Nat
      /\ \A k \in 1 .. Len(channel) : channel'[k] = channel[k]
      /\ channel'[Len(channel) + 1] = e
  BY <1>1
<1>3. EventsHaveSessions'
  BY <1>1, <1>2 DEF CaptureInv, EventsHaveSessions
<1>4. /\ DeltasMeetTheirBook(basis, channel)
      /\ MeetsOnly(basis, channel, session, Len(channel) + 1)
  BY <1>1 DEF CaptureInv, ChannelInStep
<1>5. DeltasMeetTheirBook(basis, channel')
  <2>1. ASSUME NEW k \in 1 .. Len(channel), channel'[k].kind = "delta"
        PROVE  MeetsOnly(basis, channel', channel'[k].session, k)
    <3>1. MeetsOnly(basis, channel, channel[k].session, k)
      BY <1>2, <1>4, <2>1 DEF DeltasMeetTheirBook
    <3> QED
      BY <1>1, <1>2, <3>1, BehindOthers
  <2>2. MeetsOnly(basis, channel', session, Len(channel) + 1)
    BY <1>1, <1>2, <1>4, BehindOthers
  <2> QED
    BY <1>1, <1>2, <2>1, <2>2 DEF DeltasMeetTheirBook
<1>6. MeetsOnly(basis, channel', session, Len(channel) + 2)
  BY <1>1, <1>4, BehindEvent
<1>7. next \in {"connecting", "waiting"} => MeetsOnly(basis, channel', None, Len(channel) + 2)
  BY <1>1, BehindReset
<1>8. Len(channel') + 1 = Len(channel) + 2
  BY <1>2
<1>9. ChannelInStep'
  BY <1>1, <1>5, <1>6, <1>7, <1>8 DEF ChannelInStep
<1> QED
  BY <1>1, <1>2, <1>3, <1>9

LEMMA OwnStatusIsEvent ==
  ASSUME NEW s \in 0 .. MaxSessions, NEW kind \in OwnStatus
  PROVE  [session |-> s, kind |-> kind] \in Event /\ kind \notin FrameKind
BY DEF Event, OwnStatus, FrameKind

LEMMA FrameIsEvent ==
  ASSUME NEW s \in 0 .. MaxSessions, NEW f \in Frame, Decodes(f)
  PROVE  [session |-> s, kind |-> f.kind] \in Event
BY DEF Event, Frame, Decodes

AfterSessionPlaces == {"failed", "ended", "reporting"}

LEMMA AfterSessionTypes == AfterSession \in AfterSessionPlaces
BY DEF AfterSession, AfterSessionPlaces


(* What a quiet step has to keep besides.                                  *)
LEMMA QuietStepKeepsInv ==
  ASSUME CaptureInv, UNCHANGED <<channel, basis, session>>, TypeOK', SourceInStep',
         consumer = "dead" <=> consumer' = "dead",
         source' \in {"connecting", "waiting"} => source' = source
  PROVE  CaptureInv'
<1>1. ChannelInStep'
  BY QuietStep DEF CaptureInv
<1>2. EventsHaveSessions'
  BY DEF CaptureInv, EventsHaveSessions
<1> QED
  BY <1>1, <1>2 DEF CaptureInv

LEMMA SourceStepsAlone ==
  ASSUME CaptureInv,
         CheckCancel \/ LoseConnection \/ BackOff \/ SeeCancel \/ MockLoopEnds \/ MockFlushFails
  PROVE  CaptureInv'
<1>1. /\ UNCHANGED <<config, session, frame, cancel, writer, journal, durable, channel, consumer,
                     applied, basis, supervisor>>
      /\ source' \in {"checking", "opening", "checkpointing"} \cup AfterSessionPlaces
  BY AfterSessionTypes DEF CheckCancel, LoseConnection, BackOff, SeeCancel, MockLoopEnds,
     MockFlushFails, journalVars, engineVars, AfterSessionPlaces
<1>2. TypeOK'
  BY <1>1 DEF CaptureInv, TypeOK, AfterSessionPlaces
<1>3. SourceInStep'
  BY <1>1 DEF SourceInStep, AfterSessionPlaces
<1> QED
  BY <1>1, <1>2, <1>3, QuietStepKeepsInv DEF AfterSessionPlaces

LEMMA FrameSteps ==
  ASSUME CaptureInv, ReceiveFrame \/ MockFrame
  PROVE  CaptureInv'
<1>1. /\ UNCHANGED <<config, session, cancel, writer, journal, durable, channel, consumer,
                     applied, basis, supervisor>>
      /\ source' = "appending" /\ source \in {"streaming", "mocking"}
  BY DEF ReceiveFrame, MockFrame, journalVars, engineVars
<1>2. session \in 1 .. MaxSessions /\ Len(journal) \in Nat /\ MaxFrames \in Nat
  BY <1>1, CaptureAssumption DEF CaptureInv, TypeOK, SourceInStep, CaptureAssumption
<1>3. frame' \in Frame
  BY <1>2 DEF ReceiveFrame, MockFrame, Frame, FrameKind
<1>4. Len(journal) < MaxFrames
  <2>1. CASE ReceiveFrame
    BY <2>1 DEF ReceiveFrame
  <2>2. CASE MockFrame
    <3>1. IsMock /\ (Len(journal) = 0 \/ Len(journal) <= MockEvents)
      BY <2>2 DEF MockFrame, MockHasMore, CaptureInv, SourceInStep
    <3>2. MockEvents \in Nat /\ MockEvents < MaxFrames
      BY <3>1, CaptureAssumption DEF CaptureInv, TypeOK, IsMock, CaptureAssumption
    <3> QED
      BY <1>2, <3>1, <3>2
  <2> QED
    BY <2>1, <2>2
<1>5. TypeOK'
  BY <1>1, <1>3 DEF CaptureInv, TypeOK
<1>6. SourceInStep'
  BY <1>1, <1>2, <1>3, <1>4 DEF SourceInStep
<1> QED
  BY <1>1, <1>5, <1>6, QuietStepKeepsInv

LEMMA AppendFailsKeepsInv == ASSUME CaptureInv, AppendFails PROVE CaptureInv'
<1>1. /\ UNCHANGED <<config, session, cancel, writer, journal, durable, channel, consumer,
                     applied, basis, supervisor>>
      /\ source' \in AfterSessionPlaces /\ frame' = None
  BY AfterSessionTypes DEF AppendFails, journalVars, engineVars
<1>2. TypeOK'
  BY <1>1 DEF CaptureInv, TypeOK, AfterSessionPlaces
<1>3. SourceInStep'
  BY <1>1 DEF SourceInStep, AfterSessionPlaces
<1> QED
  BY <1>1, <1>2, <1>3, QuietStepKeepsInv DEF AfterSessionPlaces

LEMMA WriterSteps ==
  ASSUME CaptureInv, WriterStep \/ WriterFails
  PROVE  CaptureInv'
<1>1. /\ UNCHANGED <<config, session, frame, cancel, channel, consumer, applied, basis>>
      /\ writer' \in {"running", "stopped", "dead"}
      /\ supervisor' \in {supervisor, "closing", "draining"}
  BY DEF CaptureInv, TypeOK, WriterStep, WriteRecord, Flush, MockFlush, Close, WriterFails,
     engineVars
<1>2. /\ journal' \in Seq(Frame) /\ Len(journal') <= MaxFrames /\ durable' \in 0 .. Len(journal')
      /\ \/ source' \in {"publishing", "ended"} /\ (source' = "publishing" => source = "appending")
         \/ source' = source /\ journal' = journal
  <2>1. journal \in Seq(Frame) /\ Len(journal) <= MaxFrames /\ durable \in 0 .. Len(journal)
        /\ Len(journal) \in Nat /\ MaxFrames \in Nat
    BY CaptureAssumption DEF CaptureInv, TypeOK, CaptureAssumption
  <2>2. CASE WriteRecord
    <3>1. frame \in Frame /\ Len(journal) < MaxFrames
      BY <2>2 DEF CaptureInv, SourceInStep, WriteRecord
    <3>2. journal' = Append(journal, frame) /\ durable' = durable /\ source' = "publishing"
          /\ source = "appending"
      BY <2>2 DEF WriteRecord
    <3>3. journal' \in Seq(Frame) /\ Len(journal') = Len(journal) + 1
      BY <2>1, <3>1, <3>2
    <3> QED
      BY <2>1, <3>1, <3>2, <3>3
  <2>3. CASE Flush \/ Close \/ WriterFails
    BY <2>1, <2>3 DEF Flush, Close, WriterFails
  <2>4. CASE MockFlush
    BY <2>1, <2>4 DEF MockFlush
  <2> QED
    BY <2>2, <2>3, <2>4 DEF WriterStep
<1>3. TypeOK'
  BY <1>1, <1>2 DEF CaptureInv, TypeOK
<1>4. SourceInStep'
  BY <1>1, <1>2 DEF CaptureInv, SourceInStep, IsMock
<1> QED
  BY <1>1, <1>2, <1>3, <1>4, QuietStepKeepsInv

LEMMA SupervisorSteps ==
  ASSUME CaptureInv, SupervisorStep \/ Interrupt \/ ServeEnds \/ SelectFails \/ ConsumerEnds
  PROVE  CaptureInv'
<1>1. /\ UNCHANGED <<config, source, session, frame, writer, journal, durable, channel, applied,
                     basis>>
      /\ consumer' = consumer \/ (consumer = "running" /\ consumer' = "done")
      /\ cancel' = cancel \/ cancel' = TRUE
      /\ supervisor' \in {supervisor, "joining", "flushing", "returned", "failed", "aborted"}
  BY DEF SupervisorStep, SourceEnded, TimeIsUp, JoinSource, FlushFails, Drain, Interrupt, ServeEnds,
     SelectFails, ConsumerEnds, Stop, journalVars, engineVars
<1>2. TypeOK'
  <2>1. cancel' \in BOOLEAN
    BY <1>1 DEF CaptureInv, TypeOK
  <2>2. consumer' \in {"running", "done", "dead"}
        /\ supervisor' \in {"waiting", "joining", "flushing", "closing", "draining",
                            "returned", "failed", "aborted"}
    BY <1>1 DEF CaptureInv, TypeOK
  <2> QED
    BY <1>1, <2>1, <2>2 DEF CaptureInv, TypeOK
<1>3. SourceInStep'
  BY <1>1 DEF CaptureInv, SourceInStep, IsMock
<1> QED
  BY <1>1, <1>2, <1>3, QuietStepKeepsInv

LEMMA ConnectKeepsInv == ASSUME CaptureInv, Connect PROVE CaptureInv'
<1>1. CASE source' = AfterSession /\ UNCHANGED session
  <2>1. /\ UNCHANGED <<config, session, frame, cancel, writer, journal, durable, channel, consumer,
                       applied, basis, supervisor>>
        /\ source' \in AfterSessionPlaces
    BY <1>1, AfterSessionTypes DEF Connect, journalVars, engineVars
  <2>2. TypeOK'
    BY <2>1 DEF CaptureInv, TypeOK, AfterSessionPlaces
  <2>3. SourceInStep'
    BY <2>1 DEF SourceInStep, AfterSessionPlaces
  <2> QED
    BY <2>1, <2>2, <2>3, QuietStepKeepsInv DEF AfterSessionPlaces
<1>2. CASE session < MaxSessions /\ session' = session + 1 /\ source' = "greeting"
  <2>1. /\ UNCHANGED <<config, frame, cancel, writer, journal, durable, channel, consumer,
                       applied, basis, supervisor>>
        /\ source = "connecting"
    BY <1>2 DEF Connect, journalVars, engineVars
  <2>2. session' \in 0 .. MaxSessions /\ session' > 0
    BY <1>2, CaptureAssumption DEF CaptureInv, TypeOK, CaptureAssumption
  <2>3. TypeOK'
    BY <1>2, <2>1, <2>2 DEF CaptureInv, TypeOK
  <2>4. SourceInStep' /\ EventsHaveSessions'
    BY <1>2, <2>1, <2>2 DEF CaptureInv, SourceInStep, EventsHaveSessions
  <2>5. ChannelInStep'
    BY <1>2, <2>1, NoBookIsAnyBook DEF CaptureInv, ChannelInStep
  <2> QED
    BY <2>3, <2>4, <2>5 DEF CaptureInv
<1> QED
  BY <1>1, <1>2 DEF Connect

(* The steps in which the source sends a status of its own.                *)
LEMMA ReportSteps ==
  ASSUME CaptureInv, ReportConnecting \/ ReportConnected \/ ReportDisconnected
  PROVE  CaptureInv'
<1>1. UNCHANGED <<config, session, frame, cancel, writer, journal, durable, consumer,
                  applied, basis, supervisor>>
  BY DEF ReportConnecting, ReportConnected, ReportDisconnected, journalVars, engineVars
<1>2. session \in 0 .. MaxSessions
  BY DEF CaptureInv, TypeOK
<1>3. CASE consumer = "dead" /\ UNCHANGED channel /\ source' \in AfterSessionPlaces
  <2>1. TypeOK'
    BY <1>1, <1>3 DEF CaptureInv, TypeOK, AfterSessionPlaces
  <2>2. SourceInStep'
    BY <1>3 DEF SourceInStep, AfterSessionPlaces
  <2> QED
    BY <1>1, <1>3, <2>1, <2>2, QuietStepKeepsInv DEF AfterSessionPlaces
<1>4. ASSUME NEW kind \in OwnStatus, NEW next \in {"connecting", "streaming", "waiting"},
             Send(kind, next), next # "streaming" => kind \in Resetting,
             next = "streaming" => source = "greeting"
      PROVE  CaptureInv'
  <2>1. [session |-> session, kind |-> kind] \in Event /\ kind \notin FrameKind
    BY <1>2, OwnStatusIsEvent
  <2>2. /\ channel' \in Seq(Event) /\ Len(channel') <= Capacity
        /\ EventsHaveSessions' /\ ChannelInStep'
    BY <1>1, <1>4, <2>1, SendStep
  <2>3. source' = next
    BY <1>4 DEF Send
  <2>4. TypeOK'
    BY <1>1, <2>2, <2>3 DEF CaptureInv, TypeOK
  <2>5. SourceInStep'
    BY <1>1, <1>4, <2>3 DEF CaptureInv, SourceInStep
  <2> QED
    BY <2>2, <2>4, <2>5 DEF CaptureInv
<1>5. CASE ReportConnecting
  BY <1>3, <1>4, <1>5, AfterSessionTypes DEF ReportConnecting, SendFails, OwnStatus, Resetting
<1>6. CASE ReportConnected
  BY <1>3, <1>4, <1>6, AfterSessionTypes DEF ReportConnected, SendFails, OwnStatus, Resetting
<1>7. CASE ReportDisconnected
  BY <1>3, <1>4, <1>7 DEF ReportDisconnected, SendFails, OwnStatus, Resetting, AfterSessionPlaces
<1> QED
  BY <1>5, <1>6, <1>7

LEMMA PublishKeepsInv == ASSUME CaptureInv, Publish PROVE CaptureInv'
<1>1. /\ UNCHANGED <<config, session, cancel, writer, journal, durable, consumer,
                     applied, basis, supervisor>>
      /\ source = "publishing" /\ frame' = None
  BY DEF Publish, journalVars, engineVars
<1>2. session \in 0 .. MaxSessions /\ session > 0 /\ frame \in Frame
  BY <1>1 DEF CaptureInv, TypeOK, SourceInStep
<1>3. AfterFrame \in {"mocking", "streaming"} /\ (AfterFrame = "mocking" => IsMock)
  BY DEF AfterFrame
<1>4. source' \in AfterSessionPlaces \cup {AfterFrame}
  BY AfterSessionTypes DEF Publish, Send, SendFails
<1>5. SourceInStep'
  BY <1>1, <1>2, <1>3, <1>4 DEF SourceInStep, IsMock, AfterSessionPlaces
<1>6. CASE UNCHANGED channel
  <2>1. TypeOK'
    BY <1>1, <1>3, <1>4, <1>6 DEF CaptureInv, TypeOK, AfterSessionPlaces
  <2> QED
    BY <1>1, <1>3, <1>4, <1>5, <1>6, <2>1, QuietStepKeepsInv DEF AfterSessionPlaces
<1>7. ASSUME Decodes(frame), NEW next, Send(frame.kind, next) PROVE CaptureInv'
  <2>1. [session |-> session, kind |-> frame.kind] \in Event
    BY <1>2, <1>7, FrameIsEvent
  <2>2. source' = next /\ next \notin {"connecting", "waiting"}
    BY <1>3, <1>4, <1>7 DEF Send, AfterSessionPlaces
  <2>3. /\ channel' \in Seq(Event) /\ Len(channel') <= Capacity
        /\ EventsHaveSessions' /\ ChannelInStep'
    BY <1>1, <1>2, <1>7, <2>1, <2>2, SendStep
  <2>4. TypeOK'
    BY <1>1, <1>3, <1>4, <2>3 DEF CaptureInv, TypeOK, AfterSessionPlaces
  <2> QED
    BY <1>5, <2>3, <2>4 DEF CaptureInv
<1> QED
  BY <1>6, <1>7 DEF Publish, SendFails

(* The event task takes the first event, and the book is what it leaves.   *)
LEMMA HandleEventKeepsInv == ASSUME CaptureInv, HandleEvent PROVE CaptureInv'
<1> DEFINE event == Head(channel)
<1>1. /\ UNCHANGED <<config, source, session, frame, cancel, writer, journal, durable, consumer,
                     supervisor>>
      /\ consumer = "running" /\ channel # <<>> /\ channel' = Tail(channel)
      /\ basis' = BasisAfter(basis, event)
      /\ applied' = IF event.kind \in FrameKind THEN Append(applied, event) ELSE applied
  BY DEF HandleEvent, journalVars
<1>2. /\ channel \in Seq(Event) /\ Len(channel) <= Capacity /\ Capacity \in Nat
      /\ applied \in Seq(Frame) /\ basis \in 1 .. MaxSessions \cup {None}
  BY CaptureAssumption DEF CaptureInv, TypeOK, CaptureAssumption
<1>3. /\ event = channel[1] /\ event \in Event /\ Len(channel) \in Nat \ {0}
      /\ channel' \in Seq(Event) /\ Len(channel') = Len(channel) - 1
      /\ \A k \in 1 .. Len(channel') : channel'[k] = channel[k + 1]
  BY <1>1, <1>2
<1>4. event.kind \in FrameKind => event \in Frame
  <2>1. event.kind \in FrameKind => event.session > 0
    BY <1>3 DEF CaptureInv, EventsHaveSessions
  <2> QED
    BY <1>3, <2>1 DEF Event, Frame
<1> HIDE DEF event
<1>5. TypeOK'
  <2>1. applied' \in Seq(Frame)
    BY <1>1, <1>2, <1>4
  <2>2. basis' \in 1 .. MaxSessions \cup {None}
    BY <1>1, <1>2, <1>4 DEF BasisAfter, Frame, FrameKind
  <2>3. Len(channel') <= Capacity
    BY <1>2, <1>3
  <2> QED
    BY <1>1, <1>3, <2>1, <2>2, <2>3 DEF CaptureInv, TypeOK
<1>6. SourceInStep'
  BY <1>1 DEF CaptureInv, SourceInStep, IsMock
<1>7. EventsHaveSessions'
  BY <1>3 DEF CaptureInv, EventsHaveSessions
<1>8. ChannelInStep'
  <2>1. /\ DeltasMeetTheirBook(basis, channel)
        /\ MeetsOnly(basis, channel, session, Len(channel) + 1)
        /\ source \in {"connecting", "waiting"} =>
             MeetsOnly(basis, channel, None, Len(channel) + 1)
    BY <1>1 DEF CaptureInv, ChannelInStep
  <2>2. ASSUME NEW s, NEW k \in 1 .. Len(channel), MeetsOnly(basis, channel, s, k + 1)
        PROVE  MeetsOnly(basis', channel', s, k)
    BY <1>1, <1>2, <2>2, OnePlaceForward DEF event
  <2>3. DeltasMeetTheirBook(basis', channel')
    <3>1. ASSUME NEW k \in 1 .. Len(channel'), channel'[k].kind = "delta"
          PROVE  MeetsOnly(basis', channel', channel'[k].session, k)
      <4>1. k \in 1 .. Len(channel) /\ k + 1 \in 1 .. Len(channel) /\ channel'[k] = channel[k + 1]
        BY <1>3
      <4>2. MeetsOnly(basis, channel, channel'[k].session, k + 1)
        BY <2>1, <3>1, <4>1 DEF DeltasMeetTheirBook
      <4> QED
        BY <2>2, <4>1, <4>2
    <3> QED
      BY <3>1 DEF DeltasMeetTheirBook
  <2>4. Len(channel) \in 1 .. Len(channel) /\ Len(channel') + 1 = Len(channel)
    BY <1>3
  <2>5. /\ MeetsOnly(basis', channel', session, Len(channel') + 1)
        /\ source \in {"connecting", "waiting"} =>
             MeetsOnly(basis', channel', None, Len(channel') + 1)
    BY <2>1, <2>2, <2>4
  <2> QED
    BY <1>1, <2>3, <2>5 DEF ChannelInStep
<1> QED
  BY <1>5, <1>6, <1>7, <1>8 DEF CaptureInv

LEMMA ConsumerPanicsKeepsInv == ASSUME CaptureInv, ConsumerPanics PROVE CaptureInv'
<1>1. /\ UNCHANGED <<config, source, session, frame, cancel, writer, journal, durable, applied,
                     basis, supervisor>>
      /\ consumer' = "dead" /\ channel' = <<>>
  BY DEF ConsumerPanics, journalVars
<1>2. channel' \in Seq(Event) /\ Len(channel') = 0 /\ Capacity \in Nat
  BY <1>1, CaptureAssumption DEF CaptureAssumption
<1>3. TypeOK'
  BY <1>1, <1>2 DEF CaptureInv, TypeOK
<1>4. SourceInStep' /\ EventsHaveSessions' /\ ChannelInStep'
  BY <1>1, <1>2 DEF CaptureInv, SourceInStep, EventsHaveSessions, ChannelInStep, IsMock
<1> QED
  BY <1>3, <1>4 DEF CaptureInv

LEMMA CaptureStutter == ASSUME CaptureInv, UNCHANGED vars PROVE CaptureInv'
BY DEF CaptureInv, TypeOK, SourceInStep, EventsHaveSessions, ChannelInStep, IsMock, vars

LEMMA CaptureStep == ASSUME CaptureInv, [Next]_vars PROVE CaptureInv'
<1>1. CASE UNCHANGED vars
  BY <1>1, CaptureStutter
<1>2. CASE SourceStep \/ Connect \/ ReceiveFrame \/ LoseConnection \/ SeeCancel
  BY <1>2, SourceStepsAlone, FrameSteps, AppendFailsKeepsInv, ConnectKeepsInv, ReportSteps,
     PublishKeepsInv DEF SourceStep
<1>3. CASE WriterStep \/ WriterFails
  BY <1>3, WriterSteps
<1>4. CASE ConsumerStep \/ ConsumerPanics
  BY <1>4, HandleEventKeepsInv, SupervisorSteps, ConsumerPanicsKeepsInv DEF ConsumerStep
<1>5. CASE SupervisorStep \/ Interrupt \/ ServeEnds \/ SelectFails
  BY <1>5, SupervisorSteps
<1> QED
  BY <1>1, <1>2, <1>3, <1>4, <1>5 DEF Next

-----------------------------------------------------------------------------
(***************************************************************************)
(* Nothing is skipped: what the engine handled, what waits in the channel  *)
(* and what the source holds are together what the journal decodes to.     *)
(***************************************************************************)
Handed == applied \o Selected(channel, Decodable)

InHand == source = "publishing" /\ Decodes(frame)

Begins(s, t) == Len(s) <= Len(t) /\ \A i \in 1 .. Len(s) : t[i] = s[i]

(* Once the event task is dead, what was in the channel is lost.           *)
NothingSkipped ==
  /\ consumer # "dead" =>
       Selected(journal, Decodable) = IF InHand THEN Append(Handed, frame) ELSE Handed
  /\ Begins(applied, Selected(journal, Decodable))

(* The frame in hand is of the current connection, as its event will be.   *)
FrameIsCurrent == source \in {"appending", "publishing"} => frame.session = session

(* Who has ended has left nothing behind, and is waited for.               *)
EndInStep ==
  /\ consumer = "done" => channel = <<>> /\ SourceIsDone
  /\ supervisor \in {"flushing", "closing", "draining", "returned"} => SourceIsDone
  /\ supervisor \in {"draining", "returned"} => durable = Len(journal)
  /\ supervisor = "returned" => consumer = "done" /\ source = "ended"

(* The mock source gives up before its last event only with an error.      *)
MockInStep ==
  IsMock =>
    /\ source \in {"mocking", "appending", "publishing", "checkpointing", "ended", "failed"}
    /\ cancel => SourceIsDone
    /\ Len(journal) <= MockEvents + 1
    /\ source = "appending" => Len(journal) <= MockEvents
    /\ source \in {"checkpointing", "ended"} => Len(journal) = MockEvents + 1
    /\ source \in {"appending", "publishing"} => Decodes(frame)
    /\ \A i \in 1 .. Len(journal) : Decodes(journal[i])

CompletionInv ==
  /\ CaptureInv
  /\ NothingSkipped
  /\ FrameIsCurrent
  /\ EndInStep
  /\ MockInStep

LEMMA CompletionInit == Init => CompletionInv
<1> SUFFICES ASSUME Init PROVE CompletionInv
  OBVIOUS
<1>1. CaptureInv
  BY CaptureInvInit
<1>2. /\ applied = <<>> /\ channel = <<>> /\ journal = <<>> /\ frame = None
      /\ source \in {"mocking", "checking"} /\ (IsMock => source = "mocking")
      /\ consumer = "running" /\ supervisor = "waiting" /\ cancel = FALSE
  BY DEF Init
<1>3. <<>> \in Seq(Frame) /\ Len(<<>>) = 0 /\ <<>> \o <<>> = <<>>
  BY EmptySeq, ConcatEmptySeq
<1>4. Selected(<<>>, Decodable) = <<>>
  BY SelectedEmpty
<1>5. NothingSkipped
  BY <1>2, <1>3, <1>4 DEF NothingSkipped, InHand, Handed, Begins
<1>6. FrameIsCurrent /\ EndInStep
  BY <1>2 DEF FrameIsCurrent, EndInStep
<1>7. MockInStep
  <2>1. IsMock => MockEvents \in Nat
    BY CaptureAssumption DEF CaptureAssumption
  <2> QED
    BY <1>2, <1>3, <2>1 DEF MockInStep
<1> QED
  BY <1>1, <1>5, <1>6, <1>7 DEF CompletionInv

(* What a step keeps that moves no frame.                                  *)
LEMMA NothingMoves ==
  ASSUME NothingSkipped, UNCHANGED <<applied, channel, journal>>,
         consumer = "dead" => consumer' = "dead",
         consumer' # "dead" => InHand' = InHand /\ (InHand => frame' = frame)
  PROVE  NothingSkipped'
BY DEF NothingSkipped, Handed

(* What a step of the source keeps: while it runs, nobody waits for it.    *)
LEMMA SourceRuns ==
  ASSUME EndInStep, ~SourceIsDone, UNCHANGED <<consumer, supervisor>>
  PROVE  EndInStep'
BY DEF EndInStep

(* The steps of the source that send nothing.                              *)
LEMMA QuietSourceCompletes ==
  ASSUME CompletionInv,
         CheckCancel \/ LoseConnection \/ BackOff \/ SeeCancel \/ MockLoopEnds \/ MockFlushFails
         \/ Connect
  PROVE  NothingSkipped' /\ FrameIsCurrent' /\ EndInStep' /\ MockInStep'
<1>1. /\ UNCHANGED <<config, frame, cancel, journal, channel, consumer, applied, supervisor>>
      /\ ~SourceIsDone /\ source \notin {"appending", "publishing"}
      /\ source' \in {"checking", "opening", "checkpointing", "greeting"} \cup AfterSessionPlaces
  BY AfterSessionTypes DEF CheckCancel, LoseConnection, BackOff, SeeCancel, MockLoopEnds,
     MockFlushFails, Connect, journalVars, engineVars, AfterSessionPlaces, SourceIsDone
<1>2. NothingSkipped'
  BY <1>1, NothingMoves DEF CompletionInv, InHand, AfterSessionPlaces
<1>3. FrameIsCurrent' /\ EndInStep'
  BY <1>1, SourceRuns DEF CompletionInv, FrameIsCurrent, AfterSessionPlaces
<1>4. MockInStep'
  <2> SUFFICES ASSUME IsMock PROVE MockInStep'
    BY <1>1 DEF MockInStep, IsMock
  <2>1. /\ source \in {"mocking", "checkpointing"} /\ ~cancel
        /\ Len(journal) <= MockEvents + 1
        /\ source = "checkpointing" => Len(journal) = MockEvents + 1
        /\ \A i \in 1 .. Len(journal) : Decodes(journal[i])
    BY <1>1 DEF CompletionInv, MockInStep, SourceIsDone
  <2>2. CASE MockLoopEnds
    <3>1. source' = "checkpointing" /\ ~(Len(journal) <= MockEvents)
      BY <2>1, <2>2 DEF MockLoopEnds, MockHasMore
    <3>2. Len(journal) \in Nat /\ MockEvents \in Nat
      BY CaptureAssumption DEF CompletionInv, CaptureInv, TypeOK, CaptureAssumption
    <3>3. Len(journal) = MockEvents + 1
      BY <2>1, <3>1, <3>2
    <3> QED
      BY <1>1, <2>1, <3>1, <3>3 DEF MockInStep
  <2>3. CASE MockFlushFails
    BY <1>1, <2>1, <2>3 DEF MockInStep, MockFlushFails
  <2> QED
    BY <2>1, <2>2, <2>3 DEF CheckCancel, LoseConnection, BackOff, SeeCancel, Connect
<1> QED
  BY <1>2, <1>3, <1>4

LEMMA FramesComplete ==
  ASSUME CompletionInv, ReceiveFrame \/ MockFrame
  PROVE  NothingSkipped' /\ FrameIsCurrent' /\ EndInStep' /\ MockInStep'
<1>1. /\ UNCHANGED <<config, session, cancel, journal, channel, consumer, applied, supervisor>>
      /\ ~SourceIsDone /\ source \in {"streaming", "mocking"} /\ source' = "appending"
      /\ frame'.session = session
  BY DEF ReceiveFrame, MockFrame, journalVars, engineVars, SourceIsDone
<1>2. NothingSkipped' /\ FrameIsCurrent' /\ EndInStep'
  BY <1>1, NothingMoves, SourceRuns DEF CompletionInv, InHand, FrameIsCurrent
<1>3. MockInStep'
  <2> SUFFICES ASSUME IsMock PROVE MockInStep'
    BY <1>1 DEF MockInStep, IsMock
  <2>1. MockFrame
    BY DEF CompletionInv, MockInStep, ReceiveFrame
  <2>2. Len(journal) = 0 \/ Len(journal) <= MockEvents
    BY <2>1 DEF MockFrame, MockHasMore
  <2>3. Len(journal) <= MockEvents
    BY <2>2, CaptureAssumption DEF CaptureAssumption
  <2>4. Decodes(frame')
    BY <2>1 DEF MockFrame, Decodes
  <2>5. /\ ~cancel /\ Len(journal) <= MockEvents + 1
        /\ \A i \in 1 .. Len(journal) : Decodes(journal[i])
    BY <1>1 DEF CompletionInv, MockInStep
  <2>6. ~cancel' /\ journal' = journal
    BY <1>1, <2>5
  <2> QED
    BY <1>1, <2>3, <2>4, <2>5, <2>6 DEF MockInStep
<1> QED
  BY <1>2, <1>3

LEMMA AppendFailsCompletes ==
  ASSUME CompletionInv, AppendFails
  PROVE  NothingSkipped' /\ FrameIsCurrent' /\ EndInStep' /\ MockInStep'
<1>1. /\ UNCHANGED <<config, session, cancel, journal, channel, consumer, applied, supervisor>>
      /\ ~SourceIsDone /\ source = "appending" /\ source' = AfterSession
      /\ source' \in AfterSessionPlaces
  BY AfterSessionTypes DEF AppendFails, journalVars, engineVars, SourceIsDone
<1>2. NothingSkipped' /\ FrameIsCurrent' /\ EndInStep'
  BY <1>1, NothingMoves, SourceRuns DEF CompletionInv, InHand, FrameIsCurrent, AfterSessionPlaces
<1>3. MockInStep'
  BY <1>1 DEF CompletionInv, MockInStep, IsMock, AfterSession, SourceIsDone
<1> QED
  BY <1>2, <1>3

(* An event of the source's own is none of the journal's frames.           *)
LEMMA StatusIsNoFrame ==
  ASSUME NEW s, NEW kind \in OwnStatus
  PROVE  [session |-> s, kind |-> kind] \notin Decodable
BY DEF Decodable, Frame, FrameKind, OwnStatus

LEMMA ReportsComplete ==
  ASSUME CompletionInv, ReportConnecting \/ ReportConnected \/ ReportDisconnected
  PROVE  NothingSkipped' /\ FrameIsCurrent' /\ EndInStep' /\ MockInStep'
<1>1. /\ UNCHANGED <<config, session, frame, cancel, journal, consumer, applied, supervisor>>
      /\ ~SourceIsDone /\ source \in {"opening", "greeting", "reporting"}
      /\ source' \in {"connecting", "streaming", "waiting"} \cup AfterSessionPlaces
  BY AfterSessionTypes DEF ReportConnecting, ReportConnected, ReportDisconnected, Send, SendFails,
     journalVars, engineVars, SourceIsDone, AfterSessionPlaces
<1>2. FrameIsCurrent' /\ EndInStep'
  BY <1>1, SourceRuns DEF CompletionInv, FrameIsCurrent, AfterSessionPlaces
<1>3. MockInStep'
  BY <1>1 DEF CompletionInv, MockInStep, IsMock
<1>4. ASSUME UNCHANGED channel PROVE NothingSkipped'
  BY <1>1, <1>4, NothingMoves DEF CompletionInv, InHand, AfterSessionPlaces
<1>5. ASSUME NEW kind \in OwnStatus, NEW next, Send(kind, next) PROVE NothingSkipped'
  <2> DEFINE e == [session |-> session, kind |-> kind]
  <2>1. channel' = Append(channel, e) /\ channel \in Seq(Event) /\ session \in 0 .. MaxSessions
    BY <1>5 DEF Send, CompletionInv, CaptureInv, TypeOK
  <2>2. e \in Event /\ e \notin Decodable
    BY <2>1, OwnStatusIsEvent, StatusIsNoFrame
  <2> HIDE DEF e
  <2>3. Selected(channel', Decodable) = Selected(channel, Decodable)
    BY <2>1, <2>2, SelectedAppend
  <2>4. Handed' = Handed
    BY <1>1, <2>3 DEF Handed
  <2>5. ~InHand /\ ~InHand'
    BY <1>1 DEF InHand, AfterSessionPlaces
  <2> QED
    BY <1>1, <2>4, <2>5 DEF CompletionInv, NothingSkipped
<1>6. NothingSkipped'
  BY <1>4, <1>5 DEF ReportConnecting, ReportConnected, ReportDisconnected, SendFails, OwnStatus
<1> QED
  BY <1>2, <1>3, <1>6

(* What the engine and the channel hold, as sequences of frames.           *)
LEMMA HandedTypes ==
  ASSUME CompletionInv
  PROVE  /\ applied \in Seq(Frame) /\ journal \in Seq(Frame) /\ channel \in Seq(Event)
         /\ Selected(channel, Decodable) \in Seq(Frame)
         /\ Selected(journal, Decodable) \in Seq(Frame)
         /\ Handed \in Seq(Frame)
<1>1. applied \in Seq(Frame) /\ journal \in Seq(Frame) /\ channel \in Seq(Event)
  BY DEF CompletionInv, CaptureInv, TypeOK
<1>2. /\ Selected(channel, Decodable) \in Seq(Event \cap Decodable)
      /\ Selected(journal, Decodable) \in Seq(Frame \cap Decodable)
  BY <1>1, SelectedType
<1>3. Event \cap Decodable \subseteq Frame /\ Frame \cap Decodable \subseteq Frame
  BY DEF Decodable
<1>4. Selected(channel, Decodable) \in Seq(Frame) /\ Selected(journal, Decodable) \in Seq(Frame)
  BY <1>2, <1>3, SeqMonotonic
<1>5. Handed \in Seq(Frame)
  BY <1>1, <1>4, ConcatProperties DEF Handed
<1> QED
  BY <1>1, <1>4, <1>5

LEMMA PublishCompletes ==
  ASSUME CompletionInv, Publish
  PROVE  NothingSkipped' /\ FrameIsCurrent' /\ EndInStep' /\ MockInStep'
<1>1. /\ UNCHANGED <<config, session, cancel, journal, consumer, applied, supervisor>>
      /\ ~SourceIsDone /\ source = "publishing"
      /\ source' \in {AfterSession, AfterFrame}
  BY DEF Publish, Send, SendFails, journalVars, engineVars, SourceIsDone
<1>2. source' \in {"mocking", "streaming"} \cup AfterSessionPlaces
  BY <1>1, AfterSessionTypes DEF AfterFrame
<1>3. FrameIsCurrent' /\ EndInStep'
  BY <1>1, <1>2, SourceRuns DEF CompletionInv, FrameIsCurrent, AfterSessionPlaces
<1>4. MockInStep'
  BY <1>1 DEF CompletionInv, MockInStep, IsMock, AfterSession, AfterFrame, SourceIsDone
<1>5. ASSUME UNCHANGED channel PROVE NothingSkipped'
  <2>1. consumer' # "dead" => ~InHand
    BY <1>1, <1>5 DEF Publish, Send, SendFails, InHand, Decodes
  <2>2. ~InHand'
    BY <1>2 DEF InHand, AfterSessionPlaces
  <2> QED
    BY <1>1, <1>5, <2>1, <2>2, NothingMoves DEF CompletionInv, InHand
<1>6. ASSUME Decodes(frame), NEW next, Send(frame.kind, next) PROVE NothingSkipped'
  <2> DEFINE e == [session |-> session, kind |-> frame.kind]
             held == Selected(channel, Decodable)
  <2>1. channel' = Append(channel, e) /\ consumer # "dead"
    BY <1>6 DEF Send
  <2>2. frame \in Frame /\ frame.session = session /\ session \in 0 .. MaxSessions
    BY <1>1 DEF CompletionInv, CaptureInv, TypeOK, SourceInStep, FrameIsCurrent
  <2>3. e = frame
    BY <2>2 DEF Frame
  <2>4. e \in Event
    BY <1>6, <2>2, FrameIsEvent
  <2>5. e \in Decodable
    BY <1>6, <2>2, <2>3 DEF Decodable
  <2>6. /\ channel \in Seq(Event) /\ applied \in Seq(Frame) /\ held \in Seq(Frame)
    BY HandedTypes
  <2> HIDE DEF e
  <2>7. Selected(channel', Decodable) = Append(held, e)
    BY <2>1, <2>4, <2>5, <2>6, SelectedAppend
  <2> HIDE DEF held
  <2>8. applied \o Append(held, frame) = Append(applied \o held, frame)
    BY <2>2, <2>6, AppendBehind
  <2>9. Handed' = Append(Handed, frame)
    BY <1>1, <2>3, <2>7, <2>8 DEF Handed, held
  <2>10. InHand /\ ~InHand'
    BY <1>1, <1>2, <1>6 DEF InHand, AfterSessionPlaces
  <2> QED
    BY <1>1, <2>1, <2>9, <2>10 DEF CompletionInv, NothingSkipped
<1>7. NothingSkipped'
  BY <1>5, <1>6 DEF Publish, SendFails
<1> QED
  BY <1>3, <1>4, <1>7

(* A record that the writer takes makes the journal decode to its frame    *)
(* too, if it decodes, and puts the frame into the source's hand.          *)
LEMMA WriteRecordCompletes ==
  ASSUME CompletionInv, WriteRecord
  PROVE  NothingSkipped' /\ FrameIsCurrent' /\ EndInStep' /\ MockInStep'
<1> DEFINE market == Selected(journal, Decodable)
<1>1. /\ UNCHANGED <<config, session, frame, cancel, channel, consumer, applied, supervisor>>
      /\ ~SourceIsDone /\ source = "appending" /\ source' = "publishing"
      /\ journal' = Append(journal, frame)
  BY DEF WriteRecord, engineVars, SourceIsDone
<1>2. frame \in Frame
  BY <1>1 DEF CompletionInv, CaptureInv, SourceInStep
<1>3. /\ journal \in Seq(Frame) /\ applied \in Seq(Frame) /\ market \in Seq(Frame)
  BY HandedTypes
<1>4. Selected(journal', Decodable) = IF Decodes(frame) THEN Append(market, frame) ELSE market
  BY <1>1, <1>2, <1>3, SelectedAppend DEF Decodable
<1> HIDE DEF market
<1>5. Begins(applied, market) /\ (consumer # "dead" => market = Handed)
  BY <1>1 DEF CompletionInv, NothingSkipped, InHand, market
<1>6. Begins(applied, Append(market, frame))
  BY <1>2, <1>3, <1>5 DEF Begins
<1>7. NothingSkipped'
  <2>1. (InHand' <=> Decodes(frame)) /\ Handed' = Handed
    BY <1>1 DEF InHand, Handed, Decodes
  <2> QED
    BY <1>1, <1>4, <1>5, <1>6, <2>1 DEF NothingSkipped
<1>8. FrameIsCurrent' /\ EndInStep'
  BY <1>1, SourceRuns DEF CompletionInv, FrameIsCurrent
<1>9. MockInStep'
  <2> SUFFICES ASSUME IsMock PROVE MockInStep'
    BY <1>1 DEF MockInStep, IsMock
  <2>1. /\ ~cancel /\ Len(journal) <= MockEvents /\ Decodes(frame)
        /\ \A i \in 1 .. Len(journal) : Decodes(journal[i])
    BY <1>1 DEF CompletionInv, MockInStep
  <2>2. Len(journal') = Len(journal) + 1 /\ Len(journal) \in Nat /\ MockEvents \in Nat
    BY <1>1, <1>2, <1>3, CaptureAssumption DEF CaptureAssumption
  <2>3. Len(journal') <= MockEvents + 1
    BY <2>1, <2>2
  <2>4. ASSUME NEW i \in 1 .. Len(journal') PROVE Decodes(journal'[i])
    <3>1. \/ i \in 1 .. Len(journal) /\ journal'[i] = journal[i]
          \/ journal'[i] = frame
      BY <1>1, <1>2, <1>3, <2>2
    <3> QED
      BY <2>1, <3>1
  <2> QED
    BY <1>1, <2>1, <2>3, <2>4 DEF MockInStep
<1> QED
  BY <1>7, <1>8, <1>9

(* The other steps of the writer, and those of the supervisor.             *)
LEMMA EndsComplete ==
  ASSUME CompletionInv,
         Flush \/ MockFlush \/ Close \/ WriterFails
         \/ SupervisorStep \/ Interrupt \/ ServeEnds \/ SelectFails \/ ConsumerEnds
  PROVE  NothingSkipped' /\ FrameIsCurrent' /\ EndInStep' /\ MockInStep'
<1>1. UNCHANGED <<config, session, frame, journal, channel, applied>>
  BY DEF Flush, MockFlush, Close, WriterFails, SupervisorStep, SourceEnded, TimeIsUp, JoinSource,
     FlushFails, Drain, Interrupt, ServeEnds, SelectFails, ConsumerEnds, Stop, journalVars,
     engineVars
<1>2. /\ source' = source \/ (source = "checkpointing" /\ source' = "ended")
      /\ consumer' = consumer \/ (consumer = "running" /\ consumer' = "done")
  BY DEF Flush, MockFlush, Close, WriterFails, SupervisorStep, SourceEnded, TimeIsUp, JoinSource,
     FlushFails, Drain, Interrupt, ServeEnds, SelectFails, ConsumerEnds, Stop, journalVars,
     engineVars
<1>3. NothingSkipped' /\ FrameIsCurrent'
  BY <1>1, <1>2, NothingMoves DEF CompletionInv, InHand, FrameIsCurrent
<1>4. EndInStep'
  <2>1. CASE Flush \/ MockFlush \/ Close \/ WriterFails
    BY <1>1, <2>1 DEF Flush, MockFlush, Close, WriterFails, engineVars, CompletionInv, EndInStep,
       SourceIsDone
  <2>2. CASE ConsumerEnds
    BY <1>1, <2>2 DEF ConsumerEnds, journalVars, CompletionInv, EndInStep, SourceIsDone
  <2>3. CASE Drain
    <3>1. consumer \in {"running", "done", "dead"}
      BY DEF CompletionInv, CaptureInv, TypeOK
    <3> QED
      BY <1>1, <2>3, <3>1 DEF Drain, journalVars, engineVars, CompletionInv, EndInStep, SourceIsDone
  <2>4. CASE SourceEnded \/ TimeIsUp \/ JoinSource \/ FlushFails \/ Interrupt \/ ServeEnds
             \/ SelectFails
    BY <1>1, <2>4 DEF SourceEnded, TimeIsUp, JoinSource, FlushFails, Interrupt, ServeEnds,
       SelectFails, Stop, journalVars, engineVars, CompletionInv, EndInStep, SourceIsDone
  <2> QED
    BY <2>1, <2>2, <2>3, <2>4 DEF SupervisorStep
<1>5. MockInStep'
  <2> SUFFICES ASSUME IsMock PROVE MockInStep'
    BY <1>1 DEF MockInStep, IsMock
  <2>1. cancel' => SourceIsDone'
    <3>1. cancel => SourceIsDone
      BY DEF CompletionInv, MockInStep
    <3>2. cancel' = cancel \/ SourceIsDone
      BY DEF Flush, MockFlush, Close, WriterFails, SupervisorStep, SourceEnded, TimeIsUp,
         JoinSource, FlushFails, Drain, Interrupt, ServeEnds, SelectFails, ConsumerEnds, Stop,
         LiveModes, IsMock
    <3>3. SourceIsDone => SourceIsDone'
      BY <1>2 DEF SourceIsDone
    <3> QED
      BY <3>1, <3>2, <3>3
  <2> QED
    BY <1>1, <1>2, <2>1 DEF CompletionInv, MockInStep
<1> QED
  BY <1>3, <1>4, <1>5

(* What the next event is for the engine and the journal.                  *)
LEMMA HeadOfChannel ==
  ASSUME CompletionInv, HandleEvent
  PROVE  LET held == Selected(channel, Decodable)
         IN  IF Head(channel).kind \in FrameKind
             THEN /\ held # <<>> /\ Head(channel) = Head(held) /\ Head(held) \in Frame
                  /\ Selected(channel', Decodable) = Tail(held)
                  /\ applied' = Append(applied, Head(held))
             ELSE /\ Selected(channel', Decodable) = held
                  /\ applied' = applied
<1> DEFINE held == Selected(channel, Decodable)
           e == Head(channel)
<1>1. /\ channel # <<>> /\ channel' = Tail(channel)
      /\ applied' = IF e.kind \in FrameKind THEN Append(applied, e) ELSE applied
  BY DEF HandleEvent
<1>2. channel \in Seq(Event) /\ e = channel[1] /\ e \in Event /\ 1 \in 1 .. Len(channel)
  BY <1>1, HandedTypes
<1>3. e.kind \in FrameKind => e.session > 0
  BY <1>2 DEF CompletionInv, CaptureInv, EventsHaveSessions
<1>4. e \in Decodable <=> e.kind \in FrameKind
  BY <1>2, <1>3 DEF Decodable, Decodes, Frame, Event
<1>5. e \in Decodable => e \in Frame
  BY DEF Decodable
<1>6. IF e \in Decodable
      THEN held # <<>> /\ Head(held) = e /\ Tail(held) = Selected(Tail(channel), Decodable)
      ELSE held = Selected(Tail(channel), Decodable)
  BY <1>1, <1>2, SelectedTail
<1> HIDE DEF e, held
<1>7. IF e.kind \in FrameKind
      THEN /\ held # <<>> /\ e = Head(held) /\ Head(held) \in Frame
           /\ Selected(channel', Decodable) = Tail(held)
           /\ applied' = Append(applied, Head(held))
      ELSE /\ Selected(channel', Decodable) = held
           /\ applied' = applied
  BY <1>1, <1>4, <1>5, <1>6
<1> QED
  BY <1>7 DEF e, held

LEMMA HandleEventCompletes ==
  ASSUME CompletionInv, HandleEvent
  PROVE  NothingSkipped' /\ FrameIsCurrent' /\ EndInStep' /\ MockInStep'
<1> DEFINE held == Selected(channel, Decodable)
           market == Selected(journal, Decodable)
<1>1. /\ UNCHANGED <<config, source, session, frame, cancel, durable, journal, consumer, supervisor>>
      /\ consumer = "running" /\ channel # <<>>
  BY DEF HandleEvent, journalVars
<1>2. applied \in Seq(Frame) /\ held \in Seq(Frame) /\ market \in Seq(Frame) /\ Handed \in Seq(Frame)
  BY HandedTypes
<1>3. IF Head(channel).kind \in FrameKind
      THEN /\ held # <<>> /\ Head(held) \in Frame
           /\ Selected(channel', Decodable) = Tail(held)
           /\ applied' = Append(applied, Head(held))
      ELSE /\ Selected(channel', Decodable) = held
           /\ applied' = applied
  BY HeadOfChannel
<1>4. Handed = applied \o held /\ Handed' = applied' \o Selected(channel', Decodable)
  BY DEF Handed
<1>5. /\ market = IF InHand THEN Append(Handed, frame) ELSE Handed
      /\ Begins(applied, market)
  BY <1>1 DEF CompletionInv, NothingSkipped
<1>6. InHand' = InHand /\ Selected(journal', Decodable) = market
  BY <1>1 DEF InHand
<1> HIDE DEF held, market
<1>7. Handed' = Handed
  <2>1. CASE Head(channel).kind \in FrameKind
    <3>1. Append(applied, Head(held)) \o Tail(held) = applied \o held
      BY <1>2, <1>3, <2>1, FrontMovesOver
    <3> QED
      BY <1>3, <1>4, <2>1, <3>1
  <2>2. CASE Head(channel).kind \notin FrameKind
    BY <1>3, <1>4, <2>2
  <2> QED
    BY <2>1, <2>2
<1>8. Begins(applied', market)
  <2>1. CASE Head(channel).kind \in FrameKind
    <3>1. /\ Handed = applied' \o Tail(held)
          /\ applied' \in Seq(Frame) /\ Tail(held) \in Seq(Frame)
      <4>1. held # <<>> /\ Head(held) \in Frame /\ applied' = Append(applied, Head(held))
        BY <1>3, <2>1
      <4>2. applied' \in Seq(Frame)
        BY <1>2, <4>1
      <4>3. Tail(held) \in Seq(Frame)
        BY <1>2, <4>1, HeadTailProperties
      <4> QED
        BY <1>3, <1>4, <1>7, <2>1, <4>2, <4>3
    <3>2. Begins(applied', Handed)
      <4>1. /\ Len(Handed) = Len(applied') + Len(Tail(held))
            /\ \A i \in 1 .. Len(applied') + Len(Tail(held)) :
                 Handed[i] = IF i <= Len(applied') THEN applied'[i]
                             ELSE Tail(held)[i - Len(applied')]
        BY <3>1, ConcatProperties
      <4>2. Len(applied') \in Nat /\ Len(Tail(held)) \in Nat
        BY <3>1
      <4> HIDE DEF Handed
      <4> QED
        BY <4>1, <4>2 DEF Begins
    <3>3. InHand => frame \in Frame
      BY <1>1 DEF CompletionInv, CaptureInv, SourceInStep, InHand
    <3>4. InHand => Begins(applied', Append(Handed, frame))
      BY <1>2, <3>1, <3>2, <3>3 DEF Begins
    <3> QED
      BY <1>5, <3>2, <3>4
  <2>2. CASE Head(channel).kind \notin FrameKind
    BY <1>3, <1>5, <2>2
  <2> QED
    BY <2>1, <2>2
<1>9. NothingSkipped'
  BY <1>1, <1>5, <1>6, <1>7, <1>8 DEF NothingSkipped
<1>10. FrameIsCurrent' /\ EndInStep' /\ MockInStep'
  BY <1>1 DEF CompletionInv, FrameIsCurrent, EndInStep, MockInStep, IsMock, SourceIsDone
<1> QED
  BY <1>9, <1>10

LEMMA ConsumerPanicsCompletes ==
  ASSUME CompletionInv, ConsumerPanics
  PROVE  NothingSkipped' /\ FrameIsCurrent' /\ EndInStep' /\ MockInStep'
<1>1. /\ UNCHANGED <<config, source, session, frame, cancel, durable, journal, applied, supervisor>>
      /\ consumer = "running" /\ consumer' = "dead"
  BY DEF ConsumerPanics, journalVars
<1>2. NothingSkipped'
  BY <1>1 DEF CompletionInv, NothingSkipped
<1>3. FrameIsCurrent' /\ EndInStep' /\ MockInStep'
  BY <1>1 DEF CompletionInv, FrameIsCurrent, EndInStep, MockInStep, IsMock, SourceIsDone
<1> QED
  BY <1>2, <1>3

LEMMA CompletionStutter == ASSUME CompletionInv, UNCHANGED vars PROVE CompletionInv'
<1>1. CaptureInv'
  BY CaptureStutter DEF CompletionInv
<1>2. UNCHANGED <<config, source, session, frame, cancel, durable, journal, applied, supervisor,
                  consumer, channel>>
  BY DEF vars
<1>3. NothingSkipped'
  BY <1>2, NothingMoves DEF CompletionInv, InHand
<1>4. FrameIsCurrent' /\ EndInStep' /\ MockInStep'
  BY <1>2 DEF CompletionInv, FrameIsCurrent, EndInStep, MockInStep, IsMock, SourceIsDone
<1> QED
  BY <1>1, <1>3, <1>4 DEF CompletionInv

LEMMA CompletionStep == ASSUME CompletionInv, [Next]_vars PROVE CompletionInv'
<1>1. CASE UNCHANGED vars
  BY <1>1, CompletionStutter
<1>2. ASSUME Next PROVE NothingSkipped' /\ FrameIsCurrent' /\ EndInStep' /\ MockInStep'
  <2>1. CASE SourceStep \/ Connect \/ ReceiveFrame \/ LoseConnection \/ SeeCancel
    BY <2>1, QuietSourceCompletes, FramesComplete, AppendFailsCompletes, ReportsComplete,
       PublishCompletes DEF SourceStep
  <2>2. CASE WriterStep \/ WriterFails
    BY <2>2, WriteRecordCompletes, EndsComplete DEF WriterStep
  <2>3. CASE ConsumerStep \/ ConsumerPanics
    BY <2>3, HandleEventCompletes, EndsComplete, ConsumerPanicsCompletes DEF ConsumerStep
  <2>4. CASE SupervisorStep \/ Interrupt \/ ServeEnds \/ SelectFails
    BY <2>4, EndsComplete
  <2> QED
    BY <1>2, <2>1, <2>2, <2>3, <2>4 DEF Next
<1>3. CaptureInv'
  BY CaptureStep DEF CompletionInv
<1> QED
  BY <1>1, <1>2, <1>3 DEF CompletionInv

-----------------------------------------------------------------------------
(***************************************************************************)
(* The theorems.                                                           *)
(***************************************************************************)

(* The inductive invariant: which book each event in the channel will      *)
(* find, where the source is, and how old the events are.                  *)
THEOREM CaptureInvariance == Spec => []CaptureInv
<1> QED
  BY CaptureInvInit, CaptureStep, PTL DEF Spec

(* Every variable keeps its type: the channel its capacity, the engine     *)
(* handles nothing but frames.                                             *)
THEOREM CaptureTypes == Spec => []TypeOK
<1>1. CaptureInv => TypeOK
  BY DEF CaptureInv
<1> QED
  BY <1>1, CaptureInvariance, PTL

(* No delta is applied to the book of another connection, however long the *)
(* channel and however late the event task.                                *)
THEOREM DeltasStayInTheirSession == Spec => []NoMixedBooks
<1>1. CaptureInv => NoMixedBooks
  <2> SUFFICES ASSUME CaptureInv, channel # <<>>, Head(channel).kind = "delta", basis # None
               PROVE  Head(channel).session = basis
    BY DEF NoMixedBooks
  <2>1. channel \in Seq(Event) /\ consumer \in {"running", "done", "dead"}
    BY DEF CaptureInv, TypeOK
  <2>2. Head(channel) = channel[1] /\ 1 \in 1 .. Len(channel)
    BY <2>1
  <2>3. consumer # "dead"
    BY DEF CaptureInv, ChannelInStep
  <2>4. channel[1].session = basis
    <3>1. MeetsOnly(basis, channel, channel[1].session, 1)
      BY <2>2, <2>3 DEF CaptureInv, ChannelInStep, DeltasMeetTheirBook
    <3> QED
      BY <3>1 DEF MeetsOnly, Book, ResetIn
  <2> QED
    BY <2>2, <2>4
<1> QED
  BY <1>1, CaptureInvariance, PTL

(* While there is no connection, the engine has no book once it has caught *)
(* up with the channel.                                                    *)
THEOREM OfflineBooksAreDropped == Spec => []NoBookOffline
<1>1. CaptureInv => NoBookOffline
  <2> SUFFICES ASSUME CaptureInv, source \in {"connecting", "waiting"}, channel = <<>>,
                      consumer = "running"
               PROVE  basis = None
    BY DEF NoBookOffline
  <2>1. MeetsOnly(basis, channel, None, Len(channel) + 1) /\ Len(channel) = 0
    BY DEF CaptureInv, ChannelInStep
  <2> QED
    BY <2>1 DEF MeetsOnly, Book, ResetIn
<1> QED
  BY <1>1, CaptureInvariance, PTL

(* The inductive invariant of a complete run: nothing is skipped between   *)
(* the journal and the engine, and whoever ended has left nothing behind.  *)
THEOREM CompletionInvariance == Spec => []CompletionInv
<1> QED
  BY CompletionInit, CompletionStep, PTL DEF Spec

(* A run that returns normally has every frame of its journal durable, and *)
(* every one that decodes handled, in whatever order the tasks ended.      *)
THEOREM ReturnIsComplete == Spec => []CompleteOnReturn
<1>1. CompletionInv => CompleteOnReturn
  <2> SUFFICES ASSUME CompletionInv, supervisor = "returned"
               PROVE  channel = <<>> /\ durable = Len(journal)
                      /\ applied = Selected(journal, Decodable)
    BY DEF CompleteOnReturn
  <2>1. channel = <<>> /\ durable = Len(journal) /\ consumer = "done" /\ source = "ended"
    BY DEF CompletionInv, EndInStep
  <2>2. Selected(journal, Decodable) = Handed
    BY <2>1 DEF CompletionInv, NothingSkipped, InHand
  <2>3. Selected(channel, Decodable) = <<>>
    BY <2>1, SelectedEmpty
  <2>4. Handed = applied
    BY <2>3, HandedTypes, ConcatEmptySeq DEF Handed
  <2> QED
    BY <2>1, <2>2, <2>4
<1> QED
  BY <1>1, CompletionInvariance, PTL

(* A mock run that returns normally handled its snapshot and all its       *)
(* events: it can neither be cancelled half way nor lose one.              *)
THEOREM MockRunsAreComplete == Spec => []MockRunIsComplete
<1>1. CompletionInv => MockRunIsComplete
  <2> SUFFICES ASSUME CompletionInv, IsMock, supervisor = "returned"
               PROVE  Len(applied) = MockEvents + 1
    BY DEF MockRunIsComplete
  <2>1. channel = <<>> /\ consumer = "done" /\ source = "ended"
    BY DEF CompletionInv, EndInStep
  <2>2. Selected(journal, Decodable) = Handed
    BY <2>1 DEF CompletionInv, NothingSkipped, InHand
  <2>3. Selected(channel, Decodable) = <<>>
    BY <2>1, SelectedEmpty
  <2>4. Handed = applied
    BY <2>3, HandedTypes, ConcatEmptySeq DEF Handed
  <2>5. /\ Len(journal) = MockEvents + 1
        /\ \A i \in 1 .. Len(journal) : Decodes(journal[i])
    BY <2>1 DEF CompletionInv, MockInStep
  <2>6. journal \in Seq(Frame)
    BY HandedTypes
  <2>7. \A i \in 1 .. Len(journal) : journal[i] \in Decodable
    BY <2>5, <2>6, ElementOfSeq DEF Decodable
  <2>8. Len(Selected(journal, Decodable)) = Len(journal)
    BY <2>6, <2>7, SelectedAll
  <2> QED
    BY <2>2, <2>4, <2>5, <2>8
<1> QED
  BY <1>1, CompletionInvariance, PTL

(* The abstract specification selects from the log as Capture does.        *)
LEMMA SameSelection == Ahead!Decoded = Selected(journal, Decodable)
BY DEF Ahead!Decoded, Ahead!Selected, Ahead!SelectedUpTo, Selected, SelectedUpTo

LEMMA AheadSteps ==
  ASSUME CompletionInv, Next PROVE [Ahead!AheadNext]_Ahead!aheadVars
<1>1. CASE WriteRecord
  <2>1. frame \in Frame /\ journal' = Append(journal, frame) /\ UNCHANGED applied
    BY <1>1 DEF CompletionInv, CaptureInv, SourceInStep, WriteRecord, engineVars
  <2> QED
    BY <2>1 DEF Ahead!AheadNext, Ahead!LogFrame
<1>2. CASE HandleEvent
  <2> DEFINE held == Selected(channel, Decodable)
             market == Selected(journal, Decodable)
  <2>1. journal' = journal /\ consumer = "running"
    BY <1>2 DEF HandleEvent, journalVars
  <2>2. applied \in Seq(Frame) /\ held \in Seq(Frame) /\ market \in Seq(Frame) /\ Handed \in Seq(Frame)
    BY HandedTypes
  <2>3. \/ held # <<>> /\ applied' = Append(applied, Head(held))
        \/ applied' = applied
    BY <1>2, HeadOfChannel
  <2>4. market = (IF InHand THEN Append(Handed, frame) ELSE Handed) /\ Handed = applied \o held
    BY <2>1 DEF CompletionInv, NothingSkipped, Handed
  <2>5. InHand => frame \in Frame
    BY DEF CompletionInv, CaptureInv, SourceInStep, InHand
  <2> HIDE DEF held, market
  <2>6. CASE applied' = applied
    BY <2>1, <2>6 DEF Ahead!aheadVars
  <2>7. CASE held # <<>> /\ applied' = Append(applied, Head(held))
    <3> DEFINE n == Len(applied) + 1
    <3>1. Len(applied) < Len(Handed) /\ SubSeq(Handed, 1, n) = applied'
      BY <2>2, <2>4, <2>7, NextOfBoth
    <3>2. /\ Len(applied) \in Nat /\ Len(Handed) \in Nat
      BY <2>2
    <3> HIDE DEF Handed
    <3>3. Len(applied) < Len(market) /\ SubSeq(market, 1, n) = SubSeq(Handed, 1, n)
      <4>1. CASE ~InHand
        BY <2>4, <3>1, <4>1
      <4>2. CASE InHand
        <5>1. market = Append(Handed, frame) /\ frame \in Frame
          BY <2>4, <2>5, <4>2
        <5>2. Len(market) = Len(Handed) + 1 /\ \A i \in 1 .. Len(Handed) : market[i] = Handed[i]
          BY <2>2, <5>1
        <5>3. SubSeq(market, 1, n) = SubSeq(Handed, 1, n)
          BY <2>2, <3>1, <3>2, <5>2
        <5> QED
          BY <3>1, <3>2, <5>2, <5>3
      <4> QED
        BY <4>1, <4>2
    <3>4. Ahead!ApplyNext
      BY <2>1, <3>1, <3>3, SameSelection DEF Ahead!ApplyNext, market
    <3> QED
      BY <3>4 DEF Ahead!AheadNext
  <2> QED
    BY <2>3, <2>6, <2>7
<1>3. CASE ~WriteRecord /\ ~HandleEvent
  <2>1. UNCHANGED <<journal, applied>>
    BY <1>3 DEF Next, SourceStep, CheckCancel, ReportConnecting, ReportConnected, AppendFails,
       Publish, ReportDisconnected, BackOff, MockFrame, MockLoopEnds, MockFlushFails, Connect,
       ReceiveFrame, LoseConnection, SeeCancel, WriterStep, Flush, MockFlush, Close, WriterFails,
       ConsumerStep, ConsumerEnds, ConsumerPanics, SupervisorStep, SourceEnded, TimeIsUp,
       JoinSource, FlushFails, Drain, Interrupt, ServeEnds, SelectFails, Stop, journalVars,
       engineVars
  <2> QED
    BY <2>1 DEF Ahead!aheadVars
<1> QED
  BY <1>1, <1>2, <1>3

(* Every behavior of a run is one of the write-ahead specification: the    *)
(* engine handles what the journal decodes to, frame by frame, in order    *)
(* and never ahead of it, through reconnects, errors and panics.           *)
THEOREM CaptureImplementsWriteAhead == Spec => ImplementsWriteAhead
<1>1. Init => Ahead!AheadInit
  BY DEF Init, Ahead!AheadInit
<1>2. CompletionInv /\ [Next]_vars => [Ahead!AheadNext]_Ahead!aheadVars
  <2>1. CASE UNCHANGED vars
    BY <2>1 DEF vars, Ahead!aheadVars
  <2> QED
    BY <2>1, AheadSteps
<1> QED
  BY <1>1, <1>2, CompletionInvariance, PTL DEF Spec, ImplementsWriteAhead, Ahead!AheadSpec

-----------------------------------------------------------------------------
(***************************************************************************)
(* The end of a replay.                                                    *)
(***************************************************************************)

(* f follows the definition of Origins up to n.                            *)
Follows(f, n, s) ==
  f = [i \in 0 .. n |-> IF i = 0 THEN None ELSE BasisAfter(f[i - 1], s[i])]

LEMMA OriginsExist ==
  ASSUME NEW s
  PROVE  \A n \in Nat : \E f : Follows(f, n, s)
<1> DEFINE T == {n \in Nat : \E f : Follows(f, n, s)}
<1>1. 0 \in T
  <2> DEFINE f == [i \in 0 .. 0 |-> None]
  <2>1. Follows(f, 0, s)
    BY DEF Follows
  <2> QED
    BY <2>1
<1>2. ASSUME NEW n \in Nat, n \in T
      PROVE  n + 1 \in T
  <2>1. PICK f : Follows(f, n, s)
    BY <1>2
  <2> DEFINE g == [i \in 0 .. n + 1 |-> IF i = n + 1 THEN BasisAfter(f[n], s[n + 1]) ELSE f[i]]
  <2>2. \A i \in 0 .. n : f[i] = IF i = 0 THEN None ELSE BasisAfter(f[i - 1], s[i])
    BY <2>1 DEF Follows
  <2>3. \A i \in 0 .. n + 1 : g[i] = IF i = 0 THEN None ELSE BasisAfter(g[i - 1], s[i])
    <3> SUFFICES ASSUME NEW i \in 0 .. n + 1
                 PROVE  g[i] = IF i = 0 THEN None ELSE BasisAfter(g[i - 1], s[i])
      OBVIOUS
    <3>1. CASE i = n + 1
      BY <3>1
    <3>2. CASE i \in 0 .. n
      <4>1. g[i] = f[i] /\ (i # 0 => g[i - 1] = f[i - 1])
        BY <3>2
      <4> QED
        BY <2>2, <3>2, <4>1
    <3> QED
      BY <3>1, <3>2
  <2>4. Follows(g, n + 1, s)
    BY <2>3 DEF Follows
  <2> QED
    BY <2>4
<1>3. \A n \in Nat : n \in T
  <2> HIDE DEF T
  <2> QED
    BY <1>1, <1>2, Induction
<1> QED
  BY <1>3

LEMMA OriginsDef ==
  ASSUME NEW X, NEW s \in Seq(X)
  PROVE  LET f == Origins(s)
         IN  f[0] = None /\ \A i \in 1 .. Len(s) : f[i] = BasisAfter(f[i - 1], s[i])
<1> DEFINE f == Origins(s)
<1>1. Len(s) \in Nat
  OBVIOUS
<1>2. \E g : Follows(g, Len(s), s)
  BY <1>1, OriginsExist
<1>3. f = CHOOSE g : Follows(g, Len(s), s)
  BY DEF Origins, Follows
<1>4. Follows(f, Len(s), s)
  BY <1>2, <1>3
<1>5. \A i \in 0 .. Len(s) : f[i] = IF i = 0 THEN None ELSE BasisAfter(f[i - 1], s[i])
  BY <1>4 DEF Follows
<1> QED
  BY <1>1, <1>5

(* The origin of the book that a replay of these frames ends with.         *)
LastOrigin(frames) == Origins(frames)[Len(frames)]

(* One frame more is one event more.                                       *)
LEMMA LastOriginAppend ==
  ASSUME NEW X, NEW s \in Seq(X), NEW x \in X
  PROVE  LastOrigin(Append(s, x)) = BasisAfter(LastOrigin(s), x)
<1> DEFINE t == Append(s, x)
           k == Len(s)
           f == Origins(s)
           g == Origins(t)
           T == {n \in Nat : n <= k => g[n] = f[n]}
<1>1. /\ t \in Seq(X) /\ Len(t) = k + 1 /\ k \in Nat /\ t[k + 1] = x
      /\ \A i \in 1 .. k : t[i] = s[i]
  OBVIOUS
<1> HIDE DEF t
<1>2. f[0] = None /\ \A i \in 1 .. Len(s) : f[i] = BasisAfter(f[i - 1], s[i])
  BY OriginsDef
<1>3. g[0] = None /\ \A i \in 1 .. Len(t) : g[i] = BasisAfter(g[i - 1], t[i])
  BY <1>1, OriginsDef
<1> HIDE DEF f, g, k
<1>4. 0 \in T
  BY <1>2, <1>3
<1>5. ASSUME NEW n \in Nat, n \in T
      PROVE  n + 1 \in T
  <2> SUFFICES ASSUME n + 1 <= k PROVE g[n + 1] = f[n + 1]
    OBVIOUS
  <2>1. /\ g[n] = f[n]
        /\ n + 1 \in 1 .. k /\ n + 1 \in 1 .. Len(t) /\ n + 1 \in 1 .. Len(s) /\ (n + 1) - 1 = n
    BY <1>1, <1>5 DEF k
  <2>2. t[n + 1] = s[n + 1]
    BY <1>1, <2>1
  <2>3. f[n + 1] = BasisAfter(f[n], s[n + 1])
    BY <1>2, <2>1
  <2>4. g[n + 1] = BasisAfter(g[n], t[n + 1])
    BY <1>3, <2>1
  <2> QED
    BY <2>1, <2>2, <2>3, <2>4
<1>6. \A n \in Nat : n \in T
  <2> HIDE DEF T
  <2> QED
    BY <1>4, <1>5, Induction
<1>7. g[k] = f[k]
  BY <1>1, <1>6
<1>8. g[k + 1] = BasisAfter(g[k], x)
  <2>1. k + 1 \in 1 .. Len(t) /\ (k + 1) - 1 = k
    BY <1>1
  <2>2. g[k + 1] = BasisAfter(g[k], t[k + 1])
    BY <1>3, <2>1
  <2> QED
    BY <1>1, <2>2
<1> QED
  BY <1>1, <1>7, <1>8 DEF LastOrigin, f, g, k, t

(* At any time, a book the engine has is the one that a replay of what it  *)
(* handled has: the statuses that no journal holds only take it away.      *)
BookIsOfWhatWasHandled == basis # None => basis = LastOrigin(applied)

LEMMA HandledBookStep ==
  ASSUME CompletionInv, BookIsOfWhatWasHandled, [Next]_vars
  PROVE  BookIsOfWhatWasHandled'
<1>1. CASE HandleEvent
  <2> DEFINE e == Head(channel)
  <2>1. channel # <<>> /\ channel \in Seq(Event) /\ applied \in Seq(Frame)
    BY <1>1, HandedTypes DEF HandleEvent
  <2>2. e \in Event
    BY <2>1
  <2>3. /\ basis' = BasisAfter(basis, e)
        /\ applied' = IF e.kind \in FrameKind THEN Append(applied, e) ELSE applied
    BY <1>1 DEF HandleEvent
  <2>4. e.kind \in FrameKind => e \in Frame
    <3>1. applied' \in Seq(Frame)
      BY <1>1, CompletionStep, <2>1 DEF CompletionInv, CaptureInv, TypeOK
    <3>2. e.kind \in FrameKind => e \in Decodable
      <4>1. e = channel[1] /\ 1 \in 1 .. Len(channel)
        BY <2>1
      <4>2. e.kind \in FrameKind => e.session > 0
        BY <4>1 DEF CompletionInv, CaptureInv, EventsHaveSessions
      <4> QED
        BY <2>2, <4>2 DEF Decodable, Decodes, Frame, Event
    <3> QED
      BY <3>2 DEF Decodable
  <2> HIDE DEF e
  <2>5. CASE e.kind \in FrameKind
    <3>1. LastOrigin(applied') = BasisAfter(LastOrigin(applied), e)
      BY <2>1, <2>3, <2>4, <2>5, LastOriginAppend
    <3> QED
      BY <2>3, <3>1 DEF BookIsOfWhatWasHandled, BasisAfter
  <2>6. CASE e.kind \notin FrameKind
    <3>1. e.kind # "snapshot" /\ applied' = applied
      BY <2>3, <2>6 DEF FrameKind
    <3>2. basis' = None \/ basis' = basis
      BY <2>3, <3>1 DEF BasisAfter
    <3> QED
      BY <3>1, <3>2 DEF BookIsOfWhatWasHandled
  <2> QED
    BY <2>5, <2>6
<1>2. CASE ~HandleEvent
  <2>1. UNCHANGED <<basis, applied>>
    BY <1>2 DEF Next, vars, SourceStep, CheckCancel, ReportConnecting, ReportConnected, AppendFails,
       Publish, ReportDisconnected, BackOff, MockFrame, MockLoopEnds, MockFlushFails, Connect,
       ReceiveFrame, LoseConnection, SeeCancel, WriterStep, WriteRecord, Flush, MockFlush, Close,
       WriterFails, ConsumerStep, ConsumerEnds, ConsumerPanics, SupervisorStep, SourceEnded,
       TimeIsUp, JoinSource, FlushFails, Drain, Interrupt, ServeEnds, SelectFails, Stop,
       Send, SendFails, journalVars, engineVars
  <2> QED
    BY <2>1 DEF BookIsOfWhatWasHandled
<1> QED
  BY <1>1, <1>2

(* A live run that returns with a book has the book that a replay of its   *)
(* journal ends with: what a replay has beyond the run is only what the    *)
(* run had dropped.                                                        *)
THEOREM LastBooksAreReplayed == Spec => []LastBookIsReplayed
<1>1. Init => BookIsOfWhatWasHandled
  BY DEF Init, BookIsOfWhatWasHandled
<1>2. CompletionInv /\ BookIsOfWhatWasHandled /\ [Next]_vars => BookIsOfWhatWasHandled'
  BY HandledBookStep
<1>3. CompleteOnReturn /\ BookIsOfWhatWasHandled => LastBookIsReplayed
  BY DEF CompleteOnReturn, BookIsOfWhatWasHandled, LastBookIsReplayed, ReplayedBasis, LastOrigin
<1> QED
  BY <1>1, <1>2, <1>3, CompletionInvariance, ReturnIsComplete, PTL DEF Spec

=============================================================================
