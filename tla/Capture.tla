------------------------------ MODULE Capture -------------------------------
(***************************************************************************)
(* One live run: run_source of src/main.rs with the tasks it starts.       *)
(*                                                                         *)
(*   source      the Coinbase source (src/source/coinbase.rs): connects,   *)
(*               receives frames, journals each before it publishes it;    *)
(*               in mode UntilSourceStops the mock source                  *)
(*               (src/source/mock.rs), which makes its frames itself       *)
(*   writer      the journal's writer task (module Journal has its inside) *)
(*   consumer    the event task, which feeds the engine                    *)
(*   supervisor  run_source itself: waits for a reason to stop, then       *)
(*               cancels, joins, flushes, closes and drains                *)
(*                                                                         *)
(* Of the engine's state (module Engine) only the origin of the book is    *)
(* kept, for one product: the connection its snapshot came from.           *)
(***************************************************************************)
EXTENDS Lists

CONSTANTS
  Modes,         \* run modes to consider
  Capacity,      \* capacity of the event channel
  MaxSessions,   \* bound on the connections that are opened
  MaxFrames,     \* bound on the frames that are journaled
  MockEvents,    \* deltas that the mock source makes
  None

ASSUME CaptureAssumption ==
  /\ Modes \subseteq {"UntilSourceStops", "UntilInterrupted", "ForDuration", "Mcp"}
  /\ Capacity \in Nat \ {0}
  /\ MaxSessions \in Nat
  /\ MaxFrames \in Nat
  /\ MockEvents \in Nat
  /\ "UntilSourceStops" \in Modes => MaxSessions > 0 /\ MockEvents < MaxFrames
  /\ None \notin Nat

VARIABLES
  config,       \* the run mode, and whether validate_products accepts
  source,       \* where the source is; "failed" is an end with an error
  session,      \* connections opened so far; the last one is current
  frame,        \* the frame the source works on, or None
  cancel,       \* the watch channel's value
  writer,       \* "running", "stopped" after a shutdown, "dead" after an error
  journal,      \* frames the writer acknowledged
  durable,      \* how many of them were synced
  channel,      \* events in the channel
  consumer,     \* "running", "done", "dead" after a panic
  applied,      \* history: the frames the engine handled
  basis,        \* the connection the book's snapshot came from, or None
  supervisor    \* where run_source is

vars == <<config, source, session, frame, cancel, writer, journal, durable,
          channel, consumer, applied, basis, supervisor>>

journalVars  == <<writer, journal, durable>>
engineVars   == <<consumer, applied, basis>>

(* Frames by what the decoder makes of them: "note" is any event that does *)
(* not touch the book (heartbeat, match, subscriptions), "ignored" decodes *)
(* to nothing, "garbage" does not decode.                                  *)
FrameKind == {"snapshot", "delta", "error", "note", "ignored", "garbage"}
Frame == [session : 1 .. MaxSessions, kind : FrameKind]

Decodes(f) == f.kind \notin {"ignored", "garbage"}

Decodable == {f \in Frame : Decodes(f)}

(* The statuses that the source reports on its own are not journaled. *)
OwnStatus == {"connecting", "connected", "disconnected"}
Event == [session : 0 .. MaxSessions, kind : (FrameKind \cup OwnStatus) \ {"ignored", "garbage"}]

TypeOK ==
  /\ config \in [mode : Modes, valid : BOOLEAN]
  /\ source \in {"checking", "opening", "connecting", "greeting", "streaming",
                 "appending", "publishing", "reporting", "waiting",
                 "mocking", "checkpointing", "ended", "failed"}
  /\ session \in 0 .. MaxSessions
  /\ frame \in Frame \cup {None}
  /\ cancel \in BOOLEAN
  /\ writer \in {"running", "stopped", "dead"}
  /\ journal \in Seq(Frame) /\ Len(journal) <= MaxFrames
  /\ durable \in 0 .. Len(journal)
  /\ channel \in Seq(Event) /\ Len(channel) <= Capacity
  /\ consumer \in {"running", "done", "dead"}
  /\ applied \in Seq(Frame)
  /\ basis \in 1 .. MaxSessions \cup {None}
  /\ supervisor \in {"waiting", "joining", "flushing", "closing", "draining",
                     "returned", "failed", "aborted"}

IsMock == config.mode = "UntilSourceStops"

SourceIsDone == source \in {"ended", "failed"}

Init ==
  /\ config \in [mode : Modes, valid : BOOLEAN]
  /\ source = IF IsMock THEN "mocking" ELSE "checking"
  /\ session = IF IsMock THEN 1 ELSE 0
  /\ frame = None
  /\ cancel = FALSE
  /\ writer = "running" /\ journal = <<>> /\ durable = 0
  /\ channel = <<>>
  /\ consumer = "running" /\ applied = <<>> /\ basis = None
  /\ supervisor = "waiting"

-----------------------------------------------------------------------------
(***************************************************************************)
(* The source.                                                             *)
(***************************************************************************)

(* Mutant: an unbounded channel. *)
Send_Unbounded(kind, next) ==
  /\ consumer # "dead"
  /\ channel' = Append(channel, [session |-> session, kind |-> kind])
  /\ source' = next

(* send().await on the event channel: it waits for room, *)
Send(kind, next) ==
  /\ consumer # "dead"
  /\ Len(channel) < Capacity
  /\ channel' = Append(channel, [session |-> session, kind |-> kind])
  /\ source' = next

(* and fails once the receiver is gone. *)
SendFails(next) ==
  /\ consumer = "dead"
  /\ source' = next
  /\ UNCHANGED channel

(* run_session returned: run ends if it was cancelled and reports otherwise. *)
(* The mock source has no sessions: its first error is its last.           *)
AfterSession ==
  IF IsMock THEN "failed" ELSE IF cancel THEN "ended" ELSE "reporting"

AfterFrame == IF IsMock THEN "mocking" ELSE "streaming"

(* The top of run's loop, and validate_products. *)
CheckCancel ==
  /\ source = "checking"
  /\ source' = IF cancel THEN "ended"
               ELSE IF config.valid THEN "opening" ELSE AfterSession
  /\ UNCHANGED <<config, session, frame, cancel, journalVars, channel, engineVars, supervisor>>

ReportConnecting ==
  /\ source = "opening"
  /\ Send("connecting", "connecting") \/ SendFails(AfterSession)
  /\ UNCHANGED <<config, session, frame, cancel, journalVars, engineVars, supervisor>>

(* connect_async and the subscription. *)
Connect ==
  /\ source = "connecting"
  /\ \/ /\ session < MaxSessions
        /\ session' = session + 1
        /\ source' = "greeting"
     \/ /\ source' = AfterSession
        /\ UNCHANGED session
  /\ UNCHANGED <<config, frame, cancel, journalVars, channel, engineVars, supervisor>>

ReportConnected ==
  /\ source = "greeting"
  /\ Send("connected", "streaming") \/ SendFails(AfterSession)
  /\ UNCHANGED <<config, session, frame, cancel, journalVars, engineVars, supervisor>>

(* Mutant: the frame is published before it is journaled. *)
ReceiveFrame_Publishes ==
  /\ source = "streaming"
  /\ Len(journal) < MaxFrames
  /\ \E kind \in FrameKind :
       /\ frame' = [session |-> session, kind |-> kind]
       /\ IF Decodes(frame') THEN Send(kind, "appending")
          ELSE source' = "appending" /\ UNCHANGED channel
  /\ UNCHANGED <<config, session, cancel, journalVars, engineVars, supervisor>>

(* A text frame arrives.  Other messages change nothing. *)
ReceiveFrame ==
  /\ source = "streaming"
  /\ Len(journal) < MaxFrames
  /\ \E kind \in FrameKind : frame' = [session |-> session, kind |-> kind]
  /\ source' = "appending"
  /\ UNCHANGED <<config, session, cancel, journalVars, channel, engineVars, supervisor>>

(* The stream ends, fails or is closed by the exchange. *)
LoseConnection ==
  /\ source = "streaming"
  /\ source' = AfterSession
  /\ UNCHANGED <<config, session, frame, cancel, journalVars, channel, engineVars, supervisor>>

(* journal.append fails: no writer takes the record. *)
AppendFails ==
  /\ source = "appending"
  /\ writer # "running"
  /\ source' = AfterSession
  /\ frame' = None
  /\ UNCHANGED <<config, session, cancel, journalVars, channel, engineVars, supervisor>>

(* The record was acknowledged: decode the frame and publish the event.    *)
(* An error message of the exchange ends the session after that.           *)
Publish ==
  /\ source = "publishing"
  /\ \/ /\ frame.kind = "garbage"
        /\ source' = AfterSession
        /\ UNCHANGED channel
     \/ /\ frame.kind = "ignored"
        /\ source' = AfterFrame
        /\ UNCHANGED channel
     \/ /\ Decodes(frame)
        /\ \/ Send(frame.kind, IF frame.kind = "error" THEN AfterSession ELSE AfterFrame)
           \/ SendFails(AfterSession)
  /\ frame' = None
  /\ UNCHANGED <<config, session, cancel, journalVars, engineVars, supervisor>>

(* Mutant: the end of a session is not reported. *)
ReportDisconnected_Silent ==
  /\ source = "reporting"
  /\ source' = "waiting"
  /\ UNCHANGED <<config, session, frame, cancel, journalVars, channel, engineVars, supervisor>>

ReportDisconnected ==
  /\ source = "reporting"
  /\ Send("disconnected", "waiting") \/ SendFails("failed")
  /\ UNCHANGED <<config, session, frame, cancel, journalVars, engineVars, supervisor>>

BackOff ==
  /\ source = "waiting"
  /\ source' = "checking"
  /\ UNCHANGED <<config, session, frame, cancel, journalVars, channel, engineVars, supervisor>>

(* Mutant: the select of a session has no cancel branch. *)
SeeCancel_BackOffOnly ==
  /\ source = "waiting"
  /\ cancel \/ supervisor = "aborted"
  /\ source' = "ended"
  /\ UNCHANGED <<config, session, frame, cancel, journalVars, channel, engineVars, supervisor>>

(* The cancel branch of both selects: the value is true, or the sender was *)
(* dropped with run_source.                                                *)
SeeCancel ==
  /\ source \in {"streaming", "waiting"}
  /\ cancel \/ supervisor = "aborted"
  /\ source' = IF source = "streaming" /\ ~cancel THEN "reporting" ELSE "ended"
  /\ UNCHANGED <<config, session, frame, cancel, journalVars, channel, engineVars, supervisor>>

-----------------------------------------------------------------------------
(***************************************************************************)
(* The mock source.  It journals and publishes its frames with the actions *)
(* AppendFails, WriteRecord and Publish.                                   *)
(***************************************************************************)

(* Mutant: the snapshot counts as one of the events. *)
MockHasMore_CountsSnapshot ==
  Len(journal) = 0 \/ (Len(journal) < MockEvents /\ ~cancel)

(* One snapshot, whatever happens, and then the deltas of the loop.        *)
MockHasMore == Len(journal) = 0 \/ (Len(journal) <= MockEvents /\ ~cancel)

MockFrame ==
  /\ source = "mocking"
  /\ MockHasMore
  /\ frame' = [session |-> session, kind |-> IF journal = <<>> THEN "snapshot" ELSE "delta"]
  /\ source' = "appending"
  /\ UNCHANGED <<config, session, cancel, journalVars, channel, engineVars, supervisor>>

(* The loop is over; what follows is a flush. *)
MockLoopEnds ==
  /\ source = "mocking"
  /\ ~MockHasMore
  /\ source' = "checkpointing"
  /\ UNCHANGED <<config, session, frame, cancel, journalVars, channel, engineVars, supervisor>>

MockFlushFails ==
  /\ source = "checkpointing"
  /\ writer # "running"
  /\ source' = "failed"
  /\ UNCHANGED <<config, session, frame, cancel, journalVars, channel, engineVars, supervisor>>

-----------------------------------------------------------------------------
(***************************************************************************)
(* The writer, as its two callers see it: module Journal has the details.  *)
(***************************************************************************)
WriteRecord ==
  /\ writer = "running" /\ source = "appending"
  /\ journal' = Append(journal, frame)
  /\ source' = "publishing"
  /\ UNCHANGED <<config, session, frame, cancel, writer, durable, channel, engineVars, supervisor>>

Flush ==
  /\ writer = "running" /\ supervisor = "flushing"
  /\ durable' = Len(journal)
  /\ supervisor' = "closing"
  /\ UNCHANGED <<config, source, session, frame, cancel, writer, journal, channel, engineVars>>

MockFlush ==
  /\ writer = "running" /\ source = "checkpointing"
  /\ durable' = Len(journal)
  /\ source' = "ended"
  /\ UNCHANGED <<config, session, frame, cancel, writer, journal, channel, engineVars, supervisor>>

Close ==
  /\ writer = "running" /\ supervisor = "closing"
  /\ writer' = "stopped"
  /\ durable' = Len(journal)
  /\ supervisor' = "draining"
  /\ UNCHANGED <<config, source, session, frame, cancel, journal, channel, engineVars>>

(* A write or a sync fails, and the caller that waits for it is told so.   *)
WriterFails ==
  /\ writer = "running"
  /\ source \in {"appending", "checkpointing"} \/ supervisor \in {"flushing", "closing"}
  /\ writer' = "dead"
  /\ UNCHANGED <<config, source, session, frame, cancel, journal, durable, channel, engineVars, supervisor>>

-----------------------------------------------------------------------------
(***************************************************************************)
(* The event task.                                                         *)
(***************************************************************************)

(* Mutant: a status leaves the books alone. *)
BasisAfter_KeepsBook(b, event) == IF event.kind = "snapshot" THEN event.session ELSE b

(* A snapshot replaces the book; a status that loses the connection resets *)
(* it; nothing else changes where it came from.                            *)
BasisAfter(b, event) ==
  IF event.kind = "snapshot" THEN event.session
  ELSE IF event.kind \in {"connecting", "disconnected", "error"} THEN None
  ELSE b

HandleEvent ==
  /\ consumer = "running" /\ channel # <<>>
  /\ LET event == Head(channel)
     IN  /\ basis' = BasisAfter(basis, event)
         /\ applied' = IF event.kind \in FrameKind THEN Append(applied, event) ELSE applied
  /\ channel' = Tail(channel)
  /\ UNCHANGED <<config, source, session, frame, cancel, journalVars, consumer, supervisor>>

(* Mutant: run_source keeps a sender of its own. *)
ConsumerEnds_SecondSender ==
  /\ consumer = "running" /\ channel = <<>> /\ supervisor = "returned"
  /\ consumer' = "done"
  /\ UNCHANGED <<config, source, session, frame, cancel, journalVars, channel, applied, basis, supervisor>>

(* The channel is empty and its only sender is gone. *)
ConsumerEnds ==
  /\ consumer = "running" /\ channel = <<>> /\ SourceIsDone
  /\ consumer' = "done"
  /\ UNCHANGED <<config, source, session, frame, cancel, journalVars, channel, applied, basis, supervisor>>

(* The decimals of a book overflow and its handler panics: the receiver is *)
(* dropped.                                                                *)
ConsumerPanics ==
  /\ consumer = "running" /\ channel # <<>>
  /\ Head(channel).kind \in {"snapshot", "delta"}
  /\ consumer' = "dead"
  /\ channel' = <<>>
  /\ UNCHANGED <<config, source, session, frame, cancel, journalVars, applied, basis, supervisor>>

-----------------------------------------------------------------------------
(***************************************************************************)
(* The supervisor.                                                         *)
(***************************************************************************)

(* A branch of the mode's select is taken, and cancel is sent. *)
Stop(mode) ==
  /\ supervisor = "waiting"
  /\ config.mode \in mode
  /\ supervisor' = "joining"
  /\ cancel' = TRUE
  /\ UNCHANGED <<config, source, session, frame, journalVars, channel, engineVars>>

(* A mock run does not listen for Ctrl-C. *)
LiveModes == {"UntilInterrupted", "ForDuration", "Mcp"}

Interrupt   == Stop(LiveModes)
TimeIsUp    == Stop({"ForDuration"})
ServeEnds   == Stop({"Mcp"})
SourceEnded == SourceIsDone /\ Stop(Modes)

(* serve_stdio or the Ctrl-C listener fails: run_source returns at once.   *)
SelectFails ==
  /\ supervisor = "waiting"
  /\ config.mode \in LiveModes
  /\ supervisor' = "aborted"
  /\ UNCHANGED <<config, source, session, frame, cancel, journalVars, channel, engineVars>>

JoinSource ==
  /\ supervisor = "joining" /\ SourceIsDone
  /\ supervisor' = "flushing"
  /\ UNCHANGED <<config, source, session, frame, cancel, journalVars, channel, engineVars>>

(* flush or shutdown fails: run_source returns without the event task. *)
FlushFails ==
  /\ supervisor \in {"flushing", "closing"} /\ writer = "dead"
  /\ supervisor' = "failed"
  /\ UNCHANGED <<config, source, session, frame, cancel, journalVars, channel, engineVars>>

(* Mutant: the event task is not awaited. *)
Drain_Skipped ==
  /\ supervisor = "draining"
  /\ supervisor' = IF consumer = "dead" \/ source = "failed" THEN "failed" ELSE "returned"
  /\ UNCHANGED <<config, source, session, frame, cancel, journalVars, channel, engineVars>>

(* The event task is awaited, and its panic or the source's error returned. *)
Drain ==
  /\ supervisor = "draining" /\ consumer # "running"
  /\ supervisor' = IF consumer = "dead" \/ source = "failed" THEN "failed" ELSE "returned"
  /\ UNCHANGED <<config, source, session, frame, cancel, journalVars, channel, engineVars>>

-----------------------------------------------------------------------------
SourceStep ==
  \/ CheckCancel \/ ReportConnecting \/ ReportConnected \/ AppendFails
  \/ Publish \/ ReportDisconnected \/ BackOff
  \/ MockFrame \/ MockLoopEnds \/ MockFlushFails

WriterStep == WriteRecord \/ Flush \/ MockFlush \/ Close

ConsumerStep == HandleEvent \/ ConsumerEnds

SupervisorStep == SourceEnded \/ TimeIsUp \/ JoinSource \/ FlushFails \/ Drain

Next ==
  \/ SourceStep \/ Connect \/ ReceiveFrame \/ LoseConnection \/ SeeCancel
  \/ WriterStep \/ WriterFails
  \/ ConsumerStep \/ ConsumerPanics
  \/ SupervisorStep \/ Interrupt \/ ServeEnds \/ SelectFails

Spec == Init /\ [][Next]_vars

(* Tasks are scheduled; a timer fires; and since select! polls in random   *)
(* order, a cancel that is signalled again and again is seen however many  *)
(* frames arrive.                                                          *)
FairSpec ==
  /\ Spec
  /\ WF_vars(SourceStep)
  /\ SF_vars(SeeCancel)
  /\ WF_vars(WriterStep)
  /\ WF_vars(ConsumerStep)
  /\ WF_vars(SupervisorStep)

(* The exchange, moreover, answers every attempt to connect.               *)
AnsweringSpec == FairSpec /\ WF_vars(Connect)

-----------------------------------------------------------------------------
(***************************************************************************)
(* Properties.                                                             *)
(***************************************************************************)

(* No delta is ever applied to the book of another connection, although    *)
(* events of several connections may wait in the channel together.         *)
NoMixedBooks ==
  channel # <<>> /\ Head(channel).kind = "delta" /\ basis # None =>
    Head(channel).session = basis

(* While there is no connection, no book is trusted longer than it takes   *)
(* the event task to empty the channel.                                    *)
NoBookOffline ==
  source \in {"connecting", "waiting"} /\ channel = <<>> /\ consumer = "running" =>
    basis = None

(* run_source returns normally only after every frame in the journal is    *)
(* durable, and every one that decodes was handled by the engine.          *)
CompleteOnReturn ==
  supervisor = "returned" =>
    /\ channel = <<>>
    /\ durable = Len(journal)
    /\ applied = Selected(journal, Decodable)

(* A run that is told to stop stops, whatever failed before or meanwhile.  *)
StopIsHonoured == cancel ~> supervisor \in {"returned", "failed"}

(* A mock run that returns normally journaled and handled its snapshot and *)
(* every one of its events (scripts/verify.sh counts 101 for 100 events).  *)
MockRunIsComplete ==
  IsMock /\ supervisor = "returned" => Len(applied) = MockEvents + 1

(* A mock run ends by itself: nobody waits for a task that waits for him.  *)
MockRunEnds == IsMock ~> supervisor \in {"returned", "failed"}

(* replay_coinbase_journal fails on the first frame that does not decode.  *)
Replayable == \A i \in DOMAIN journal : journal[i].kind # "garbage"

(* Where the book of a replay stems from, after each of the frames. *)
Origins(frames) ==
  LET after[n \in 0 .. Len(frames)] ==
        IF n = 0 THEN None ELSE BasisAfter(after[n - 1], frames[n])
  IN  after

(* The records of the mock source are skipped. *)
ReplayedBasis ==
  LET frames == IF IsMock THEN <<>> ELSE Selected(journal, Decodable)
  IN  Origins(frames)[Len(frames)]

(* A book that a Coinbase run still has at its end is the one a replay of  *)
(* its journal ends with: no reconnect, and no status that the journal     *)
(* lacks, makes the replay end with the book of another connection.        *)
LastBookIsReplayed ==
  ~IsMock /\ supervisor = "returned" /\ Replayable /\ basis # None => basis = ReplayedBasis

(* The engine never runs ahead of the journal, nor skips a frame.          *)
Ahead == INSTANCE WriteAhead WITH log <- journal

ImplementsWriteAhead == Ahead!AheadSpec

-----------------------------------------------------------------------------
(***************************************************************************)
(* What the documentation says and the code does not do.                   *)
(***************************************************************************)

(* "If the writer disappears ... capture fails": the source of a run with  *)
(* a valid configuration, one that does connect, ends, with an error or    *)
(* without, once the writer has died.                                      *)
WriterFailureStopsCapture == config.valid /\ writer = "dead" ~> SourceIsDone

(* "rebuild the ending market state": after a run that ended normally, a   *)
(* replay trusts the same book as the engine did at its end.               *)
ReplayRebuildsState ==
  supervisor = "returned" /\ Replayable => basis = ReplayedBasis

=============================================================================
