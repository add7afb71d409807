------------------------------ MODULE Journal -------------------------------
(***************************************************************************)
(* src/journal.rs: the writer task behind its bounded queue, the buffered  *)
(* append-only file, crashes, and what a reader makes of the file.         *)
(*                                                                         *)
(* The file is the header and then three pieces for each record: length,   *)
(* checksum and payload, each a write_all of its own.  A single writer     *)
(* appends them, so the file is known by how many pieces of the stream it  *)
(* holds.  BufWriter hands its buffer to the file only between two pieces, *)
(* but a failing write or a crash may leave a part of the next piece       *)
(* (ragged).                                                               *)
(***************************************************************************)
EXTENDS Integers, Sequences

CONSTANTS
  Clients,    \* tasks that hold a clone of the sink
  Records,    \* raw envelopes; each is appended at most once
  Capacity,   \* capacity of the command queue
  None

ASSUME JournalAssumption ==
  /\ Capacity \in Nat \ {0}
  /\ None \notin Records

VARIABLES
  task,       \* the writer task: "down" without a process, "running", "stopped"
  queue,      \* commands in the channel
  current,    \* the command the task works on, or None
  stream,     \* the records written since the file was created
  written,    \* pieces that left the writer, buffered ones included
  filed,      \* pieces that are in the file
  synced,     \* pieces that survive a crash of the machine
  ragged,     \* whether a part of a piece follows them in the file
  waiting,    \* the clients that wait for the answer to a command
  sent,       \* history: the records handed to the sink
  accepted,   \* history: the records this process acknowledged
  safe        \* history: the records acknowledged before a successful flush

fileVars == <<stream, written, filed, synced, ragged>>
vars == <<task, queue, current, stream, written, filed, synced, ragged,
          waiting, sent, accepted, safe>>

Command == [kind   : {"append", "flush", "shutdown"},
            client : Clients,
            record : Records \cup {None}]

TypeOK ==
  /\ task \in {"down", "running", "stopped"}
  /\ queue \in Seq(Command) /\ Len(queue) <= Capacity
  /\ current \in Command \cup {None}
  /\ stream \in Seq(Records)
  /\ written \in Nat
  /\ filed \in 0 .. written
  /\ synced \in 0 .. filed
  /\ ragged \in BOOLEAN
  /\ waiting \subseteq Clients
  /\ sent \subseteq Records
  /\ accepted \subseteq sent
  /\ safe \subseteq sent

Init ==
  /\ task = "down"
  /\ queue = <<>>
  /\ current = None
  /\ stream = <<>>
  /\ written = 0 /\ filed = 0 /\ synced = 0
  /\ ragged = FALSE
  /\ waiting = {}
  /\ sent = {} /\ accepted = {} /\ safe = {}

-----------------------------------------------------------------------------
(* The pieces. *)

PiecesPerRecord == 3

(* After the header, pieces of a record that is not complete. *)
Fragments(n) == IF n = 0 THEN 0 ELSE (n - 1) % PiecesPerRecord

WholeRecords(n) == IF n = 0 THEN 0 ELSE (n - 1) \div PiecesPerRecord

(* Records of which the first n pieces hold at least one piece. *)
BegunRecords(n) == WholeRecords(n) + (IF Fragments(n) = 0 THEN 0 ELSE 1)

Contents(n) == {stream[i] : i \in 1 .. WholeRecords(n)}

(* next_record reaches a clean end of file: no read_exact hits the end of  *)
(* the file, neither in the header nor in a record.                        *)
ReadsToTheEnd == ~ragged /\ Fragments(filed) = 0

-----------------------------------------------------------------------------
(***************************************************************************)
(* Opening and closing.                                                    *)
(***************************************************************************)

(* Mutant: an existing journal is not validated. *)
Open_Unvalidated ==
  /\ task = "down"
  /\ task' = "running"
  /\ filed' = IF filed = 0 THEN 1 ELSE filed
  /\ written' = filed'
  /\ accepted' = {}
  /\ UNCHANGED <<queue, current, stream, synced, ragged, waiting, sent, safe>>

(* JournalSink::spawn and JournalWriter::open: an existing file must read  *)
(* to its end; an empty one gets the header, flushed but not synced.       *)
Open ==
  /\ task = "down"
  /\ ReadsToTheEnd
  /\ task' = "running"
  /\ filed' = IF filed = 0 THEN 1 ELSE filed
  /\ written' = filed'
  /\ accepted' = {}
  /\ UNCHANGED <<queue, current, stream, synced, ragged, waiting, sent, safe>>

(* The file keeps its first n pieces, perhaps with a part of the next one, *)
(* and nothing is buffered any more.                                       *)
CutTo(n) ==
  /\ filed' = n
  /\ written' = n
  /\ stream' = SubSeq(stream, 1, BegunRecords(n))
  /\ ragged' \in IF n < written THEN BOOLEAN ELSE {ragged, FALSE}

(* The task returns: the channel closes, the commands in it are dropped    *)
(* and with them the senders of their answers.                             *)
DropReceiver ==
  /\ queue' = <<>>
  /\ current' = None
  /\ waiting' = {}

(* The runtime is dropped around an idle task; BufWriter's Drop flushes.   *)
Abandon ==
  /\ task = "running" /\ current = None
  /\ task' = "down"
  /\ filed' = written
  /\ DropReceiver
  /\ UNCHANGED <<stream, written, synced, ragged, sent, accepted, safe>>

(* The process exits after the task did. *)
Exit ==
  /\ task = "stopped"
  /\ task' = "down"
  /\ waiting' = {}
  /\ UNCHANGED <<queue, current, fileVars, sent, accepted, safe>>

(* The process is killed, or the machine crashes and pieces that were not  *)
(* synced may be lost.                                                     *)
Crash ==
  /\ task' = "down"
  /\ \E n \in synced .. filed : CutTo(n)
  /\ DropReceiver
  /\ UNCHANGED <<synced, sent, accepted, safe>>

-----------------------------------------------------------------------------
(***************************************************************************)
(* The sink's callers.  A call on a stopped task fails and changes nothing.*)
(***************************************************************************)
(* Mutant: an unbounded channel. *)
Enqueue_Unbounded(client, kind, record) ==
  /\ task = "running"
  /\ client \notin waiting
  /\ queue' = Append(queue, [kind |-> kind, client |-> client, record |-> record])
  /\ waiting' = waiting \cup {client}

(* send().await on the bounded channel, then a wait for the answer. *)
Enqueue(client, kind, record) ==
  /\ task = "running"
  /\ client \notin waiting
  /\ Len(queue) < Capacity
  /\ queue' = Append(queue, [kind |-> kind, client |-> client, record |-> record])
  /\ waiting' = waiting \cup {client}

CallAppend(client, record) ==
  /\ record \notin sent
  /\ Enqueue(client, "append", record)
  /\ sent' = sent \cup {record}
  /\ UNCHANGED <<task, current, fileVars, accepted, safe>>

CallFlush(client) ==
  /\ Enqueue(client, "flush", None)
  /\ UNCHANGED <<task, current, fileVars, sent, accepted, safe>>

CallShutdown(client) ==
  /\ Enqueue(client, "shutdown", None)
  /\ UNCHANGED <<task, current, fileVars, sent, accepted, safe>>

-----------------------------------------------------------------------------
(***************************************************************************)
(* The writer task.                                                        *)
(***************************************************************************)
Receive ==
  /\ task = "running" /\ current = None
  /\ queue # <<>>
  /\ current' = Head(queue)
  /\ queue' = Tail(queue)
  /\ UNCHANGED <<task, fileVars, waiting, sent, accepted, safe>>

Answer ==
  /\ current' = None
  /\ waiting' = waiting \ {current.client}

(* Mutant: the record is acknowledged before it is written. *)
Put_AcknowledgesFirst ==
  /\ current # None /\ current.kind = "append"
  /\ written' = written + 1
  /\ stream' = IF Fragments(written) = 0 THEN Append(stream, current.record) ELSE stream
  /\ filed' \in {filed, written} \cup
                (IF Fragments(written') = 0 THEN {written'} ELSE {})
  /\ accepted' = accepted \cup {current.record}
  /\ IF Fragments(written') = 0 THEN Answer ELSE UNCHANGED <<current, waiting>>
  /\ UNCHANGED <<task, queue, synced, ragged, sent, safe>>

(* One write_all of an append.  The piece is buffered; if it does not fit, *)
(* the buffer goes to the file first, and a payload larger than the buffer *)
(* follows it there.  After the payload the record is acknowledged.        *)
Put ==
  /\ current # None /\ current.kind = "append"
  /\ written' = written + 1
  /\ stream' = IF Fragments(written) = 0 THEN Append(stream, current.record) ELSE stream
  /\ IF Fragments(written') = 0
     THEN /\ filed' \in {filed, written, written'}
          /\ accepted' = accepted \cup {current.record}
          /\ Answer
     ELSE /\ filed' \in {filed, written}
          /\ UNCHANGED <<current, waiting, accepted>>
  /\ UNCHANGED <<task, queue, synced, ragged, sent, safe>>

(* BufWriter::flush, the first half of JournalWriter::flush. *)
FlushBuffer ==
  /\ current # None /\ current.kind # "append"
  /\ filed < written
  /\ filed' = written
  /\ UNCHANGED <<task, queue, current, stream, written, synced, ragged,
                 waiting, sent, accepted, safe>>

(* Mutant: only the buffer is flushed. *)
SyncData_Skipped ==
  /\ current # None /\ current.kind # "append"
  /\ filed = written
  /\ safe' = safe \cup accepted
  /\ IF current.kind = "shutdown"
     THEN task' = "stopped" /\ DropReceiver
     ELSE Answer /\ UNCHANGED <<task, queue>>
  /\ UNCHANGED <<fileVars, sent, accepted>>

(* Mutant: the file is synced while records are still buffered. *)
SyncData_Unflushed ==
  /\ current # None /\ current.kind # "append"
  /\ synced' = filed
  /\ safe' = safe \cup accepted
  /\ IF current.kind = "shutdown"
     THEN task' = "stopped" /\ DropReceiver
     ELSE Answer /\ UNCHANGED <<task, queue>>
  /\ UNCHANGED <<stream, written, filed, ragged, sent, accepted>>

(* sync_data, the second half.  A shutdown leaves the loop after it. *)
SyncData ==
  /\ current # None /\ current.kind # "append"
  /\ filed = written
  /\ synced' = filed
  /\ safe' = safe \cup accepted
  /\ IF current.kind = "shutdown"
     THEN task' = "stopped" /\ DropReceiver
     ELSE Answer /\ UNCHANGED <<task, queue>>
  /\ UNCHANGED <<stream, written, filed, ragged, sent, accepted>>

(* Mutant: an error ends the task but the channel stays open. *)
Fail_KeepsQueue ==
  /\ current # None
  /\ task' = "stopped"
  /\ \E n \in filed .. written : CutTo(n)
  /\ Answer
  /\ UNCHANGED <<queue, synced, sent, accepted, safe>>

(* A record that is too large, a write or a sync fails: the caller gets an *)
(* error and the task returns.  The writer is dropped with what it had.    *)
Fail ==
  /\ current # None
  /\ task' = "stopped"
  /\ \E n \in filed .. written : CutTo(n)
  /\ DropReceiver
  /\ UNCHANGED <<synced, sent, accepted, safe>>

-----------------------------------------------------------------------------
Next ==
  \/ Open \/ Abandon \/ Exit \/ Crash
  \/ \E client \in Clients :
       \/ \E record \in Records : CallAppend(client, record)
       \/ CallFlush(client)
       \/ CallShutdown(client)
  \/ Receive \/ Put \/ FlushBuffer \/ SyncData \/ Fail

Spec == Init /\ [][Next]_vars

(* The runtime polls the writer task as long as it is not waiting.         *)
Fairness ==
  /\ WF_vars(Receive)
  /\ WF_vars(Put)
  /\ WF_vars(FlushBuffer)
  /\ WF_vars(SyncData)

FairSpec == Spec /\ Fairness

-----------------------------------------------------------------------------
(***************************************************************************)
(* Properties.                                                             *)
(***************************************************************************)

(* A record acknowledged before a flush or shutdown succeeded is complete  *)
(* in what survives a crash of the machine, now and ever after.            *)
SafeSurvives == safe \subseteq Contents(synced)

(* The writer acknowledges a record only when all of it was written, and a *)
(* running writer still has every record it acknowledged.                  *)
AcceptedIsWhole == task = "running" => accepted \subseteq Contents(written)

(* Between two commands the stream ends with a whole record: the first     *)
(* piece of a record never follows fragments of another one, not even of   *)
(* an earlier process.                                                     *)
RecordsAreAligned ==
  task = "running" /\ current = None => Fragments(written) = 0 /\ ~ragged

(* Every call whose command is in the queue returns: with an answer, or    *)
(* because the task that held the answer is gone.  A caller that still     *)
(* waits for room in the queue has made no call here yet.                  *)
EveryCallReturns ==
  \A client \in Clients : client \in waiting ~> client \notin waiting

(* README: accepted records "can be checksummed, replayed": once no        *)
(* process writes, a journal with records that were flushed reads to its   *)
(* end.                                                                    *)
SafeIsReplayable == task = "down" /\ safe # {} => ReadsToTheEnd

(* The journal is a durable log of the records it has in full.             *)
Log == INSTANCE DurableLog WITH
         log     <- SubSeq(stream, 1, WholeRecords(written)),
         durable <- WholeRecords(synced)

ImplementsDurableLog == Log!LogSpec

=============================================================================
