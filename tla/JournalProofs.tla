---------------------------- MODULE JournalProofs -----------------------------
(***************************************************************************)
(* The safety properties of Journal and its refinement of DurableLog, for  *)
(* any clients, records and queue capacity.                                *)
(***************************************************************************)
EXTENDS Journal, SequenceTheorems, TLAPS

(* What is known of a command that waits or is worked on. *)
IsSent(command) == command.kind = "append" => command.record \in sent

CommandsAreSent ==
  /\ \A i \in 1 .. Len(queue) : IsSent(queue[i])
  /\ current # None => IsSent(current)

(* The stream has the records of which a piece was written. *)
StreamMatchesPieces == Len(stream) = BegunRecords(written)

(* Only a running task has a command, and only within an append is a       *)
(* record incomplete; then it is the one the append is about.              *)
TaskIsInStep ==
  /\ current # None => task = "running"
  /\ task # "running" => filed = written
  /\ task = "running" => /\ written > 0
                         /\ ~ragged
                         /\ Fragments(written) # 0 =>
                              /\ current # None /\ current.kind = "append"
                              /\ stream[Len(stream)] = current.record

JournalInv ==
  /\ TypeOK
  /\ CommandsAreSent
  /\ StreamMatchesPieces
  /\ TaskIsInStep
  /\ AcceptedIsWhole
  /\ SafeSurvives

-----------------------------------------------------------------------------
(* One piece more: it begins a record, goes on with one or completes one.  *)
LEMMA NextPiece ==
  ASSUME NEW n \in Nat \ {0}
  PROVE  /\ Fragments(n) \in 0 .. 2 /\ WholeRecords(n) \in Nat
         /\ Fragments(n) = 2 => /\ Fragments(n + 1) = 0
                                /\ WholeRecords(n + 1) = WholeRecords(n) + 1
         /\ Fragments(n) # 2 => /\ Fragments(n + 1) = Fragments(n) + 1
                                /\ WholeRecords(n + 1) = WholeRecords(n)
<1>1. /\ Fragments(n) = (n - 1) % 3 /\ WholeRecords(n) = (n - 1) \div 3
      /\ Fragments(n + 1) = n % 3 /\ WholeRecords(n + 1) = n \div 3
  BY DEF Fragments, WholeRecords, PiecesPerRecord
<1> QED
  BY <1>1

LEMMA FirstPiece ==
  /\ Fragments(0) = 0 /\ WholeRecords(0) = 0 /\ BegunRecords(0) = 0
  /\ Fragments(1) = 0 /\ WholeRecords(1) = 0 /\ BegunRecords(1) = 0
BY DEF Fragments, WholeRecords, BegunRecords, PiecesPerRecord

(* More pieces never make fewer records. *)
LEMMA MorePieces ==
  ASSUME NEW m \in Nat, NEW n \in Nat, m <= n
  PROVE  /\ WholeRecords(m) \in Nat /\ BegunRecords(m) \in Nat
         /\ WholeRecords(m) <= BegunRecords(m)
         /\ WholeRecords(m) <= WholeRecords(n)
         /\ BegunRecords(m) <= BegunRecords(n)
<1> DEFINE q == (m - 1) \div 3
           s == (n - 1) \div 3
<1>1. /\ m # 0 => WholeRecords(m) = q /\ Fragments(m) = (m - 1) % 3
      /\ n # 0 => WholeRecords(n) = s /\ Fragments(n) = (n - 1) % 3
      /\ m = 0 => WholeRecords(m) = 0 /\ Fragments(m) = 0
      /\ n = 0 => WholeRecords(n) = 0 /\ Fragments(n) = 0
  BY DEF Fragments, WholeRecords, PiecesPerRecord
<1>2. CASE m = 0 /\ n = 0
  BY <1>1, <1>2 DEF BegunRecords
<1>3. CASE n # 0
  <2>1. s \in Nat /\ (n - 1) % 3 \in 0 .. 2 /\ n - 1 = (3 * s) + ((n - 1) % 3)
    BY <1>3
  <2>2. CASE m = 0
    BY <1>1, <1>3, <2>1, <2>2 DEF BegunRecords
  <2>3. CASE m # 0
    <3>1. q \in Nat /\ (m - 1) % 3 \in 0 .. 2 /\ m - 1 = (3 * q) + ((m - 1) % 3)
      BY <2>3
    <3>2. /\ q <= s
          /\ q = s => (m - 1) % 3 <= (n - 1) % 3
      BY <2>1, <3>1
    <3> HIDE DEF q, s
    <3> QED
      BY <1>1, <1>3, <2>1, <2>3, <3>1, <3>2 DEF BegunRecords
  <2> QED
    BY <2>2, <2>3
<1> QED
  BY <1>2, <1>3

-----------------------------------------------------------------------------
LEMMA JournalInvInit == Init => JournalInv
<1> SUFFICES ASSUME Init PROVE JournalInv
  OBVIOUS
<1>1. queue \in Seq(Command) /\ Len(queue) <= Capacity /\ stream \in Seq(Records)
  BY JournalAssumption DEF Init, JournalAssumption
<1>2. written \in Nat /\ filed \in 0 .. written /\ synced \in 0 .. filed
  BY DEF Init
<1>3. task \in {"down", "running", "stopped"} /\ current \in Command \cup {None}
      /\ ragged \in BOOLEAN
  BY DEF Init
<1>4. waiting \subseteq Clients /\ sent \subseteq Records /\ accepted \subseteq sent
      /\ safe \subseteq sent
  BY DEF Init
<1>5. TypeOK
  BY <1>1, <1>2, <1>3, <1>4 DEF TypeOK
<1> QED
  BY <1>5, FirstPiece DEF Init, JournalInv, Contents, CommandsAreSent, StreamMatchesPieces,
     TaskIsInStep, AcceptedIsWhole, SafeSurvives

(* Cutting keeps what is synced, and the records of the pieces it keeps.   *)
LEMMA CutKeepsSynced ==
  ASSUME JournalInv, NEW n \in synced .. written, CutTo(n)
  PROVE  /\ stream' \in Seq(Records) /\ Len(stream') = BegunRecords(n)
         /\ \A i \in 1 .. BegunRecords(n) : stream'[i] = stream[i]
         /\ safe \subseteq {stream'[i] : i \in 1 .. WholeRecords(synced)}
         /\ written' = n /\ filed' = n /\ ragged' \in BOOLEAN
<1>1. /\ synced \in Nat /\ n \in Nat /\ written \in Nat /\ synced <= n /\ n <= written
      /\ stream \in Seq(Records) /\ Len(stream) = BegunRecords(written)
      /\ safe \subseteq {stream[i] : i \in 1 .. WholeRecords(synced)}
      /\ ragged \in BOOLEAN
  BY DEF JournalInv, TypeOK, StreamMatchesPieces, SafeSurvives, Contents
<1>2. /\ WholeRecords(synced) \in Nat /\ WholeRecords(synced) <= BegunRecords(n)
      /\ BegunRecords(n) \in Nat /\ BegunRecords(n) <= Len(stream)
  <2>1. WholeRecords(synced) <= WholeRecords(n) /\ WholeRecords(synced) \in Nat
    BY <1>1, MorePieces
  <2>2. /\ WholeRecords(n) <= BegunRecords(n) /\ BegunRecords(n) <= BegunRecords(written)
        /\ WholeRecords(n) \in Nat /\ BegunRecords(n) \in Nat /\ BegunRecords(written) \in Nat
    BY <1>1, MorePieces
  <2> QED
    BY <1>1, <2>1, <2>2
<1>3. stream' = SubSeq(stream, 1, BegunRecords(n))
  BY DEF CutTo
<1>4. /\ stream' \in Seq(Records) /\ Len(stream') = BegunRecords(n)
      /\ \A i \in 1 .. BegunRecords(n) : stream'[i] = stream[i]
  BY <1>1, <1>2, <1>3
<1>5. \A i \in 1 .. WholeRecords(synced) : stream'[i] = stream[i]
  BY <1>2, <1>4
<1> QED
  BY <1>1, <1>4, <1>5 DEF CutTo

(* A step to a state without a running task needs no more than this.       *)
LEMMA StoppedStepKeepsInv ==
  ASSUME JournalInv, NEW n \in synced .. written, CutTo(n), DropReceiver,
         task' \in {"down", "stopped"}, UNCHANGED <<synced, sent, accepted, safe>>
  PROVE  JournalInv'
<1>1. /\ stream' \in Seq(Records) /\ Len(stream') = BegunRecords(n)
      /\ safe \subseteq {stream'[i] : i \in 1 .. WholeRecords(synced)}
      /\ written' = n /\ filed' = n /\ ragged' \in BOOLEAN
  BY CutKeepsSynced
<1>2. n \in Nat /\ synced \in 0 .. n
  BY DEF JournalInv, TypeOK
<1>3. TypeOK'
  BY <1>1, <1>2, JournalAssumption DEF JournalInv, TypeOK, DropReceiver, JournalAssumption
<1>4. CommandsAreSent' /\ StreamMatchesPieces' /\ TaskIsInStep' /\ AcceptedIsWhole'
  BY <1>1 DEF JournalInv, CommandsAreSent, StreamMatchesPieces, TaskIsInStep,
     AcceptedIsWhole, DropReceiver
<1>5. SafeSurvives'
  BY <1>1 DEF SafeSurvives, Contents, WholeRecords
<1> QED
  BY <1>3, <1>4, <1>5 DEF JournalInv

LEMMA CrashKeepsInv == ASSUME JournalInv, Crash PROVE JournalInv'
<1>1. PICK n \in synced .. filed : CutTo(n)
  BY DEF Crash
<1>2. n \in synced .. written
  BY <1>1 DEF JournalInv, TypeOK
<1> QED
  BY <1>1, <1>2, StoppedStepKeepsInv DEF Crash

LEMMA FailKeepsInv == ASSUME JournalInv, Fail PROVE JournalInv'
<1>1. PICK n \in filed .. written : CutTo(n)
  BY DEF Fail
<1>2. n \in synced .. written
  BY <1>1 DEF JournalInv, TypeOK
<1> QED
  BY <1>1, <1>2, StoppedStepKeepsInv DEF Fail

(* A new file gets its header, which is no record's piece; another one was *)
(* read to its end, so it ends with a whole record.                        *)
LEMMA OpenKeepsInv == ASSUME JournalInv, Open PROVE JournalInv'
<1>1. /\ filed = written /\ written \in Nat /\ synced \in 0 .. filed
      /\ ~ragged /\ Fragments(written) = 0 /\ current = None
  BY DEF JournalInv, TypeOK, TaskIsInStep, Open, ReadsToTheEnd
<1>2. /\ written' = filed' /\ written' \in Nat /\ written' > 0
      /\ written' = written \/ (written = 0 /\ written' = 1)
  BY <1>1 DEF Open
<1>3. Fragments(written') = 0 /\ BegunRecords(written') = BegunRecords(written)
  BY <1>1, <1>2, FirstPiece
<1>4. TypeOK'
  <2>1. synced' \in 0 .. filed' /\ filed' \in 0 .. written'
    BY <1>1, <1>2 DEF Open
  <2> QED
    BY <1>2, <2>1 DEF JournalInv, TypeOK, Open
<1>5. CommandsAreSent' /\ StreamMatchesPieces' /\ TaskIsInStep' /\ AcceptedIsWhole'
  BY <1>1, <1>2, <1>3 DEF JournalInv, CommandsAreSent, IsSent, StreamMatchesPieces, TaskIsInStep,
     AcceptedIsWhole, Open
<1>6. SafeSurvives'
  BY DEF JournalInv, SafeSurvives, Contents, WholeRecords, Open
<1> QED
  BY <1>4, <1>5, <1>6 DEF JournalInv

LEMMA AbandonKeepsInv == ASSUME JournalInv, Abandon PROVE JournalInv'
<1>1. TypeOK'
  <2>1. filed' \in 0 .. written' /\ synced' \in 0 .. filed'
    BY DEF JournalInv, TypeOK, Abandon
  <2> QED
    BY <2>1, JournalAssumption DEF JournalInv, TypeOK, Abandon, DropReceiver, JournalAssumption
<1>2. CommandsAreSent' /\ StreamMatchesPieces' /\ TaskIsInStep' /\ AcceptedIsWhole'
  BY DEF JournalInv, CommandsAreSent, StreamMatchesPieces, TaskIsInStep, AcceptedIsWhole,
     BegunRecords, Abandon, DropReceiver
<1>3. SafeSurvives'
  BY DEF JournalInv, SafeSurvives, Contents, Abandon
<1> QED
  BY <1>1, <1>2, <1>3 DEF JournalInv

LEMMA ExitKeepsInv == ASSUME JournalInv, Exit PROVE JournalInv'
<1>1. TypeOK'
  BY DEF JournalInv, TypeOK, Exit, fileVars
<1>2. CommandsAreSent' /\ StreamMatchesPieces' /\ TaskIsInStep' /\ AcceptedIsWhole'
  BY DEF JournalInv, CommandsAreSent, IsSent, StreamMatchesPieces, TaskIsInStep, AcceptedIsWhole,
     BegunRecords, Exit, fileVars
<1>3. SafeSurvives'
  BY DEF JournalInv, SafeSurvives, Contents, Exit, fileVars
<1> QED
  BY <1>1, <1>2, <1>3 DEF JournalInv

-----------------------------------------------------------------------------
(* A call of a client adds a command about a record that was sent.         *)
LEMMA EnqueueKeepsInv ==
  ASSUME JournalInv, NEW client \in Clients, NEW kind \in {"append", "flush", "shutdown"},
         NEW record \in Records \cup {None}, Enqueue(client, kind, record),
         sent \subseteq sent', sent' \subseteq Records, kind = "append" => record \in sent',
         UNCHANGED <<task, current, fileVars, accepted, safe>>
  PROVE  JournalInv'
<1> DEFINE command == [kind |-> kind, client |-> client, record |-> record]
<1>1. command \in Command /\ queue \in Seq(Command) /\ queue' = Append(queue, command)
      /\ Len(queue) < Capacity /\ Capacity \in Nat
  BY JournalAssumption DEF Command, JournalInv, TypeOK, Enqueue, JournalAssumption
<1>2. /\ queue' \in Seq(Command) /\ Len(queue') = Len(queue) + 1 /\ Len(queue) \in Nat
      /\ \A i \in 1 .. Len(queue) : queue'[i] = queue[i]
      /\ queue'[Len(queue) + 1] = command
  BY <1>1
<1>3. TypeOK'
  <2>1. queue' \in Seq(Command) /\ Len(queue') <= Capacity
    BY <1>1, <1>2
  <2>2. waiting' \subseteq Clients /\ sent' \subseteq Records
        /\ accepted' \subseteq sent' /\ safe' \subseteq sent'
    BY DEF JournalInv, TypeOK, Enqueue
  <2> QED
    BY <2>1, <2>2 DEF JournalInv, TypeOK, fileVars
<1>4. CommandsAreSent'
  <2>1. ASSUME NEW i \in 1 .. Len(queue'), queue'[i].kind = "append"
        PROVE  queue'[i].record \in sent'
    <3>1. CASE i \in 1 .. Len(queue)
      BY <1>2, <2>1, <3>1 DEF JournalInv, CommandsAreSent, IsSent
    <3>2. CASE i = Len(queue) + 1
      BY <1>2, <2>1, <3>2
    <3> QED
      BY <1>2, <3>1, <3>2
  <2>2. current # None => (current.kind = "append" => current.record \in sent')
    BY DEF JournalInv, CommandsAreSent, IsSent
  <2> QED
    BY <2>1, <2>2 DEF CommandsAreSent, IsSent
<1>5. StreamMatchesPieces' /\ TaskIsInStep' /\ AcceptedIsWhole' /\ SafeSurvives'
  BY DEF JournalInv, StreamMatchesPieces, TaskIsInStep, AcceptedIsWhole, SafeSurvives,
     Contents, BegunRecords, fileVars
<1> QED
  BY <1>3, <1>4, <1>5 DEF JournalInv

LEMMA CallKeepsInv ==
  ASSUME JournalInv, NEW client \in Clients,
         \/ \E record \in Records : CallAppend(client, record)
         \/ CallFlush(client)
         \/ CallShutdown(client)
  PROVE  JournalInv'
<1>1. sent \subseteq Records
  BY DEF JournalInv, TypeOK
<1>2. CASE \E record \in Records : CallAppend(client, record)
  <2>1. PICK record \in Records : CallAppend(client, record)
    BY <1>2
  <2> QED
    BY <1>1, <2>1, EnqueueKeepsInv DEF CallAppend
<1>3. CASE CallFlush(client)
  BY <1>1, <1>3, EnqueueKeepsInv DEF CallFlush
<1>4. CASE CallShutdown(client)
  BY <1>1, <1>4, EnqueueKeepsInv DEF CallShutdown
<1> QED
  BY <1>2, <1>3, <1>4

LEMMA ReceiveKeepsInv == ASSUME JournalInv, Receive PROVE JournalInv'
<1>1. /\ queue \in Seq(Command) /\ queue # <<>> /\ current' = queue[1] /\ queue' = Tail(queue)
      /\ Len(queue) <= Capacity /\ Capacity \in Nat
  BY JournalAssumption DEF JournalInv, TypeOK, Receive, JournalAssumption
<1>2. /\ Len(queue) \in Nat \ {0} /\ queue' \in Seq(Command) /\ current' \in Command
      /\ Len(queue') = Len(queue) - 1
      /\ \A i \in 1 .. Len(queue') : queue'[i] = queue[i + 1] /\ i + 1 \in 1 .. Len(queue)
      /\ 1 \in 1 .. Len(queue)
  BY <1>1
<1>3. TypeOK'
  <2>1. Len(queue') <= Capacity
    BY <1>1, <1>2
  <2> QED
    BY <1>2, <2>1 DEF JournalInv, TypeOK, Receive, fileVars
<1>4. CommandsAreSent'
  BY <1>1, <1>2 DEF JournalInv, CommandsAreSent, IsSent, Receive
<1>5. StreamMatchesPieces' /\ TaskIsInStep' /\ AcceptedIsWhole' /\ SafeSurvives'
  BY DEF JournalInv, StreamMatchesPieces, TaskIsInStep, AcceptedIsWhole, SafeSurvives,
     Contents, BegunRecords, Receive, fileVars
<1> QED
  BY <1>3, <1>4, <1>5 DEF JournalInv

-----------------------------------------------------------------------------
LEMMA FlushBufferKeepsInv == ASSUME JournalInv, FlushBuffer PROVE JournalInv'
<1>1. filed' \in 0 .. written' /\ synced' \in 0 .. filed'
  BY DEF JournalInv, TypeOK, FlushBuffer
<1>2. TypeOK'
  BY <1>1 DEF JournalInv, TypeOK, FlushBuffer
<1>3. CommandsAreSent' /\ StreamMatchesPieces' /\ TaskIsInStep' /\ AcceptedIsWhole' /\ SafeSurvives'
  BY DEF JournalInv, CommandsAreSent, IsSent, StreamMatchesPieces, TaskIsInStep, AcceptedIsWhole,
     SafeSurvives, Contents, BegunRecords, FlushBuffer
<1> QED
  BY <1>2, <1>3 DEF JournalInv

(* The sync makes all that was acknowledged safe: a running writer has it, *)
(* and the buffer is empty.                                                *)
LEMMA SyncDataKeepsInv == ASSUME JournalInv, SyncData PROVE JournalInv'
<1>1. /\ task = "running" /\ current # None /\ filed = written
      /\ synced' = written /\ written' = written /\ filed' = filed
      /\ stream' = stream /\ ragged' = ragged /\ accepted' = accepted /\ sent' = sent
      /\ safe' = safe \cup accepted
      /\ current' = None /\ (task' = "running" \/ task' = "stopped")
      /\ Fragments(written) = 0
  BY DEF JournalInv, TaskIsInStep, SyncData, DropReceiver, Answer
<1>2. TypeOK'
  <2>1. synced' \in 0 .. filed' /\ filed' \in 0 .. written' /\ written' \in Nat
    BY <1>1 DEF JournalInv, TypeOK
  <2>2. queue' \in Seq(Command) /\ Len(queue') <= Capacity /\ waiting' \subseteq Clients
    <3>1. CASE current.kind = "shutdown"
      BY <3>1, JournalAssumption DEF SyncData, DropReceiver, JournalAssumption
    <3>2. CASE current.kind # "shutdown"
      BY <3>2 DEF JournalInv, TypeOK, SyncData, Answer
    <3> QED
      BY <3>1, <3>2
  <2> QED
    BY <1>1, <2>1, <2>2 DEF JournalInv, TypeOK
<1>3. CommandsAreSent'
  <2>1. queue' = queue \/ queue' = <<>>
    BY DEF SyncData, DropReceiver, Answer
  <2> QED
    BY <1>1, <2>1 DEF JournalInv, CommandsAreSent, IsSent
<1>4. StreamMatchesPieces' /\ TaskIsInStep' /\ AcceptedIsWhole'
  BY <1>1 DEF JournalInv, StreamMatchesPieces, TaskIsInStep, AcceptedIsWhole, Contents, BegunRecords
<1>5. SafeSurvives'
  <2>1. accepted \subseteq {stream[k] : k \in 1 .. WholeRecords(written)}
    BY <1>1 DEF JournalInv, AcceptedIsWhole, Contents
  <2>2. WholeRecords(synced) \in Nat /\ WholeRecords(written) \in Nat
        /\ WholeRecords(synced) <= WholeRecords(written)
    <3>1. synced \in Nat /\ written \in Nat /\ synced <= written
      BY DEF JournalInv, TypeOK
    <3> QED
      BY <3>1, MorePieces
  <2>3. safe \subseteq {stream[k] : k \in 1 .. WholeRecords(written)}
    BY <2>2 DEF JournalInv, SafeSurvives, Contents
  <2> QED
    BY <1>1, <2>1, <2>3 DEF SafeSurvives, Contents
<1> QED
  BY <1>2, <1>3, <1>4, <1>5 DEF JournalInv

(* What one write_all of an append does to the stream: it begins a record, *)
(* goes on with it, or completes it.                                       *)
LEMMA PutOnStream ==
  ASSUME JournalInv, Put
  PROVE  /\ current # None /\ current \in Command /\ current.kind = "append"
         /\ current.record \in sent /\ current.record \in Records
         /\ written \in Nat \ {0} /\ written' = written + 1
         /\ WholeRecords(written) \in Nat /\ Fragments(written) \in 0 .. 2
         /\ \/ /\ Fragments(written) = 0 /\ Fragments(written') = 1
               /\ WholeRecords(written') = WholeRecords(written)
               /\ Len(stream) = WholeRecords(written)
               /\ stream' = Append(stream, current.record)
            \/ /\ Fragments(written) = 1 /\ Fragments(written') = 2
               /\ WholeRecords(written') = WholeRecords(written)
               /\ Len(stream) = WholeRecords(written) + 1
               /\ stream' = stream /\ stream[Len(stream)] = current.record
            \/ /\ Fragments(written) = 2 /\ Fragments(written') = 0
               /\ WholeRecords(written') = WholeRecords(written) + 1
               /\ Len(stream) = WholeRecords(written) + 1
               /\ stream' = stream /\ stream[Len(stream)] = current.record
<1>1. current # None /\ current.kind = "append" /\ current \in Command /\ task = "running"
      /\ current.record \in sent /\ sent \subseteq Records
  BY DEF JournalInv, TypeOK, CommandsAreSent, IsSent, TaskIsInStep, Put
<1>2. written \in Nat \ {0} /\ written' = written + 1
  BY <1>1 DEF JournalInv, TypeOK, TaskIsInStep, Put
<1>3. /\ Fragments(written) \in 0 .. 2 /\ WholeRecords(written) \in Nat
      /\ Fragments(written) = 2 => /\ Fragments(written + 1) = 0
                                   /\ WholeRecords(written + 1) = WholeRecords(written) + 1
      /\ Fragments(written) # 2 => /\ Fragments(written + 1) = Fragments(written) + 1
                                   /\ WholeRecords(written + 1) = WholeRecords(written)
  BY <1>2, NextPiece
<1>4. Len(stream) = WholeRecords(written) + (IF Fragments(written) = 0 THEN 0 ELSE 1)
  BY DEF JournalInv, StreamMatchesPieces, BegunRecords
<1>5. stream' = IF Fragments(written) = 0 THEN Append(stream, current.record) ELSE stream
  BY DEF Put
<1>6. Fragments(written) # 0 => stream[Len(stream)] = current.record
  BY <1>1 DEF JournalInv, TaskIsInStep
<1>7. Fragments(written') = Fragments(written + 1) /\ WholeRecords(written') = WholeRecords(written + 1)
  BY <1>2
<1>8. CASE Fragments(written) = 0
  BY <1>1, <1>2, <1>3, <1>4, <1>5, <1>7, <1>8
<1>9. CASE Fragments(written) = 1
  BY <1>1, <1>2, <1>3, <1>4, <1>5, <1>6, <1>7, <1>9
<1>10. CASE Fragments(written) = 2
  BY <1>1, <1>2, <1>3, <1>4, <1>5, <1>6, <1>7, <1>10
<1> QED
  BY <1>3, <1>8, <1>9, <1>10

LEMMA PutKeepsInv == ASSUME JournalInv, Put PROVE JournalInv'
<1> DEFINE W == WholeRecords(written)
<1>1. /\ current # None /\ current.kind = "append"
      /\ current.record \in sent /\ current.record \in Records
      /\ written \in Nat \ {0} /\ written' = written + 1
      /\ W \in Nat
  BY PutOnStream
<1>2. /\ stream \in Seq(Records) /\ filed \in 0 .. written /\ synced \in 0 .. filed
      /\ task = "running" /\ task' = task /\ ragged' = ragged /\ ~ragged
      /\ synced' = synced /\ safe' = safe /\ sent' = sent /\ queue' = queue
  BY DEF JournalInv, TypeOK, TaskIsInStep, Put
<1>3. stream' \in Seq(Records) /\ \A k \in 1 .. Len(stream) : stream'[k] = stream[k]
  <2>1. stream' = stream \/ stream' = Append(stream, current.record)
    BY DEF Put
  <2> QED
    BY <1>1, <1>2, <2>1
<1>4. /\ filed' \in {filed, written, written'}
      /\ accepted' \subseteq accepted \cup {current.record}
      /\ current' \in {current, None}
      /\ waiting' \subseteq waiting
  BY DEF Put, Answer
<1>5. TypeOK'
  <2>1. written' \in Nat /\ filed' \in 0 .. written' /\ synced' \in 0 .. filed'
    BY <1>1, <1>2, <1>4
  <2>2. accepted' \subseteq sent /\ waiting' \subseteq Clients /\ current' \in Command \cup {None}
    BY <1>1, <1>4 DEF JournalInv, TypeOK
  <2> QED
    BY <1>2, <1>3, <2>1, <2>2 DEF JournalInv, TypeOK
<1>6. CommandsAreSent'
  BY <1>2, <1>4 DEF JournalInv, CommandsAreSent, IsSent
<1>7. StreamMatchesPieces'
  <2>1. Len(stream') = WholeRecords(written') + (IF Fragments(written') = 0 THEN 0 ELSE 1)
    BY <1>2, PutOnStream
  <2> QED
    BY <2>1 DEF StreamMatchesPieces, BegunRecords
<1>8. TaskIsInStep'
  <2>1. written' > 0
    BY <1>1
  <2>2. Fragments(written') # 0 => /\ current' = current
                                   /\ stream'[Len(stream')] = current.record
    <3>1. Fragments(written') # 0 => current' = current
      BY DEF Put
    <3> QED
      BY <1>2, <3>1, PutOnStream
  <2> QED
    BY <1>1, <1>2, <2>1, <2>2 DEF TaskIsInStep
<1>9. AcceptedIsWhole'
  <2>1. accepted \subseteq {stream[k] : k \in 1 .. W}
    BY <1>2 DEF JournalInv, AcceptedIsWhole, Contents
  <2>2. W <= Len(stream) /\ W <= WholeRecords(written') /\ WholeRecords(written') \in Nat
    BY <1>1, <1>2, PutOnStream
  <2>3. accepted \subseteq {stream'[k] : k \in 1 .. WholeRecords(written')}
    <3>1. \A k \in 1 .. W : stream'[k] = stream[k] /\ k \in 1 .. WholeRecords(written')
      BY <1>1, <1>2, <1>3, <2>2
    <3> QED
      BY <2>1, <3>1
  <2>4. CASE Fragments(written') = 0
    <3>1. /\ WholeRecords(written') \in 1 .. WholeRecords(written')
          /\ stream'[WholeRecords(written')] = current.record
      BY <1>1, <1>2, <2>4, PutOnStream
    <3> QED
      BY <1>4, <2>3, <3>1 DEF AcceptedIsWhole, Contents
  <2>5. CASE Fragments(written') # 0
    <3>1. accepted' = accepted
      BY <2>5 DEF Put
    <3> QED
      BY <2>3, <3>1 DEF AcceptedIsWhole, Contents
  <2> QED
    BY <2>4, <2>5
<1>10. SafeSurvives'
  <2>1. WholeRecords(synced) \in Nat /\ WholeRecords(synced) <= BegunRecords(written)
        /\ Len(stream) = BegunRecords(written) /\ BegunRecords(written) \in Nat
    <3>1. synced \in Nat /\ written \in Nat /\ synced <= written
      BY <1>1, <1>2
    <3>2. /\ WholeRecords(synced) \in Nat /\ BegunRecords(synced) \in Nat
          /\ WholeRecords(synced) <= BegunRecords(synced)
          /\ BegunRecords(synced) <= BegunRecords(written)
          /\ BegunRecords(written) \in Nat
      BY <3>1, MorePieces
    <3> QED
      BY <3>2 DEF JournalInv, StreamMatchesPieces
  <2>2. \A k \in 1 .. WholeRecords(synced) : stream'[k] = stream[k]
    BY <1>3, <2>1
  <2>3. safe \subseteq {stream[k] : k \in 1 .. WholeRecords(synced)}
    BY DEF JournalInv, SafeSurvives, Contents
  <2> QED
    BY <1>2, <2>2, <2>3 DEF SafeSurvives, Contents
<1> QED
  BY <1>5, <1>6, <1>7, <1>8, <1>9, <1>10 DEF JournalInv

LEMMA StutterKeepsInv == ASSUME JournalInv, UNCHANGED vars PROVE JournalInv'
BY DEF JournalInv, TypeOK, CommandsAreSent, IsSent, StreamMatchesPieces, BegunRecords, TaskIsInStep,
   AcceptedIsWhole, SafeSurvives, Contents, vars

LEMMA StepKeepsInv == ASSUME JournalInv, [Next]_vars PROVE JournalInv'
<1>1. CASE UNCHANGED vars
  BY <1>1, StutterKeepsInv
<1>2. CASE Open \/ Abandon \/ Exit \/ Crash
  BY <1>2, OpenKeepsInv, AbandonKeepsInv, ExitKeepsInv, CrashKeepsInv
<1>3. CASE \E client \in Clients : \/ \E record \in Records : CallAppend(client, record)
                                   \/ CallFlush(client)
                                   \/ CallShutdown(client)
  BY <1>3, CallKeepsInv
<1>4. CASE Receive \/ Put \/ FlushBuffer \/ SyncData \/ Fail
  BY <1>4, ReceiveKeepsInv, PutKeepsInv, FlushBufferKeepsInv, SyncDataKeepsInv, FailKeepsInv
<1> QED
  BY <1>1, <1>2, <1>3, <1>4 DEF Next

(* The inductive invariant: what was handed to the sink, how many pieces   *)
(* of it are where, and what the task is in the middle of.                 *)
THEOREM JournalInvariance == Spec => []JournalInv
<1> QED
  BY JournalInvInit, StepKeepsInv, PTL DEF Spec

(* Every variable keeps its type: the queue its capacity, and what is in   *)
(* the file is at most what was written, what is synced at most that.      *)
THEOREM JournalTypes == Spec => []TypeOK
<1>1. JournalInv => TypeOK
  BY DEF JournalInv
<1> QED
  BY <1>1, JournalInvariance, PTL

(* JournalWriter::flush is enough: whatever was acknowledged before it     *)
(* returned is complete in what survives any crash afterwards.             *)
THEOREM FlushedRecordsSurvive == Spec => []SafeSurvives
<1>1. JournalInv => SafeSurvives
  BY DEF JournalInv
<1> QED
  BY <1>1, JournalInvariance, PTL

(* A running writer has every record it acknowledged.                      *)
THEOREM AcknowledgedIsWritten == Spec => []AcceptedIsWhole
<1>1. JournalInv => AcceptedIsWhole
  BY DEF JournalInv
<1> QED
  BY <1>1, JournalInvariance, PTL

(* A writer never begins a record behind a part of another one, not even   *)
(* behind what an earlier process left.                                    *)
THEOREM NoRecordFollowsAFragment == Spec => []RecordsAreAligned
<1>1. JournalInv => RecordsAreAligned
  BY DEF JournalInv, TaskIsInStep, RecordsAreAligned
<1> QED
  BY <1>1, JournalInvariance, PTL

-----------------------------------------------------------------------------
(***************************************************************************)
(* The refinement of DurableLog.                                           *)
(***************************************************************************)
Whole == SubSeq(stream, 1, WholeRecords(written))

LEMMA LogFacts ==
  ASSUME JournalInv
  PROVE  /\ stream \in Seq(Records)
         /\ WholeRecords(written) \in 0 .. Len(stream)
         /\ WholeRecords(synced) \in 0 .. WholeRecords(written)
         /\ Len(Whole) = WholeRecords(written)
<1>1. /\ stream \in Seq(Records) /\ synced \in Nat /\ written \in Nat
      /\ synced <= written /\ written <= written
  BY DEF JournalInv, TypeOK
<1>2. /\ WholeRecords(synced) \in Nat /\ WholeRecords(written) \in Nat
      /\ WholeRecords(synced) <= WholeRecords(written)
      /\ WholeRecords(written) <= BegunRecords(written) /\ BegunRecords(written) \in Nat
  <2>1. /\ WholeRecords(written) \in Nat /\ BegunRecords(written) \in Nat
        /\ WholeRecords(written) <= BegunRecords(written)
    BY <1>1, MorePieces
  <2>2. WholeRecords(synced) \in Nat /\ WholeRecords(synced) <= WholeRecords(written)
    BY <1>1, MorePieces
  <2> QED
    BY <2>1, <2>2
<1>3. Len(stream) = BegunRecords(written)
  BY DEF JournalInv, StreamMatchesPieces
<1>4. WholeRecords(written) \in 0 .. Len(stream) /\ WholeRecords(synced) \in 0 .. WholeRecords(written)
  BY <1>1, <1>2, <1>3
<1> QED
  BY <1>1, <1>4 DEF Whole

LEMMA PrefixOfPrefix ==
  ASSUME NEW S, NEW s \in Seq(S), NEW n \in 0 .. Len(s), NEW m \in 0 .. n
  PROVE  SubSeq(SubSeq(s, 1, n), 1, m) = SubSeq(s, 1, m)
<1> DEFINE t == SubSeq(s, 1, n)
<1>1. t \in Seq(S) /\ Len(t) = n /\ \A i \in 1 .. n : t[i] = s[i]
  OBVIOUS
<1>2. /\ SubSeq(t, 1, m) \in Seq(S) /\ Len(SubSeq(t, 1, m)) = m
      /\ \A i \in 1 .. m : SubSeq(t, 1, m)[i] = s[i]
  BY <1>1
<1>3. /\ SubSeq(s, 1, m) \in Seq(S) /\ Len(SubSeq(s, 1, m)) = m
      /\ \A i \in 1 .. m : SubSeq(s, 1, m)[i] = s[i]
  OBVIOUS
<1> QED
  BY <1>2, <1>3, SeqEqual

LEMMA OneMore ==
  ASSUME NEW S, NEW s \in Seq(S), NEW n \in 0 .. Len(s) - 1
  PROVE  SubSeq(s, 1, n + 1) = Append(SubSeq(s, 1, n), s[n + 1])
<1>1. /\ SubSeq(s, 1, n + 1) \in Seq(S) /\ Len(SubSeq(s, 1, n + 1)) = n + 1
      /\ \A i \in 1 .. n + 1 : SubSeq(s, 1, n + 1)[i] = s[i]
  OBVIOUS
<1>2. SubSeq(s, 1, n) \in Seq(S) /\ Len(SubSeq(s, 1, n)) = n /\ s[n + 1] \in S
  OBVIOUS
<1>3. \A i \in 1 .. n : SubSeq(s, 1, n)[i] = s[i]
  OBVIOUS
<1>4. /\ Append(SubSeq(s, 1, n), s[n + 1]) \in Seq(S)
      /\ Len(Append(SubSeq(s, 1, n), s[n + 1])) = n + 1
      /\ \A i \in 1 .. n : Append(SubSeq(s, 1, n), s[n + 1])[i] = s[i]
      /\ Append(SubSeq(s, 1, n), s[n + 1])[n + 1] = s[n + 1]
  BY <1>2, <1>3
<1>5. \A i \in 1 .. n + 1 : Append(SubSeq(s, 1, n), s[n + 1])[i] = SubSeq(s, 1, n + 1)[i]
  BY <1>1, <1>4
<1> QED
  BY <1>1, <1>4, <1>5, SeqEqual

(* The last piece of a record appends it; the others leave the log alone.  *)
LEMMA PutAppends ==
  ASSUME JournalInv, Put
  PROVE  /\ Whole' = Whole \/ \E r \in Records : Whole' = Append(Whole, r)
         /\ WholeRecords(synced)' = WholeRecords(synced)
<1> DEFINE W == WholeRecords(written)
<1>1. stream \in Seq(Records) /\ W \in 0 .. Len(stream)
  BY LogFacts
<1>2. Whole' = SubSeq(stream', 1, WholeRecords(written'))
  BY DEF Whole, WholeRecords
<1>3. WholeRecords(synced)' = WholeRecords(synced)
  BY DEF Put, WholeRecords
<1>4. CASE stream' = Append(stream, current.record) /\ WholeRecords(written') = W
           /\ Len(stream) = W /\ current.record \in Records
  <2>1. stream' \in Seq(Records) /\ Len(stream') = W + 1 /\ \A k \in 1 .. W : stream'[k] = stream[k]
    BY <1>1, <1>4
  <2>2. /\ SubSeq(stream', 1, W) \in Seq(Records) /\ Len(SubSeq(stream', 1, W)) = W
        /\ \A k \in 1 .. W : SubSeq(stream', 1, W)[k] = stream[k]
    BY <1>1, <2>1
  <2>3. /\ SubSeq(stream, 1, W) \in Seq(Records) /\ Len(SubSeq(stream, 1, W)) = W
        /\ \A k \in 1 .. W : SubSeq(stream, 1, W)[k] = stream[k]
    BY <1>1
  <2>4. SubSeq(stream', 1, W) = SubSeq(stream, 1, W)
    BY <2>2, <2>3, SeqEqual
  <2> QED
    BY <1>2, <1>3, <1>4, <2>4 DEF Whole
<1>5. CASE stream' = stream /\ WholeRecords(written') = W
  BY <1>2, <1>3, <1>5 DEF Whole
<1>6. CASE stream' = stream /\ WholeRecords(written') = W + 1 /\ Len(stream) = W + 1
  <2>1. stream[W + 1] \in Records
    BY <1>1, <1>6
  <2>2. SubSeq(stream, 1, W + 1) = Append(SubSeq(stream, 1, W), stream[W + 1])
    BY <1>1, <1>6, OneMore
  <2> QED
    BY <1>2, <1>3, <1>6, <2>1, <2>2 DEF Whole
<1> QED
  BY <1>4, <1>5, <1>6, PutOnStream

(* A cut takes records from the end, none of which was synced.             *)
LEMMA CutLosesTail ==
  ASSUME JournalInv, NEW n \in synced .. written, CutTo(n), synced' = synced
  PROVE  /\ \E k \in WholeRecords(synced) .. Len(Whole) : Whole' = SubSeq(Whole, 1, k)
         /\ WholeRecords(synced)' = WholeRecords(synced)
<1>1. /\ stream \in Seq(Records) /\ WholeRecords(written) \in 0 .. Len(stream)
      /\ Len(Whole) = WholeRecords(written)
  BY LogFacts
<1>2. /\ WholeRecords(synced) \in Nat /\ WholeRecords(n) \in Nat
      /\ WholeRecords(synced) <= WholeRecords(n) /\ WholeRecords(n) <= WholeRecords(written)
      /\ WholeRecords(n) <= BegunRecords(n) /\ BegunRecords(n) <= BegunRecords(written)
      /\ BegunRecords(n) \in Nat /\ BegunRecords(written) \in Nat
  <2>1. synced \in Nat /\ n \in Nat /\ written \in Nat /\ synced <= n /\ n <= written
    BY DEF JournalInv, TypeOK
  <2> QED
    BY <2>1, MorePieces
<1>3. Len(stream) = BegunRecords(written)
  BY DEF JournalInv, StreamMatchesPieces
<1>4. Whole' = SubSeq(SubSeq(stream, 1, BegunRecords(n)), 1, WholeRecords(n))
  BY DEF Whole, WholeRecords, CutTo
<1>5. Whole' = SubSeq(stream, 1, WholeRecords(n))
  <2>1. BegunRecords(n) \in 0 .. Len(stream) /\ WholeRecords(n) \in 0 .. BegunRecords(n)
    BY <1>2, <1>3
  <2> QED
    BY <1>1, <1>4, <2>1, PrefixOfPrefix
<1>6. SubSeq(Whole, 1, WholeRecords(n)) = SubSeq(stream, 1, WholeRecords(n))
  <2>1. WholeRecords(n) \in 0 .. WholeRecords(written)
    BY <1>1, <1>2
  <2> QED
    BY <1>1, <2>1, PrefixOfPrefix DEF Whole
<1>7. WholeRecords(n) \in WholeRecords(synced) .. Len(Whole)
  BY <1>1, <1>2
<1>8. WholeRecords(synced)' = WholeRecords(synced)
  BY DEF WholeRecords
<1> QED
  BY <1>5, <1>6, <1>7, <1>8

LEMMA StepIsALogStep ==
  ASSUME JournalInv, [Next]_vars PROVE [Log!LogNext]_(Log!logVars)
<1> DEFINE Same == Whole' = Whole /\ WholeRecords(synced)' = WholeRecords(synced)
<1> USE DEF Log!logVars, Log!LogNext
<1>1. Same => UNCHANGED Log!logVars
  BY DEF Whole
<1>2. CASE UNCHANGED fileVars
  <2>1. Same
    BY <1>2 DEF fileVars, Whole, WholeRecords
  <2> QED
    BY <1>1, <2>1
<1>3. CASE Open
  <2>1. filed = written /\ written \in Nat
    BY <1>3 DEF JournalInv, TypeOK, TaskIsInStep, Open
  <2>2. WholeRecords(written') = WholeRecords(written)
    BY <1>3, <2>1, FirstPiece DEF Open
  <2>3. Same
    BY <1>3, <2>2 DEF Open, Whole, WholeRecords
  <2> QED
    BY <1>1, <2>3
<1>4. CASE Abandon \/ FlushBuffer
  <2>1. Same
    BY <1>4 DEF Abandon, FlushBuffer, Whole, WholeRecords
  <2> QED
    BY <1>1, <2>1
<1>5. CASE Put
  <2>1. Same \/ Log!AppendRecord
    BY <1>5, PutAppends DEF Log!AppendRecord, Whole
  <2> QED
    BY <1>1, <2>1
<1>6. CASE SyncData
  <2>1. Whole' = Whole /\ WholeRecords(synced)' = Len(Whole)
    BY <1>6, LogFacts DEF SyncData, Whole, WholeRecords
  <2>2. Log!Checkpoint
    BY <2>1 DEF Log!Checkpoint, Whole
  <2> QED
    BY <2>2
<1>7. CASE Crash \/ Fail
  <2>1. PICK n \in synced .. written : CutTo(n) /\ synced' = synced
    BY <1>7 DEF Crash, Fail, JournalInv, TypeOK
  <2>2. Log!LoseTail
    BY <2>1, CutLosesTail DEF Log!LoseTail, Whole
  <2> QED
    BY <2>2
<1>8. CASE Exit \/ Receive \/ \E client \in Clients :
             \/ \E record \in Records : CallAppend(client, record)
             \/ CallFlush(client)
             \/ CallShutdown(client)
  <2>1. UNCHANGED fileVars
    BY <1>8 DEF Exit, Receive, CallAppend, CallFlush, CallShutdown
  <2> QED
    BY <1>2, <2>1
<1>9. CASE UNCHANGED vars
  <2>1. UNCHANGED fileVars
    BY <1>9 DEF vars, fileVars
  <2> QED
    BY <1>2, <2>1
<1> QED
  BY <1>3, <1>4, <1>5, <1>6, <1>7, <1>8, <1>9 DEF Next

(* The journal keeps DurableLog's promise: records appear in order and     *)
(* whole, and no crash or failed write takes away one that a successful    *)
(* flush covered.                                                          *)
THEOREM JournalIsADurableLog == Spec => ImplementsDurableLog
<1>1. Init => Log!LogInit
  <2> SUFFICES ASSUME Init PROVE Log!LogInit
    OBVIOUS
  <2>1. WholeRecords(written) = 0 /\ WholeRecords(synced) = 0 /\ stream = <<>>
    BY FirstPiece DEF Init
  <2> QED
    BY <2>1 DEF Log!LogInit
<1> QED
  BY <1>1, JournalInvariance, StepIsALogStep, PTL DEF Spec, ImplementsDurableLog, Log!LogSpec

=============================================================================
