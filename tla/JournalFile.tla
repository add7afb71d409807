----------------------------- MODULE JournalFile ------------------------------
(***************************************************************************)
(* One journal file that several processes use: the file side of           *)
(* src/journal.rs (open, append, flush, drop; next_record) under the       *)
(* commands of src/main.rs that open it for writing (init, a capture, an   *)
(* offline MCP server) and one that reads it (replay.rs, summarize_journal)*)
(* without asking for the lock.                                            *)
(*                                                                         *)
(* The file is a sequence of pieces, the write_all calls that made it.     *)
(***************************************************************************)
EXTENDS Integers, Sequences

CONSTANTS
  Writers,     \* processes that open the journal for writing
  None,
  MaxPieces,   \* bound on the pieces that are written to the file
  MaxBuffer    \* pieces that fit into a writer's buffer

ASSUME JournalFileAssumption ==
  /\ None \notin Writers
  /\ MaxPieces \in Nat
  /\ MaxBuffer \in Nat \ {0}

VARIABLES
  file,      \* the pieces in the file
  lock,      \* the process that holds the operating system's lock, or None
  place,     \* where each writer is
  buffer,    \* the pieces in each writer's buffer
  part,      \* the piece of a record that each writer puts next
  reader,    \* "idle", "reading", "counted" after an Ok, "failed" after an error
  position,  \* pieces that the reader has read
  before     \* history: records in the file when the reader started

writerVars == <<lock, place, buffer, part>>
readerVars == <<reader, position, before>>
vars == <<file, lock, place, buffer, part, reader, position, before>>

PiecesPerRecord == 3

(* The header; a piece of a record: 1 length, 2 checksum, 3 payload; and   *)
(* what a killed process leaves of a piece.                                *)
Magic == [by |-> None, part |-> 0]
Torn  == [by |-> None, part |-> 1]
Piece == {Magic, Torn} \cup [by : Writers, part : 1 .. PiecesPerRecord]

TypeOK ==
  /\ file \in Seq(Piece)
  /\ lock \in Writers \cup {None}
  /\ place \in [Writers -> {"out", "opened", "locked", "new", "existing", "writing"}]
  /\ buffer \in [Writers -> Seq(Piece)]
  /\ \A w \in Writers : Len(buffer[w]) <= MaxBuffer
  /\ part \in [Writers -> 1 .. PiecesPerRecord]
  /\ reader \in {"idle", "reading", "counted", "failed"}
  /\ position \in 0 .. Len(file)
  /\ before \in Nat

Init ==
  /\ file = <<>>
  /\ lock = None
  /\ place = [w \in Writers |-> "out"]
  /\ buffer = [w \in Writers |-> <<>>]
  /\ part = [w \in Writers |-> 1]
  /\ reader = "idle" /\ position = 0 /\ before = 0

-----------------------------------------------------------------------------
(* The piece that a reader of records expects after n pieces: it takes the *)
(* bytes as they come, whoever wrote them.                                 *)
PartAfter(n) == IF n = 0 THEN 0 ELSE ((n - 1) % PiecesPerRecord) + 1

RecordsIn(n) == IF n = 0 THEN 0 ELSE (n - 1) \div PiecesPerRecord

(* Length and checksum tell a piece from anything else in its place.       *)
ReadsAt(n) ==
  /\ file[n].part = PartAfter(n - 1)
  /\ file[n] # Torn
  /\ PartAfter(n - 1) > 1 => file[n].by = file[n - 1].by

AtRecordEnd(n) == n > 0 /\ PartAfter(n) = 1

(* validate_existing_journal: the header, then records to the very end.    *)
Validates == AtRecordEnd(Len(file)) /\ \A n \in DOMAIN file : ReadsAt(n)

-----------------------------------------------------------------------------
(***************************************************************************)
(* JournalWriter::open.                                                    *)
(***************************************************************************)
MoveTo(w, next) == place' = [place EXCEPT ![w] = next]

(* Mutant: opened like a new file. *)
OpenFile_Truncates(w) ==
  /\ place[w] = "out"
  /\ file' = <<>>
  /\ MoveTo(w, "opened")
  /\ UNCHANGED <<lock, buffer, part, readerVars>>

(* A file that does not exist is created; it reads like an empty one.      *)
OpenFile(w) ==
  /\ place[w] = "out"
  /\ MoveTo(w, "opened")
  /\ UNCHANGED <<file, lock, buffer, part, readerVars>>

(* Mutant: a lock that several processes can share. *)
TryLock_Shared(w) ==
  /\ place[w] = "opened"
  /\ lock' = w
  /\ MoveTo(w, "locked")
  /\ UNCHANGED <<file, buffer, part, readerVars>>

(* try_lock_exclusive: another writer is active, or there is none.         *)
TryLock(w) ==
  /\ place[w] = "opened"
  /\ IF lock = None
     THEN lock' = w /\ MoveTo(w, "locked")
     ELSE MoveTo(w, "out") /\ UNCHANGED lock
  /\ UNCHANGED <<file, buffer, part, readerVars>>

CheckLength(w) ==
  /\ place[w] = "locked"
  /\ MoveTo(w, IF file = <<>> THEN "new" ELSE "existing")
  /\ UNCHANGED <<file, lock, buffer, part, readerVars>>

StartWriting(w) ==
  /\ MoveTo(w, "writing")
  /\ part' = [part EXCEPT ![w] = 1]

(* The header is written and flushed. *)
WriteHeader(w) ==
  /\ place[w] = "new"
  /\ file' = Append(file, Magic)
  /\ StartWriting(w)
  /\ UNCHANGED <<lock, buffer, readerVars>>

(* Mutant: after an error the file stays open. *)
Validate_KeepsLock(w) ==
  /\ place[w] = "existing"
  /\ IF Validates
     THEN StartWriting(w)
     ELSE MoveTo(w, "out") /\ UNCHANGED part
  /\ UNCHANGED <<file, lock, buffer, readerVars>>

(* On an error the file is dropped, and the lock with it. *)
Validate(w) ==
  /\ place[w] = "existing"
  /\ IF Validates
     THEN StartWriting(w) /\ UNCHANGED lock
     ELSE MoveTo(w, "out") /\ lock' = None /\ UNCHANGED part
  /\ UNCHANGED <<file, buffer, readerVars>>

-----------------------------------------------------------------------------
(***************************************************************************)
(* append, flush and the end of a writer.                                  *)
(***************************************************************************)
(* Mutant: nothing is handed on until the file is closed. *)
Put_Hoards(w) ==
  /\ place[w] = "writing"
  /\ Len(file) + Len(buffer[w]) < MaxPieces
  /\ buffer' = [buffer EXCEPT ![w] = Append(@, [by |-> w, part |-> part[w]])]
  /\ part' = [part EXCEPT ![w] = (@ % PiecesPerRecord) + 1]
  /\ UNCHANGED <<file, lock, place, readerVars>>

(* One write_all of append. *)
Put(w) ==
  /\ place[w] = "writing"
  /\ Len(file) + Len(buffer[w]) < MaxPieces
  /\ Len(buffer[w]) < MaxBuffer
  /\ buffer' = [buffer EXCEPT ![w] = Append(@, [by |-> w, part |-> part[w]])]
  /\ part' = [part EXCEPT ![w] = (@ % PiecesPerRecord) + 1]
  /\ UNCHANGED <<file, lock, place, readerVars>>

(* The buffer goes to the end of the file, as readers may see it. *)
Drain(w) ==
  /\ buffer[w] # <<>>
  /\ file' = Append(file, Head(buffer[w]))
  /\ buffer' = [buffer EXCEPT ![w] = Tail(@)]
  /\ UNCHANGED <<lock, place, part, readerVars>>

(* The file is closed, and the operating system frees the lock.            *)
Release(w) ==
  /\ MoveTo(w, "out")
  /\ lock' = IF lock = w THEN None ELSE lock

(* The writer is dropped between two records, with all it had flushed.     *)
Close(w) ==
  /\ place[w] = "writing"
  /\ part[w] = 1 /\ buffer[w] = <<>>
  /\ Release(w)
  /\ UNCHANGED <<file, buffer, part, readerVars>>

(* The process is killed, perhaps in the middle of a write.                *)
Kill(w) ==
  /\ place[w] # "out"
  /\ \/ UNCHANGED file
     \/ /\ buffer[w] # <<>> \/ place[w] = "new"
        /\ file' = Append(file, Torn)
  /\ buffer' = [buffer EXCEPT ![w] = <<>>]
  /\ Release(w)
  /\ UNCHANGED <<part, readerVars>>

-----------------------------------------------------------------------------
(***************************************************************************)
(* summarize_journal: JournalReader::open and next_record until the end.   *)
(***************************************************************************)
StartReading ==
  /\ reader # "reading"
  /\ reader' = "reading"
  /\ position' = 0
  /\ before' = RecordsIn(Len(file))
  /\ UNCHANGED <<file, writerVars>>

ReadPiece ==
  /\ reader = "reading"
  /\ position < Len(file)
  /\ IF ReadsAt(position + 1)
     THEN position' = position + 1 /\ UNCHANGED reader
     ELSE reader' = "failed" /\ UNCHANGED position
  /\ UNCHANGED <<file, writerVars, before>>

(* Mutant: a record that is cut off counts as the end. *)
ReadEnd_Lenient ==
  /\ reader = "reading"
  /\ position = Len(file)
  /\ reader' = IF position > 0 THEN "counted" ELSE "failed"
  /\ UNCHANGED <<file, writerVars, position, before>>

(* Only before the first byte of a record is the end of the file no error. *)
ReadEnd ==
  /\ reader = "reading"
  /\ position = Len(file)
  /\ reader' = IF AtRecordEnd(position) THEN "counted" ELSE "failed"
  /\ UNCHANGED <<file, writerVars, position, before>>

-----------------------------------------------------------------------------
Next ==
  \/ \E w \in Writers :
       \/ OpenFile(w) \/ TryLock(w) \/ CheckLength(w) \/ WriteHeader(w) \/ Validate(w)
       \/ Put(w) \/ Drain(w) \/ Close(w) \/ Kill(w)
  \/ StartReading \/ ReadPiece \/ ReadEnd

Spec == Init /\ [][Next]_vars

-----------------------------------------------------------------------------
(***************************************************************************)
(* Properties.                                                             *)
(***************************************************************************)

(* Design: a lock "prevents concurrent writers from corrupting one         *)
(* journal".  Whatever order processes start, write and die in, the file   *)
(* has one header and then the pieces of one record after the other; only  *)
(* its last piece may be torn.                                             *)
FileIsOneJournal ==
  \A n \in DOMAIN file : ReadsAt(n) \/ (n = Len(file) /\ file[n] = Torn)

(* The lock never outlives its process or a failed open, which would keep  *)
(* every later writer out.                                                 *)
LockIsHeldByAWriter ==
  lock # None => place[lock] \in {"locked", "new", "existing", "writing"}

(* A summary that succeeds beside active writers counts whole records      *)
(* only, all that were complete when it began and none that is not in the  *)
(* file.                                                                   *)
SummaryIsTrue ==
  reader = "counted" =>
    /\ AtRecordEnd(position)
    /\ before <= RecordsIn(position)
    /\ RecordsIn(position) <= RecordsIn(Len(file))

=============================================================================
