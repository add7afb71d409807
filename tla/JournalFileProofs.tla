-------------------------- MODULE JournalFileProofs ---------------------------
(***************************************************************************)
(* The safety properties of JournalFile, for any number of processes and   *)
(* files and buffers of any length.                                        *)
(***************************************************************************)
EXTENDS JournalFile, TLAPS

Holding == {"locked", "new", "existing", "writing"}

(* Who is past the lock holds it; only a writer has pieces to write; and   *)
(* what a process found out about the file is still so.                    *)
Exclusion ==
  \A w \in Writers :
    /\ place[w] \in Holding => lock = w
    /\ place[w] # "writing" => buffer[w] = <<>>
    /\ place[w] = "new" => file = <<>>
    /\ place[w] = "existing" => file # <<>>

(* The file, and after it the buffer of w, go on as a reader expects.      *)
InStep(w) ==
  /\ Len(file) > 0
  /\ \A n \in 1 .. Len(file) : ReadsAt(n)
  /\ \A k \in 1 .. Len(buffer[w]) :
       buffer[w][k] = [by |-> w, part |-> PartAfter(Len(file) + k - 1)]
  /\ part[w] = PartAfter(Len(file) + Len(buffer[w]))
  /\ PartAfter(Len(file)) > 1 => file[Len(file)].by = w

WritersInStep == \A w \in Writers : place[w] = "writing" => InStep(w)

(* What the reader has counted, and will count at the end of the file.     *)
ReaderInStep ==
  /\ before <= RecordsIn(Len(file))
  /\ reader = "counted" => AtRecordEnd(position) /\ before <= RecordsIn(position)

FileInv ==
  /\ TypeOK
  /\ Exclusion
  /\ LockIsHeldByAWriter
  /\ WritersInStep
  /\ FileIsOneJournal
  /\ ReaderInStep

-----------------------------------------------------------------------------
(* The pieces of a record follow one another in a circle.                  *)
LEMMA NextPart ==
  ASSUME NEW n \in Nat \ {0}
  PROVE  /\ PartAfter(n) \in 1 .. PiecesPerRecord
         /\ PartAfter(n + 1) = (PartAfter(n) % PiecesPerRecord) + 1
<1> USE DEF PiecesPerRecord
<1> DEFINE m == (n - 1) % 3
<1>1. m \in 0 .. 2 /\ n % 3 = (m + 1) % 3
  OBVIOUS
<1>2. PartAfter(n) = m + 1 /\ PartAfter(n + 1) = (n % 3) + 1
  BY DEF PartAfter
<1> QED
  BY <1>1, <1>2

LEMMA FirstParts == PartAfter(0) = 0 /\ PartAfter(1) = 1
BY DEF PartAfter, PiecesPerRecord

(* A longer file has no fewer records. *)
LEMMA MoreRecords ==
  ASSUME NEW n \in Nat
  PROVE  RecordsIn(n) \in Nat /\ RecordsIn(n) <= RecordsIn(n + 1)
BY DEF RecordsIn, PiecesPerRecord

(* Pieces stay readable when the file grows. *)
LEMMA ReadableStays ==
  ASSUME NEW piece \in Piece, file \in Seq(Piece), file' = Append(file, piece),
         NEW n \in 1 .. Len(file), ReadsAt(n)
  PROVE  ReadsAt(n)'
<1>1. file'[n] = file[n]
  OBVIOUS
<1>2. PartAfter(n - 1) > 1 => n - 1 \in 1 .. Len(file)
  BY DEF PartAfter
<1>3. PartAfter(n - 1) > 1 => file'[n - 1] = file[n - 1]
  BY <1>2
<1> QED
  BY <1>1, <1>3 DEF ReadsAt

-----------------------------------------------------------------------------
LEMMA FileInvInit == Init => FileInv
<1> SUFFICES ASSUME Init PROVE FileInv
  OBVIOUS
<1>1. TypeOK
  BY JournalFileAssumption DEF Init, TypeOK, PiecesPerRecord, JournalFileAssumption
<1>2. Exclusion /\ LockIsHeldByAWriter /\ WritersInStep /\ FileIsOneJournal
  BY DEF Init, Exclusion, Holding, LockIsHeldByAWriter, WritersInStep, FileIsOneJournal
<1>3. ReaderInStep
  BY DEF Init, ReaderInStep, RecordsIn
<1> QED
  BY <1>1, <1>2, <1>3 DEF FileInv

(* Steps of a process on its way into the file, and out of it, that leave  *)
(* file and buffers alone.                                                 *)
LEMMA QuietStepKeepsInv ==
  ASSUME FileInv, NEW w \in Writers,
         OpenFile(w) \/ TryLock(w) \/ CheckLength(w) \/ Validate(w) \/ Close(w)
  PROVE  FileInv'
<1> USE JournalFileAssumption DEF JournalFileAssumption
<1>1. /\ UNCHANGED <<file, buffer, readerVars>>
      /\ \E next \in {"out", "opened", "locked", "new", "existing", "writing"} :
           place' = [place EXCEPT ![w] = next]
      /\ lock' \in {lock, w, None}
      /\ part' = part \/ part' = [part EXCEPT ![w] = 1]
  BY DEF OpenFile, TryLock, CheckLength, Validate, Close, MoveTo, StartWriting, Release
<1>2. TypeOK'
  BY <1>1 DEF FileInv, TypeOK, readerVars, PiecesPerRecord
<1>3. Exclusion'
  <2> SUFFICES ASSUME NEW v \in Writers
               PROVE  /\ place'[v] \in Holding => lock' = v
                      /\ place'[v] # "writing" => buffer'[v] = <<>>
                      /\ place'[v] = "new" => file' = <<>>
                      /\ place'[v] = "existing" => file' # <<>>
    BY DEF Exclusion
  <2>1. /\ place \in [Writers -> {"out", "opened", "locked", "new", "existing", "writing"}]
        /\ place[v] \in Holding => lock = v
        /\ place[v] # "writing" => buffer[v] = <<>>
        /\ place[v] = "new" => file = <<>>
        /\ place[v] = "existing" => file # <<>>
        /\ place[w] \in Holding => lock = w
        /\ place[w] # "writing" => buffer[w] = <<>>
    BY DEF FileInv, TypeOK, Exclusion
  <2>2. CASE OpenFile(w)
    BY <2>1, <2>2 DEF OpenFile, MoveTo, Holding
  <2>3. CASE TryLock(w)
    BY <2>1, <2>3 DEF TryLock, MoveTo, Holding
  <2>4. CASE CheckLength(w)
    BY <2>1, <2>4 DEF CheckLength, MoveTo, Holding
  <2>5. CASE Validate(w)
    BY <2>1, <2>5 DEF Validate, StartWriting, MoveTo, Holding
  <2>6. CASE Close(w)
    BY <2>1, <2>6 DEF Close, Release, MoveTo, Holding
  <2> QED
    BY <2>2, <2>3, <2>4, <2>5, <2>6
<1>4. LockIsHeldByAWriter'
  <2>1. /\ place \in [Writers -> {"out", "opened", "locked", "new", "existing", "writing"}]
        /\ lock \in Writers \cup {None}
        /\ place[w] \in Holding => lock = w
        /\ lock # None => place[lock] \in Holding
    BY DEF FileInv, TypeOK, Exclusion, LockIsHeldByAWriter, Holding
  <2>2. CASE OpenFile(w)
    BY <2>1, <2>2 DEF OpenFile, MoveTo, Holding, LockIsHeldByAWriter
  <2>3. CASE TryLock(w)
    BY <2>1, <2>3 DEF TryLock, MoveTo, Holding, LockIsHeldByAWriter
  <2>4. CASE CheckLength(w)
    BY <2>1, <2>4 DEF CheckLength, MoveTo, Holding, LockIsHeldByAWriter
  <2>5. CASE Validate(w)
    BY <2>1, <2>5 DEF Validate, StartWriting, MoveTo, Holding, LockIsHeldByAWriter
  <2>6. CASE Close(w)
    BY <2>1, <2>6 DEF Close, Release, MoveTo, Holding, LockIsHeldByAWriter
  <2> QED
    BY <2>2, <2>3, <2>4, <2>5, <2>6
<1>5. WritersInStep'
  <2> SUFFICES ASSUME NEW v \in Writers, place'[v] = "writing"
               PROVE  InStep(v)'
    BY DEF WritersInStep
  <2>1. CASE place[v] = "writing"
    <3>1. part'[v] = part[v]
      <4>1. v # w \/ ~Validate(w)
        BY <2>1 DEF Validate
      <4> QED
        BY <1>1, <4>1 DEF FileInv, TypeOK, OpenFile, TryLock, CheckLength, Close
    <3> QED
      BY <1>1, <2>1, <3>1 DEF FileInv, WritersInStep, InStep, ReadsAt
  (* Only validation makes a writer of w: the file ends with a record.     *)
  <2>2. CASE place[v] # "writing"
    <3>1. v = w /\ Validate(w) /\ Validates
      BY <1>1, <2>2 DEF FileInv, TypeOK, OpenFile, TryLock, CheckLength, Close, Validate,
         MoveTo, StartWriting, Release
    <3>2. part'[v] = 1 /\ buffer'[v] = <<>>
      BY <1>1, <3>1 DEF FileInv, TypeOK, Exclusion, Validate, StartWriting
    <3>3. Len(file) \in Nat /\ DOMAIN file = 1 .. Len(file)
      BY DEF FileInv, TypeOK
    <3> QED
      BY <1>1, <3>1, <3>2, <3>3 DEF InStep, Validates, AtRecordEnd, ReadsAt
  <2> QED
    BY <2>1, <2>2
<1>6. FileIsOneJournal' /\ ReaderInStep'
  BY <1>1 DEF FileInv, FileIsOneJournal, ReaderInStep, ReadsAt, readerVars
<1> QED
  BY <1>2, <1>3, <1>4, <1>5, <1>6 DEF FileInv

(* A process that holds the lock is the only one past it. *)
LEMMA OthersAreOut ==
  ASSUME FileInv, NEW w \in Writers, NEW v \in Writers,
         place[w] \in Holding, v # w
  PROVE  place[v] \notin Holding /\ buffer[v] = <<>>
BY DEF FileInv, Exclusion, Holding

LEMMA WriteHeaderKeepsInv ==
  ASSUME FileInv, NEW w \in Writers, WriteHeader(w)
  PROVE  FileInv'
<1> USE JournalFileAssumption DEF JournalFileAssumption
<1>1. /\ place[w] = "new" /\ file = <<>> /\ buffer[w] = <<>> /\ lock = w
      /\ file' = Append(file, Magic) /\ UNCHANGED <<lock, buffer, readerVars>>
      /\ place' = [place EXCEPT ![w] = "writing"]
      /\ part' = [part EXCEPT ![w] = 1]
  BY DEF FileInv, Exclusion, Holding, WriteHeader, StartWriting, MoveTo
<1>2. Len(file') = 1 /\ DOMAIN file' = {1} /\ file'[1] = Magic /\ Magic \in Piece
  <2>1. Magic \in Piece /\ <<>> \in Seq(Piece)
    BY DEF Piece
  <2> QED
    BY <1>1, <2>1
<1>3. TypeOK'
  BY <1>1, <1>2 DEF FileInv, TypeOK, readerVars, PiecesPerRecord
<1>4. Exclusion' /\ LockIsHeldByAWriter'
  BY <1>1, OthersAreOut DEF FileInv, TypeOK, Exclusion, Holding, LockIsHeldByAWriter
<1>5. ReadsAt(1)'
  BY <1>2, FirstParts DEF ReadsAt, Magic, Torn
<1>6. WritersInStep'
  <2> SUFFICES ASSUME NEW v \in Writers, place'[v] = "writing" PROVE InStep(v)'
    BY DEF WritersInStep
  <2>1. v = w
    BY <1>1, OthersAreOut DEF FileInv, TypeOK, Holding
  <2>2. part'[w] = 1 /\ buffer'[w] = <<>>
    BY <1>1 DEF FileInv, TypeOK
  <2> QED
    BY <1>2, <1>5, <2>1, <2>2, FirstParts DEF InStep
<1>7. FileIsOneJournal'
  BY <1>2, <1>5 DEF FileIsOneJournal
<1>8. ReaderInStep'
  <2>1. RecordsIn(0) = 0 /\ RecordsIn(1) = 0
    BY DEF RecordsIn, PiecesPerRecord
  <2> QED
    BY <1>1, <1>2, <2>1 DEF FileInv, ReaderInStep, readerVars
<1> QED
  BY <1>3, <1>4, <1>6, <1>7, <1>8 DEF FileInv

LEMMA PutKeepsInv ==
  ASSUME FileInv, NEW w \in Writers, Put(w)
  PROVE  FileInv'
<1> USE JournalFileAssumption DEF JournalFileAssumption
<1> DEFINE piece == [by |-> w, part |-> part[w]]
           k == Len(buffer[w])
<1>1. /\ place[w] = "writing" /\ k < MaxBuffer
      /\ UNCHANGED <<file, lock, place, readerVars>>
      /\ buffer' = [buffer EXCEPT ![w] = Append(buffer[w], piece)]
      /\ part' = [part EXCEPT ![w] = (part[w] % PiecesPerRecord) + 1]
  BY DEF Put
<1>2. /\ part[w] \in 1 .. PiecesPerRecord /\ piece \in Piece /\ k \in Nat
      /\ buffer[w] \in Seq(Piece) /\ Len(file) \in Nat
  BY DEF FileInv, TypeOK, Piece
<1>3. /\ buffer'[w] = Append(buffer[w], piece)
      /\ buffer'[w] \in Seq(Piece) /\ Len(buffer'[w]) = k + 1
      /\ \A v \in Writers : v # w => buffer'[v] = buffer[v] /\ part'[v] = part[v]
      /\ part'[w] = (part[w] % PiecesPerRecord) + 1
  BY <1>1, <1>2 DEF FileInv, TypeOK
<1>4. InStep(w)
  BY <1>1 DEF FileInv, WritersInStep
<1>5. part'[w] = PartAfter(Len(file) + k + 1) /\ part'[w] \in 1 .. PiecesPerRecord
  <2>1. Len(file) + k \in Nat \ {0} /\ part[w] = PartAfter(Len(file) + k)
    BY <1>2, <1>4 DEF InStep
  <2>2. Len(file) + k + 1 \in Nat \ {0}
    BY <1>2
  <2>3. part'[w] = PartAfter(Len(file) + k + 1)
    BY <1>3, <2>1, NextPart
  <2> QED
    BY <2>2, <2>3, NextPart
<1>6. TypeOK'
  <2>1. buffer' \in [Writers -> Seq(Piece)] /\ part' \in [Writers -> 1 .. PiecesPerRecord]
    BY <1>1, <1>2, <1>3, <1>5 DEF FileInv, TypeOK
  <2>2. \A v \in Writers : Len(buffer'[v]) <= MaxBuffer
    BY <1>1, <1>2, <1>3 DEF FileInv, TypeOK
  <2> QED
    BY <1>1, <2>1, <2>2 DEF FileInv, TypeOK, readerVars
<1>7. Exclusion' /\ LockIsHeldByAWriter'
  BY <1>1, <1>3 DEF FileInv, Exclusion, LockIsHeldByAWriter
<1>8. WritersInStep'
  <2> SUFFICES ASSUME NEW v \in Writers, place[v] = "writing" PROVE InStep(v)'
    BY <1>1 DEF WritersInStep
  <2>1. v = w
    BY <1>1, OthersAreOut DEF Holding
  <2>2. \A i \in 1 .. k + 1 :
          buffer'[w][i] = [by |-> w, part |-> PartAfter(Len(file) + i - 1)]
    <3> SUFFICES ASSUME NEW i \in 1 .. k + 1
                 PROVE  buffer'[w][i] = [by |-> w, part |-> PartAfter(Len(file) + i - 1)]
      OBVIOUS
    <3>1. CASE i = k + 1
      <4>1. buffer'[w][i] = piece /\ Len(file) + i - 1 = Len(file) + k
        BY <1>2, <1>3, <3>1
      <4> QED
        BY <1>4, <4>1 DEF InStep
    <3>2. CASE i \in 1 .. k
      <4>1. buffer'[w][i] = buffer[w][i]
        BY <1>2, <1>3, <3>2
      <4> QED
        BY <1>4, <3>2, <4>1 DEF InStep
    <3> QED
      BY <1>2, <3>1, <3>2
  <2>3. Len(file) + Len(buffer'[w]) = Len(file) + k + 1
    BY <1>2, <1>3
  <2> QED
    BY <1>1, <1>3, <1>4, <1>5, <2>1, <2>2, <2>3 DEF InStep, ReadsAt
<1>9. FileIsOneJournal' /\ ReaderInStep'
  BY <1>1 DEF FileInv, FileIsOneJournal, ReadsAt, ReaderInStep, readerVars
<1> QED
  BY <1>6, <1>7, <1>8, <1>9 DEF FileInv

LEMMA DrainKeepsInv ==
  ASSUME FileInv, NEW w \in Writers, Drain(w)
  PROVE  FileInv'
<1> USE JournalFileAssumption DEF JournalFileAssumption
<1> DEFINE piece == Head(buffer[w])
           n == Len(file)
           k == Len(buffer[w])
<1>1. /\ buffer[w] # <<>> /\ file' = Append(file, piece)
      /\ buffer' = [buffer EXCEPT ![w] = Tail(buffer[w])]
      /\ UNCHANGED <<lock, place, part, readerVars>>
  BY DEF Drain
<1>2. /\ place[w] = "writing" /\ InStep(w)
      /\ buffer[w] \in Seq(Piece) /\ k \in Nat \ {0} /\ file \in Seq(Piece) /\ n \in Nat \ {0}
  <2>1. buffer[w] \in Seq(Piece) /\ file \in Seq(Piece)
    BY DEF FileInv, TypeOK
  <2>2. place[w] = "writing"
    BY <1>1 DEF FileInv, Exclusion
  <2>3. InStep(w)
    BY <2>2 DEF FileInv, WritersInStep
  <2>4. k \in Nat \ {0}
    BY <1>1, <2>1
  <2>5. n \in Nat \ {0}
    BY <2>1, <2>3 DEF InStep
  <2> QED
    BY <2>1, <2>2, <2>3, <2>4, <2>5
<1>3. /\ piece \in Piece /\ piece = [by |-> w, part |-> PartAfter(n)]
  <2>1. piece = buffer[w][1] /\ 1 \in 1 .. k /\ n + 1 - 1 = n
    BY <1>1, <1>2
  <2> QED
    BY <1>2, <2>1 DEF InStep
<1>4. /\ file' \in Seq(Piece) /\ Len(file') = n + 1 /\ DOMAIN file' = 1 .. n + 1
      /\ DOMAIN file = 1 .. n
      /\ file'[n + 1] = piece /\ \A i \in 1 .. n : file'[i] = file[i]
  BY <1>1, <1>2, <1>3
<1>5. /\ buffer'[w] \in Seq(Piece) /\ Len(buffer'[w]) = k - 1
      /\ \A i \in 1 .. k - 1 : buffer'[w][i] = buffer[w][i + 1]
      /\ \A v \in Writers : v # w => buffer'[v] = buffer[v]
  <2>1. buffer'[w] = Tail(buffer[w]) /\ \A v \in Writers : v # w => buffer'[v] = buffer[v]
    BY <1>1 DEF FileInv, TypeOK
  <2>2. /\ Tail(buffer[w]) \in Seq(Piece) /\ Len(Tail(buffer[w])) = k - 1
        /\ \A i \in 1 .. k - 1 : Tail(buffer[w])[i] = buffer[w][i + 1]
    BY <1>1, <1>2
  <2> QED
    BY <2>1, <2>2
<1>6. TypeOK'
  <2>1. buffer' \in [Writers -> Seq(Piece)]
    BY <1>1, <1>5 DEF FileInv, TypeOK
  <2>2. \A v \in Writers : Len(buffer'[v]) <= MaxBuffer
    BY <1>2, <1>5 DEF FileInv, TypeOK
  <2>3. position' \in 0 .. Len(file')
    BY <1>1, <1>2, <1>4 DEF FileInv, TypeOK, readerVars
  <2> QED
    BY <1>1, <1>4, <2>1, <2>2, <2>3 DEF FileInv, TypeOK, readerVars
<1>7. Exclusion' /\ LockIsHeldByAWriter'
  <2>1. \A v \in Writers : v # w => place[v] \notin Holding
    BY <1>2, OthersAreOut DEF Holding
  <2> QED
    BY <1>1, <1>2, <1>5, <2>1 DEF FileInv, Exclusion, Holding, LockIsHeldByAWriter
<1>8. \A i \in 1 .. n + 1 : ReadsAt(i)'
  <2> SUFFICES ASSUME NEW i \in 1 .. n + 1 PROVE ReadsAt(i)'
    OBVIOUS
  <2>1. CASE i \in 1 .. n
    BY <1>1, <1>2, <1>3, <2>1, ReadableStays DEF InStep
  <2>2. CASE i = n + 1
    <3>1. file'[i].part = PartAfter(i - 1) /\ file'[i].by = w
      BY <1>2, <1>3, <1>4, <2>2
    <3>2. file'[i] # Torn
      BY <3>1 DEF Torn
    <3>3. PartAfter(i - 1) > 1 => file'[i - 1].by = w
      BY <1>2, <1>4, <2>2 DEF InStep
    <3> QED
      BY <3>1, <3>2, <3>3 DEF ReadsAt
  <2> QED
    BY <1>2, <2>1, <2>2
<1>9. WritersInStep'
  <2> SUFFICES ASSUME NEW v \in Writers, place[v] = "writing" PROVE InStep(v)'
    BY <1>1 DEF WritersInStep
  <2>1. v = w
    BY <1>2, OthersAreOut DEF Holding
  <2>2. \A i \in 1 .. k - 1 :
          buffer'[w][i] = [by |-> w, part |-> PartAfter(n + 1 + i - 1)]
    <3> SUFFICES ASSUME NEW i \in 1 .. k - 1
                 PROVE  buffer'[w][i] = [by |-> w, part |-> PartAfter(n + 1 + i - 1)]
      OBVIOUS
    <3>1. i + 1 \in 1 .. k /\ n + (i + 1) - 1 = n + 1 + i - 1
      BY <1>2
    <3>2. buffer[w][i + 1] = [by |-> w, part |-> PartAfter(n + (i + 1) - 1)]
      BY <1>2, <3>1 DEF InStep
    <3> QED
      BY <1>5, <3>1, <3>2
  <2>3. n + 1 + (k - 1) = n + k
    <3>1. \A a, b \in Nat : a + 1 + (b - 1) = a + b
      OBVIOUS
    <3>2. n \in Nat /\ k \in Nat
      BY <1>2
    <3> QED
      BY <3>1, <3>2
  <2>4. part'[w] = PartAfter(n + 1 + (k - 1))
    BY <1>1, <1>2, <2>3 DEF InStep
  <2>5. file'[n + 1].by = w
    BY <1>3, <1>4
  <2>6. Len(file') > 0 /\ \A i \in 1 .. Len(file') : ReadsAt(i)'
    BY <1>2, <1>4, <1>8
  <2>7. \A i \in 1 .. Len(buffer'[w]) :
          buffer'[w][i] = [by |-> w, part |-> PartAfter(Len(file') + i - 1)]
    BY <1>4, <1>5, <2>2
  <2>8. part'[w] = PartAfter(Len(file') + Len(buffer'[w]))
    BY <1>4, <1>5, <2>4
  <2>9. file'[Len(file')].by = w
    BY <1>4, <2>5
  <2> QED
    BY <2>1, <2>6, <2>7, <2>8, <2>9 DEF InStep
<1>10. FileIsOneJournal'
  BY <1>4, <1>8 DEF FileIsOneJournal
<1>11. ReaderInStep'
  <2>1. /\ RecordsIn(n) \in Nat /\ RecordsIn(n + 1) \in Nat
        /\ RecordsIn(n) <= RecordsIn(n + 1) /\ before \in Nat
    BY <1>2, MoreRecords DEF FileInv, TypeOK
  <2> QED
    BY <1>1, <1>4, <2>1 DEF FileInv, ReaderInStep, readerVars
<1> QED
  BY <1>6, <1>7, <1>9, <1>10, <1>11 DEF FileInv

LEMMA KillKeepsInv ==
  ASSUME FileInv, NEW w \in Writers, Kill(w)
  PROVE  FileInv'
<1> USE JournalFileAssumption DEF JournalFileAssumption
<1> DEFINE n == Len(file)
           torn == (buffer[w] # <<>> \/ place[w] = "new") /\ file' = Append(file, Torn)
<1>1. /\ file' = file \/ torn
      /\ buffer' = [buffer EXCEPT ![w] = <<>>]
      /\ place' = [place EXCEPT ![w] = "out"]
      /\ lock' = IF lock = w THEN None ELSE lock
      /\ UNCHANGED <<part, readerVars>>
  BY DEF Kill, Release, MoveTo
<1>2. /\ file \in Seq(Piece) /\ n \in Nat /\ DOMAIN file = 1 .. n /\ Torn \in Piece
  BY DEF FileInv, TypeOK, Piece
<1>3. torn => /\ file' \in Seq(Piece) /\ Len(file') = n + 1 /\ DOMAIN file' = 1 .. n + 1
              /\ file'[n + 1] = Torn
  BY <1>2
<1>4. torn => place[w] \in Holding /\ \A i \in 1 .. n : ReadsAt(i)
  <2>1. CASE place[w] = "new"
    BY <2>1 DEF FileInv, Exclusion, Holding
  <2>2. CASE buffer[w] # <<>>
    BY <2>2 DEF FileInv, Exclusion, Holding, WritersInStep, InStep
  <2> QED
    BY <2>1, <2>2
<1>5. TypeOK'
  <2>1. file' \in Seq(Piece) /\ position' \in 0 .. Len(file')
    BY <1>1, <1>2, <1>3 DEF FileInv, TypeOK, readerVars
  <2>2. buffer' \in [Writers -> Seq(Piece)] /\ \A v \in Writers : Len(buffer'[v]) <= MaxBuffer
    BY <1>1 DEF FileInv, TypeOK
  <2> QED
    BY <1>1, <2>1, <2>2 DEF FileInv, TypeOK, readerVars
<1>6. Exclusion'
  <2> SUFFICES ASSUME NEW v \in Writers
               PROVE  /\ place'[v] \in Holding => lock' = v
                      /\ place'[v] # "writing" => buffer'[v] = <<>>
                      /\ place'[v] = "new" => file' = <<>>
                      /\ place'[v] = "existing" => file' # <<>>
    BY DEF Exclusion
  <2>1. CASE v = w
    BY <1>1, <2>1 DEF FileInv, TypeOK, Holding
  <2>2. CASE v # w
    <3>1. place'[v] = place[v] /\ buffer'[v] = buffer[v]
      BY <1>1, <2>2 DEF FileInv, TypeOK
    <3>2. place[v] \in Holding => lock' = v /\ ~torn
      BY <1>1, <1>4, <2>2, OthersAreOut DEF FileInv, Exclusion
    <3> QED
      BY <1>1, <3>1, <3>2 DEF FileInv, Exclusion, Holding
  <2> QED
    BY <2>1, <2>2
<1>7. LockIsHeldByAWriter'
  BY <1>1 DEF FileInv, TypeOK, LockIsHeldByAWriter
<1>8. WritersInStep'
  <2> SUFFICES ASSUME NEW v \in Writers, place'[v] = "writing" PROVE InStep(v)'
    BY DEF WritersInStep
  <2>1. v # w /\ place[v] = "writing"
    BY <1>1 DEF FileInv, TypeOK
  <2>2. file' = file
    BY <1>1, <1>4, <2>1, OthersAreOut DEF Holding
  <2>3. buffer'[v] = buffer[v] /\ part' = part
    BY <1>1, <2>1 DEF FileInv, TypeOK
  <2> QED
    BY <2>1, <2>2, <2>3 DEF FileInv, WritersInStep, InStep, ReadsAt
<1>9. FileIsOneJournal'
  <2>1. CASE file' = file
    BY <2>1 DEF FileInv, FileIsOneJournal, ReadsAt
  <2>2. CASE torn
    <3>1. \A i \in 1 .. n : ReadsAt(i)'
      BY <1>2, <1>4, <2>2, ReadableStays
    <3> QED
      BY <1>2, <1>3, <2>2, <3>1 DEF FileIsOneJournal
  <2> QED
    BY <1>1, <2>1, <2>2
<1>10. ReaderInStep'
  <2>1. /\ RecordsIn(n) \in Nat /\ RecordsIn(n + 1) \in Nat
        /\ RecordsIn(n) <= RecordsIn(n + 1) /\ before \in Nat
    BY <1>2, MoreRecords DEF FileInv, TypeOK
  <2>2. Len(file') \in {n, n + 1}
    BY <1>1, <1>3
  <2> QED
    BY <1>1, <2>1, <2>2 DEF FileInv, ReaderInStep, readerVars
<1> QED
  BY <1>5, <1>6, <1>7, <1>8, <1>9, <1>10 DEF FileInv

LEMMA ReaderKeepsInv ==
  ASSUME FileInv, StartReading \/ ReadPiece \/ ReadEnd
  PROVE  FileInv'
<1>1. UNCHANGED <<file, writerVars>>
  BY DEF StartReading, ReadPiece, ReadEnd
<1>2. /\ Len(file) \in Nat /\ position \in 0 .. Len(file)
      /\ RecordsIn(Len(file)) \in Nat
  BY MoreRecords DEF FileInv, TypeOK
<1>3. TypeOK'
  BY <1>1, <1>2 DEF FileInv, TypeOK, writerVars, StartReading, ReadPiece, ReadEnd
<1>4. Exclusion' /\ LockIsHeldByAWriter' /\ WritersInStep' /\ FileIsOneJournal'
  BY <1>1 DEF FileInv, Exclusion, LockIsHeldByAWriter, WritersInStep, InStep,
     FileIsOneJournal, ReadsAt, writerVars
<1>5. ReaderInStep'
  BY <1>1, <1>2 DEF FileInv, ReaderInStep, StartReading, ReadPiece, ReadEnd
<1> QED
  BY <1>3, <1>4, <1>5 DEF FileInv

-----------------------------------------------------------------------------
LEMMA FileInvNext ==
  ASSUME FileInv, [Next]_vars
  PROVE  FileInv'
<1>1. ASSUME NEW w \in Writers,
             \/ OpenFile(w) \/ TryLock(w) \/ CheckLength(w) \/ WriteHeader(w) \/ Validate(w)
             \/ Put(w) \/ Drain(w) \/ Close(w) \/ Kill(w)
      PROVE  FileInv'
  BY <1>1, QuietStepKeepsInv, WriteHeaderKeepsInv, PutKeepsInv, DrainKeepsInv, KillKeepsInv
<1>2. CASE StartReading \/ ReadPiece \/ ReadEnd
  BY <1>2, ReaderKeepsInv
<1>3. CASE UNCHANGED vars
  BY <1>3 DEF vars, FileInv, TypeOK, Exclusion, LockIsHeldByAWriter, WritersInStep, InStep,
     FileIsOneJournal, ReaderInStep, ReadsAt
<1> QED
  BY <1>1, <1>2, <1>3 DEF Next

THEOREM FileInvariance == Spec => []FileInv
<1>1. Init => FileInv
  BY FileInvInit
<1>2. FileInv /\ [Next]_vars => FileInv'
  BY FileInvNext
<1> QED
  BY <1>1, <1>2, PTL DEF Spec

(* Every variable keeps its type: the file is a sequence of pieces, the    *)
(* lock belongs to a process or to nobody.                                 *)
THEOREM FileTypes == Spec => []TypeOK
<1>1. FileInv => TypeOK
  BY DEF FileInv
<1> QED
  BY <1>1, FileInvariance, PTL

(* Design: "An operating-system lock prevents concurrent writers from      *)
(* corrupting one journal."  However many processes open it, and wherever  *)
(* they are killed, the file stays one header and whole records, up to a   *)
(* torn last piece.                                                        *)
THEOREM FileStaysOneJournal == Spec => []FileIsOneJournal
<1>1. FileInv => FileIsOneJournal
  BY DEF FileInv
<1> QED
  BY <1>1, FileInvariance, PTL

(* No lock outlives a process that died with it or failed to open.         *)
THEOREM LockIsNeverLeaked == Spec => []LockIsHeldByAWriter
<1>1. FileInv => LockIsHeldByAWriter
  BY DEF FileInv
<1> QED
  BY <1>1, FileInvariance, PTL

(* Journal.GetSummary of mcp.rs, and summarize_journal beside any writers: *)
(* a summary that succeeds counts whole records, all of those that were in *)
(* the file when it began and no other.                                    *)
THEOREM SummariesAreTrue == Spec => []SummaryIsTrue
<1>1. ASSUME NEW n \in Nat, NEW m \in Nat, n <= m
      PROVE  RecordsIn(n) <= RecordsIn(m)
  BY <1>1 DEF RecordsIn, PiecesPerRecord
<1>2. FileInv => SummaryIsTrue
  <2> SUFFICES ASSUME FileInv, reader = "counted" PROVE SummaryIsTrue
    BY DEF SummaryIsTrue
  <2>1. position \in Nat /\ Len(file) \in Nat /\ position <= Len(file)
    BY DEF FileInv, TypeOK
  <2> QED
    BY <1>1, <2>1 DEF FileInv, ReaderInStep, SummaryIsTrue
<1> QED
  BY <1>2, FileInvariance, PTL

=============================================================================
