------------------------ MODULE OrderBookLoopsProofs ------------------------
(***************************************************************************)
(* That the loops of OrderBookLoops compute the closed forms of OrderBook, *)
(* for messages of any length, prices and sizes, on every book.            *)
(***************************************************************************)
EXTENDS OrderBookLoops, OrderBookLemmas, ListLemmas

(***************************************************************************)
(* One closed form for both loops: a side of the book after those entries  *)
(* that are in W.                                                          *)
(***************************************************************************)
Places(entries, W) == {i \in DOMAIN entries : entries[i] \in W}

Touched(entries, W) == {entries[i].price : i \in Places(entries, W)}

Last(entries, W, p) == LastSize(entries, Places(entries, W), p)

MergedPrices(levels, entries, W) ==
  (DOMAIN levels \cup Touched(entries, W))
    \ {p \in Touched(entries, W) : Last(entries, W, p) = 0}

SizeAt(levels, entries, W, p) ==
  IF p \in Touched(entries, W) THEN Last(entries, W, p) ELSE levels[p]

Merged(levels, entries, W) ==
  [p \in MergedPrices(levels, entries, W) |-> SizeAt(levels, entries, W, p)]

OfSide(side) == {e \in BookChange : e.side = side}

(* The entries of one side that a loop does not skip.                      *)
Counting(side) == {e \in BookChange : e.side = side /\ (snapshot => e.size > 0)}

(* What is left to do makes of the book so far what the message makes of   *)
(* the book before it.                                                     *)
RestMakesExpected ==
  /\ Merged(book.bids, todo, Counting("buy")) = Expected.bids
  /\ Merged(book.asks, todo, Counting("sell")) = Expected.asks

LoopInv == LoopTypeOK /\ RestMakesExpected

-----------------------------------------------------------------------------
LEMMA LastSizeIs ==
  ASSUME NEW seq, NEW I \in SUBSET Int, NEW p, NEW i \in I, seq[i].price = p,
         \A j \in I : seq[j].price = p => j <= i
  PROVE  LastSize(seq, I, p) = seq[i].size
<1> DEFINE k == CHOOSE k \in I : /\ seq[k].price = p
                                 /\ \A j \in I : seq[j].price = p => j <= k
<1>1. k \in I /\ seq[k].price = p /\ \A j \in I : seq[j].price = p => j <= k
  OBVIOUS
<1>2. LastSize(seq, I, p) = seq[k].size
  BY DEF LastSize
<1> HIDE DEF k
<1>3. k = i
  BY <1>1
<1> QED
  BY <1>2, <1>3

LEMMA SizesAreNat ==
  ASSUME NEW e \in BookChange
  PROVE  e.size \in Nat
<1>1. e.size \in Sizes \/ e.size = 0
  BY DEF BookChange
<1>2. Sizes \subseteq Nat
  BY DomainAssumption
<1>3. 0 \in Nat
  OBVIOUS
<1> QED
  BY <1>1, <1>2, <1>3, Zenon

LEMMA PlacesAreInts ==
  ASSUME NEW c \in Seq(BookChange), NEW W
  PROVE  Places(c, W) \in SUBSET Int /\ Places(c, W) \in SUBSET DOMAIN c
BY LenProperties DEF Places

(* The last entry for a price in one sequence is the last one in another,  *)
(* if that has the same entries for the price, each k places further.      *)
LEMMA SameLast ==
  ASSUME NEW c \in Seq(BookChange), NEW d \in Seq(BookChange), NEW W, NEW V,
         NEW k \in Int, NEW p \in Touched(c, W),
         \A i \in Places(c, W) : c[i].price = p => i + k \in Places(d, V) /\ d[i + k] = c[i],
         \A j \in Places(d, V) : d[j].price = p =>
           (j - k \in Places(c, W) /\ c[j - k].price = p)
             \/ \A i \in Places(c, W) : c[i].price = p => j <= i + k
  PROVE  Last(d, V, p) = Last(c, W, p)
<1>1. PICK i \in Places(c, W) : /\ c[i].price = p
                                /\ \A j \in Places(c, W) : c[j].price = p => j <= i
                                /\ Last(c, W, p) = c[i].size
  <2>1. Places(c, W) \in SUBSET DOMAIN c
    BY PlacesAreInts
  <2>2. p \in {c[i].price : i \in Places(c, W)}
    BY DEF Touched
  <2>3. \E i \in Places(c, W) : /\ c[i].price = p
                                /\ \A j \in Places(c, W) : c[j].price = p => j <= i
                                /\ LastSize(c, Places(c, W), p) = c[i].size
    BY <2>1, <2>2, LastSizeIsAnEntrys
  <2> QED
    BY <2>3 DEF Last
<1>2. Places(c, W) \in SUBSET Int /\ Places(d, V) \in SUBSET Int
  BY PlacesAreInts
<1>3. i + k \in Places(d, V) /\ d[i + k] = c[i]
  BY <1>1
<1>4. ASSUME NEW j \in Places(d, V), d[j].price = p PROVE j <= i + k
  <2>1. CASE j - k \in Places(c, W) /\ c[j - k].price = p
    BY <1>1, <1>2, <2>1
  <2>2. CASE \A h \in Places(c, W) : c[h].price = p => j <= h + k
    BY <1>1, <2>2
  <2> QED
    BY <1>4, <2>1, <2>2
<1>5. Last(d, V, p) = d[i + k].size
  BY <1>1, <1>2, <1>3, <1>4, LastSizeIs DEF Last
<1> QED
  BY <1>1, <1>3, <1>5

(* The entries of c in W are those of d in V, k places further.            *)
Shifted(c, W, d, V, k) ==
  /\ Places(d, V) = {i + k : i \in Places(c, W)}
  /\ \A i \in Places(c, W) : d[i + k] = c[i]

(* Entries k places further make the same of a side.                       *)
LEMMA SameMerged ==
  ASSUME NEW levels, NEW c \in Seq(BookChange), NEW d \in Seq(BookChange), NEW W, NEW V,
         NEW k \in Int, Shifted(c, W, d, V, k)
  PROVE  Merged(levels, d, V) = Merged(levels, c, W)
<1>0. /\ Places(d, V) = {i + k : i \in Places(c, W)}
      /\ \A i \in Places(c, W) : d[i + k] = c[i]
  BY DEF Shifted
<1>1. Places(c, W) \in SUBSET Int
  BY PlacesAreInts
<1>2. Touched(d, V) = Touched(c, W)
  BY <1>0 DEF Touched
<1>3. ASSUME NEW p \in Touched(c, W) PROVE Last(d, V, p) = Last(c, W, p)
  <2>1. \A i \in Places(c, W) : i + k \in Places(d, V) /\ d[i + k] = c[i]
    BY <1>0
  <2>2. ASSUME NEW j \in Places(d, V), d[j].price = p
        PROVE  j - k \in Places(c, W) /\ c[j - k].price = p
    <3>1. PICK i \in Places(c, W) : j = i + k
      BY <1>0
    <3>2. j - k = i
      BY <1>1, <3>1
    <3> QED
      BY <2>1, <2>2, <3>1, <3>2
  <2> QED
    BY <2>1, <2>2, SameLast
<1>4. MergedPrices(levels, d, V) = MergedPrices(levels, c, W)
  BY <1>2, <1>3 DEF MergedPrices
<1>5. \A p : SizeAt(levels, d, V, p) = SizeAt(levels, c, W, p)
  BY <1>2, <1>3 DEF SizeAt
<1> QED
  BY <1>4, <1>5 DEF Merged

LEMMA MergedNothing ==
  ASSUME NEW levels \in BookSide, NEW W
  PROVE  Merged(levels, <<>>, W) = levels
<1>1. Places(<<>>, W) = {}
  BY DEF Places
<1>2. Touched(<<>>, W) = {}
  BY <1>1 DEF Touched
<1>3. MergedPrices(levels, <<>>, W) = DOMAIN levels
  BY <1>2 DEF MergedPrices
<1>4. \A p : SizeAt(levels, <<>>, W, p) = levels[p]
  BY <1>2 DEF SizeAt
<1>5. levels = [p \in DOMAIN levels |-> levels[p]]
  BY DEF BookSide
<1> QED
  BY <1>3, <1>4, <1>5 DEF Merged

-----------------------------------------------------------------------------
(***************************************************************************)
(* One turn of a loop.                                                     *)
(***************************************************************************)

(* A level inserted or removed, as an entry says.                          *)
Put(levels, e) ==
  IF e.size > 0 THEN Insert(levels, e.price, e.size) ELSE Remove(levels, e.price)

LEMMA PutLevels ==
  ASSUME NEW levels, NEW e \in BookChange
  PROVE  /\ DOMAIN Put(levels, e) = IF e.size > 0 THEN DOMAIN levels \cup {e.price}
                                    ELSE DOMAIN levels \ {e.price}
         /\ \A p \in DOMAIN Put(levels, e) :
              Put(levels, e)[p] = IF p = e.price THEN e.size ELSE levels[p]
BY DEF Put, Insert, Remove

LEMMA PutType ==
  ASSUME NEW levels \in BookSide, NEW e \in BookChange
  PROVE  /\ Insert(levels, e.price, e.size) \in BookSide \/ e.size = 0
         /\ Remove(levels, e.price) \in BookSide
<1>1. PICK S \in SUBSET Prices : levels \in [S -> Sizes]
  BY DEF BookSide
<1>2. e.price \in Prices /\ (e.size = 0 \/ e.size \in Sizes)
  BY DEF BookChange
<1>3. Remove(levels, e.price) \in [S \ {e.price} -> Sizes]
  BY <1>1 DEF Remove
<1>4. e.size \in Sizes => Insert(levels, e.price, e.size) \in [S \cup {e.price} -> Sizes]
  BY <1>1 DEF Insert
<1>5. S \ {e.price} \in SUBSET Prices /\ S \cup {e.price} \in SUBSET Prices
  BY <1>1, <1>2
<1> QED
  BY <1>2, <1>3, <1>4, <1>5 DEF BookSide

(* The first entry can be put into the side before the others.             *)
LEMMA MergedHead ==
  ASSUME NEW levels, NEW c \in Seq(BookChange), c # <<>>, NEW W
  PROVE  Merged(levels, c, W) =
           IF Head(c) \in W THEN Merged(Put(levels, Head(c)), Tail(c), W)
           ELSE Merged(levels, Tail(c), W)
<1> DEFINE t == Tail(c)
           e == Head(c)
           I == Places(c, W)
           J == Places(t, W)
<1>1. /\ e \in BookChange /\ e = c[1] /\ t \in Seq(BookChange) /\ Len(c) \in Nat /\ Len(c) > 0
      /\ Len(t) = Len(c) - 1 /\ DOMAIN c = 1 .. Len(c) /\ DOMAIN t = 1 .. Len(c) - 1
      /\ \A j \in 1 .. Len(c) - 1 : t[j] = c[j + 1]
  BY HeadTailProperties, LenProperties
<1> HIDE DEF t, e
<1>2. ASSUME NEW j \in J PROVE j + 1 \in I /\ c[j + 1] = t[j] /\ j \in Int /\ j >= 1
  <2>1. j \in 1 .. Len(c) - 1 /\ t[j] \in W
    BY <1>1 DEF Places
  <2>2. j + 1 \in 1 .. Len(c) /\ c[j + 1] = t[j]
    BY <1>1, <2>1
  <2> QED
    BY <1>1, <2>1, <2>2 DEF Places
<1>3. ASSUME NEW i \in I, i # 1 PROVE i - 1 \in J /\ t[i - 1] = c[i] /\ (i - 1) + 1 = i
  <2>1. i \in 1 .. Len(c) /\ c[i] \in W
    BY <1>1 DEF Places
  <2>2. i - 1 \in 1 .. Len(c) - 1 /\ (i - 1) + 1 = i
    BY <1>1, <1>3, <2>1
  <2>3. t[i - 1] = c[i]
    BY <1>1, <2>2
  <2> QED
    BY <1>1, <2>1, <2>2, <2>3 DEF Places
<1>4. 1 \in I <=> e \in W
  BY <1>1 DEF Places
<1>5. I \in SUBSET Int /\ J \in SUBSET Int
  BY <1>1, PlacesAreInts
<1>6. CASE e \notin W
  <2>1. I = {j + 1 : j \in J}
    <3> HIDE DEF I, J
    <3> QED
      BY <1>2, <1>3, <1>4, <1>6
  <2>2. \A j \in J : c[j + 1] = t[j]
    BY <1>2
  <2>3. Merged(levels, c, W) = Merged(levels, t, W)
    <3>1. 1 \in Int /\ c \in Seq(BookChange) /\ t \in Seq(BookChange)
      BY <1>1
    <3>2. Shifted(t, W, c, W, 1)
      BY <2>1, <2>2 DEF Shifted
    <3> QED
      BY <3>1, <3>2, SameMerged
  <2> QED
    BY <1>6, <2>3 DEF t, e
<1>7. CASE e \in W
  <2> DEFINE q == e.price
             new == Put(levels, e)
  <2>1. Touched(c, W) = Touched(t, W) \cup {q}
    <3>1. ASSUME NEW p \in Touched(c, W) PROVE p \in Touched(t, W) \cup {q}
      <4>1. PICK i \in I : p = c[i].price
        BY <3>1 DEF Touched
      <4> QED
        BY <1>1, <1>3, <4>1 DEF Touched
    <3>2. Touched(t, W) \subseteq Touched(c, W)
      BY <1>2 DEF Touched
    <3>3. q \in Touched(c, W)
      BY <1>1, <1>4, <1>7 DEF Touched
    <3> QED
      BY <3>1, <3>2, <3>3
  <2>2. ASSUME NEW p \in Touched(t, W) PROVE Last(c, W, p) = Last(t, W, p)
    <3>1. ASSUME NEW i \in I, c[i].price = p
          PROVE  \/ i - 1 \in J /\ t[i - 1].price = p
                 \/ \A j \in J : t[j].price = p => i <= j + 1
      <4>1. CASE i = 1
        BY <1>2, <4>1
      <4>2. CASE i # 1
        BY <1>3, <3>1, <4>2
      <4> QED
        BY <4>1, <4>2
    <3>2. \A i \in J : t[i].price = p => i + 1 \in I /\ c[i + 1] = t[i]
      BY <1>2
    <3>3. 1 \in Int /\ c \in Seq(BookChange) /\ t \in Seq(BookChange)
      BY <1>1
    <3> QED
      BY <3>1, <3>2, <3>3, SameLast
  <2>3. q \notin Touched(t, W) => Last(c, W, q) = e.size
    <3> SUFFICES ASSUME q \notin Touched(t, W) PROVE Last(c, W, q) = c[1].size
      BY <1>1
    <3>1. \A i \in I : c[i].price = q => i <= 1
      <4> SUFFICES ASSUME NEW i \in I, c[i].price = q, i # 1 PROVE FALSE
        BY <1>5
      <4>1. i - 1 \in J /\ t[i - 1].price = q
        BY <1>3
      <4> QED
        BY <4>1 DEF Touched
    <3>2. 1 \in I /\ c[1].price = q
      BY <1>1, <1>4, <1>7
    <3> QED
      BY <1>5, <3>1, <3>2, LastSizeIs DEF Last
  <2>4. /\ DOMAIN new = IF e.size > 0 THEN DOMAIN levels \cup {q} ELSE DOMAIN levels \ {q}
        /\ \A p \in DOMAIN new : new[p] = IF p = q THEN e.size ELSE levels[p]
    BY <1>1, PutLevels
  <2>5. e.size \in Nat
    BY <1>1, SizesAreNat
  <2> HIDE DEF q, new
  <2>6. MergedPrices(levels, c, W) = MergedPrices(new, t, W)
    <3>1. ASSUME NEW p
          PROVE  p \in MergedPrices(levels, c, W) <=> p \in MergedPrices(new, t, W)
      <4>1. CASE p \in Touched(t, W)
        BY <2>1, <2>2, <4>1 DEF MergedPrices
      <4>2. CASE p \notin Touched(t, W) /\ p = q
        BY <2>1, <2>3, <2>4, <2>5, <4>2 DEF MergedPrices
      <4>3. CASE p \notin Touched(t, W) /\ p # q
        BY <2>1, <2>4, <4>3 DEF MergedPrices
      <4> QED
        BY <4>1, <4>2, <4>3
    <3> QED
      BY <3>1
  <2>7. ASSUME NEW p \in MergedPrices(new, t, W)
        PROVE  SizeAt(levels, c, W, p) = SizeAt(new, t, W, p)
    <3>1. CASE p \in Touched(t, W)
      BY <2>1, <2>2, <3>1 DEF SizeAt
    <3>2. CASE p \notin Touched(t, W)
      <4>1. p \in DOMAIN new
        BY <3>2 DEF MergedPrices
      <4>2. new[p] = IF p = q THEN e.size ELSE levels[p]
        BY <2>4, <4>1
      <4>3. CASE p = q
        BY <2>1, <2>3, <3>2, <4>2, <4>3 DEF SizeAt
      <4>4. CASE p # q
        BY <2>1, <3>2, <4>2, <4>4 DEF SizeAt
      <4> QED
        BY <4>3, <4>4
    <3> QED
      BY <3>1, <3>2
  <2>8. Merged(levels, c, W) = Merged(new, t, W)
    BY <2>6, <2>7 DEF Merged
  <2> QED
    BY <1>7, <2>8 DEF new, t, e
<1> QED
  BY <1>6, <1>7

-----------------------------------------------------------------------------
(***************************************************************************)
(* The closed forms are instances of Merged.                               *)
(***************************************************************************)
LEMMA ChangedSideIsMerged ==
  ASSUME NEW levels, NEW c \in Seq(BookChange), NEW side
  PROVE  ChangedSide(levels, c, side) = Merged(levels, c, OfSide(side))
<1> DEFINE I == {i \in DOMAIN c : c[i].side = side}
<1>1. \A i \in DOMAIN c : c[i] \in BookChange
  BY LenProperties, ElementOfSeq
<1>2. Places(c, OfSide(side)) = I
  BY <1>1 DEF Places, OfSide
<1>3. Touched(c, OfSide(side)) = {c[i].price : i \in I}
  BY <1>2 DEF Touched
<1>4. \A p : Last(c, OfSide(side), p) = LastSize(c, I, p)
  BY <1>2 DEF Last
<1> QED
  BY <1>3, <1>4 DEF ChangedSide, Merged, MergedPrices, SizeAt

(* The levels of a snapshot that are not skipped.                          *)
Sized(side) == {e \in BookChange : e.side = side /\ e.size > 0}

LEMMA SideOfIsMerged ==
  ASSUME NEW side, NEW b \in Seq(BookChange \cap OfSide(side))
  PROVE  SideOf(b) = Merged(EmptySide, b, Sized(side))
<1> DEFINE I == {i \in DOMAIN b : b[i].size > 0}
           W == Sized(side)
<1>1. \A i \in DOMAIN b : b[i] \in BookChange /\ b[i].side = side
  <2>1. \A i \in DOMAIN b : b[i] \in BookChange \cap OfSide(side)
    BY LenProperties, ElementOfSeq
  <2> QED
    BY <2>1 DEF OfSide
<1>2. Places(b, W) = I
  BY <1>1 DEF Places, Sized
<1>3. Touched(b, W) = {b[i].price : i \in I}
  BY <1>2 DEF Touched
<1>4. \A p : Last(b, W, p) = LastSize(b, I, p)
  BY <1>2 DEF Last
<1>5. ASSUME NEW p \in {b[i].price : i \in I} PROVE LastSize(b, I, p) # 0
  <2>1. \E i \in I : LastSize(b, I, p) = b[i].size
    BY LastSizeIsAnEntrys
  <2> QED
    BY <2>1
<1> HIDE DEF I
<1>6. MergedPrices(EmptySide, b, W) = {b[i].price : i \in I}
  <2>1. DOMAIN EmptySide = {}
    BY DEF EmptySide
  <2>2. {p \in Touched(b, W) : Last(b, W, p) = 0} = {}
    BY <1>3, <1>4, <1>5
  <2> QED
    BY <1>3, <2>1, <2>2 DEF MergedPrices
<1>7. \A p \in {b[i].price : i \in I} : SizeAt(EmptySide, b, W, p) = LastSize(b, I, p)
  BY <1>3, <1>4 DEF SizeAt
<1> QED
  BY <1>6, <1>7 DEF SideOf, Merged, I

(* Of two sequences in a row, only the one with entries in W counts.       *)
LEMMA LeftPartMerged ==
  ASSUME NEW levels, NEW a \in Seq(BookChange), NEW b \in Seq(BookChange), NEW W,
         \A i \in DOMAIN b : b[i] \notin W
  PROVE  Merged(levels, a \o b, W) = Merged(levels, a, W)
<1> DEFINE c == a \o b
<1>1. /\ c \in Seq(BookChange) /\ Len(a) \in Nat /\ Len(b) \in Nat /\ Len(c) = Len(a) + Len(b)
      /\ DOMAIN a = 1 .. Len(a) /\ DOMAIN b = 1 .. Len(b) /\ DOMAIN c = 1 .. Len(a) + Len(b)
      /\ \A i \in 1 .. Len(a) + Len(b) : c[i] = IF i <= Len(a) THEN a[i] ELSE b[i - Len(a)]
  BY ConcatProperties, LenProperties
<1> HIDE DEF c
<1>2. ASSUME NEW i \in Places(a, W) PROVE i + 0 = i /\ i \in Places(c, W) /\ c[i] = a[i]
  BY <1>1 DEF Places
<1>3. ASSUME NEW i \in Places(c, W) PROVE i + 0 = i /\ i \in Places(a, W)
  <2>1. i \in 1 .. Len(a) + Len(b) /\ c[i] \in W
    BY <1>1 DEF Places
  <2>2. CASE i <= Len(a)
    BY <1>1, <2>1, <2>2 DEF Places
  <2>3. CASE ~(i <= Len(a))
    <3>1. i - Len(a) \in 1 .. Len(b) /\ c[i] = b[i - Len(a)]
      BY <1>1, <2>1, <2>3
    <3> QED
      BY <1>1, <2>1, <3>1
  <2> QED
    BY <2>2, <2>3
<1>4. Places(c, W) = {i + 0 : i \in Places(a, W)}
  BY <1>2, <1>3
<1>5. \A i \in Places(a, W) : c[i + 0] = a[i]
  BY <1>2
<1>6. 0 \in Int /\ c \in Seq(BookChange) /\ a \in Seq(BookChange)
  BY <1>1
<1>7. Shifted(a, W, c, W, 0)
  BY <1>4, <1>5 DEF Shifted
<1>8. Merged(levels, c, W) = Merged(levels, a, W)
  BY <1>6, <1>7, SameMerged
<1> QED
  BY <1>8 DEF c

LEMMA RightPartMerged ==
  ASSUME NEW levels, NEW a \in Seq(BookChange), NEW b \in Seq(BookChange), NEW W,
         \A i \in DOMAIN a : a[i] \notin W
  PROVE  Merged(levels, a \o b, W) = Merged(levels, b, W)
<1> DEFINE c == a \o b
           k == Len(a)
<1>1. /\ c \in Seq(BookChange) /\ k \in Nat /\ Len(b) \in Nat
      /\ DOMAIN a = 1 .. k /\ DOMAIN b = 1 .. Len(b) /\ DOMAIN c = 1 .. k + Len(b)
      /\ \A i \in 1 .. k + Len(b) : c[i] = IF i <= k THEN a[i] ELSE b[i - k]
  BY ConcatProperties, LenProperties
<1> HIDE DEF c, k
<1>2. ASSUME NEW i \in Places(b, W) PROVE i + k \in Places(c, W) /\ c[i + k] = b[i]
  <2>1. i \in 1 .. Len(b) /\ b[i] \in W
    BY <1>1 DEF Places
  <2>2. i + k \in 1 .. k + Len(b) /\ ~(i + k <= k) /\ (i + k) - k = i
    BY <1>1, <2>1
  <2>3. c[i + k] = b[i]
    BY <1>1, <2>2
  <2> QED
    BY <1>1, <2>1, <2>2, <2>3 DEF Places
<1>3. ASSUME NEW i \in Places(c, W) PROVE i - k \in Places(b, W) /\ (i - k) + k = i
  <2>1. i \in 1 .. k + Len(b) /\ c[i] \in W
    BY <1>1 DEF Places
  <2>2. ~(i <= k)
    BY <1>1, <2>1
  <2>3. i - k \in 1 .. Len(b) /\ (i - k) + k = i
    BY <1>1, <2>1, <2>2
  <2>4. c[i] = b[i - k]
    BY <1>1, <2>1, <2>2
  <2> QED
    BY <1>1, <2>1, <2>3, <2>4 DEF Places
<1>4. Places(c, W) = {i + k : i \in Places(b, W)}
  BY <1>2, <1>3
<1>5. \A i \in Places(b, W) : c[i + k] = b[i]
  BY <1>2
<1>6. k \in Int /\ c \in Seq(BookChange) /\ b \in Seq(BookChange)
  BY <1>1
<1>7. Shifted(b, W, c, W, k)
  BY <1>4, <1>5 DEF Shifted
<1>8. Merged(levels, c, W) = Merged(levels, b, W)
  BY <1>6, <1>7, SameMerged
<1> QED
  BY <1>8 DEF c

-----------------------------------------------------------------------------
(***************************************************************************)
(* The loops.                                                              *)
(***************************************************************************)

(* A snapshot's entries, one side at a time.                               *)
LEMMA EntriesOfType ==
  ASSUME NEW entries \in Seq(BookChange), NEW side
  PROVE  /\ EntriesOf(entries, side) \in Seq(BookChange \cap OfSide(side))
         /\ EntriesOf(entries, side) \in Seq(BookChange)
         /\ \A i \in DOMAIN EntriesOf(entries, side) : EntriesOf(entries, side)[i].side = side
<1> DEFINE b == EntriesOf(entries, side)
<1>1. b \in Seq(BookChange \cap OfSide(side))
  BY SelectedType DEF EntriesOf, OfSide
<1> HIDE DEF b
<1>2. Len(b) \in Nat /\ b \in [1 .. Len(b) -> BookChange \cap OfSide(side)]
  BY <1>1, LenProperties
<1>3. b \in [1 .. Len(b) -> BookChange]
  BY <1>2
<1>4. b \in Seq(BookChange)
  BY <1>2, <1>3
<1>5. \A i \in DOMAIN b : b[i].side = side
  BY <1>2 DEF OfSide
<1> QED
  BY <1>1, <1>4, <1>5 DEF b

LEMMA EntriesAreSeqs ==
  ASSUME NEW entries \in Entries
  PROVE  entries \in Seq(BookChange)
<1>1. PICK n \in 0 .. MaxEntries : entries \in [1 .. n -> BookChange]
  BY DEF Entries
<1>2. n \in Nat
  BY MaxEntriesAssumption
<1> QED
  BY <1>1, <1>2

LEMMA ExpectedSides ==
  /\ Expected = [bids |-> Expected.bids, asks |-> Expected.asks]
  /\ snapshot => /\ Expected.bids = SideOf(EntriesOf(message, "buy"))
                 /\ Expected.asks = SideOf(EntriesOf(message, "sell"))
  /\ ~snapshot => Expected = ApplyChanges(before, message)
BY DEF Expected, ApplySnapshot, ApplyChanges

LEMMA LoopInitially == LoopInit => LoopInv
<1> SUFFICES ASSUME LoopInit PROVE LoopInv
  OBVIOUS
<1> USE DEF LoopInit
<1>1. LoopTypeOK
  <2>1. book \in Book /\ before \in Book
    BY EmptyBookType
  <2>2. todo \in Seq(BookChange) /\ message \in Seq(BookChange)
    OBVIOUS
  <2>3. snapshot \in BOOLEAN
    OBVIOUS
  <2> QED
    BY <2>1, <2>2, <2>3 DEF LoopTypeOK
<1>2. Expected = ApplyChanges(EmptyBook, <<>>)
  BY DEF Expected
<1>3. <<>> \in Seq(BookChange)
  OBVIOUS
<1>4. /\ Expected.bids = Merged(EmptyBook.bids, <<>>, OfSide("buy"))
      /\ Expected.asks = Merged(EmptyBook.asks, <<>>, OfSide("sell"))
  BY <1>2, <1>3, ChangedSideIsMerged DEF ApplyChanges
<1>5. Counting("buy") = OfSide("buy") /\ Counting("sell") = OfSide("sell")
  BY DEF Counting, OfSide
<1>6. RestMakesExpected
  BY <1>4, <1>5 DEF RestMakesExpected
<1> QED
  BY <1>1, <1>6 DEF LoopInv

LEMMA SnapshotStarts ==
  ASSUME LoopInv, NEW entries \in Entries, StartSnapshot(entries)
  PROVE  LoopInv'
<1> DEFINE b == EntriesOf(entries, "buy")
           s == EntriesOf(entries, "sell")
<1>1. entries \in Seq(BookChange)
  BY EntriesAreSeqs
<1>2. /\ b \in Seq(BookChange \cap OfSide("buy")) /\ b \in Seq(BookChange)
      /\ \A i \in DOMAIN b : b[i].side = "buy"
  BY <1>1, EntriesOfType
<1>3. /\ s \in Seq(BookChange \cap OfSide("sell")) /\ s \in Seq(BookChange)
      /\ \A i \in DOMAIN s : s[i].side = "sell"
  BY <1>1, EntriesOfType
<1>4. /\ book' = EmptyBook /\ before' = book /\ message' = entries /\ snapshot' = TRUE
      /\ todo' = b \o s
  BY DEF StartSnapshot
<1>5. Expected' = [bids |-> SideOf(b), asks |-> SideOf(s)]
  BY <1>4 DEF Expected, ApplySnapshot
<1> HIDE DEF b, s
<1>6. b \o s \in Seq(BookChange)
  BY <1>2, <1>3, ConcatProperties
<1>7. LoopTypeOK'
  BY <1>1, <1>4, <1>6, EmptyBookType DEF LoopInv, LoopTypeOK
<1>8. Counting("buy")' = Sized("buy") /\ Counting("sell")' = Sized("sell")
  BY <1>4 DEF Counting, Sized
<1>9. Merged(EmptySide, b \o s, Sized("buy")) = SideOf(b)
  <2>1. \A i \in DOMAIN s : s[i] \notin Sized("buy")
    BY <1>3 DEF Sized
  <2>2. Merged(EmptySide, b \o s, Sized("buy")) = Merged(EmptySide, b, Sized("buy"))
    BY <1>2, <1>3, <2>1, LeftPartMerged
  <2> QED
    BY <1>2, <2>2, SideOfIsMerged
<1>10. Merged(EmptySide, b \o s, Sized("sell")) = SideOf(s)
  <2>1. \A i \in DOMAIN b : b[i] \notin Sized("sell")
    BY <1>2 DEF Sized
  <2>2. Merged(EmptySide, b \o s, Sized("sell")) = Merged(EmptySide, s, Sized("sell"))
    BY <1>2, <1>3, <2>1, RightPartMerged
  <2> QED
    BY <1>3, <2>2, SideOfIsMerged
<1>11. book'.bids = EmptySide /\ book'.asks = EmptySide
  BY <1>4 DEF EmptyBook
<1>12. RestMakesExpected'
  BY <1>4, <1>5, <1>8, <1>9, <1>10, <1>11 DEF RestMakesExpected
<1> QED
  BY <1>7, <1>12 DEF LoopInv

LEMMA DeltaStarts ==
  ASSUME LoopInv, NEW changes \in Entries, StartDelta(changes)
  PROVE  LoopInv'
<1>1. changes \in Seq(BookChange)
  BY EntriesAreSeqs
<1>2. /\ book' = book /\ before' = book /\ message' = changes /\ snapshot' = FALSE
      /\ todo' = changes
  BY DEF StartDelta
<1>3. LoopTypeOK'
  BY <1>1, <1>2 DEF LoopInv, LoopTypeOK
<1>4. Expected' = ApplyChanges(book, changes)
  BY <1>2 DEF Expected
<1>5. Counting("buy")' = OfSide("buy") /\ Counting("sell")' = OfSide("sell")
  BY <1>2 DEF Counting, OfSide
<1>6. /\ Expected'.bids = Merged(book.bids, changes, OfSide("buy"))
      /\ Expected'.asks = Merged(book.asks, changes, OfSide("sell"))
  BY <1>1, <1>4, ChangedSideIsMerged DEF ApplyChanges
<1>7. RestMakesExpected'
  BY <1>2, <1>5, <1>6 DEF RestMakesExpected
<1> QED
  BY <1>3, <1>7 DEF LoopInv

(* One turn puts its entry into the side it names, unless it skips it.     *)
LEMMA TurnPuts ==
  ASSUME LoopInv, LoopStep
  PROVE  LET e == Head(todo)
         IN  /\ book' \in Book
             /\ book'.bids = IF e \in Counting("buy") THEN Put(book.bids, e) ELSE book.bids
             /\ book'.asks = IF e \in Counting("sell") THEN Put(book.asks, e) ELSE book.asks
<1> DEFINE e == Head(todo)
<1>1. book \in Book /\ todo \in Seq(BookChange) /\ todo # <<>> /\ snapshot \in BOOLEAN
  BY DEF LoopInv, LoopTypeOK, LoopStep
<1>2. e \in BookChange
  BY <1>1
<1>3. book' = IF e.side = "buy" THEN [book EXCEPT !.bids = Updated(@, e)]
              ELSE [book EXCEPT !.asks = Updated(@, e)]
  BY DEF LoopStep
<1> HIDE DEF e
<1>4. book.bids \in BookSide /\ book.asks \in BookSide
  BY <1>1 DEF Book
<1>5. (e.side = "buy" \/ e.side = "sell") /\ e.size \in Nat
  BY <1>2, SizesAreNat DEF BookChange, Side
<1>6. ASSUME NEW levels \in BookSide
      PROVE  /\ Updated(levels, e) \in BookSide
             /\ Updated(levels, e) = IF snapshot => e.size > 0 THEN Put(levels, e) ELSE levels
  <2>1. /\ Insert(levels, e.price, e.size) \in BookSide \/ e.size = 0
        /\ Remove(levels, e.price) \in BookSide
    BY <1>2, PutType
  <2> QED
    BY <1>5, <2>1 DEF Updated, Put
<1>7. CASE e.side = "buy"
  <2>1. book' = [bids |-> Updated(book.bids, e), asks |-> book.asks]
    BY <1>1, <1>3, <1>7 DEF Book
  <2>2. e \notin Counting("sell") /\ (e \in Counting("buy") <=> (snapshot => e.size > 0))
    BY <1>2, <1>7 DEF Counting
  <2> QED
    BY <1>4, <1>6, <2>1, <2>2 DEF Book, e
<1>8. CASE e.side = "sell"
  <2>1. book' = [bids |-> book.bids, asks |-> Updated(book.asks, e)]
    BY <1>1, <1>3, <1>8 DEF Book
  <2>2. e \notin Counting("buy") /\ (e \in Counting("sell") <=> (snapshot => e.size > 0))
    BY <1>2, <1>8 DEF Counting
  <2> QED
    BY <1>4, <1>6, <2>1, <2>2 DEF Book, e
<1> QED
  BY <1>5, <1>7, <1>8

LEMMA TurnKeeps ==
  ASSUME LoopInv, LoopStep
  PROVE  LoopInv'
<1> DEFINE e == Head(todo)
<1>1. /\ todo \in Seq(BookChange) /\ todo # <<>> /\ before \in Book
      /\ message \in Seq(BookChange) /\ snapshot \in BOOLEAN
  BY DEF LoopInv, LoopTypeOK, LoopStep
<1>2. /\ todo' = Tail(todo) /\ before' = before /\ message' = message /\ snapshot' = snapshot
  BY DEF LoopStep
<1>3. /\ book' \in Book
      /\ book'.bids = IF e \in Counting("buy") THEN Put(book.bids, e) ELSE book.bids
      /\ book'.asks = IF e \in Counting("sell") THEN Put(book.asks, e) ELSE book.asks
  BY TurnPuts
<1>4. Tail(todo) \in Seq(BookChange)
  BY <1>1
<1>5. LoopTypeOK'
  BY <1>1, <1>2, <1>3, <1>4 DEF LoopTypeOK
<1>6. Expected' = Expected
  BY <1>2 DEF Expected
<1>7. Counting("buy")' = Counting("buy") /\ Counting("sell")' = Counting("sell")
  BY <1>2 DEF Counting
<1>8. Merged(book.bids, todo, Counting("buy")) = Merged(book'.bids, Tail(todo), Counting("buy"))
  BY <1>1, <1>3, MergedHead
<1>9. Merged(book.asks, todo, Counting("sell")) = Merged(book'.asks, Tail(todo), Counting("sell"))
  BY <1>1, <1>3, MergedHead
<1>10. /\ Merged(book.bids, todo, Counting("buy")) = Expected.bids
       /\ Merged(book.asks, todo, Counting("sell")) = Expected.asks
  BY DEF LoopInv, RestMakesExpected
<1>11. RestMakesExpected'
  BY <1>2, <1>6, <1>7, <1>8, <1>9, <1>10 DEF RestMakesExpected
<1> QED
  BY <1>5, <1>11 DEF LoopInv

(* The invariant of the loops.                                             *)
THEOREM LoopInvariance == LoopSpec => []LoopInv
<1>1. LoopInit => LoopInv
  BY LoopInitially
<1>2. LoopInv /\ [LoopNext]_loopVars => LoopInv'
  <2> SUFFICES ASSUME LoopInv, [LoopNext]_loopVars PROVE LoopInv'
    OBVIOUS
  <2>1. CASE \E entries \in Entries : StartSnapshot(entries) \/ StartDelta(entries)
    BY <2>1, SnapshotStarts, DeltaStarts
  <2>2. CASE LoopStep
    BY <2>2, TurnKeeps
  <2>3. CASE UNCHANGED loopVars
    BY <2>3 DEF loopVars, LoopInv, LoopTypeOK, RestMakesExpected, Expected, Counting
  <2> QED
    BY <2>1, <2>2, <2>3 DEF LoopNext
<1> QED
  BY <1>1, <1>2, PTL DEF LoopSpec

(* The book and what a loop still has to do keep their types: no level of  *)
(* size zero ever enters the book.                                         *)
THEOREM LoopTypes == LoopSpec => []LoopTypeOK
<1>1. LoopInv => LoopTypeOK
  BY DEF LoopInv
<1> QED
  BY <1>1, LoopInvariance, PTL

(* A loop that is through has computed the closed form: apply_snapshot and *)
(* apply_changes are ApplySnapshot and ApplyChanges, for any message.      *)
THEOREM LoopsComputeTheClosedForms == LoopSpec => []LoopsAgree
<1>1. LoopInv => LoopsAgree
  <2> SUFFICES ASSUME LoopInv, todo = <<>> PROVE book = Expected
    BY DEF LoopsAgree
  <2>1. book \in Book /\ book.bids \in BookSide /\ book.asks \in BookSide
    BY DEF LoopInv, LoopTypeOK, Book
  <2>2. book.bids = Expected.bids /\ book.asks = Expected.asks
    BY <2>1, MergedNothing DEF LoopInv, RestMakesExpected
  <2>3. book = [bids |-> book.bids, asks |-> book.asks]
    BY <2>1 DEF Book
  <2> QED
    BY <2>2, <2>3, ExpectedSides
<1> QED
  BY <1>1, LoopInvariance, PTL

(* In the middle of a delta, the closed form of the rest leads from the    *)
(* book so far to the same book.                                           *)
THEOREM RestOfADeltaAgrees == LoopSpec => []RestAgrees
<1>1. LoopInv => RestAgrees
  <2> SUFFICES ASSUME LoopInv, ~snapshot
               PROVE  ApplyChanges(book, todo) = ApplyChanges(before, message)
    BY DEF RestAgrees
  <2>1. todo \in Seq(BookChange)
    BY DEF LoopInv, LoopTypeOK
  <2>2. Counting("buy") = OfSide("buy") /\ Counting("sell") = OfSide("sell")
    BY DEF Counting, OfSide
  <2>3. /\ ChangedSide(book.bids, todo, "buy") = Expected.bids
        /\ ChangedSide(book.asks, todo, "sell") = Expected.asks
    BY <2>1, <2>2, ChangedSideIsMerged DEF LoopInv, RestMakesExpected
  <2>4. ApplyChanges(book, todo) = [bids |-> Expected.bids, asks |-> Expected.asks]
    BY <2>3 DEF ApplyChanges
  <2> QED
    BY <2>4, ExpectedSides
<1> QED
  BY <1>1, LoopInvariance, PTL

(* In the middle of every loop, a book that is not crossed has features    *)
(* within their bounds.                                                    *)
THEOREM FeaturesAlwaysBounded == LoopSpec => []FeaturesBounded
<1>1. LoopInv => FeaturesBounded
  <2> SUFFICES ASSUME LoopInv PROVE FeaturesBounded
    OBVIOUS
  <2>1. book \in Book
    BY DEF LoopInv, LoopTypeOK
  <2> QED
    BY <2>1, FeaturesOfUncrossedBook DEF FeaturesBounded
<1> QED
  BY <1>1, LoopInvariance, PTL

=============================================================================
