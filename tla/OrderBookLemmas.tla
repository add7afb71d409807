-------------------------- MODULE OrderBookLemmas ---------------------------
(***************************************************************************)
(* What the operators of OrderBook return, for every message.              *)
(***************************************************************************)
EXTENDS OrderBook, SequenceTheorems, WellFoundedInduction, TLAPS

(* A nonempty set of positions has a largest one: the entry of a message   *)
(* that is written last exists.                                            *)
LEMMA LastPositionExists ==
  ASSUME NEW n \in Nat, NEW I \in SUBSET (1 .. n), I # {}
  PROVE  \E i \in I : \A j \in I : j <= i
<1> DEFINE T == {n - i : i \in I}
<1>1. T \subseteq Nat /\ T # {}
  <2>1. \A i \in I : n - i \in Nat
    OBVIOUS
  <2> QED
    BY <2>1
<1>2. PICK t \in T : \A u \in T : ~ (<<u, t>> \in OpToRel(<, Nat))
  <2> HIDE DEF T
  <2> QED
    BY <1>1, WFMin, NatLessThanWellFounded
<1>3. \A u \in T : t <= u
  <2>1. \A u, v \in Nat : u < v => <<u, v>> \in OpToRel(<, Nat)
    BY DEF OpToRel
  <2> HIDE DEF T
  <2>2. SUFFICES ASSUME NEW u \in T
                 PROVE  t <= u
    OBVIOUS
  <2>3. u \in Nat /\ t \in Nat
    BY <1>1
  <2>4. ~ (u < t)
    BY <1>2, <2>1, <2>3
  <2> QED
    BY <2>3, <2>4
<1>4. PICK i \in I : t = n - i
  OBVIOUS
<1>5. \A j \in I : j <= i
  <2>1. SUFFICES ASSUME NEW j \in I
                 PROVE  j <= i
    OBVIOUS
  <2>2. n - j \in T
    OBVIOUS
  <2>3. n - i <= n - j
    BY <1>3, <1>4, <2>2
  <2> QED
    BY <2>3
<1> QED
  BY <1>5

(* The size written last is the size of an entry for that price.           *)
LEMMA LastSizeIsAnEntrys ==
  ASSUME NEW R, NEW seq \in Seq(R), NEW I \in SUBSET DOMAIN seq,
         NEW p \in {seq[i].price : i \in I}
  PROVE  \E i \in I : /\ seq[i].price = p
                      /\ \A j \in I : seq[j].price = p => j <= i
                      /\ LastSize(seq, I, p) = seq[i].size
<1> DEFINE K == {i \in I : seq[i].price = p}
<1>1. DOMAIN seq = 1 .. Len(seq) /\ Len(seq) \in Nat
  BY LenProperties
<1>2. K \in SUBSET (1 .. Len(seq)) /\ K # {}
  BY <1>1
<1>3. PICK k \in K : \A j \in K : j <= k
  <2> HIDE DEF K
  <2> QED
    BY <1>1, <1>2, LastPositionExists
<1>4. \E i \in I : /\ seq[i].price = p
                   /\ \A j \in I : seq[j].price = p => j <= i
  BY <1>3
<1> QED
  BY <1>4 DEF LastSize

LEMMA SideOfType ==
  ASSUME NEW levels \in Seq(PriceLevel)
  PROVE  SideOf(levels) \in BookSide
<1> DEFINE I == {i \in DOMAIN levels : levels[i].size > 0}
           D == {levels[i].price : i \in I}
<1>1. \A i \in DOMAIN levels : levels[i] \in PriceLevel
  BY LenProperties, ElementOfSeq
<1>2. D \in SUBSET Prices
  BY <1>1 DEF PriceLevel
<1>3. \A p \in D : LastSize(levels, I, p) \in Sizes
  <2>1. SUFFICES ASSUME NEW p \in D
                 PROVE  LastSize(levels, I, p) \in Sizes
    OBVIOUS
  <2>2. PICK i \in I : LastSize(levels, I, p) = levels[i].size
    <3>1. I \in SUBSET DOMAIN levels
      OBVIOUS
    <3> HIDE DEF I
    <3> QED
      BY <2>1, <3>1, LastSizeIsAnEntrys
  <2> QED
    BY <1>1, <2>2 DEF PriceLevel
<1>4. SideOf(levels) = [p \in D |-> LastSize(levels, I, p)]
  BY DEF SideOf
<1>5. SideOf(levels) \in [D -> Sizes]
  BY <1>3, <1>4
<1> QED
  BY <1>2, <1>5 DEF BookSide

LEMMA ApplySnapshotType ==
  ASSUME NEW image \in BookImage
  PROVE  ApplySnapshot(image) \in Book
BY SideOfType DEF BookImage, ApplySnapshot, Book

LEMMA ChangedSideType ==
  ASSUME NEW levels \in BookSide, NEW changes \in Seq(BookChange), NEW side
  PROVE  ChangedSide(levels, changes, side) \in BookSide
<1> DEFINE I == {i \in DOMAIN changes : changes[i].side = side}
           touched == {changes[i].price : i \in I}
           removed == {p \in touched : LastSize(changes, I, p) = 0}
           D == (DOMAIN levels \cup touched) \ removed
           value(p) == IF p \in touched THEN LastSize(changes, I, p) ELSE levels[p]
<1>1. \A i \in DOMAIN changes : changes[i] \in BookChange
  BY LenProperties, ElementOfSeq
<1>2. PICK S \in SUBSET Prices : levels \in [S -> Sizes]
  BY DEF BookSide
<1>3. D \in SUBSET Prices
  BY <1>1, <1>2 DEF BookChange
<1>4. \A p \in D : value(p) \in Sizes
  <2>1. SUFFICES ASSUME NEW p \in D
                 PROVE  value(p) \in Sizes
    OBVIOUS
  <2>2. CASE p \in touched
    <3>1. PICK i \in I : LastSize(changes, I, p) = changes[i].size
      <4>1. I \in SUBSET DOMAIN changes
        OBVIOUS
      <4> HIDE DEF I
      <4> QED
        BY <2>2, <4>1, LastSizeIsAnEntrys
    <3>2. LastSize(changes, I, p) # 0
      BY <2>1, <2>2
    <3> QED
      BY <1>1, <2>2, <3>1, <3>2 DEF BookChange
  <2>3. CASE p \notin touched
    BY <1>2, <2>1, <2>3
  <2> QED
    BY <2>2, <2>3
<1>5. ChangedSide(levels, changes, side) = [p \in D |-> value(p)]
  BY DEF ChangedSide
<1>6. ChangedSide(levels, changes, side) \in [D -> Sizes]
  <2> HIDE DEF value, D
  <2> QED
    BY <1>4, <1>5
<1> QED
  BY <1>3, <1>6 DEF BookSide

LEMMA ApplyChangesType ==
  ASSUME NEW book \in Book, NEW changes \in Seq(BookChange)
  PROVE  ApplyChanges(book, changes) \in Book
BY ChangedSideType DEF ApplyChanges, Book

LEMMA EmptyBookType == EmptyBook \in Book
<1>1. EmptySide \in [{} -> Sizes]
  BY DEF EmptySide
<1> QED
  BY <1>1 DEF EmptyBook, Book, BookSide

(* The top is made of the greatest bid and the least ask.                  *)
LEMMA TopIsBest ==
  ASSUME NEW book \in Book, Top(book) # None
  PROVE  \E b \in BestBids(book.bids), a \in BestAsks(book.asks) :
            Top(book) = TopAt(book, b, a)
<1> DEFINE b == CHOOSE p \in BestBids(book.bids) : TRUE
           a == CHOOSE p \in BestAsks(book.asks) : TRUE
<1>1. BestBids(book.bids) # {} /\ BestAsks(book.asks) # {}
  BY DEF Top
<1>2. b \in BestBids(book.bids) /\ a \in BestAsks(book.asks)
  BY <1>1
<1>3. Top(book) = TopAt(book, b, a)
  BY <1>1 DEF Top
<1> QED
  BY <1>2, <1>3

LEMMA TopType ==
  ASSUME NEW book \in Book
  PROVE  Top(book) \in Option(TopOfBook)
<1>1. CASE Top(book) = None
  BY <1>1 DEF Option
<1>2. CASE Top(book) # None
  <2>1. PICK b \in BestBids(book.bids), a \in BestAsks(book.asks) :
          Top(book) = TopAt(book, b, a)
    BY <1>2, TopIsBest
  <2>2. /\ b \in DOMAIN book.bids
        /\ a \in DOMAIN book.asks
    BY DEF BestBids, BestAsks
  <2>3. book.bids \in BookSide /\ book.asks \in BookSide
    BY DEF Book
  <2>4. /\ b \in Prices /\ book.bids[b] \in Sizes
        /\ a \in Prices /\ book.asks[a] \in Sizes
    BY <2>2, <2>3 DEF BookSide
  <2> QED
    BY <2>1, <2>4 DEF Option, TopOfBook, TopAt
<1> QED
  BY <1>1, <1>2

LEMMA FromTopType ==
  ASSUME NEW top \in Option(TopOfBook)
  PROVE  FromTop(top) \in Option(Features)
<1>1. CASE FromTop(top) = None
  BY <1>1 DEF Option
<1>2. CASE FromTop(top) # None
  <2>1. top \in TopOfBook /\ ~ (top.ask < top.bid)
    BY <1>2 DEF FromTop, Option
  <2>2. /\ top.bid \in Nat \ {0} /\ top.ask \in Nat \ {0}
        /\ top.bidSize \in Nat \ {0} /\ top.askSize \in Nat \ {0}
    BY <2>1, DomainAssumption DEF TopOfBook
  <2>3. \A x, y \in Nat : x * y \in Nat
    OBVIOUS
  <2>4. top.ask * top.bidSize + top.bid * top.askSize \in Nat
    BY <2>2, <2>3
  <2>5. FromTop(top) =
          [mid2      |-> top.bid + top.ask,
           spread    |-> top.ask - top.bid,
           depth     |-> top.bidSize + top.askSize,
           micro     |-> top.ask * top.bidSize + top.bid * top.askSize,
           imbalance |-> top.bidSize - top.askSize]
    BY <1>2 DEF FromTop
  <2> QED
    BY <2>1, <2>2, <2>4, <2>5 DEF Features, Option
<1> QED
  BY <1>1, <1>2

(* A two-sided book that is not crossed has features, for any prices and   *)
(* sizes: the spread is positive, the micro price lies between bid and     *)
(* ask, and the imbalance between -1 and 1.                                *)
THEOREM FeaturesOfUncrossedBook ==
  ASSUME NEW book \in Book, Top(book) # None, ~IsCrossed(book)
  PROVE  LET top == Top(book)
             f   == FromTop(top)
         IN  /\ f # None
             /\ f.spread > 0
             /\ f.mid2 \in 2 * top.bid + 1 .. 2 * top.ask - 1
             /\ f.micro \in top.bid * f.depth .. top.ask * f.depth
             /\ f.imbalance \in -f.depth .. f.depth
<1> DEFINE top == Top(book)
           b == top.bid
           a == top.ask
           m == top.bidSize
           n == top.askSize
           f == [mid2      |-> b + a,
                 spread    |-> a - b,
                 depth     |-> m + n,
                 micro     |-> a * m + b * n,
                 imbalance |-> m - n]
<1>1. top \in TopOfBook
  BY TopType DEF Option
<1>2. /\ b \in Nat \ {0} /\ a \in Nat \ {0}
      /\ m \in Nat \ {0} /\ n \in Nat \ {0}
  BY <1>1, DomainAssumption DEF TopOfBook
<1>3. b < a
  BY <1>2 DEF IsCrossed
<1>4. FromTop(top) = f
  BY <1>2, <1>3 DEF FromTop
<1> HIDE DEF top, a, b, m, n
<1>5. \A x, y, z \in Nat : x <= y => x * z <= y * z
  OBVIOUS
<1>6. b * m <= a * m /\ b * n <= a * n
  BY <1>2, <1>3, <1>5
<1>7. /\ b * (m + n) = b * m + b * n
      /\ a * (m + n) = a * m + a * n
  BY <1>2
<1>8. /\ b * m \in Nat /\ b * n \in Nat
      /\ a * m \in Nat /\ a * n \in Nat
  BY <1>2
<1>9. a * m + b * n \in b * (m + n) .. a * (m + n)
  BY <1>6, <1>7, <1>8
<1>10. f # None
  <2>1. f \in Features
    BY <1>2, <1>3, <1>8 DEF Features
  <2> QED
    BY <2>1, FeaturesAssumption
<1> QED
  BY <1>2, <1>3, <1>4, <1>9, <1>10 DEF top, a, b, m, n

=============================================================================
