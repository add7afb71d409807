----------------------------- MODULE OrderBook ------------------------------
(***************************************************************************)
(* src/order_book.rs and src/features.rs as operators on values.           *)
(*                                                                         *)
(* A side of the book is a function from the prices that have a level to   *)
(* their sizes (a BTreeMap in the code).  The loops over levels and        *)
(* changes are given in closed form: of several entries for one price the  *)
(* last one wins.  OrderBookLoops restates them as the loops they are and  *)
(* the run order_book_loops compares the two.                              *)
(***************************************************************************)
EXTENDS Domain

BookSide == UNION {[S -> Sizes] : S \in SUBSET Prices}

Book == [bids : BookSide, asks : BookSide]

EmptySide == [p \in {} |-> 0]

(* The state of a defaulted OrderBook. *)
EmptyBook == [bids |-> EmptySide, asks |-> EmptySide]

-----------------------------------------------------------------------------
(***************************************************************************)
(* Updates.                                                                *)
(***************************************************************************)

(* Mutant: the first entry wins. *)
LastSize_First(seq, I, p) ==
  LET i == CHOOSE i \in I : /\ seq[i].price = p
                            /\ \A j \in I : seq[j].price = p => i <= j
  IN  seq[i].size

(* The size written last for price p by those entries of seq in I.  *)
LastSize(seq, I, p) ==
  LET i == CHOOSE i \in I : /\ seq[i].price = p
                            /\ \A j \in I : seq[j].price = p => j <= i
  IN  seq[i].size

(* A cleared side after the insertions of one snapshot array: levels of    *)
(* size zero are skipped.                                                  *)
SideOf(levels) ==
  LET I == {i \in DOMAIN levels : levels[i].size > 0}
  IN  [p \in {levels[i].price : i \in I} |-> LastSize(levels, I, p)]

(* OrderBook::apply_snapshot: both sides are cleared first. *)
ApplySnapshot(image) == [bids |-> SideOf(image.bids), asks |-> SideOf(image.asks)]

(* Mutant: the removals of a message are made before its insertions. *)
ChangedSide_RemovesFirst(levels, changes, side) ==
  LET I == {i \in DOMAIN changes : changes[i].side = side}
      written == {i \in I : changes[i].size > 0}
      removed == {changes[i].price : i \in I \ written}
      touched == {changes[i].price : i \in written}
  IN  [p \in (DOMAIN levels \ removed) \cup touched |->
         IF p \in touched THEN LastSize(changes, written, p) ELSE levels[p]]

(* One side after the changes addressed to it: a level whose last change   *)
(* has size zero is removed, any other last change is the level's size.    *)
ChangedSide(levels, changes, side) ==
  LET I == {i \in DOMAIN changes : changes[i].side = side}
      touched == {changes[i].price : i \in I}
      removed == {p \in touched : LastSize(changes, I, p) = 0}
  IN  [p \in (DOMAIN levels \cup touched) \ removed |->
         IF p \in touched THEN LastSize(changes, I, p) ELSE levels[p]]

(* OrderBook::apply_changes *)
ApplyChanges(book, changes) ==
  [bids |-> ChangedSide(book.bids, changes, "buy"),
   asks |-> ChangedSide(book.asks, changes, "sell")]

-----------------------------------------------------------------------------
(***************************************************************************)
(* Queries.                                                                *)
(***************************************************************************)

(* last_key_value of the bids and first_key_value of the asks, as sets     *)
(* with at most one element.                                               *)
BestBids(bids) == {p \in DOMAIN bids : \A q \in DOMAIN bids : q <= p}
BestAsks(asks) == {p \in DOMAIN asks : \A q \in DOMAIN asks : p <= q}

TopOfBook == [bid : Prices, bidSize : Sizes, ask : Prices, askSize : Sizes]

TopAt(book, b, a) ==
  [bid |-> b, bidSize |-> book.bids[b], ask |-> a, askSize |-> book.asks[a]]

(* OrderBook::top: None as long as one side is empty. *)
Top(book) ==
  IF BestBids(book.bids) = {} \/ BestAsks(book.asks) = {}
  THEN None
  ELSE TopAt(book, CHOOSE p \in BestBids(book.bids) : TRUE,
                   CHOOSE p \in BestAsks(book.asks) : TRUE)

(* Mutant: a locked book passes. *)
IsCrossed_Strictly(book) == LET top == Top(book) IN top # None /\ top.bid > top.ask

(* OrderBook::is_crossed: a locked book counts as crossed. *)
IsCrossed(book) == LET top == Top(book) IN top # None /\ top.bid >= top.ask

(***************************************************************************)
(* OnlineFeatures::from_top.  Quotients are kept as exact numerators:      *)
(*   mid2      twice the mid price                                         *)
(*   micro     micro price times depth                                     *)
(*   imbalance book imbalance times depth                                  *)
(* spread_bps is spread / mid * 10000, a function of the two.              *)
(***************************************************************************)
FromTop(top) ==
  IF \/ top = None
     \/ top.bid <= 0
     \/ top.ask <= 0
     \/ top.ask < top.bid
     \/ top.bidSize < 0
     \/ top.askSize < 0
  THEN None
  ELSE [mid2      |-> top.bid + top.ask,
        spread    |-> top.ask - top.bid,
        depth     |-> top.bidSize + top.askSize,
        micro     |-> top.ask * top.bidSize + top.bid * top.askSize,
        imbalance |-> top.bidSize - top.askSize]

Features == [mid2 : Nat \ {0}, spread : Nat, depth : Nat, micro : Nat, imbalance : Int]

ASSUME FeaturesAssumption == None \notin Features

=============================================================================
