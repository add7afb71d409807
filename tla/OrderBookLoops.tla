--------------------------- MODULE OrderBookLoops ---------------------------
(***************************************************************************)
(* The loops of src/order_book.rs, one level or change at a time, against  *)
(* the closed forms of OrderBook that the engine's model uses.             *)
(*                                                                         *)
(* A snapshot clears the book and then runs over the bids and the asks; it *)
(* skips levels of size zero.  A delta runs over its changes; it removes   *)
(* the level of a change of size zero.  Both are a run over entries that   *)
(* name their side.                                                        *)
(***************************************************************************)
EXTENDS OrderBook, Lists

CONSTANTS
  MaxEntries   \* bound on the entries of one message

ASSUME MaxEntriesAssumption == MaxEntries \in Nat

VARIABLES
  book,       \* the book, in the middle of a loop
  todo,       \* the entries the loop has not reached
  snapshot,   \* whether it is a snapshot's loop
  before,     \* the book before the message
  message     \* the entries of the message

loopVars == <<book, todo, snapshot, before, message>>

Entries == UNION {[1 .. n -> BookChange] : n \in 0 .. MaxEntries}

EntriesOf(entries, side) == Selected(entries, {e \in BookChange : e.side = side})

(* What the closed forms say the message makes of the book. *)
Expected ==
  IF snapshot
  THEN ApplySnapshot([bids |-> EntriesOf(message, "buy"), asks |-> EntriesOf(message, "sell")])
  ELSE ApplyChanges(before, message)

LoopInit ==
  /\ book = EmptyBook
  /\ before = EmptyBook
  /\ todo = <<>>
  /\ message = <<>>
  /\ snapshot = FALSE

StartSnapshot(entries) ==
  /\ todo = <<>>
  /\ book' = EmptyBook
  /\ before' = book
  /\ todo' = EntriesOf(entries, "buy") \o EntriesOf(entries, "sell")
  /\ message' = entries
  /\ snapshot' = TRUE

StartDelta(changes) ==
  /\ todo = <<>>
  /\ before' = book
  /\ todo' = changes
  /\ message' = changes
  /\ snapshot' = FALSE
  /\ UNCHANGED book

(* BTreeMap::insert and BTreeMap::remove *)
Insert(side, price, size) ==
  [p \in DOMAIN side \cup {price} |-> IF p = price THEN size ELSE side[p]]
Remove(side, price) == [p \in DOMAIN side \ {price} |-> side[p]]

(* Mutant: a size of zero is a size like any other. *)
Updated_InsertsZero(side, entry) == Insert(side, entry.price, entry.size)

Updated(side, entry) ==
  IF entry.size > 0 THEN Insert(side, entry.price, entry.size)
  ELSE IF snapshot THEN side
  ELSE Remove(side, entry.price)

LoopStep ==
  /\ todo # <<>>
  /\ LET entry == Head(todo)
     IN  book' = IF entry.side = "buy"
                 THEN [book EXCEPT !.bids = Updated(@, entry)]
                 ELSE [book EXCEPT !.asks = Updated(@, entry)]
  /\ todo' = Tail(todo)
  /\ UNCHANGED <<snapshot, before, message>>

LoopNext ==
  \/ \E entries \in Entries : StartSnapshot(entries) \/ StartDelta(entries)
  \/ LoopStep

LoopSpec == LoopInit /\ [][LoopNext]_loopVars

-----------------------------------------------------------------------------
LoopTypeOK ==
  /\ book \in Book
  /\ before \in Book
  /\ todo \in Seq(BookChange)
  /\ message \in Seq(BookChange)
  /\ snapshot \in BOOLEAN

(* When a loop is through, the book is what the closed form says.          *)
LoopsAgree == todo = <<>> => book = Expected

(* In the middle of a delta, the closed form of what is left to do turns   *)
(* the book so far into the same result: no order of entries for one       *)
(* price, not even removal and insertion, makes the loop and the closed    *)
(* form differ.                                                            *)
RestAgrees == ~snapshot => ApplyChanges(book, todo) = ApplyChanges(before, message)

(* A two-sided book that is not crossed always has features; the micro     *)
(* price lies between bid and ask, the imbalance between -1 and 1, and the *)
(* spread is positive.                                                     *)
FeaturesBounded ==
  LET top == Top(book)
      f   == FromTop(top)
  IN  top # None /\ ~IsCrossed(book) =>
        /\ f # None
        /\ f.spread > 0
        /\ f.mid2 \in 2 * top.bid + 1 .. 2 * top.ask - 1
        /\ f.micro \in top.bid * f.depth .. top.ask * f.depth
        /\ f.imbalance \in -f.depth .. f.depth

=============================================================================
