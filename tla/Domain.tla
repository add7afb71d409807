------------------------------- MODULE Domain -------------------------------
(***************************************************************************)
(* The vocabulary of src/domain.rs: the products, sources, prices and      *)
(* sizes that canonical market events speak about.                         *)
(*                                                                         *)
(* Prices and sizes are rust_decimal values in the code; here they are     *)
(* naturals in some fixed tick.  Both decoders only let positive prices    *)
(* through (positive_decimal), and a size of zero only inside a change.    *)
(* Times are naturals that count milliseconds.                             *)
(***************************************************************************)
EXTENDS Integers, Sequences

CONSTANTS
  Products,    \* product identifiers, such as BTC-USD
  Sources,     \* source names; one process runs exactly one source
  Prices,      \* prices a level may have, in ticks
  Sizes,       \* sizes a resting level may have
  None,        \* the None of an Option
  CounterMax   \* stands for u64::MAX, where saturating counters stop

ASSUME DomainAssumption ==
  /\ Prices \subseteq Nat \ {0}
  /\ Sizes \subseteq Nat \ {0}
  /\ CounterMax \in Nat
  /\ None \notin Nat
  /\ None \notin Sources

(* An optional value. *)
Option(S) == S \cup {None}

Time == Nat

Side == {"buy", "sell"}

PriceLevel == [price : Prices, size : Sizes]

(* A change of size zero deletes the level. *)
BookChange == [side : Side, price : Prices, size : Sizes \cup {0}]

(* The payload of a BookSnapshot event. *)
BookImage == [bids : Seq(PriceLevel), asks : Seq(PriceLevel)]

(* The status strings that sources put into SourceStatus events. *)
Status == {"connecting", "connected", "disconnected", "error", "subscribed"}

(* Mutant: plain addition. *)
SaturatingAdd_Plain(n) == n + 1

(* u64::saturating_add(1) on a counter that is CounterMax wide. *)
SaturatingAdd(n) == IF n < CounterMax THEN n + 1 ELSE n

=============================================================================
