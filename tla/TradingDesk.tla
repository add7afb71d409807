---------------------------- MODULE TradingDesk -----------------------------
(***************************************************************************)
(* What the engine promises to whoever owns the paper account: positions   *)
(* move only together with a quote that can be trusted, by one order at a  *)
(* time, within the limit, and never again after the desk was halted.      *)
(***************************************************************************)
EXTENDS Integers

CONSTANTS
  Products,
  OrderQuantity,
  MaxAbsolutePosition

VARIABLES
  trusted,    \* the products with a quote that may be traded on
  halted,
  positions

deskVars == <<trusted, halted, positions>>

DeskInit ==
  /\ trusted = {}
  /\ halted = FALSE
  /\ positions = [p \in Products |-> 0]

(* The quotes of some products are withdrawn. *)
Withdraw ==
  /\ trusted' \in SUBSET trusted
  /\ UNCHANGED <<halted, positions>>

(* A new quote of p, and perhaps an order on it. *)
Quote(p) ==
  /\ trusted' = trusted \cup {p}
  /\ \/ UNCHANGED positions
     \/ /\ ~halted
        /\ \E q \in {OrderQuantity, -OrderQuantity} :
             /\ positions[p] + q \in -MaxAbsolutePosition .. MaxAbsolutePosition
             /\ positions' = [positions EXCEPT ![p] = @ + q]
  /\ UNCHANGED halted

Halt ==
  /\ halted' = TRUE
  /\ UNCHANGED <<trusted, positions>>

DeskNext ==
  \/ Withdraw
  \/ Halt
  \/ \E p \in Products : Quote(p)

DeskSpec == DeskInit /\ [][DeskNext]_deskVars

=============================================================================
