---------------------------- MODULE PaperTrading ----------------------------
(***************************************************************************)
(* src/bot.rs and src/risk.rs as operators: the momentum bot, the paper    *)
(* account and the risk kernel.                                            *)
(*                                                                         *)
(* The engine orders at the mid price, and features carry twice the mid    *)
(* price; so histories, order prices and the cash flow count half ticks    *)
(* (names that end in 2).  Identifiers and reasons are left out, as are    *)
(* the fees, which nothing ever changes.                                   *)
(***************************************************************************)
EXTENDS OrderBook, FeedQuality

CONSTANTS
  Lookback,             \* mid prices the bot compares over (20)
  ThresholdBps,         \* the move, in basis points, that it acts on (5)
  OrderQuantity,        \* quantity of every order
  MaxOrderNotional,     \* RiskLimits.max_order_notional
  MaxAbsolutePosition   \* RiskLimits.max_absolute_position

ASSUME TradingAssumption ==
  /\ Lookback \in Nat \ {0}
  /\ ThresholdBps \in Nat \ {0}
  /\ OrderQuantity \in Nat
  /\ MaxOrderNotional \in Nat
  /\ MaxAbsolutePosition \in Nat

-----------------------------------------------------------------------------
(* The bot. *)

(* The last Lookback mid prices, the newest at the end. *)
History == {h \in Seq(Nat \ {0}) : Len(h) <= Lookback}

(* push_back, then pop_front while there are too many: a history grows by  *)
(* one at a time, so one pop_front is enough.                              *)
Observed(h, mid2) ==
  LET longer == Append(h, mid2)
  IN  IF Len(longer) > Lookback THEN Tail(longer) ELSE longer

(* The side the bot wants after observing h, None below the threshold. The *)
(* code divides by the first price, here both sides are multiplied by it.  *)
Signal(h) ==
  LET first == h[1]
      move  == (h[Len(h)] - first) * 10000
      limit == ThresholdBps * first
  IN  IF Len(h) < Lookback \/ first = 0 THEN None
      ELSE IF move >= limit THEN "buy"
      ELSE IF move <= -limit THEN "sell"
      ELSE None

Order == [product : Products, side : Side, quantity : Nat, price2 : Nat, at : Time]

MomentumOrder(product, side, mid2, at) ==
  [product |-> product, side |-> side, quantity |-> OrderQuantity,
   price2 |-> mid2, at |-> at]

SignedQuantity(order) ==
  IF order.side = "buy" THEN order.quantity ELSE -order.quantity

-----------------------------------------------------------------------------
(* The account. *)

(* A fill repeats its order.  A product without an entry has position 0.   *)
Account == [positions : [Products -> Int], cash2 : Int, fills : Seq(Order)]

EmptyAccount == [positions |-> [p \in Products |-> 0], cash2 |-> 0, fills |-> <<>>]

(* Mutant: every fill is paid for. *)
Filled_Unsigned(account, order) ==
  [positions |-> [account.positions EXCEPT ![order.product] = @ + SignedQuantity(order)],
   cash2     |-> account.cash2 - order.quantity * order.price2,
   fills     |-> Append(account.fills, order)]

(* PaperAccount::fill *)
Filled(account, order) ==
  [positions |-> [account.positions EXCEPT ![order.product] = @ + SignedQuantity(order)],
   cash2     |-> account.cash2 - SignedQuantity(order) * order.price2,
   fills     |-> Append(account.fills, order)]

-----------------------------------------------------------------------------
(* The risk kernel. *)

Risk == [killSwitch : BOOLEAN, approved : 0 .. CounterMax, rejected : 0 .. CounterMax]

InitialRisk == [killSwitch |-> FALSE, approved |-> 0, rejected |-> 0]

Magnitude(n) == IF n < 0 THEN -n ELSE n

(* Mutant: the limit is compared with the position before the order. *)
PassesRisk_PositionBefore(risk, order, quality, position, at) ==
  /\ ~risk.killSwitch
  /\ Tradable(quality.state)
  /\ quality.lastBookAt # None
  /\ ~AgeExceeds(quality, at, StaleAfter)
  /\ order.quantity > 0
  /\ order.price2 > 0
  /\ order.quantity * order.price2 <= 2 * MaxOrderNotional
  /\ Magnitude(position) <= MaxAbsolutePosition

(* Mutant: the kill switch is not looked at. *)
PassesRisk_NoKillSwitch(risk, order, quality, position, at) ==
  /\ Tradable(quality.state)
  /\ quality.lastBookAt # None
  /\ ~AgeExceeds(quality, at, StaleAfter)
  /\ order.quantity > 0
  /\ order.price2 > 0
  /\ order.quantity * order.price2 <= 2 * MaxOrderNotional
  /\ Magnitude(position + SignedQuantity(order)) <= MaxAbsolutePosition

(* The conjunction of the checks in RiskKernel::evaluate. *)
PassesRisk(risk, order, quality, position, at) ==
  /\ ~risk.killSwitch
  /\ Tradable(quality.state)
  /\ quality.lastBookAt # None
  /\ ~AgeExceeds(quality, at, StaleAfter)
  /\ order.quantity > 0
  /\ order.price2 > 0
  /\ order.quantity * order.price2 <= 2 * MaxOrderNotional
  /\ Magnitude(position + SignedQuantity(order)) <= MaxAbsolutePosition

Approve(risk) == [risk EXCEPT !.approved = SaturatingAdd(@)]
Reject(risk)  == [risk EXCEPT !.rejected = SaturatingAdd(@)]

=============================================================================
