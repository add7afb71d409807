---------------------------- MODULE EngineProofs ----------------------------
(***************************************************************************)
(* The safety properties of Engine, that it implements TradingDesk, and    *)
(* that a replay rebuilds the live books (Replay): for any products,       *)
(* prices, sizes, messages and times.                                      *)
(***************************************************************************)
EXTENDS Replay, OrderBookLemmas, ListLemmas

(***************************************************************************)
(* What the invariants say of one product, at the stamp t.  The handlers   *)
(* map sound products to sound products; that is all their proofs need.    *)
(***************************************************************************)
SoundProduct(s, t) ==
  /\ s \in ProductState
  /\ Tradable(s.quality.state) =>
       /\ s.hasSnapshot
       /\ ~IsCrossed(s.book)
       /\ s.quality.lastBookAt \in 0 .. t
  /\ s.features = IF Tradable(s.quality.state) THEN FromTop(Top(s.book)) ELSE None

-----------------------------------------------------------------------------
(* Each method of FeedQuality keeps the record's type.                     *)
LEMMA QualityOperatorTypes ==
  ASSUME NEW q \in Quality, NEW at \in Time, NEW sequence \in Nat
  PROVE  /\ MarkQuarantined(q) \in Quality
         /\ ObserveHeartbeat(q, sequence) \in Quality
         /\ ObserveContiguous(q, sequence) \in Quality
         /\ AcceptSnapshot(q, at) \in Quality
         /\ AcceptDelta(q, at) \in Quality
         /\ RefreshedStaleness(q, at) \in Quality
<1> USE DEF Quality, QualityState, Option
<1>1. MarkQuarantined(q) \in Quality
  BY DEF MarkQuarantined
<1>2. ObserveHeartbeat(q, sequence) \in Quality
  BY <1>1 DEF ObserveHeartbeat
<1>3. AcceptSnapshot(q, at) \in Quality
  BY DEF AcceptSnapshot
<1>4. AcceptDelta(q, at) \in Quality
  BY DEF AcceptDelta
<1>5. RefreshedStaleness(q, at) \in Quality
  BY DEF RefreshedStaleness
<1>6. ObserveContiguous(q, sequence) \in Quality
  <2>1. SaturatingAdd(q.gapCount) \in 0 .. CounterMax
    BY DomainAssumption DEF SaturatingAdd
  <2> HIDE DEF QualityState
  <2>2. "GapDetected" \in QualityState
    BY DEF QualityState
  <2> QED
    BY <2>1, <2>2 DEF ObserveContiguous
<1> QED
  BY <1>1, <1>2, <1>3, <1>4, <1>5, <1>6

(* The comment on accept_snapshot in quality.rs: "A fresh source snapshot  *)
(* is the only operation allowed to clear a hard-invalid state."  Every    *)
(* other method, observe_contiguous included, leaves such a state hard-    *)
(* invalid, refuses deltas in it and does not make the book look fresher.  *)
THEOREM OnlySnapshotsRecover ==
  ASSUME NEW q \in Quality, NEW at \in Time, NEW sequence \in Nat,
         RequiresSnapshotRecovery(q.state)
  PROVE  /\ RefusesDelta(q)
         /\ \A r \in {MarkQuarantined(q), ObserveHeartbeat(q, sequence),
                      ObserveContiguous(q, sequence), RefreshedStaleness(q, at)} :
              RequiresSnapshotRecovery(r.state) /\ r.lastBookAt = q.lastBookAt
<1>1. RefusesDelta(q)
  BY DEF RefusesDelta
<1>2. /\ RequiresSnapshotRecovery(MarkQuarantined(q).state)
      /\ MarkQuarantined(q).lastBookAt = q.lastBookAt
  BY DEF MarkQuarantined, RequiresSnapshotRecovery, Quality
<1>3. /\ RequiresSnapshotRecovery(ObserveHeartbeat(q, sequence).state)
      /\ ObserveHeartbeat(q, sequence).lastBookAt = q.lastBookAt
  BY <1>2 DEF ObserveHeartbeat, RequiresSnapshotRecovery, Quality
<1>4. /\ RequiresSnapshotRecovery(ObserveContiguous(q, sequence).state)
      /\ ObserveContiguous(q, sequence).lastBookAt = q.lastBookAt
  BY DEF ObserveContiguous, RequiresSnapshotRecovery, Quality
<1>5. RefreshedStaleness(q, at) = q
  BY DEF RefreshedStaleness, RequiresSnapshotRecovery
<1> QED
  BY <1>1, <1>2, <1>3, <1>4, <1>5

LEMMA FeaturesOfBookType ==
  ASSUME NEW book \in Book
  PROVE  FromTop(Top(book)) \in Option(Features)
BY TopType, FromTopType

LEMMA QuarantinedIsSound ==
  ASSUME NEW s \in ProductState, NEW t \in Time
  PROVE  /\ SoundProduct(Quarantined(s), t)
         /\ Quarantined(s) \in ProductState
<1>1. MarkQuarantined(s.quality) \in Quality
  BY QualityOperatorTypes DEF ProductState, Time
<1>2. MarkQuarantined(s.quality).state = "Quarantined"
  BY DEF MarkQuarantined, ProductState, Quality
<1>3. Quarantined(s) \in ProductState
  BY <1>1 DEF Quarantined, ProductState, Option
<1>4. /\ Quarantined(s).features = None
      /\ Quarantined(s).quality.state = "Quarantined"
  BY <1>2 DEF Quarantined, ProductState
<1> QED
  BY <1>3, <1>4 DEF SoundProduct, Tradable

LEMMA AfterSnapshotIsSound ==
  ASSUME NEW s \in ProductState, NEW source \in Sources,
         NEW image \in BookImage, NEW at \in Time
  PROVE  SoundProduct(AfterSnapshot(s, source, image, at), at)
<1> DEFINE applied == [s EXCEPT !.source = source, !.hasSnapshot = TRUE,
                                !.book = ApplySnapshot(image)]
           accepted == [applied EXCEPT !.features = FromTop(Top(applied.book)),
                                       !.quality = AcceptSnapshot(s.quality, at)]
<1>1. ApplySnapshot(image) \in Book
  BY ApplySnapshotType
<1>2. applied \in ProductState /\ applied.book = ApplySnapshot(image)
  BY <1>1 DEF ProductState, Option
<1>3. CASE IsCrossed(applied.book)
  <2>1. AfterSnapshot(s, source, image, at) = Quarantined(applied)
    BY <1>3 DEF AfterSnapshot
  <2> HIDE DEF applied
  <2> QED
    BY <1>2, <2>1, QuarantinedIsSound
<1>4. CASE ~IsCrossed(applied.book)
  <2>1. AfterSnapshot(s, source, image, at) = accepted
    BY <1>4 DEF AfterSnapshot
  <2>2. AcceptSnapshot(s.quality, at) \in Quality
    BY QualityOperatorTypes DEF ProductState
  <2>3. FromTop(Top(applied.book)) \in Option(Features)
    BY <1>1, <1>2, FeaturesOfBookType
  <2>4. accepted \in ProductState
    BY <1>2, <2>2, <2>3 DEF ProductState
  <2>5. /\ AcceptSnapshot(s.quality, at).state = "Valid"
        /\ AcceptSnapshot(s.quality, at).lastBookAt = at
    BY DEF AcceptSnapshot, ProductState, Quality
  <2>6. /\ accepted.hasSnapshot = TRUE
        /\ accepted.book = applied.book
        /\ accepted.features = FromTop(Top(applied.book))
        /\ accepted.quality = AcceptSnapshot(s.quality, at)
    BY <1>1 DEF ProductState
  <2> HIDE DEF accepted, applied
  <2> QED
    BY <1>4, <2>1, <2>4, <2>5, <2>6 DEF SoundProduct, Tradable, Time
<1> QED
  BY <1>3, <1>4

LEMMA AfterDeltaIsSound ==
  ASSUME NEW s, NEW t \in Time, SoundProduct(s, t), NEW source \in Sources,
         NEW changes \in Seq(BookChange), NEW at \in Time
  PROVE  SoundProduct(AfterDelta(s, source, changes, at), at)
<1> DEFINE fed     == [s EXCEPT !.source = source]
           applied == [fed EXCEPT !.book = ApplyChanges(s.book, changes)]
           refused == [applied EXCEPT !.features = None]
           accepted == [applied EXCEPT !.features = FromTop(Top(applied.book)),
                                       !.quality = AcceptDelta(s.quality, at)]
<1>1. s \in ProductState
  BY DEF SoundProduct
<1>2. ApplyChanges(s.book, changes) \in Book
  BY <1>1, ApplyChangesType DEF ProductState
<1>3. fed \in ProductState
  BY <1>1 DEF ProductState, Option
<1>4. /\ applied \in ProductState
      /\ applied.book = ApplyChanges(s.book, changes)
      /\ applied.quality = s.quality
  BY <1>1, <1>2 DEF ProductState, Option
<1>5. CASE ~s.hasSnapshot
  <2>1. AfterDelta(s, source, changes, at) = Quarantined(fed)
    BY <1>5 DEF AfterDelta
  <2> HIDE DEF fed
  <2> QED
    BY <1>3, <2>1, QuarantinedIsSound
<1>6. CASE s.hasSnapshot /\ IsCrossed(applied.book)
  <2>1. AfterDelta(s, source, changes, at) = Quarantined(applied)
    BY <1>6 DEF AfterDelta
  <2> HIDE DEF applied
  <2> QED
    BY <1>4, <2>1, QuarantinedIsSound
<1>7. CASE s.hasSnapshot /\ ~IsCrossed(applied.book) /\ RefusesDelta(s.quality)
  <2>1. AfterDelta(s, source, changes, at) = refused
    BY <1>7 DEF AfterDelta
  <2>2. refused \in ProductState
    BY <1>4 DEF ProductState, Option
  <2>3. refused.features = None /\ refused.quality = s.quality
    BY <1>1 DEF ProductState
  <2>4. ~Tradable(s.quality.state)
    BY <1>7 DEF RefusesDelta, RequiresSnapshotRecovery, Tradable
  <2> HIDE DEF refused
  <2> QED
    BY <2>1, <2>2, <2>3, <2>4 DEF SoundProduct
<1>8. CASE s.hasSnapshot /\ ~IsCrossed(applied.book) /\ ~RefusesDelta(s.quality)
  <2>1. AfterDelta(s, source, changes, at) = accepted
    BY <1>8 DEF AfterDelta
  <2>2. AcceptDelta(s.quality, at) \in Quality
    BY <1>1, QualityOperatorTypes DEF ProductState
  <2>3. FromTop(Top(applied.book)) \in Option(Features)
    BY <1>2, <1>4, FeaturesOfBookType
  <2>4. accepted \in ProductState
    BY <1>4, <2>2, <2>3 DEF ProductState
  <2>5. /\ AcceptDelta(s.quality, at).state = "Valid"
        /\ AcceptDelta(s.quality, at).lastBookAt = at
    BY <1>1 DEF AcceptDelta, ProductState, Quality
  <2>6. /\ accepted.hasSnapshot = s.hasSnapshot
        /\ accepted.book = applied.book
        /\ accepted.features = FromTop(Top(applied.book))
        /\ accepted.quality = AcceptDelta(s.quality, at)
    BY <1>1 DEF ProductState
  <2> HIDE DEF accepted, applied
  <2> QED
    BY <1>8, <2>1, <2>4, <2>5, <2>6 DEF SoundProduct, Tradable, Time
<1> QED
  BY <1>5, <1>6, <1>7, <1>8

LEMMA AfterHeartbeatIsSound ==
  ASSUME NEW s, NEW t \in Time, SoundProduct(s, t), NEW source \in Sources,
         NEW sequence \in Nat
  PROVE  SoundProduct(AfterHeartbeat(s, source, sequence), t)
<1> DEFINE quality == ObserveHeartbeat(s.quality, sequence)
           after   == AfterHeartbeat(s, source, sequence)
<1>1. s \in ProductState /\ s.quality \in Quality
  BY DEF SoundProduct, ProductState
<1>2. quality \in Quality
  BY <1>1, QualityOperatorTypes DEF Time
<1>3. /\ after.features = IF Tradable(quality.state) THEN s.features ELSE None
      /\ after.quality = quality
      /\ after.book = s.book
      /\ after.hasSnapshot = s.hasSnapshot
  BY <1>1 DEF AfterHeartbeat, ProductState
<1>4. after \in ProductState
  BY <1>1, <1>2 DEF AfterHeartbeat, ProductState, Option
<1>5. Tradable(quality.state) =>
        /\ Tradable(s.quality.state)
        /\ quality.lastBookAt = s.quality.lastBookAt
  BY <1>1 DEF ObserveHeartbeat, MarkQuarantined, Tradable, Quality
<1> HIDE DEF quality, after
<1>6. SoundProduct(after, t)
  BY <1>3, <1>4, <1>5 DEF SoundProduct
<1> QED
  BY <1>6 DEF after

LEMMA SourceChangeIsSound ==
  ASSUME NEW s, NEW t \in Time, SoundProduct(s, t), NEW source \in Sources
  PROVE  SoundProduct([s EXCEPT !.source = source], t)
<1>1. s \in ProductState
  BY DEF SoundProduct
<1> DEFINE after == [s EXCEPT !.source = source]
<1>2. /\ after \in ProductState
      /\ after.features = s.features
      /\ after.quality = s.quality
      /\ after.book = s.book
      /\ after.hasSnapshot = s.hasSnapshot
  BY <1>1 DEF ProductState, Option
<1> HIDE DEF after
<1>3. SoundProduct(after, t)
  BY <1>2 DEF SoundProduct
<1> QED
  BY <1>3 DEF after

LEMMA AfterResetIsSound ==
  ASSUME NEW s \in ProductState, NEW t \in Time
  PROVE  SoundProduct(AfterReset(s), t)
<1>1. Quarantined(s) \in ProductState
  BY QuarantinedIsSound
<1>2. /\ Quarantined(s).features = None
      /\ Quarantined(s).quality.state = "Quarantined"
  BY DEF Quarantined, MarkQuarantined, ProductState, Quality
<1>3. /\ AfterReset(s) \in ProductState
      /\ AfterReset(s).features = None
      /\ AfterReset(s).quality.state = "Quarantined"
  BY <1>1, <1>2 DEF AfterReset, ProductState
<1> QED
  BY <1>3 DEF SoundProduct, Tradable

LEMMA AfterRefreshIsSound ==
  ASSUME NEW s, NEW t \in Time, SoundProduct(s, t), NEW at \in Time
  PROVE  SoundProduct(AfterRefresh(s, at), t)
<1> DEFINE quality == RefreshedStaleness(s.quality, at)
           after   == AfterRefresh(s, at)
<1>1. s \in ProductState /\ s.quality \in Quality
  BY DEF SoundProduct, ProductState
<1>2. quality \in Quality
  BY <1>1, QualityOperatorTypes DEF Time
<1>3. /\ after.features = IF quality.state = "Stale" THEN None ELSE s.features
      /\ after.quality = quality
      /\ after.book = s.book
      /\ after.hasSnapshot = s.hasSnapshot
  BY <1>1 DEF AfterRefresh, ProductState
<1>4. after \in ProductState
  BY <1>1, <1>2 DEF AfterRefresh, ProductState, Option
<1>5. \/ quality = s.quality
      \/ quality.state = "Stale"
  BY <1>1 DEF RefreshedStaleness, Quality
<1> HIDE DEF quality, after
<1>6. SoundProduct(after, t)
  BY <1>3, <1>4, <1>5 DEF SoundProduct, Tradable
<1> QED
  BY <1>6 DEF after

LEMMA SoundLater ==
  ASSUME NEW s, NEW t \in Time, NEW u \in Time, t <= u, SoundProduct(s, t)
  PROVE  SoundProduct(s, u)
BY DEF SoundProduct, Time

-----------------------------------------------------------------------------
(***************************************************************************)
(* The trading variables.                                                  *)
(***************************************************************************)
TradingInv ==
  /\ history \in [Products -> History]
  /\ account \in Account
  /\ risk \in Risk
  /\ RiskLimitsHold

LEMMA ObservedType ==
  ASSUME NEW h \in History, NEW mid2 \in Nat \ {0}
  PROVE  Observed(h, mid2) \in History
<1> DEFINE longer == Append(h, mid2)
<1>1. h \in Seq(Nat \ {0}) /\ Len(h) \in Nat /\ Len(h) <= Lookback
  BY LenProperties DEF History
<1>2. /\ longer \in Seq(Nat \ {0})
      /\ longer # <<>>
      /\ Len(longer) = Len(h) + 1
  BY <1>1, AppendProperties
<1>3. /\ Tail(longer) \in Seq(Nat \ {0})
      /\ Len(Tail(longer)) = Len(longer) - 1
  BY <1>2, HeadTailProperties
<1> HIDE DEF longer
<1>4. Observed(h, mid2) = IF Len(longer) > Lookback THEN Tail(longer) ELSE longer
  BY DEF Observed, longer
<1>5. CASE Len(longer) > Lookback
  <2>1. Len(Tail(longer)) <= Lookback
    BY <1>1, <1>2, <1>3, TradingAssumption
  <2> QED
    BY <1>3, <1>4, <1>5, <2>1 DEF History
<1>6. CASE ~ (Len(longer) > Lookback)
  <2>1. Len(longer) <= Lookback
    BY <1>1, <1>2, <1>6, TradingAssumption
  <2> QED
    BY <1>2, <1>4, <1>6, <2>1 DEF History
<1> QED
  BY <1>5, <1>6

LEMMA SaturatingAddType ==
  ASSUME NEW n \in 0 .. CounterMax
  PROVE  SaturatingAdd(n) \in 0 .. CounterMax
BY DomainAssumption DEF SaturatingAdd

(* An order that the kernel lets pass keeps the account within its limits. *)
LEMMA FilledKeepsLimits ==
  ASSUME TradingInv, NEW order \in Order, NEW quality, NEW at,
         PassesRisk(risk, order, quality, account.positions[order.product], at),
         account' = Filled(account, order)
  PROVE  account' \in Account /\ RiskLimitsHold'
<1> DEFINE p == order.product
           moved == [account.positions EXCEPT ![p] = @ + SignedQuantity(order)]
           longer == Append(account.fills, order)
<1>1. /\ account.positions \in [Products -> Int]
      /\ account.cash2 \in Int
      /\ account.fills \in Seq(Order)
      /\ p \in Products
      /\ SignedQuantity(order) \in Int
      /\ order.price2 \in Int
  BY DEF TradingInv, Account, Order, SignedQuantity
<1>2. /\ account'.positions = moved
      /\ account'.fills = longer
      /\ account'.cash2 = account.cash2 - SignedQuantity(order) * order.price2
  BY DEF Filled
<1>3. moved \in [Products -> Int]
  BY <1>1
<1>4. longer \in Seq(Order)
  BY <1>1, AppendProperties
<1>5. account.cash2 - SignedQuantity(order) * order.price2 \in Int
  <2>1. \A x, y, z \in Int : x - y * z \in Int
    OBVIOUS
  <2> QED
    BY <1>1, <2>1
<1>6. account' \in Account
  <2>1. account' = [positions |-> moved,
                    cash2     |-> account.cash2 - SignedQuantity(order) * order.price2,
                    fills     |-> longer]
    BY DEF Filled
  <2> HIDE DEF moved, longer
  <2> QED
    BY <1>3, <1>4, <1>5, <2>1 DEF Account
<1>7. \A q \in Products : Magnitude(account'.positions[q]) <= MaxAbsolutePosition
  <2>1. SUFFICES ASSUME NEW q \in Products
                 PROVE  Magnitude(moved[q]) <= MaxAbsolutePosition
    BY <1>2
  <2>2. CASE q = p
    BY <1>1, <2>2 DEF PassesRisk
  <2>3. CASE q # p
    BY <1>1, <2>3 DEF TradingInv, RiskLimitsHold
  <2> QED
    BY <2>2, <2>3
<1>8. \A i \in DOMAIN account'.fills :
        account'.fills[i].quantity * account'.fills[i].price2 <= 2 * MaxOrderNotional
  <2>1. SUFFICES ASSUME NEW i \in DOMAIN longer
                 PROVE  longer[i].quantity * longer[i].price2 <= 2 * MaxOrderNotional
    BY <1>2
  <2>2. /\ DOMAIN longer = 1 .. Len(account.fills) + 1
        /\ DOMAIN account.fills = 1 .. Len(account.fills)
        /\ Len(account.fills) \in Nat
    BY <1>1, <1>4, AppendProperties, LenProperties
  <2>3. CASE i \in DOMAIN account.fills
    <3>1. longer[i] = account.fills[i]
      BY <1>1, <2>2, <2>3, AppendProperties
    <3> QED
      BY <2>3, <3>1 DEF TradingInv, RiskLimitsHold
  <2>4. CASE i = Len(account.fills) + 1
    <3>1. longer[i] = order
      BY <1>1, <2>4, AppendProperties
    <3>2. order.quantity * order.price2 <= 2 * MaxOrderNotional
      BY DEF PassesRisk
    <3> QED
      BY <3>1, <3>2
  <2> QED
    BY <2>1, <2>2, <2>3, <2>4
<1> QED
  BY <1>6, <1>7, <1>8 DEF RiskLimitsHold

(* The bot, whatever the event left of its product, keeps the trading      *)
(* variables sound; and it does not move the account when halted.          *)
LEMMA BotKeepsTradingInv ==
  ASSUME TradingInv, NEW p \in Products, NEW s \in ProductState, NEW at \in Time,
         MaybeRunPaperBot(p, s, at)
  PROVE  TradingInv' /\ (risk.killSwitch => risk'.killSwitch /\ UNCHANGED account)
<1>1. CASE UNCHANGED tradingVars
  BY <1>1 DEF TradingInv, RiskLimitsHold, tradingVars
<1>2. CASE PaperBotEnabled /\ s.features # None
  <2> DEFINE h    == Observed(history[p], s.features.mid2)
             side == Signal(h)
             order == MomentumOrder(p, side, s.features.mid2, at)
  <2>1. s.features \in Features
    BY <1>2 DEF ProductState, Option
  <2>2. s.features.mid2 \in Nat \ {0}
    BY <2>1 DEF Features
  <2>3. h \in History
    BY <2>2, ObservedType DEF TradingInv
  <2>4. history' = [history EXCEPT ![p] = h]
    BY <1>2 DEF MaybeRunPaperBot
  <2>5. history' \in [Products -> History]
    <3> HIDE DEF h
    <3> QED
      BY <2>3, <2>4 DEF TradingInv
  <2>6. CASE side = None
    <3>1. UNCHANGED <<account, risk>>
      BY <1>2, <2>6 DEF MaybeRunPaperBot
    <3> QED
      BY <2>5, <3>1 DEF TradingInv, RiskLimitsHold
  <2>7. CASE side # None
    <3>1. Submit(order, s.quality, at)
      BY <1>2, <2>7 DEF MaybeRunPaperBot
    <3>2. side \in Side
      BY <2>7 DEF Signal, Side
    <3>3. order \in Order /\ order.product = p
      <4> HIDE DEF side
      <4> QED
        BY <2>2, <3>2, TradingAssumption DEF MomentumOrder, Order, Time
    <3> HIDE DEF order
    <3>4. /\ Approve(risk) \in Risk
          /\ Reject(risk) \in Risk
          /\ Approve(risk).killSwitch = risk.killSwitch
          /\ Reject(risk).killSwitch = risk.killSwitch
      BY SaturatingAddType DEF TradingInv, Risk, Approve, Reject
    <3>5. CASE /\ PassesRisk(risk, order, s.quality, account.positions[order.product], at)
               /\ risk' = Approve(risk)
               /\ account' = Filled(account, order)
      <4>1. account' \in Account /\ RiskLimitsHold'
        BY <3>3, <3>5, FilledKeepsLimits
      <4>2. ~risk.killSwitch
        BY <3>5 DEF PassesRisk
      <4> QED
        BY <2>5, <3>4, <3>5, <4>1, <4>2 DEF TradingInv
    <3>6. CASE risk' = Reject(risk) /\ UNCHANGED account
      BY <2>5, <3>4, <3>6 DEF TradingInv, RiskLimitsHold
    <3> QED
      BY <3>1, <3>5, <3>6 DEF Submit
  <2> QED
    BY <2>6, <2>7
<1> QED
  BY <1>1, <1>2 DEF MaybeRunPaperBot

-----------------------------------------------------------------------------
(***************************************************************************)
(* The account against its fills.                                          *)
(***************************************************************************)

(* The contributions of the fills after one more of them. *)
LEMMA ContributionsGrow ==
  ASSUME NEW fills \in Seq(Order), NEW order \in Order, NEW p \in Products
  PROVE  LET longer == Append(fills, order)
             held == [i \in DOMAIN fills |-> HeldBy(fills[i], p)]
             paid == [i \in DOMAIN fills |-> PaidBy(fills[i])]
         IN  /\ held \in Seq(Int) /\ HeldBy(order, p) \in Int
             /\ paid \in Seq(Int) /\ PaidBy(order) \in Int
             /\ [i \in DOMAIN longer |-> HeldBy(longer[i], p)] = Append(held, HeldBy(order, p))
             /\ [i \in DOMAIN longer |-> PaidBy(longer[i])] = Append(paid, PaidBy(order))
<1> DEFINE n == Len(fills)
           longer == Append(fills, order)
           held == [i \in DOMAIN fills |-> HeldBy(fills[i], p)]
           paid == [i \in DOMAIN fills |-> PaidBy(fills[i])]
           heldLonger == [i \in DOMAIN longer |-> HeldBy(longer[i], p)]
           paidLonger == [i \in DOMAIN longer |-> PaidBy(longer[i])]
<1>1. \A o \in Order : HeldBy(o, p) \in Int /\ PaidBy(o) \in Int
  <2>1. \A x, y \in Nat : x * y \in Int /\ -(x * y) \in Int /\ -x \in Int
    OBVIOUS
  <2> QED
    BY <2>1 DEF HeldBy, PaidBy, Order
<1>2. /\ n \in Nat /\ DOMAIN fills = 1 .. n /\ \A i \in 1 .. n : fills[i] \in Order
      /\ DOMAIN longer = 1 .. n + 1 /\ longer[n + 1] = order
      /\ \A i \in 1 .. n : longer[i] = fills[i]
  BY AppendProperties, LenProperties, ElementOfSeq
<1> HIDE DEF n, longer
<1>3. held \in Seq(Int) /\ Len(held) = n /\ \A i \in 1 .. n : held[i] = HeldBy(fills[i], p)
  BY <1>1, <1>2
<1>4. paid \in Seq(Int) /\ Len(paid) = n /\ \A i \in 1 .. n : paid[i] = PaidBy(fills[i])
  BY <1>1, <1>2
<1>5. /\ heldLonger \in Seq(Int) /\ Len(heldLonger) = n + 1
      /\ \A i \in 1 .. n + 1 : heldLonger[i] = HeldBy(longer[i], p)
  BY <1>1, <1>2
<1>6. /\ paidLonger \in Seq(Int) /\ Len(paidLonger) = n + 1
      /\ \A i \in 1 .. n + 1 : paidLonger[i] = PaidBy(longer[i])
  BY <1>1, <1>2
<1> HIDE DEF held, paid, heldLonger, paidLonger
<1>7. heldLonger = Append(held, HeldBy(order, p))
  BY <1>1, <1>2, <1>3, <1>5
<1>8. paidLonger = Append(paid, PaidBy(order))
  BY <1>1, <1>2, <1>4, <1>6
<1> QED
  BY <1>1, <1>3, <1>4, <1>7, <1>8 DEF held, paid, heldLonger, paidLonger, longer

(* A fill moves the position, the cash flow and the counter by what it     *)
(* adds to their sums.                                                     *)
LEMMA FilledReconciles ==
  ASSUME TradingInv, AccountReconciles, NEW order \in Order,
         risk' = Approve(risk), account' = Filled(account, order)
  PROVE  AccountReconciles'
<1> DEFINE fills == account.fills
           longer == Append(fills, order)
<1>1. /\ fills \in Seq(Order) /\ account.positions \in [Products -> Int] /\ account.cash2 \in Int
      /\ order.product \in Products /\ risk \in Risk
      /\ Len(longer) = Len(fills) + 1 /\ Len(fills) \in Nat
  BY DEF TradingInv, Account, Order
<1>2. /\ account'.fills = longer
      /\ account'.positions =
           [account.positions EXCEPT ![order.product] = @ + SignedQuantity(order)]
      /\ account'.cash2 = account.cash2 - SignedQuantity(order) * order.price2
  BY DEF Filled
<1> HIDE DEF fills, longer
<1>3. ASSUME NEW p \in Products
      PROVE  account'.positions[p] = Total([i \in DOMAIN longer |-> HeldBy(longer[i], p)])
  <2> DEFINE held == [i \in DOMAIN fills |-> HeldBy(fills[i], p)]
  <2>1. /\ held \in Seq(Int) /\ HeldBy(order, p) \in Int
        /\ [i \in DOMAIN longer |-> HeldBy(longer[i], p)] = Append(held, HeldBy(order, p))
    BY <1>1, <1>3, ContributionsGrow DEF longer
  <2>2. account.positions[p] = Total(held)
    BY <1>3 DEF AccountReconciles, fills
  <2>3. account'.positions[p] = account.positions[p] + HeldBy(order, p)
    BY <1>1, <1>2, <1>3 DEF HeldBy, SignedQuantity, Order
  <2> HIDE DEF held
  <2> QED
    BY <2>1, <2>2, <2>3, TotalAppend
<1>4. account'.cash2 = Total([i \in DOMAIN longer |-> PaidBy(longer[i])])
  <2> DEFINE paid == [i \in DOMAIN fills |-> PaidBy(fills[i])]
  <2>1. /\ paid \in Seq(Int) /\ PaidBy(order) \in Int
        /\ [i \in DOMAIN longer |-> PaidBy(longer[i])] = Append(paid, PaidBy(order))
    BY <1>1, ContributionsGrow DEF longer
  <2>2. account.cash2 = Total(paid)
    BY DEF AccountReconciles, fills
  <2>3. account'.cash2 = account.cash2 + PaidBy(order)
    <3>1. order.quantity \in Nat /\ order.price2 \in Nat
      BY DEF Order
    <3>2. \A c \in Int, x, y \in Nat : c - x * y = c + (-(x * y)) /\ c - (-x) * y = c + x * y
      OBVIOUS
    <3> QED
      BY <1>1, <1>2, <3>1, <3>2 DEF PaidBy, SignedQuantity
  <2> HIDE DEF paid
  <2> QED
    BY <2>1, <2>2, <2>3, TotalAppend
<1>5. risk'.approved = IF Len(longer) < CounterMax THEN Len(longer) ELSE CounterMax
  <2>1. risk'.approved = SaturatingAdd(risk.approved)
    BY <1>1 DEF Approve, Risk
  <2>2. risk.approved = IF Len(fills) < CounterMax THEN Len(fills) ELSE CounterMax
    BY DEF AccountReconciles, fills
  <2> QED
    BY <1>1, <2>1, <2>2, DomainAssumption DEF SaturatingAdd
<1> QED
  BY <1>2, <1>3, <1>4, <1>5 DEF AccountReconciles

LEMMA BotReconciles ==
  ASSUME TradingInv, AccountReconciles,
         NEW p \in Products, NEW s \in ProductState, NEW at \in Time,
         MaybeRunPaperBot(p, s, at)
  PROVE  AccountReconciles'
<1>1. CASE UNCHANGED <<account, risk>>
  BY <1>1 DEF AccountReconciles
<1>2. CASE PaperBotEnabled /\ s.features # None
  <2> DEFINE side == Signal(Observed(history[p], s.features.mid2))
             order == MomentumOrder(p, side, s.features.mid2, at)
  <2>1. CASE side # None
    <3>1. Submit(order, s.quality, at)
      BY <1>2, <2>1 DEF MaybeRunPaperBot
    <3>2. s.features.mid2 \in Nat /\ side \in Side
      BY <1>2, <2>1 DEF ProductState, Option, Features, Signal, Side
    <3>3. order \in Order
      <4> HIDE DEF side
      <4> QED
        BY <3>2, TradingAssumption DEF MomentumOrder, Order, Time
    <3> HIDE DEF order
    <3>4. CASE risk' = Approve(risk) /\ account' = Filled(account, order)
      BY <3>3, <3>4, FilledReconciles
    <3>5. CASE risk' = Reject(risk) /\ UNCHANGED account
      BY <3>5 DEF AccountReconciles, Reject, TradingInv, Risk
    <3> QED
      BY <3>1, <3>4, <3>5 DEF Submit
  <2> QED
    BY <1>1, <1>2, <2>1 DEF MaybeRunPaperBot
<1> QED
  BY <1>1, <1>2 DEF MaybeRunPaperBot, tradingVars

-----------------------------------------------------------------------------
(***************************************************************************)
(* The inductive invariant.  TypeOK and the three safety invariants are    *)
(* inductive together: ValidBookIsSound needs the features' and book's     *)
(* types, RiskLimitsHold the account's.                                    *)
(***************************************************************************)
EngineInv ==
  /\ now \in Time
  /\ stamp \in Time
  /\ processed \in 0 .. CounterMax
  /\ sourceStatus \in [Sources -> Option(Status)]
  /\ products \in [Products -> ProductState]
  /\ \A p \in Products : SoundProduct(products[p], stamp)
  /\ TradingInv

(* A new engine satisfies it, whenever its first event is received.        *)
NewEngine ==
  /\ now \in Time /\ stamp \in Time
  /\ products = [p \in Products |-> DefaultProduct]
  /\ sourceStatus = [s \in Sources |-> None]
  /\ processed = 0
  /\ history = [p \in Products |-> <<>>]
  /\ account = EmptyAccount
  /\ risk = InitialRisk

LEMMA NewEngineIsSound == NewEngine => EngineInv
<1> SUFFICES ASSUME NewEngine
             PROVE  EngineInv
  OBVIOUS
<1>1. DefaultQuality \in Quality /\ ~Tradable(DefaultQuality.state)
  BY DomainAssumption DEF DefaultQuality, Quality, QualityState, Option, Tradable
<1>2. DefaultProduct \in ProductState
  BY <1>1, EmptyBookType DEF DefaultProduct, ProductState, Option
<1>3. \A t \in Time : SoundProduct(DefaultProduct, t)
  BY <1>1, <1>2 DEF SoundProduct, DefaultProduct
<1>4. /\ now \in Time /\ stamp \in Time
      /\ processed \in 0 .. CounterMax
      /\ sourceStatus \in [Sources -> Option(Status)]
  BY DomainAssumption DEF NewEngine, Time, Option
<1>5. /\ products \in [Products -> ProductState]
      /\ \A p \in Products : SoundProduct(products[p], stamp)
  BY <1>2, <1>3, <1>4 DEF NewEngine
<1>6. history \in [Products -> History]
  <2>1. <<>> \in History
    BY EmptySeq, TradingAssumption DEF History
  <2> QED
    BY <2>1 DEF NewEngine
<1>7. account \in Account /\ risk \in Risk
  BY EmptySeq, DomainAssumption DEF NewEngine, EmptyAccount, Account, InitialRisk, Risk
<1>8. RiskLimitsHold
  BY TradingAssumption, EmptySeq DEF NewEngine, EmptyAccount, RiskLimitsHold, Magnitude
<1> QED
  BY <1>4, <1>5, <1>6, <1>7, <1>8 DEF EngineInv, TradingInv

LEMMA InitEngineInv == Init => EngineInv
BY NewEngineIsSound DEF Init, NewEngine, Time

(* What each event does to the variables they all write.                   *)
LEMMA ReceiveTypes ==
  ASSUME EngineInv, NEW at, Receive(at)
  PROVE  /\ at \in Time
         /\ stamp \in Time
         /\ stamp <= at
         /\ stamp' = at
         /\ now' \in Time
         /\ processed' \in 0 .. CounterMax
BY SaturatingAddType DEF EngineInv, Receive, Time

(* An event about one product that leaves it sound.                        *)
LEMMA EventKeepsEngineInv ==
  ASSUME EngineInv, NEW at, Receive(at), NEW p \in Products, NEW s,
         SoundProduct(s, at),
         products' = [products EXCEPT ![p] = s],
         UNCHANGED sourceStatus,
         TradingInv'
  PROVE  EngineInv'
<1>1. /\ at \in Time
      /\ stamp \in Time
      /\ stamp <= at
      /\ stamp' = at
      /\ now' \in Time
      /\ processed' \in 0 .. CounterMax
  BY ReceiveTypes
<1>2. s \in ProductState
  BY DEF SoundProduct
<1>3. products' \in [Products -> ProductState]
  BY <1>2 DEF EngineInv
<1>4. \A q \in Products : SoundProduct(products'[q], stamp')
  <2>1. SUFFICES ASSUME NEW q \in Products
                 PROVE  SoundProduct(products'[q], at)
    BY <1>1
  <2>2. CASE q = p
    BY <2>2 DEF EngineInv
  <2>3. CASE q # p
    <3>1. products'[q] = products[q] /\ SoundProduct(products[q], stamp)
      BY <2>3 DEF EngineInv
    <3> QED
      BY <1>1, <3>1, SoundLater
  <2> QED
    BY <2>2, <2>3
<1> QED
  BY <1>1, <1>3, <1>4 DEF EngineInv

LEMMA TradingUnchanged ==
  ASSUME TradingInv, UNCHANGED tradingVars
  PROVE  TradingInv'
BY DEF TradingInv, RiskLimitsHold, tradingVars

LEMMA HandleSnapshotKeepsInv ==
  ASSUME EngineInv, NEW p \in Products, NEW source \in Sources,
         NEW image \in Snapshots, NEW at, HandleSnapshot(p, source, image, at)
  PROVE  EngineInv'
<1> DEFINE after == AfterSnapshot(products[p], source, image, at)
<1>1. products[p] \in ProductState /\ image \in BookImage /\ at \in Time
  BY ReceiveTypes, EngineAssumption DEF EngineInv, HandleSnapshot
<1>2. SoundProduct(after, at)
  BY <1>1, AfterSnapshotIsSound
<1>3. after \in ProductState
  BY <1>2 DEF SoundProduct
<1>4. TradingInv'
  BY <1>1, <1>3, BotKeepsTradingInv DEF EngineInv, HandleSnapshot
<1> HIDE DEF after
<1>5. products' = [products EXCEPT ![p] = after]
  BY DEF HandleSnapshot, after
<1> QED
  BY <1>2, <1>4, <1>5, EventKeepsEngineInv DEF HandleSnapshot

LEMMA HandleDeltaKeepsInv ==
  ASSUME EngineInv, NEW p \in Products, NEW source \in Sources,
         NEW changes \in Deltas, NEW at, HandleDelta(p, source, changes, at)
  PROVE  EngineInv'
<1> DEFINE after == AfterDelta(products[p], source, changes, at)
<1>1. changes \in Seq(BookChange) /\ at \in Time /\ stamp \in Time
  BY ReceiveTypes, EngineAssumption DEF HandleDelta
<1>2. SoundProduct(products[p], stamp)
  BY DEF EngineInv
<1>3. SoundProduct(after, at)
  BY <1>1, <1>2, AfterDeltaIsSound
<1>4. after \in ProductState
  BY <1>3 DEF SoundProduct
<1>5. TradingInv'
  BY <1>1, <1>4, BotKeepsTradingInv DEF EngineInv, HandleDelta
<1> HIDE DEF after
<1>6. products' = [products EXCEPT ![p] = after]
  BY DEF HandleDelta, after
<1> QED
  BY <1>3, <1>5, <1>6, EventKeepsEngineInv DEF HandleDelta

LEMMA HandleHeartbeatKeepsInv ==
  ASSUME EngineInv, NEW p \in Products, NEW source \in Sources,
         NEW sequence \in 0 .. MaxSequence, NEW at,
         HandleHeartbeat(p, source, sequence, at)
  PROVE  EngineInv'
<1> DEFINE after == AfterHeartbeat(products[p], source, sequence)
<1>1. /\ sequence \in Nat /\ at \in Time /\ stamp \in Time
      /\ stamp <= at
  BY ReceiveTypes DEF HandleHeartbeat
<1>2. SoundProduct(products[p], stamp)
  BY DEF EngineInv
<1>3. SoundProduct(after, at)
  BY <1>1, <1>2, AfterHeartbeatIsSound, SoundLater
<1>4. TradingInv'
  BY TradingUnchanged DEF EngineInv, HandleHeartbeat
<1> HIDE DEF after
<1>5. products' = [products EXCEPT ![p] = after]
  BY DEF HandleHeartbeat, after
<1> QED
  BY <1>3, <1>4, <1>5, EventKeepsEngineInv DEF HandleHeartbeat

LEMMA HandleTradeKeepsInv ==
  ASSUME EngineInv, NEW p \in Products, NEW source \in Sources, NEW at,
         HandleTrade(p, source, at)
  PROVE  EngineInv'
<1> DEFINE after == [products[p] EXCEPT !.source = source]
<1>1. at \in Time /\ stamp \in Time /\ stamp <= at
  BY ReceiveTypes DEF HandleTrade
<1>2. SoundProduct(products[p], stamp)
  BY DEF EngineInv
<1>3. SoundProduct(after, at)
  BY <1>1, <1>2, SourceChangeIsSound, SoundLater
<1>4. TradingInv'
  BY TradingUnchanged DEF EngineInv, HandleTrade
<1>5. products' = [products EXCEPT ![p] = after]
  BY DEF HandleTrade, EngineInv
<1> HIDE DEF after
<1> QED
  BY <1>3, <1>4, <1>5, EventKeepsEngineInv DEF HandleTrade

LEMMA HandleSourceStatusKeepsInv ==
  ASSUME EngineInv, NEW source \in Sources, NEW status \in Status, NEW at,
         HandleSourceStatus(source, status, at)
  PROVE  EngineInv'
<1>1. /\ at \in Time
      /\ stamp \in Time
      /\ stamp <= at
      /\ stamp' = at
      /\ now' \in Time
      /\ processed' \in 0 .. CounterMax
  BY ReceiveTypes DEF HandleSourceStatus
<1>2. \A p \in Products :
        products'[p] \in {products[p], AfterReset(products[p])}
  BY DEF HandleSourceStatus
<1>3. \A p \in Products : SoundProduct(products'[p], at)
  <2>1. SUFFICES ASSUME NEW p \in Products
                 PROVE  SoundProduct(products'[p], at)
    OBVIOUS
  <2>2. products[p] \in ProductState /\ SoundProduct(products[p], stamp)
    BY DEF EngineInv
  <2>3. CASE products'[p] = products[p]
    BY <1>1, <2>2, <2>3, SoundLater
  <2>4. CASE products'[p] = AfterReset(products[p])
    BY <1>1, <2>2, <2>4, AfterResetIsSound
  <2> QED
    BY <1>2, <2>3, <2>4
<1>4. products' \in [Products -> ProductState]
  <2>1. \A p \in Products : products'[p] \in ProductState
    BY <1>3 DEF SoundProduct
  <2>2. products' = [p \in Products |-> products'[p]]
    BY DEF HandleSourceStatus
  <2> QED
    BY <2>1, <2>2
<1>5. sourceStatus' \in [Sources -> Option(Status)]
  BY DEF HandleSourceStatus, EngineInv, Option
<1>6. TradingInv'
  BY TradingUnchanged DEF EngineInv, HandleSourceStatus
<1> QED
  BY <1>1, <1>3, <1>4, <1>5, <1>6 DEF EngineInv

LEMMA RefreshStalenessKeepsInv ==
  ASSUME EngineInv, RefreshStaleness
  PROVE  EngineInv'
<1>1. \A p \in Products : SoundProduct(products'[p], stamp)
  <2>1. SUFFICES ASSUME NEW p \in Products
                 PROVE  SoundProduct(AfterRefresh(products[p], now), stamp)
    BY DEF RefreshStaleness
  <2> QED
    BY AfterRefreshIsSound DEF EngineInv
<1>2. products' \in [Products -> ProductState]
  <2>1. \A p \in Products : products'[p] \in ProductState
    BY <1>1 DEF SoundProduct
  <2>2. products' = [p \in Products |-> products'[p]]
    BY DEF RefreshStaleness
  <2> QED
    BY <2>1, <2>2
<1>3. TradingInv'
  BY TradingUnchanged DEF EngineInv, RefreshStaleness
<1> QED
  BY <1>1, <1>2, <1>3 DEF EngineInv, RefreshStaleness

LEMMA NextKeepsEngineInv == EngineInv /\ [Next]_vars => EngineInv'
<1> SUFFICES ASSUME EngineInv, [Next]_vars
             PROVE  EngineInv'
  OBVIOUS
<1>1. CASE \E at \in 0 .. MaxTime : Handle(at)
  BY <1>1, HandleSnapshotKeepsInv, HandleDeltaKeepsInv, HandleHeartbeatKeepsInv,
     HandleTradeKeepsInv, HandleSourceStatusKeepsInv DEF Handle
<1>2. CASE RefreshStaleness
  BY <1>2, RefreshStalenessKeepsInv
<1>3. CASE TriggerKillSwitch
  BY <1>3 DEF TriggerKillSwitch, EngineInv, TradingInv, RiskLimitsHold, Risk
<1>4. CASE Tick
  BY <1>4, TradingUnchanged DEF Tick, EngineInv, Time
<1>5. CASE UNCHANGED vars
  BY <1>5, TradingUnchanged DEF vars, tradingVars, EngineInv
<1> QED
  BY <1>1, <1>2, <1>3, <1>4, <1>5 DEF Next

(* Everything below follows from this invariant.                           *)
THEOREM EngineInvariance == Spec => []EngineInv
<1> QED
  BY InitEngineInv, NextKeepsEngineInv, PTL DEF Spec

-----------------------------------------------------------------------------
(* The engine's state is well typed; in particular the counters never      *)
(* leave their range and the bot never keeps more than Lookback prices.    *)
THEOREM TypeCorrectness == Spec => []TypeOK
<1>1. EngineInv => TypeOK
  BY DEF EngineInv, TradingInv, TypeOK
<1> QED
  BY <1>1, EngineInvariance, PTL

(* Readers see VALID only on sound books, whatever order snapshots,        *)
(* deltas, heartbeats, resets and refreshes come in.                       *)
THEOREM ValidBooksAreSound == Spec => []ValidBookIsSound
<1>1. EngineInv => ValidBookIsSound
  BY DEF EngineInv, SoundProduct, ValidBookIsSound
<1> QED
  BY <1>1, EngineInvariance, PTL

(* No handler leaves features behind that are not those of the book.       *)
THEOREM FeaturesAreTheBooks == Spec => []FeaturesTrackBook
<1>1. EngineInv => FeaturesTrackBook
  BY DEF EngineInv, SoundProduct, FeaturesTrackBook
<1> QED
  BY <1>1, EngineInvariance, PTL

(* The risk limits hold for every number and sequence of fills.            *)
THEOREM RiskLimitsAlwaysHold == Spec => []RiskLimitsHold
<1>1. EngineInv => RiskLimitsHold
  BY DEF EngineInv, TradingInv
<1> QED
  BY <1>1, EngineInvariance, PTL

-----------------------------------------------------------------------------
(***************************************************************************)
(* Steps.                                                                  *)
(***************************************************************************)

(* A snapshot that makes a product tradable brings the book and the time   *)
(* with it.                                                                *)
LEMMA SnapshotRevives ==
  ASSUME NEW s \in ProductState, NEW source, NEW image, NEW at,
         Tradable(AfterSnapshot(s, source, image, at).quality.state)
  PROVE  /\ AfterSnapshot(s, source, image, at).book = ApplySnapshot(image)
         /\ AfterSnapshot(s, source, image, at).quality.lastBookAt = at
<1> DEFINE applied == [s EXCEPT !.source = source, !.hasSnapshot = TRUE,
                                !.book = ApplySnapshot(image)]
           accepted == [applied EXCEPT !.features = FromTop(Top(applied.book)),
                                       !.quality = AcceptSnapshot(s.quality, at)]
<1>1. /\ applied.book = ApplySnapshot(image)
      /\ applied.quality = s.quality
      /\ s.quality \in Quality
  BY DEF ProductState
<1>2. ~IsCrossed(applied.book)
  BY <1>1 DEF AfterSnapshot, Quarantined, MarkQuarantined, Tradable, Quality, ProductState
<1>3. AfterSnapshot(s, source, image, at) = accepted
  BY <1>2 DEF AfterSnapshot
<1>4. /\ accepted.book = applied.book
      /\ accepted.quality = AcceptSnapshot(s.quality, at)
  BY DEF ProductState
<1>5. AcceptSnapshot(s.quality, at).lastBookAt = at
  BY <1>1 DEF AcceptSnapshot, Quality
<1> HIDE DEF accepted, applied
<1> QED
  BY <1>1, <1>3, <1>4, <1>5

(* No other event makes a product tradable that refuses deltas.            *)
LEMMA OthersNeverRevive ==
  ASSUME NEW s \in ProductState, s.quality.state \notin {"Valid", "Stale"},
         NEW source, NEW changes, NEW sequence, NEW at
  PROVE  /\ ~Tradable(AfterDelta(s, source, changes, at).quality.state)
         /\ ~Tradable(AfterHeartbeat(s, source, sequence).quality.state)
         /\ ~Tradable(AfterReset(s).quality.state)
         /\ ~Tradable(AfterRefresh(s, at).quality.state)
<1>1. s.quality \in Quality /\ ~Tradable(s.quality.state)
  BY DEF ProductState, Tradable
<1>2. RefusesDelta(s.quality)
  BY <1>1 DEF RefusesDelta, RequiresSnapshotRecovery, Quality, QualityState
<1>3. ~Tradable(AfterDelta(s, source, changes, at).quality.state)
  BY <1>1, <1>2
     DEF AfterDelta, Quarantined, MarkQuarantined, Tradable, ProductState, Quality
<1>4. ~Tradable(AfterHeartbeat(s, source, sequence).quality.state)
  BY <1>1
     DEF AfterHeartbeat, ObserveHeartbeat, MarkQuarantined, Tradable, ProductState, Quality
<1>5. ~Tradable(AfterReset(s).quality.state)
  BY <1>1 DEF AfterReset, Quarantined, MarkQuarantined, Tradable, ProductState, Quality
<1>6. ~Tradable(AfterRefresh(s, at).quality.state)
  BY <1>1 DEF AfterRefresh, RefreshedStaleness, Tradable, ProductState, Quality
<1> QED
  BY <1>3, <1>4, <1>5, <1>6

(* A hard-invalid product becomes tradable only with a snapshot's book.    *)
THEOREM HardInvalidIsLatched == Spec => HardInvalidLatched
<1> DEFINE Latched(p) ==
             (/\ products[p].quality.state \notin {"Valid", "Stale"}
              /\ Tradable(products'[p].quality.state))
             => /\ \E image \in Snapshots : products'[p].book = ApplySnapshot(image)
                /\ products'[p].quality.lastBookAt = stamp'
<1>1. EngineInv /\ [Next]_vars => \A p \in Products : Latched(p)
  <2> SUFFICES ASSUME EngineInv, [Next]_vars, NEW p \in Products,
                      products[p].quality.state \notin {"Valid", "Stale"},
                      Tradable(products'[p].quality.state)
               PROVE  /\ \E image \in Snapshots : products'[p].book = ApplySnapshot(image)
                      /\ products'[p].quality.lastBookAt = stamp'
    OBVIOUS
  <2>1. products \in [Products -> ProductState] /\ products[p] \in ProductState
    BY DEF EngineInv
  <2>2. products'[p] # products[p]
    BY DEF Tradable
  <2>3. ASSUME NEW at, NEW q \in Products, NEW source \in Sources, NEW image \in Snapshots,
               HandleSnapshot(q, source, image, at)
        PROVE  /\ products'[p].book = ApplySnapshot(image)
               /\ products'[p].quality.lastBookAt = stamp'
    <3>1. products' = [products EXCEPT ![q] = AfterSnapshot(products[q], source, image, at)]
      BY <2>3 DEF HandleSnapshot
    <3>2. q = p
      BY <2>1, <2>2, <3>1
    <3>3. products'[p] = AfterSnapshot(products[p], source, image, at)
      BY <2>1, <3>1, <3>2
    <3>4. stamp' = at
      BY <2>3 DEF HandleSnapshot, Receive
    <3> QED
      BY <2>1, <3>3, <3>4, SnapshotRevives
  <2>4. ASSUME NEW at, NEW q \in Products, NEW source \in Sources, NEW changes \in Deltas,
               HandleDelta(q, source, changes, at)
        PROVE  FALSE
    <3>1. products' = [products EXCEPT ![q] = AfterDelta(products[q], source, changes, at)]
      BY <2>4 DEF HandleDelta
    <3>2. products'[p] = AfterDelta(products[p], source, changes, at)
      BY <2>1, <2>2, <3>1
    <3> QED
      BY <2>1, <3>2, OthersNeverRevive
  <2>5. ASSUME NEW at, NEW q \in Products, NEW source \in Sources,
               NEW sequence \in 0 .. MaxSequence, HandleHeartbeat(q, source, sequence, at)
        PROVE  FALSE
    <3>1. products' = [products EXCEPT ![q] = AfterHeartbeat(products[q], source, sequence)]
      BY <2>5 DEF HandleHeartbeat
    <3>2. products'[p] = AfterHeartbeat(products[p], source, sequence)
      BY <2>1, <2>2, <3>1
    <3> QED
      BY <2>1, <3>2, OthersNeverRevive
  <2>6. ASSUME NEW at, NEW q \in Products, NEW source \in Sources, HandleTrade(q, source, at)
        PROVE  FALSE
    <3>1. products'[p].quality = products[p].quality
      BY <2>1, <2>6 DEF HandleTrade, ProductState
    <3> QED
      BY <3>1 DEF Tradable
  <2>7. ASSUME NEW at, NEW source \in Sources, NEW status \in Status,
               HandleSourceStatus(source, status, at)
        PROVE  FALSE
    <3>1. products'[p] \in {products[p], AfterReset(products[p])}
      BY <2>7 DEF HandleSourceStatus
    <3> QED
      BY <2>1, <2>2, <3>1, OthersNeverRevive
  <2>8. CASE RefreshStaleness
    <3>1. products'[p] = AfterRefresh(products[p], now)
      BY <2>8 DEF RefreshStaleness
    <3> QED
      BY <2>1, <3>1, OthersNeverRevive
  <2>9. CASE TriggerKillSwitch \/ Tick \/ UNCHANGED vars
    BY <2>2, <2>9 DEF TriggerKillSwitch, Tick, vars
  <2> QED
    BY <2>3, <2>4, <2>5, <2>6, <2>7, <2>8, <2>9 DEF Next, Handle
<1>2. EngineInv /\ [Next]_vars =>
        [\A p \in Products :
           /\ products[p].quality.state \notin {"Valid", "Stale"}
           /\ Tradable(products[p].quality.state)'
           => /\ \E image \in Snapshots : products'[p].book = ApplySnapshot(image)
              /\ products'[p].quality.lastBookAt = stamp']_vars
  BY <1>1 DEF Tradable
<1> QED
  BY <1>2, EngineInvariance, PTL DEF Spec, HardInvalidLatched

-----------------------------------------------------------------------------
(* How the bot may trade: one order on a product that has features, within *)
(* the position limit, and not when halted.                                *)
LEMMA BotTradesOnQuote ==
  ASSUME TradingInv, NEW p \in Products, NEW s \in ProductState, NEW at \in Time,
         MaybeRunPaperBot(p, s, at)
  PROVE  /\ risk'.killSwitch = risk.killSwitch
         /\ \/ UNCHANGED account
            \/ /\ s.features # None
               /\ ~risk.killSwitch
               /\ \E q \in {OrderQuantity, -OrderQuantity} :
                    /\ account.positions[p] + q \in -MaxAbsolutePosition .. MaxAbsolutePosition
                    /\ account'.positions = [account.positions EXCEPT ![p] = @ + q]
<1>1. CASE UNCHANGED tradingVars
  BY <1>1 DEF tradingVars
<1>2. CASE PaperBotEnabled /\ s.features # None
  <2> DEFINE side == Signal(Observed(history[p], s.features.mid2))
             order == MomentumOrder(p, side, s.features.mid2, at)
  <2>1. CASE UNCHANGED <<account, risk>>
    BY <2>1
  <2>2. CASE Submit(order, s.quality, at)
    <3>1. order.product = p /\ order.quantity = OrderQuantity
      BY DEF MomentumOrder
    <3> HIDE DEF order
    <3>2. risk \in Risk /\ account.positions[p] \in Int
      BY DEF TradingInv, Account
    <3>3. /\ Approve(risk).killSwitch = risk.killSwitch
          /\ Reject(risk).killSwitch = risk.killSwitch
      BY <3>2 DEF Risk, Approve, Reject
    <3>4. CASE /\ PassesRisk(risk, order, s.quality, account.positions[order.product], at)
               /\ risk' = Approve(risk)
               /\ account' = Filled(account, order)
      <4> DEFINE q == SignedQuantity(order)
      <4>1. q \in {OrderQuantity, -OrderQuantity} /\ q \in Int
        BY <3>1, TradingAssumption DEF SignedQuantity
      <4>2. ~risk.killSwitch /\ Magnitude(account.positions[p] + q) <= MaxAbsolutePosition
        BY <3>1, <3>4 DEF PassesRisk
      <4>3. account'.positions = [account.positions EXCEPT ![p] = @ + q]
        BY <3>1, <3>4 DEF Filled
      <4> HIDE DEF q
      <4>4. account.positions[p] + q \in -MaxAbsolutePosition .. MaxAbsolutePosition
        BY <3>2, <4>1, <4>2, TradingAssumption DEF Magnitude
      <4> QED
        BY <1>2, <3>3, <3>4, <4>1, <4>2, <4>3, <4>4
    <3>5. CASE risk' = Reject(risk) /\ UNCHANGED account
      BY <3>3, <3>5
    <3> QED
      BY <2>2, <3>4, <3>5 DEF Submit
  <2> QED
    BY <1>2, <2>1, <2>2 DEF MaybeRunPaperBot
<1> QED
  BY <1>1, <1>2 DEF MaybeRunPaperBot

(* What a book event does, seen from the trading desk.                     *)
BookEvent(p, s, at) ==
  /\ s \in ProductState
  /\ at \in Time
  /\ products' = [products EXCEPT ![p] = s]
  /\ MaybeRunPaperBot(p, s, at)

LEMMA BookEvents ==
  ASSUME EngineInv, NEW p \in Products, NEW source \in Sources, NEW at,
         \/ \E image \in Snapshots : HandleSnapshot(p, source, image, at)
         \/ \E changes \in Deltas : HandleDelta(p, source, changes, at)
  PROVE  \E s \in ProductState : BookEvent(p, s, at)
<1>1. ASSUME NEW image \in Snapshots, HandleSnapshot(p, source, image, at)
      PROVE  BookEvent(p, AfterSnapshot(products[p], source, image, at), at)
  <2>1. at \in Time /\ image \in BookImage /\ products[p] \in ProductState
    BY <1>1, ReceiveTypes, EngineAssumption DEF HandleSnapshot, EngineInv
  <2>2. AfterSnapshot(products[p], source, image, at) \in ProductState
    BY <2>1, AfterSnapshotIsSound DEF SoundProduct
  <2> QED
    BY <1>1, <2>1, <2>2 DEF BookEvent, HandleSnapshot
<1>2. ASSUME NEW changes \in Deltas, HandleDelta(p, source, changes, at)
      PROVE  BookEvent(p, AfterDelta(products[p], source, changes, at), at)
  <2>1. /\ at \in Time /\ stamp \in Time
        /\ changes \in Seq(BookChange)
        /\ SoundProduct(products[p], stamp)
    BY <1>2, ReceiveTypes, EngineAssumption DEF HandleDelta, EngineInv
  <2>2. AfterDelta(products[p], source, changes, at) \in ProductState
    BY <2>1, AfterDeltaIsSound DEF SoundProduct
  <2> QED
    BY <1>2, <2>1, <2>2 DEF BookEvent, HandleDelta
<1> QED
  BY <1>1, <1>2 DEF BookEvent

(* PaperAccount::fill: after any number of buys and sells, the positions,  *)
(* the cash flow and the kernel's counter are the sums over the fills.     *)
THEOREM AccountAlwaysReconciles == Spec => []AccountReconciles
<1>1. Init => AccountReconciles
  <2> SUFFICES ASSUME Init PROVE AccountReconciles
    OBVIOUS
  <2>1. /\ account.fills = <<>> /\ account.cash2 = 0 /\ risk.approved = 0
        /\ \A p \in Products : account.positions[p] = 0
    BY DEF Init, EmptyAccount, InitialRisk
  <2>2. ASSUME NEW p
        PROVE  /\ [i \in DOMAIN <<>> |-> HeldBy(<<>>[i], p)] = <<>>
               /\ [i \in DOMAIN <<>> |-> PaidBy(<<>>[i])] = <<>>
    OBVIOUS
  <2> QED
    BY <2>1, <2>2, TotalEmpty, DomainAssumption DEF AccountReconciles
<1>2. EngineInv /\ AccountReconciles /\ [Next]_vars => AccountReconciles'
  <2> SUFFICES ASSUME EngineInv, AccountReconciles, [Next]_vars
               PROVE  AccountReconciles'
    OBVIOUS
  <2>1. ASSUME NEW p \in Products, NEW source \in Sources, NEW at,
               \/ \E image \in Snapshots : HandleSnapshot(p, source, image, at)
               \/ \E changes \in Deltas : HandleDelta(p, source, changes, at)
        PROVE  AccountReconciles'
    BY <2>1, BookEvents, BotReconciles DEF BookEvent, EngineInv
  <2>2. CASE UNCHANGED tradingVars
    BY <2>2 DEF tradingVars, AccountReconciles
  <2>3. ASSUME NEW p, NEW source, NEW at,
               \/ \E sequence \in 0 .. MaxSequence : HandleHeartbeat(p, source, sequence, at)
               \/ HandleTrade(p, source, at)
               \/ \E status \in Status : HandleSourceStatus(source, status, at)
        PROVE  UNCHANGED tradingVars
    BY <2>3 DEF HandleHeartbeat, HandleTrade, HandleSourceStatus
  <2>4. CASE \E at \in 0 .. MaxTime : Handle(at)
    BY <2>1, <2>2, <2>3, <2>4 DEF Handle
  <2>5. CASE RefreshStaleness \/ Tick \/ UNCHANGED vars
    BY <2>2, <2>5 DEF RefreshStaleness, Tick, tradingVars, vars
  <2>6. CASE TriggerKillSwitch
    BY <2>6 DEF TriggerKillSwitch, EngineInv, TradingInv, Risk, AccountReconciles
  <2> QED
    BY <2>4, <2>5, <2>6 DEF Next
<1> QED
  BY <1>1, <1>2, EngineInvariance, PTL DEF Spec

(* The kill switch halts the account for good.                             *)
THEOREM KillSwitchIsFinal == Spec => KillSwitchHalts
<1>1. EngineInv /\ [Next]_vars =>
        [risk.killSwitch => risk'.killSwitch /\ UNCHANGED account]_vars
  <2> SUFFICES ASSUME EngineInv, [Next]_vars, risk.killSwitch
               PROVE  risk'.killSwitch /\ UNCHANGED account
    OBVIOUS
  <2>1. ASSUME NEW p \in Products, NEW s, NEW at, BookEvent(p, s, at)
        PROVE  risk'.killSwitch /\ UNCHANGED account
    BY <2>1, BotTradesOnQuote DEF BookEvent, EngineInv
  <2>2. ASSUME NEW p \in Products, NEW source \in Sources, NEW at,
               \/ \E image \in Snapshots : HandleSnapshot(p, source, image, at)
               \/ \E changes \in Deltas : HandleDelta(p, source, changes, at)
        PROVE  risk'.killSwitch /\ UNCHANGED account
    BY <2>1, <2>2, BookEvents
  <2>3. CASE UNCHANGED tradingVars
    BY <2>3 DEF tradingVars
  <2>4. ASSUME NEW p, NEW source, NEW at,
               \/ \E sequence \in 0 .. MaxSequence : HandleHeartbeat(p, source, sequence, at)
               \/ HandleTrade(p, source, at)
               \/ \E status \in Status : HandleSourceStatus(source, status, at)
        PROVE  UNCHANGED tradingVars
    BY <2>4 DEF HandleHeartbeat, HandleTrade, HandleSourceStatus
  <2>5. CASE \E at \in 0 .. MaxTime : Handle(at)
    BY <2>2, <2>3, <2>4, <2>5 DEF Handle
  <2>6. CASE RefreshStaleness \/ Tick \/ UNCHANGED vars
    BY <2>6 DEF RefreshStaleness, Tick, tradingVars, vars
  <2>7. CASE TriggerKillSwitch
    BY <2>7 DEF TriggerKillSwitch, EngineInv, TradingInv, Risk
  <2> QED
    BY <2>5, <2>6, <2>7 DEF Next
<1> QED
  BY <1>1, EngineInvariance, PTL DEF Spec, KillSwitchHalts

(* A book event leaves features behind only if it made the product VALID   *)
(* and gave its quality record the time of the event.                      *)
Fresh(s, at) ==
  s.features # None => Tradable(s.quality.state) /\ s.quality.lastBookAt = at

LEMMA QuarantinedIsFresh ==
  ASSUME NEW s \in ProductState, NEW at
  PROVE  Fresh(Quarantined(s), at)
<1>1. Quarantined(s).features = None
  BY DEF Quarantined, ProductState
<1> QED
  BY <1>1 DEF Fresh

LEMMA BookUpdatesAreFresh ==
  ASSUME NEW s \in ProductState, NEW source \in Sources, NEW at \in Time
  PROVE  /\ \A image \in BookImage : Fresh(AfterSnapshot(s, source, image, at), at)
         /\ \A changes \in Seq(BookChange) : Fresh(AfterDelta(s, source, changes, at), at)
<1>1. ASSUME NEW image \in BookImage
      PROVE  Fresh(AfterSnapshot(s, source, image, at), at)
  <2> DEFINE applied == [s EXCEPT !.source = source, !.hasSnapshot = TRUE,
                                  !.book = ApplySnapshot(image)]
             accepted == [applied EXCEPT !.features = FromTop(Top(applied.book)),
                                         !.quality = AcceptSnapshot(s.quality, at)]
  <2>1. applied \in ProductState
    BY ApplySnapshotType DEF ProductState, Option
  <2>2. AfterSnapshot(s, source, image, at) \in {Quarantined(applied), accepted}
    BY DEF AfterSnapshot
  <2>3. accepted.quality = AcceptSnapshot(s.quality, at)
    BY DEF ProductState
  <2>4. /\ AcceptSnapshot(s.quality, at).state = "Valid"
        /\ AcceptSnapshot(s.quality, at).lastBookAt = at
    BY DEF AcceptSnapshot, ProductState, Quality
  <2> HIDE DEF applied, accepted
  <2>5. Fresh(accepted, at)
    BY <2>3, <2>4 DEF Fresh, Tradable
  <2> QED
    BY <2>1, <2>2, <2>5, QuarantinedIsFresh
<1>2. ASSUME NEW changes \in Seq(BookChange)
      PROVE  Fresh(AfterDelta(s, source, changes, at), at)
  <2> DEFINE fed     == [s EXCEPT !.source = source]
             applied == [fed EXCEPT !.book = ApplyChanges(s.book, changes)]
             refused == [applied EXCEPT !.features = None]
             accepted == [applied EXCEPT !.features = FromTop(Top(applied.book)),
                                         !.quality = AcceptDelta(s.quality, at)]
  <2>1. fed \in ProductState
    BY DEF ProductState, Option
  <2>2. applied \in ProductState
    BY ApplyChangesType DEF ProductState, Option
  <2>3. AfterDelta(s, source, changes, at)
          \in {Quarantined(fed), Quarantined(applied), refused, accepted}
    BY DEF AfterDelta
  <2>4. refused.features = None /\ accepted.quality = AcceptDelta(s.quality, at)
    BY DEF ProductState
  <2>5. /\ AcceptDelta(s.quality, at).state = "Valid"
        /\ AcceptDelta(s.quality, at).lastBookAt = at
    BY DEF AcceptDelta, ProductState, Quality
  <2> HIDE DEF fed, applied, refused, accepted
  <2>6. Fresh(accepted, at) /\ Fresh(refused, at)
    BY <2>4, <2>5 DEF Fresh, Tradable
  <2> QED
    BY <2>1, <2>2, <2>3, <2>6, QuarantinedIsFresh
<1> QED
  BY <1>1, <1>2

(* What the property says of a step.                                       *)
FillAtQuote ==
  account.fills' # account.fills =>
    LET fill == account'.fills[Len(account'.fills)]
        s    == products'[fill.product]
    IN  /\ account'.fills = Append(account.fills, fill)
        /\ Tradable(s.quality.state)
        /\ s.quality.lastBookAt = fill.at
        /\ fill.at = stamp'
        /\ s.features # None
        /\ fill.price2 = s.features.mid2

LEMMA BotFillsAtQuote ==
  ASSUME EngineInv, NEW p \in Products, NEW s, NEW at,
         BookEvent(p, s, at), Fresh(s, at), stamp' = at
  PROVE  FillAtQuote
<1> SUFFICES ASSUME account.fills' # account.fills
             PROVE  FillAtQuote
  BY DEF FillAtQuote
<1> DEFINE side  == Signal(Observed(history[p], s.features.mid2))
           order == MomentumOrder(p, side, s.features.mid2, at)
<1>1. s.features # None /\ account' = Filled(account, order)
  BY DEF BookEvent, MaybeRunPaperBot, Submit, tradingVars
<1>2. order.product = p /\ order.price2 = s.features.mid2 /\ order.at = at
  BY DEF MomentumOrder
<1> HIDE DEF order
<1>3. products'[p] = s
  BY DEF BookEvent, EngineInv
<1>4. account.fills \in Seq(Order) /\ account'.fills = Append(account.fills, order)
  BY <1>1 DEF Filled, EngineInv, TradingInv, Account
<1>5. account'.fills[Len(account'.fills)] = order
  <2>1. DOMAIN account.fills = 1 .. Len(account.fills) /\ Len(account.fills) \in Nat
    BY <1>4
  <2>2. /\ Len(Append(account.fills, order)) = Len(account.fills) + 1
        /\ Append(account.fills, order)[Len(account.fills) + 1] = order
    BY <1>4, <2>1
  <2> QED
    BY <1>4, <2>2
<1> QED
  BY <1>1, <1>2, <1>3, <1>4, <1>5 DEF FillAtQuote, Fresh

(* The account fills only at the mid price of a VALID book that the same   *)
(* event has just updated, and only ever appends to its fills.             *)
THEOREM FillsAreAtTheQuote == Spec => FillsOnlyAtCurrentQuote
<1>1. EngineInv /\ [Next]_vars => [FillAtQuote]_vars
  <2> SUFFICES ASSUME EngineInv, [Next]_vars
               PROVE  FillAtQuote
    OBVIOUS
  <2>1. ASSUME NEW p \in Products, NEW source \in Sources, NEW at,
               NEW image \in Snapshots, HandleSnapshot(p, source, image, at)
        PROVE  FillAtQuote
    <3> DEFINE s == AfterSnapshot(products[p], source, image, at)
    <3>1. at \in Time /\ image \in BookImage /\ products[p] \in ProductState
      BY <2>1, ReceiveTypes, EngineAssumption DEF HandleSnapshot, EngineInv
    <3>2. Fresh(s, at) /\ s \in ProductState
      BY <3>1, BookUpdatesAreFresh, AfterSnapshotIsSound DEF SoundProduct
    <3>3. BookEvent(p, s, at) /\ stamp' = at
      BY <2>1, <3>1, <3>2 DEF BookEvent, HandleSnapshot, Receive
    <3> HIDE DEF s
    <3> QED
      BY <3>2, <3>3, BotFillsAtQuote
  <2>2. ASSUME NEW p \in Products, NEW source \in Sources, NEW at,
               NEW changes \in Deltas, HandleDelta(p, source, changes, at)
        PROVE  FillAtQuote
    <3> DEFINE s == AfterDelta(products[p], source, changes, at)
    <3>1. /\ at \in Time /\ stamp \in Time
          /\ changes \in Seq(BookChange)
          /\ SoundProduct(products[p], stamp)
          /\ products[p] \in ProductState
      BY <2>2, ReceiveTypes, EngineAssumption DEF HandleDelta, EngineInv
    <3>2. Fresh(s, at) /\ s \in ProductState
      BY <3>1, BookUpdatesAreFresh, AfterDeltaIsSound DEF SoundProduct
    <3>3. BookEvent(p, s, at) /\ stamp' = at
      BY <2>2, <3>1, <3>2 DEF BookEvent, HandleDelta, Receive
    <3> HIDE DEF s
    <3> QED
      BY <3>2, <3>3, BotFillsAtQuote
  <2>3. CASE UNCHANGED account
    BY <2>3 DEF FillAtQuote
  <2>4. ASSUME NEW p, NEW source, NEW at,
               \/ \E sequence \in 0 .. MaxSequence : HandleHeartbeat(p, source, sequence, at)
               \/ HandleTrade(p, source, at)
               \/ \E status \in Status : HandleSourceStatus(source, status, at)
        PROVE  UNCHANGED account
    BY <2>4 DEF HandleHeartbeat, HandleTrade, HandleSourceStatus, tradingVars
  <2>5. CASE \E at \in 0 .. MaxTime : Handle(at)
    BY <2>1, <2>2, <2>3, <2>4, <2>5 DEF Handle
  <2>6. CASE RefreshStaleness \/ Tick \/ TriggerKillSwitch \/ UNCHANGED vars
    BY <2>3, <2>6 DEF RefreshStaleness, Tick, TriggerKillSwitch, tradingVars, vars
  <2> QED
    BY <2>5, <2>6 DEF Next
<1> QED
  BY <1>1, EngineInvariance, PTL DEF Spec, FillsOnlyAtCurrentQuote, FillAtQuote

-----------------------------------------------------------------------------
(***************************************************************************)
(* Refinement.                                                             *)
(***************************************************************************)
Trusted == {p \in Products : products[p].features # None}

LEMMA DeskQuotes ==
  ASSUME EngineInv, NEW p \in Products, NEW s, NEW at, BookEvent(p, s, at)
  PROVE  Desk!DeskNext \/ UNCHANGED Desk!deskVars
<1>1. /\ s \in ProductState
      /\ products \in [Products -> ProductState]
      /\ products' = [products EXCEPT ![p] = s]
  BY DEF BookEvent, EngineInv
<1>2. /\ risk'.killSwitch = risk.killSwitch
      /\ \/ UNCHANGED account
         \/ /\ s.features # None
            /\ ~risk.killSwitch
            /\ \E q \in {OrderQuantity, -OrderQuantity} :
                 /\ account.positions[p] + q \in -MaxAbsolutePosition .. MaxAbsolutePosition
                 /\ account'.positions = [account.positions EXCEPT ![p] = @ + q]
  BY BotTradesOnQuote DEF BookEvent, EngineInv
<1>3. CASE s.features # None
  <2>1. Trusted' = Trusted \cup {p}
    BY <1>1, <1>3 DEF Trusted
  <2>2. Desk!Quote(p)
    BY <1>2, <2>1 DEF Desk!Quote, Trusted
  <2> QED
    BY <2>2 DEF Desk!DeskNext
<1>4. CASE s.features = None
  <2>1. Trusted' \in SUBSET Trusted
    BY <1>1, <1>4 DEF Trusted
  <2>2. Desk!Withdraw
    BY <1>2, <1>4, <2>1 DEF Desk!Withdraw, Trusted
  <2> QED
    BY <2>2 DEF Desk!DeskNext
<1> QED
  BY <1>3, <1>4

(* Steps that create no features and leave trading alone only withdraw.    *)
LEMMA DeskWithdraws ==
  ASSUME UNCHANGED tradingVars,
         \A p \in Products : products'[p].features \in {products[p].features, None}
  PROVE  Desk!DeskNext
<1>1. Trusted' \in SUBSET Trusted
  BY DEF Trusted
<1>2. Desk!Withdraw
  BY <1>1 DEF Desk!Withdraw, Trusted, tradingVars
<1> QED
  BY <1>2 DEF Desk!DeskNext

(* The engine keeps the promises of the trading desk: positions move only  *)
(* with a trusted quote of that product, by one order, within the limit,   *)
(* and never after the desk was halted.                                    *)
THEOREM EngineImplementsDesk == Spec => ImplementsDesk
<1>1. Init => Desk!DeskInit
  BY DEF Init, Desk!DeskInit, DefaultProduct, EmptyAccount, InitialRisk
<1>2. EngineInv /\ [Next]_vars => [Desk!DeskNext]_(Desk!deskVars)
  <2> SUFFICES ASSUME EngineInv, [Next]_vars
               PROVE  Desk!DeskNext \/ UNCHANGED Desk!deskVars
    OBVIOUS
  <2>1. products \in [Products -> ProductState]
    BY DEF EngineInv
  <2>2. ASSUME NEW p \in Products, NEW source \in Sources, NEW at,
               \/ \E image \in Snapshots : HandleSnapshot(p, source, image, at)
               \/ \E changes \in Deltas : HandleDelta(p, source, changes, at)
        PROVE  Desk!DeskNext \/ UNCHANGED Desk!deskVars
    BY <2>2, BookEvents, DeskQuotes
  <2>3. ASSUME NEW p \in Products, NEW source \in Sources, NEW at,
               NEW sequence \in 0 .. MaxSequence, HandleHeartbeat(p, source, sequence, at)
        PROVE  Desk!DeskNext
    <3>1. AfterHeartbeat(products[p], source, sequence).features
            \in {products[p].features, None}
      BY <2>1 DEF AfterHeartbeat, ProductState
    <3>2. \A q \in Products : products'[q].features \in {products[q].features, None}
      BY <2>1, <2>3, <3>1 DEF HandleHeartbeat
    <3> QED
      BY <2>3, <3>2, DeskWithdraws DEF HandleHeartbeat
  <2>4. ASSUME NEW p \in Products, NEW source \in Sources, NEW at, HandleTrade(p, source, at)
        PROVE  Desk!DeskNext
    <3>1. \A q \in Products : products'[q].features = products[q].features
      BY <2>1, <2>4 DEF HandleTrade, ProductState
    <3> QED
      BY <2>4, <3>1, DeskWithdraws DEF HandleTrade
  <2>5. ASSUME NEW source \in Sources, NEW status \in Status, NEW at,
               HandleSourceStatus(source, status, at)
        PROVE  Desk!DeskNext
    <3>1. \A q \in Products : AfterReset(products[q]).features = None
      BY <2>1 DEF AfterReset, Quarantined, ProductState
    <3>2. \A q \in Products : products'[q].features \in {products[q].features, None}
      BY <2>5, <3>1 DEF HandleSourceStatus
    <3> QED
      BY <2>5, <3>2, DeskWithdraws DEF HandleSourceStatus
  <2>6. CASE RefreshStaleness
    <3>1. \A q \in Products :
            AfterRefresh(products[q], now).features \in {products[q].features, None}
      BY <2>1 DEF AfterRefresh, ProductState
    <3>2. \A q \in Products : products'[q].features \in {products[q].features, None}
      BY <2>6, <3>1 DEF RefreshStaleness
    <3> QED
      BY <2>6, <3>2, DeskWithdraws DEF RefreshStaleness
  <2>7. CASE TriggerKillSwitch
    <3>1. Desk!Halt
      BY <2>7 DEF TriggerKillSwitch, Desk!Halt, EngineInv, TradingInv, Risk
    <3> QED
      BY <3>1 DEF Desk!DeskNext
  <2>8. CASE Tick \/ UNCHANGED vars
    BY <2>8 DEF Tick, tradingVars, vars, Desk!deskVars
  <2> QED
    BY <2>2, <2>3, <2>4, <2>5, <2>6, <2>7, <2>8 DEF Next, Handle
<1> QED
  BY <1>1, <1>2, EngineInvariance, PTL DEF Spec, ImplementsDesk, Desk!DeskSpec

-----------------------------------------------------------------------------
(***************************************************************************)
(* Replay: both engines handle the same frames with the same code.         *)
(***************************************************************************)
(* The last heartbeat l of the live engine and m of the replay, which has  *)
(* seen those of earlier runs too: what l refuses, m refuses.              *)
Heard(l, m) ==
  /\ l # None => m # None /\ l <= m
  /\ run = "first" => l = m

(* They have heard the heartbeats whether or not there is a live book.     *)
Agree(live, copy) ==
  /\ Heard(live.quality.lastSequence, copy.quality.lastSequence)
  /\ live.hasSnapshot => SameBook(live, copy)

ReplayInv ==
  /\ EngineInv
  /\ run = "down" => products = [p \in Products |-> DefaultProduct]
  /\ replayedProducts \in [Products -> ProductState]
  /\ \A p \in Products :
       /\ SoundProduct(replayedProducts[p], stamp)
       /\ Agree(products[p], replayedProducts[p])

-----------------------------------------------------------------------------
(***************************************************************************)
(* Both engines run the same code.                                         *)
(***************************************************************************)
LEMMA SameQueries ==
  ASSUME NEW book
  PROVE  /\ Replayed!IsCrossed(book) = IsCrossed(book)
         /\ Replayed!FromTop(Replayed!Top(book)) = FromTop(Top(book))
<1>1. Replayed!Top(book) = Top(book)
  BY DEF Replayed!Top, Top, Replayed!BestBids, BestBids, Replayed!BestAsks, BestAsks,
     Replayed!TopAt, TopAt
<1>2. Replayed!IsCrossed(book) = IsCrossed(book)
  BY <1>1 DEF Replayed!IsCrossed, IsCrossed
<1>3. Replayed!FromTop(Top(book)) = FromTop(Top(book))
  BY DEF Replayed!FromTop, FromTop
<1> QED
  BY <1>1, <1>2, <1>3

LEMMA SameUpdates ==
  ASSUME NEW image, NEW book, NEW changes
  PROVE  /\ Replayed!ApplySnapshot(image) = ApplySnapshot(image)
         /\ Replayed!ApplyChanges(book, changes) = ApplyChanges(book, changes)
<1>1. Replayed!ApplySnapshot(image) = ApplySnapshot(image)
  BY DEF Replayed!ApplySnapshot, ApplySnapshot, Replayed!SideOf, SideOf,
     Replayed!LastSize, LastSize
<1>2. Replayed!ApplyChanges(book, changes) = ApplyChanges(book, changes)
  BY DEF Replayed!ApplyChanges, ApplyChanges, Replayed!ChangedSide, ChangedSide,
     Replayed!LastSize, LastSize
<1> QED
  BY <1>1, <1>2

LEMMA SameCode ==
  ASSUME NEW s, NEW source, NEW image, NEW changes, NEW sequence, NEW at
  PROVE  /\ Replayed!AfterSnapshot(s, source, image, at) = AfterSnapshot(s, source, image, at)
         /\ Replayed!AfterDelta(s, source, changes, at) = AfterDelta(s, source, changes, at)
         /\ Replayed!AfterHeartbeat(s, source, sequence) = AfterHeartbeat(s, source, sequence)
         /\ Replayed!AfterReset(s) = AfterReset(s)
<1>1. \A r : Replayed!Quarantined(r) = Quarantined(r)
  BY DEF Replayed!Quarantined, Quarantined, Replayed!MarkQuarantined, MarkQuarantined
<1>2. Replayed!AfterSnapshot(s, source, image, at) = AfterSnapshot(s, source, image, at)
  BY <1>1, SameQueries, SameUpdates DEF Replayed!AfterSnapshot, AfterSnapshot,
     Replayed!AcceptSnapshot, AcceptSnapshot
<1>3. Replayed!AfterDelta(s, source, changes, at) = AfterDelta(s, source, changes, at)
  BY <1>1, SameQueries, SameUpdates DEF Replayed!AfterDelta, AfterDelta, Replayed!RefusesDelta,
     RefusesDelta, Replayed!RequiresSnapshotRecovery, RequiresSnapshotRecovery,
     Replayed!AcceptDelta, AcceptDelta
<1>4. Replayed!AfterHeartbeat(s, source, sequence) = AfterHeartbeat(s, source, sequence)
  BY DEF Replayed!AfterHeartbeat, AfterHeartbeat, Replayed!ObserveHeartbeat, ObserveHeartbeat,
     Replayed!MarkQuarantined, MarkQuarantined, Replayed!Tradable, Tradable
<1>5. Replayed!AfterReset(s) = AfterReset(s)
  BY <1>1 DEF Replayed!AfterReset, AfterReset
<1> QED
  BY <1>2, <1>3, <1>4, <1>5

-----------------------------------------------------------------------------
(***************************************************************************)
(* An event that both engines handle leaves them in agreement.             *)
(***************************************************************************)
LEMMA FieldsOfQuarantined ==
  ASSUME NEW s \in ProductState
  PROVE  /\ Quarantined(s).hasSnapshot = s.hasSnapshot
         /\ Quarantined(s).book = s.book
         /\ Quarantined(s).source = s.source
         /\ Quarantined(s).features = None
         /\ Quarantined(s).quality.state = "Quarantined"
         /\ Quarantined(s).quality.lastSequence = s.quality.lastSequence
<1>1. s.quality \in Quality
  BY DEF ProductState
<1>2. /\ MarkQuarantined(s.quality).state = "Quarantined"
      /\ MarkQuarantined(s.quality).lastSequence = s.quality.lastSequence
  BY <1>1 DEF MarkQuarantined, Quality
<1> QED
  BY <1>2 DEF Quarantined, ProductState

LEMMA QuarantinedAgree ==
  ASSUME NEW s \in ProductState, NEW c \in ProductState,
         Heard(s.quality.lastSequence, c.quality.lastSequence),
         s.hasSnapshot => /\ c.hasSnapshot = s.hasSnapshot
                          /\ c.book = s.book /\ c.source = s.source
  PROVE  Agree(Quarantined(s), Quarantined(c))
BY FieldsOfQuarantined DEF Agree, Heard, SameBook, Tradable

(* A snapshot makes them agree, whatever the live engine had lost before.  *)
LEMMA AgreeAfterSnapshot ==
  ASSUME NEW s \in ProductState, NEW c \in ProductState, Agree(s, c),
         NEW source \in Sources, NEW image \in BookImage, NEW at \in Time
  PROVE  Agree(AfterSnapshot(s, source, image, at), AfterSnapshot(c, source, image, at))
<1> DEFINE applied(r) == [r EXCEPT !.source = source, !.hasSnapshot = TRUE,
                                   !.book = ApplySnapshot(image)]
           accepted(r) == [applied(r) EXCEPT !.features = FromTop(Top(applied(r).book)),
                                             !.quality = AcceptSnapshot(r.quality, at)]
<1>1. ASSUME NEW r \in ProductState
      PROVE  /\ applied(r) \in ProductState /\ applied(r).book = ApplySnapshot(image)
             /\ applied(r).hasSnapshot = TRUE /\ applied(r).source = source
             /\ applied(r).quality = r.quality
  BY ApplySnapshotType DEF ProductState, Option
<1>2. Heard(s.quality.lastSequence, c.quality.lastSequence)
  BY DEF Agree
<1>3. CASE IsCrossed(ApplySnapshot(image))
  <2>1. ASSUME NEW r \in ProductState
        PROVE  AfterSnapshot(r, source, image, at) = Quarantined(applied(r))
    BY <1>1, <1>3 DEF AfterSnapshot
  <2> HIDE DEF applied
  <2> QED
    BY <1>1, <1>2, <2>1, QuarantinedAgree
<1>4. CASE ~IsCrossed(ApplySnapshot(image))
  <2>1. ASSUME NEW r \in ProductState
        PROVE  AfterSnapshot(r, source, image, at) = accepted(r)
    BY <1>1, <1>4 DEF AfterSnapshot
  <2>2. ASSUME NEW r \in ProductState
        PROVE  /\ accepted(r).hasSnapshot = TRUE /\ accepted(r).source = source
               /\ accepted(r).book = ApplySnapshot(image)
               /\ accepted(r).features = FromTop(Top(ApplySnapshot(image)))
               /\ accepted(r).quality = AcceptSnapshot(r.quality, at)
    BY <1>1 DEF ProductState
  <2>3. ASSUME NEW q \in Quality
        PROVE  /\ AcceptSnapshot(q, at).state = "Valid"
               /\ AcceptSnapshot(q, at).lastBookAt = at
               /\ AcceptSnapshot(q, at).lastSequence = q.lastSequence
    BY DEF AcceptSnapshot, Quality
  <2>4. s.quality \in Quality /\ c.quality \in Quality
    BY DEF ProductState
  <2> HIDE DEF applied, accepted
  <2>5. ASSUME NEW r \in {s, c}
        PROVE  /\ AfterSnapshot(r, source, image, at).hasSnapshot = TRUE
               /\ AfterSnapshot(r, source, image, at).source = source
               /\ AfterSnapshot(r, source, image, at).book = ApplySnapshot(image)
               /\ AfterSnapshot(r, source, image, at).features = FromTop(Top(ApplySnapshot(image)))
               /\ AfterSnapshot(r, source, image, at).quality.state = "Valid"
               /\ AfterSnapshot(r, source, image, at).quality.lastBookAt = at
               /\ AfterSnapshot(r, source, image, at).quality.lastSequence = r.quality.lastSequence
    <3>1. r \in ProductState /\ r.quality \in Quality
      BY <2>4
    <3>2. AfterSnapshot(r, source, image, at) = accepted(r)
      BY <2>1, <3>1
    <3>3. /\ AcceptSnapshot(r.quality, at).state = "Valid"
          /\ AcceptSnapshot(r.quality, at).lastBookAt = at
          /\ AcceptSnapshot(r.quality, at).lastSequence = r.quality.lastSequence
      BY <2>3, <3>1
    <3>4. /\ accepted(r).hasSnapshot = TRUE /\ accepted(r).source = source
          /\ accepted(r).book = ApplySnapshot(image)
          /\ accepted(r).features = FromTop(Top(ApplySnapshot(image)))
          /\ accepted(r).quality = AcceptSnapshot(r.quality, at)
      BY <2>2, <3>1
    <3> QED
      BY <3>2, <3>3, <3>4
  <2> QED
    BY <1>2, <2>5 DEF Agree, Heard, SameBook
<1> QED
  BY <1>3, <1>4

LEMMA AgreeAfterDelta ==
  ASSUME NEW s, NEW c, NEW t \in Time, SoundProduct(s, t), SoundProduct(c, t), Agree(s, c),
         NEW source \in Sources, NEW changes \in Seq(BookChange), NEW at \in Time
  PROVE  Agree(AfterDelta(s, source, changes, at), AfterDelta(c, source, changes, at))
<1> DEFINE fed(r)      == [r EXCEPT !.source = source]
           applied(r)  == [fed(r) EXCEPT !.book = ApplyChanges(r.book, changes)]
           refused(r)  == [applied(r) EXCEPT !.features = None]
           accepted(r) == [applied(r) EXCEPT !.features = FromTop(Top(applied(r).book)),
                                             !.quality = AcceptDelta(r.quality, at)]
<1>1. s \in ProductState /\ c \in ProductState /\ s.quality \in Quality /\ c.quality \in Quality
      /\ Heard(s.quality.lastSequence, c.quality.lastSequence)
  BY DEF SoundProduct, ProductState, Agree
<1>2. ASSUME NEW r \in ProductState
      PROVE  /\ fed(r) \in ProductState /\ fed(r).source = source
             /\ fed(r).hasSnapshot = r.hasSnapshot /\ fed(r).quality = r.quality
             /\ fed(r).book = r.book
             /\ applied(r) \in ProductState /\ applied(r).source = source
             /\ applied(r).hasSnapshot = r.hasSnapshot /\ applied(r).quality = r.quality
             /\ applied(r).book = ApplyChanges(r.book, changes)
  <2>1. ApplyChanges(r.book, changes) \in Book
    BY ApplyChangesType DEF ProductState
  <2> QED
    BY <2>1 DEF ProductState, Option
<1>3. ASSUME NEW r \in ProductState
      PROVE  AfterDelta(r, source, changes, at) =
               IF ~r.hasSnapshot THEN Quarantined(fed(r))
               ELSE IF IsCrossed(ApplyChanges(r.book, changes)) THEN Quarantined(applied(r))
               ELSE IF RefusesDelta(r.quality) THEN refused(r)
               ELSE accepted(r)
  <2>1. AfterDelta(r, source, changes, at) =
          IF ~r.hasSnapshot THEN Quarantined(fed(r))
          ELSE IF IsCrossed(applied(r).book) THEN Quarantined(applied(r))
          ELSE IF RefusesDelta(r.quality) THEN refused(r)
          ELSE accepted(r)
    BY DEF AfterDelta
  <2> HIDE DEF fed, applied, refused, accepted
  <2> QED
    BY <1>2, <1>3, <2>1
<1>4. CASE ~s.hasSnapshot
  <2>1. AfterDelta(s, source, changes, at) = Quarantined(fed(s))
    BY <1>1, <1>3, <1>4
  <2>2. AfterDelta(c, source, changes, at).quality.lastSequence = c.quality.lastSequence
    <3>1. /\ Quarantined(fed(c)).quality.lastSequence = c.quality.lastSequence
          /\ Quarantined(applied(c)).quality.lastSequence = c.quality.lastSequence
      <4> HIDE DEF fed, applied
      <4> QED
        BY <1>1, <1>2, FieldsOfQuarantined
    <3>2. refused(c).quality = c.quality /\ accepted(c).quality = AcceptDelta(c.quality, at)
      BY <1>1, <1>2 DEF ProductState
    <3>3. AcceptDelta(c.quality, at).lastSequence = c.quality.lastSequence
      BY <1>1 DEF AcceptDelta, Quality
    <3> HIDE DEF fed, applied, refused, accepted
    <3> QED
      BY <1>1, <1>3, <3>1, <3>2, <3>3
  <2> HIDE DEF fed, applied, refused, accepted
  <2>3. /\ Quarantined(fed(s)).hasSnapshot = FALSE
        /\ Quarantined(fed(s)).quality.lastSequence = s.quality.lastSequence
    BY <1>1, <1>2, <1>4, FieldsOfQuarantined DEF ProductState
  <2> QED
    BY <1>1, <2>1, <2>2, <2>3 DEF Agree
<1>5. CASE s.hasSnapshot
  <2>1. SameBook(s, c) /\ c.hasSnapshot /\ c.book = s.book
    BY <1>5 DEF Agree, SameBook
  <2>2. /\ RefusesDelta(s.quality) => RefusesDelta(c.quality)
        /\ RefusesDelta(c.quality) =>
             RefusesDelta(s.quality) \/ (run # "first" /\ c.quality.state = "Quarantined")
    BY <2>1 DEF SameBook, RefusesDelta, RequiresSnapshotRecovery, Tradable
  <2>3. CASE IsCrossed(ApplyChanges(s.book, changes))
    <3>1. /\ AfterDelta(s, source, changes, at) = Quarantined(applied(s))
          /\ AfterDelta(c, source, changes, at) = Quarantined(applied(c))
      BY <1>1, <1>3, <1>5, <2>1, <2>3
    <3> HIDE DEF fed, applied
    <3>2. /\ applied(s).hasSnapshot = applied(c).hasSnapshot
          /\ applied(s).book = applied(c).book /\ applied(s).source = applied(c).source
      BY <1>1, <1>2, <1>5, <2>1 DEF ProductState
    <3> QED
      BY <1>1, <1>2, <3>1, <3>2, QuarantinedAgree
  <2>4. CASE ~IsCrossed(ApplyChanges(s.book, changes)) /\ RefusesDelta(s.quality)
    <3>1. /\ AfterDelta(s, source, changes, at) = refused(s)
          /\ AfterDelta(c, source, changes, at) = refused(c)
      BY <1>1, <1>3, <1>5, <2>1, <2>2, <2>4
    <3>2. ASSUME NEW r \in ProductState
          PROVE  /\ refused(r).hasSnapshot = r.hasSnapshot /\ refused(r).source = source
                 /\ refused(r).book = ApplyChanges(r.book, changes)
                 /\ refused(r).features = None /\ refused(r).quality = r.quality
      BY <1>2 DEF ProductState
    <3>3. /\ s.quality.state \notin {"Valid", "Stale"}
          /\ \/ c.quality.state = s.quality.state
             \/ run # "first" /\ c.quality.state = "Quarantined"
      BY <2>1, <2>4 DEF SameBook, RefusesDelta, RequiresSnapshotRecovery
    <3>4. s.hasSnapshot = c.hasSnapshot
      BY <2>1 DEF SameBook
    <3> HIDE DEF fed, applied, refused
    <3>5. ASSUME NEW r \in {s, c}
          PROVE  /\ AfterDelta(r, source, changes, at).hasSnapshot = r.hasSnapshot
                 /\ AfterDelta(r, source, changes, at).source = source
                 /\ AfterDelta(r, source, changes, at).book = ApplyChanges(s.book, changes)
                 /\ AfterDelta(r, source, changes, at).features = None
                 /\ AfterDelta(r, source, changes, at).quality = r.quality
      BY <1>1, <2>1, <3>1, <3>2
    <3> QED
      BY <1>1, <3>3, <3>4, <3>5 DEF Agree, Heard, SameBook, Tradable
  <2>5. CASE /\ ~IsCrossed(ApplyChanges(s.book, changes))
             /\ ~RefusesDelta(s.quality) /\ ~RefusesDelta(c.quality)
    <3>1. /\ AfterDelta(s, source, changes, at) = accepted(s)
          /\ AfterDelta(c, source, changes, at) = accepted(c)
      BY <1>1, <1>3, <1>5, <2>1, <2>5
    <3>2. ASSUME NEW r \in ProductState
          PROVE  /\ accepted(r).hasSnapshot = r.hasSnapshot /\ accepted(r).source = source
                 /\ accepted(r).book = ApplyChanges(r.book, changes)
                 /\ accepted(r).features = FromTop(Top(ApplyChanges(r.book, changes)))
                 /\ accepted(r).quality = AcceptDelta(r.quality, at)
      BY <1>2 DEF ProductState
    <3>3. ASSUME NEW q \in Quality
          PROVE  /\ AcceptDelta(q, at).state = "Valid"
                 /\ AcceptDelta(q, at).lastBookAt = at
                 /\ AcceptDelta(q, at).lastSequence = q.lastSequence
      BY DEF AcceptDelta, Quality
    <3>4. s.hasSnapshot = c.hasSnapshot
      BY <2>1 DEF SameBook
    <3> HIDE DEF fed, applied, accepted
    <3>5. ASSUME NEW r \in {s, c}
          PROVE  /\ AfterDelta(r, source, changes, at).hasSnapshot = r.hasSnapshot
                 /\ AfterDelta(r, source, changes, at).source = source
                 /\ AfterDelta(r, source, changes, at).book = ApplyChanges(s.book, changes)
                 /\ AfterDelta(r, source, changes, at).features =
                      FromTop(Top(ApplyChanges(s.book, changes)))
                 /\ AfterDelta(r, source, changes, at).quality.state = "Valid"
                 /\ AfterDelta(r, source, changes, at).quality.lastBookAt = at
                 /\ AfterDelta(r, source, changes, at).quality.lastSequence
                      = r.quality.lastSequence
      BY <1>1, <2>1, <3>1, <3>2, <3>3
    <3> QED
      BY <1>1, <3>4, <3>5 DEF Agree, Heard, SameBook
  <2>6. CASE /\ ~IsCrossed(ApplyChanges(s.book, changes))
             /\ ~RefusesDelta(s.quality) /\ RefusesDelta(c.quality)
    <3>1. /\ AfterDelta(s, source, changes, at) = accepted(s)
          /\ AfterDelta(c, source, changes, at) = refused(c)
      BY <1>1, <1>3, <1>5, <2>1, <2>6
    <3>2. /\ accepted(s).hasSnapshot = s.hasSnapshot /\ accepted(s).source = source
          /\ accepted(s).book = ApplyChanges(s.book, changes)
          /\ accepted(s).quality.lastSequence = s.quality.lastSequence
      <4>1. /\ accepted(s).hasSnapshot = s.hasSnapshot /\ accepted(s).source = source
            /\ accepted(s).book = ApplyChanges(s.book, changes)
            /\ accepted(s).quality = AcceptDelta(s.quality, at)
        BY <1>1, <1>2 DEF ProductState
      <4>2. AcceptDelta(s.quality, at).lastSequence = s.quality.lastSequence
        BY <1>1 DEF AcceptDelta, Quality
      <4> QED
        BY <4>1, <4>2
    <3>3. /\ refused(c).hasSnapshot = c.hasSnapshot /\ refused(c).source = source
          /\ refused(c).book = ApplyChanges(c.book, changes)
          /\ refused(c).quality = c.quality
      BY <1>1, <1>2 DEF ProductState
    <3>4. s.hasSnapshot = c.hasSnapshot /\ c.book = s.book
      BY <2>1 DEF SameBook
    <3>5. run # "first" /\ c.quality.state = "Quarantined"
      BY <2>2, <2>6
    <3> HIDE DEF fed, applied, accepted, refused
    <3> QED
      BY <1>1, <3>1, <3>2, <3>3, <3>4, <3>5 DEF Agree, SameBook, Tradable
  <2> QED
    BY <2>3, <2>4, <2>5, <2>6
<1> QED
  BY <1>4, <1>5

(* A heartbeat that the live engine refuses is refused by the replay; one  *)
(* that the replay alone refuses has a number that an earlier run passed.  *)
LEMMA AgreeAfterHeartbeat ==
  ASSUME NEW s, NEW c, NEW t \in Time, SoundProduct(s, t), SoundProduct(c, t), Agree(s, c),
         NEW source \in Sources, NEW sequence \in Nat
  PROVE  Agree(AfterHeartbeat(s, source, sequence), AfterHeartbeat(c, source, sequence))
<1> DEFINE refuses(q) == q.lastSequence # None /\ sequence <= q.lastSequence
           observed(q) == ObserveHeartbeat(q, sequence)
<1>1. /\ s \in ProductState /\ c \in ProductState /\ s.quality \in Quality /\ c.quality \in Quality
      /\ Heard(s.quality.lastSequence, c.quality.lastSequence)
  BY DEF SoundProduct, ProductState, Agree
<1>2. ASSUME NEW r \in ProductState
      PROVE  /\ AfterHeartbeat(r, source, sequence).hasSnapshot = r.hasSnapshot
             /\ AfterHeartbeat(r, source, sequence).source = source
             /\ AfterHeartbeat(r, source, sequence).book = r.book
             /\ AfterHeartbeat(r, source, sequence).quality = observed(r.quality)
             /\ AfterHeartbeat(r, source, sequence).features =
                  IF Tradable(observed(r.quality).state) THEN r.features ELSE None
  BY DEF AfterHeartbeat, ProductState
<1>3. ASSUME NEW q \in Quality
      PROVE  /\ refuses(q) => /\ observed(q).state = "Quarantined"
                              /\ observed(q).lastSequence = q.lastSequence
             /\ ~refuses(q) => /\ observed(q).state = q.state
                               /\ observed(q).lastSequence = sequence
                               /\ observed(q).lastBookAt = q.lastBookAt
  BY DEF ObserveHeartbeat, MarkQuarantined, Quality
<1>4. /\ refuses(s.quality) => refuses(c.quality)
      /\ run = "first" => (refuses(c.quality) <=> refuses(s.quality))
      /\ refuses(c.quality) /\ ~refuses(s.quality) =>
           Heard(sequence, c.quality.lastSequence)
      /\ Heard(sequence, sequence)
  <2>1. s.quality.lastSequence \in Option(Nat) /\ c.quality.lastSequence \in Option(Nat)
    BY <1>1 DEF Quality
  <2> QED
    BY <1>1, <2>1 DEF Heard, Option
<1>5. CASE refuses(s.quality)
  <2>1. /\ observed(s.quality).state = "Quarantined" /\ observed(c.quality).state = "Quarantined"
        /\ observed(s.quality).lastSequence = s.quality.lastSequence
        /\ observed(c.quality).lastSequence = c.quality.lastSequence
    BY <1>1, <1>3, <1>4, <1>5
  <2> HIDE DEF refuses, observed
  <2> QED
    BY <1>1, <1>2, <2>1 DEF Agree, Heard, SameBook, Tradable
<1>6. CASE ~refuses(s.quality) /\ refuses(c.quality)
  <2>1. /\ observed(c.quality).state = "Quarantined"
        /\ observed(s.quality).lastSequence = sequence
        /\ observed(c.quality).lastSequence = c.quality.lastSequence
        /\ run # "first" /\ Heard(sequence, c.quality.lastSequence)
    BY <1>1, <1>3, <1>4, <1>6
  <2> HIDE DEF refuses, observed
  <2> QED
    BY <1>1, <1>2, <2>1 DEF Agree, SameBook, Tradable
<1>7. CASE ~refuses(s.quality) /\ ~refuses(c.quality)
  <2>1. /\ observed(s.quality).state = s.quality.state
        /\ observed(c.quality).state = c.quality.state
        /\ observed(s.quality).lastSequence = sequence
        /\ observed(c.quality).lastSequence = sequence
        /\ observed(s.quality).lastBookAt = s.quality.lastBookAt
        /\ observed(c.quality).lastBookAt = c.quality.lastBookAt
    BY <1>1, <1>3, <1>7
  <2> HIDE DEF refuses, observed
  <2> QED
    BY <1>1, <1>2, <1>4, <2>1 DEF Agree, SameBook, Tradable
<1> QED
  BY <1>4, <1>5, <1>6, <1>7

LEMMA AgreeAfterTrade ==
  ASSUME NEW s \in ProductState, NEW c \in ProductState, Agree(s, c), NEW source \in Sources
  PROVE  Agree([s EXCEPT !.source = source], [c EXCEPT !.source = source])
BY DEF Agree, SameBook, ProductState

LEMMA FieldsAfterReset ==
  ASSUME NEW s \in ProductState
  PROVE  /\ AfterReset(s).hasSnapshot = FALSE
         /\ AfterReset(s).quality.lastSequence = s.quality.lastSequence
<1>1. Quarantined(s) \in ProductState
  BY QuarantinedIsSound DEF Time
<1>2. /\ AfterReset(s).hasSnapshot = FALSE
      /\ AfterReset(s).quality = Quarantined(s).quality
  BY <1>1 DEF AfterReset, ProductState
<1> QED
  BY <1>2, FieldsOfQuarantined

(* A reset of the live engine alone, or of both.                           *)
LEMMA AgreeAfterReset ==
  ASSUME NEW s \in ProductState, NEW c \in ProductState, Agree(s, c)
  PROVE  /\ Agree(AfterReset(s), c)
         /\ Agree(AfterReset(s), AfterReset(c))
         /\ ~s.hasSnapshot => Agree(s, AfterReset(c))
BY FieldsAfterReset DEF Agree

(* The timer only turns a VALID product of the live engine into a stale    *)
(* one, which is what SameBook allows for.                                 *)
LEMMA AgreeAfterRefresh ==
  ASSUME NEW s \in ProductState, NEW c, Agree(s, c), NEW at \in Time
  PROVE  Agree(AfterRefresh(s, at), c)
<1> DEFINE r == AfterRefresh(s, at)
<1>1. /\ r.hasSnapshot = s.hasSnapshot /\ r.book = s.book /\ r.source = s.source
      /\ r.quality = RefreshedStaleness(s.quality, at)
      /\ r.quality.state # "Stale" => r.features = s.features
  BY DEF AfterRefresh, ProductState
<1>2. /\ r.quality.lastSequence = s.quality.lastSequence
      /\ r.quality.lastBookAt = s.quality.lastBookAt
      /\ r.quality.state = s.quality.state
           \/ (s.quality.state = "Valid" /\ r.quality.state = "Stale")
  <2>1. s.quality \in Quality
    BY DEF ProductState
  <2> QED
    BY <1>1, <2>1 DEF RefreshedStaleness, Quality
<1> HIDE DEF r
<1>3. Agree(r, c)
  BY <1>1, <1>2 DEF Agree, SameBook, Tradable
<1> QED
  BY <1>3 DEF r

-----------------------------------------------------------------------------
(***************************************************************************)
(* The steps.                                                              *)
(***************************************************************************)
(* While a live engine runs, its steps are those of Engine.                *)
LEMMA LiveStep ==
  ASSUME \/ \E at \in 0 .. MaxTime, source \in Sources :
              HandleFrame(source, at) \/ HandleOwnStatus(source, at)
         \/ KillSwitch \/ Wait \/ Refresh
  PROVE  Next
BY DEF HandleFrame, HandleOwnStatus, KillSwitch, Wait, Refresh, DecodedStatus, Status, Next, Handle

LEMMA ReplayInvInit == ReplayInit => ReplayInv
<1> SUFFICES ASSUME ReplayInit PROVE ReplayInv
  OBVIOUS
<1>1. EngineInv /\ run = "first"
  BY InitEngineInv DEF ReplayInit
<1>2. products = [p \in Products |-> DefaultProduct] /\ stamp = 0
  BY DEF ReplayInit, Init
<1>3. replayedProducts = [p \in Products |-> DefaultProduct]
  BY DEF ReplayInit, Replayed!Init, Replayed!DefaultProduct, DefaultProduct, Replayed!EmptyBook,
     EmptyBook, Replayed!EmptySide, EmptySide, Replayed!DefaultQuality, DefaultQuality
<1>4. replayedProducts = products
  BY <1>2, <1>3
<1>5. products \in [Products -> ProductState] /\ \A p \in Products : SoundProduct(products[p], stamp)
  BY <1>1 DEF EngineInv
<1>6. \A p \in Products : products[p].hasSnapshot = FALSE /\ products[p].quality.lastSequence = None
  BY <1>2 DEF DefaultProduct, DefaultQuality
<1> QED
  BY <1>1, <1>2, <1>4, <1>5, <1>6 DEF ReplayInv, Agree, Heard

(* What a step within a run, or between two, has to keep.                  *)
LEMMA ReplayInvKept ==
  ASSUME ReplayInv, EngineInv', run' = run, run = "down" => products' = products,
         replayedProducts' \in [Products -> ProductState],
         \A p \in Products : /\ SoundProduct(replayedProducts'[p], stamp')
                             /\ Agree(products'[p], replayedProducts'[p])
  PROVE  ReplayInv'
BY DEF ReplayInv, Agree, Heard, SoundProduct, SameBook

(* An event that leaves a product of the replay sound.                     *)
LEMMA ReplayedEvent ==
  ASSUME ReplayInv, NEW p \in Products, NEW c, NEW at \in Time, stamp <= at, stamp' = at,
         replayedProducts' = [replayedProducts EXCEPT ![p] = c], SoundProduct(c, at)
  PROVE  /\ replayedProducts' \in [Products -> ProductState]
         /\ replayedProducts'[p] = c
         /\ \A q \in Products : SoundProduct(replayedProducts'[q], stamp')
         /\ \A q \in Products \ {p} : replayedProducts'[q] = replayedProducts[q]
<1>1. replayedProducts \in [Products -> ProductState] /\ stamp \in Time
  BY DEF ReplayInv, EngineInv
<1>2. c \in ProductState
  BY DEF SoundProduct
<1>3. replayedProducts' \in [Products -> ProductState] /\ replayedProducts'[p] = c
  BY <1>1, <1>2
<1>4. ASSUME NEW q \in Products \ {p}
      PROVE  replayedProducts'[q] = replayedProducts[q] /\ SoundProduct(replayedProducts'[q], at)
  <2>1. replayedProducts'[q] = replayedProducts[q]
    BY <1>1
  <2>2. SoundProduct(replayedProducts[q], stamp)
    BY DEF ReplayInv
  <2> QED
    BY <1>1, <2>1, <2>2, SoundLater
<1> QED
  BY <1>3, <1>4

LEMMA EventOfOneProduct ==
  ASSUME ReplayInv, Next, run # "down", run' = run, NEW p \in Products, NEW s, NEW c, NEW at,
         Receive(at),
         products' = [products EXCEPT ![p] = s],
         replayedProducts' = [replayedProducts EXCEPT ![p] = c],
         SoundProduct(c, at), Agree(s, c)
  PROVE  ReplayInv'
<1>1. /\ products \in [Products -> ProductState]
      /\ at \in Time /\ stamp <= at /\ stamp' = at /\ EngineInv'
  BY ReceiveTypes, NextKeepsEngineInv DEF ReplayInv, EngineInv
<1>2. /\ replayedProducts' \in [Products -> ProductState]
      /\ replayedProducts'[p] = c
      /\ \A q \in Products : SoundProduct(replayedProducts'[q], stamp')
      /\ \A q \in Products \ {p} : replayedProducts'[q] = replayedProducts[q]
  BY <1>1, ReplayedEvent
<1>3. ASSUME NEW q \in Products
      PROVE  Agree(products'[q], replayedProducts'[q])
  <2>1. Agree(products[q], replayedProducts[q])
    BY DEF ReplayInv
  <2> QED
    BY <1>1, <1>2, <2>1
<1> QED
  BY <1>1, <1>2, <1>3, ReplayInvKept

LEMMA FrameKeepsReplayInv ==
  ASSUME ReplayInv, Next, NEW source \in Sources, NEW at, HandleFrame(source, at)
  PROVE  ReplayInv'
<1> run # "down" /\ run' = run
  BY DEF HandleFrame
<1>1. CASE \E p \in Products, image \in Snapshots :
             HandleSnapshot(p, source, image, at) /\ Replayed!HandleSnapshot(p, source, image, at)
  <2>1. PICK p \in Products, image \in Snapshots :
             HandleSnapshot(p, source, image, at) /\ Replayed!HandleSnapshot(p, source, image, at)
    BY <1>1
  <2> DEFINE s == AfterSnapshot(products[p], source, image, at)
             c == AfterSnapshot(replayedProducts[p], source, image, at)
  <2>2. Receive(at) /\ image \in BookImage /\ at \in Time
    BY <2>1, EngineAssumption, ReceiveTypes DEF HandleSnapshot, ReplayInv
  <2>3. products[p] \in ProductState /\ replayedProducts[p] \in ProductState
        /\ Agree(products[p], replayedProducts[p])
    BY DEF ReplayInv, EngineInv
  <2>4. SoundProduct(c, at) /\ Agree(s, c)
    BY <2>2, <2>3, AfterSnapshotIsSound, AgreeAfterSnapshot
  <2>5. products' = [products EXCEPT ![p] = s]
    BY <2>1 DEF HandleSnapshot
  <2>6. replayedProducts' = [replayedProducts EXCEPT ![p] = c]
    BY <2>1, SameCode DEF Replayed!HandleSnapshot
  <2> HIDE DEF s, c
  <2> QED
    BY <2>2, <2>4, <2>5, <2>6, EventOfOneProduct
<1>2. CASE \E p \in Products, changes \in Deltas :
             HandleDelta(p, source, changes, at) /\ Replayed!HandleDelta(p, source, changes, at)
  <2>1. PICK p \in Products, changes \in Deltas :
             HandleDelta(p, source, changes, at) /\ Replayed!HandleDelta(p, source, changes, at)
    BY <1>2
  <2> DEFINE s == AfterDelta(products[p], source, changes, at)
             c == AfterDelta(replayedProducts[p], source, changes, at)
  <2>2. Receive(at) /\ changes \in Seq(BookChange) /\ at \in Time /\ stamp \in Time
    BY <2>1, EngineAssumption, ReceiveTypes DEF HandleDelta, ReplayInv
  <2>3. /\ SoundProduct(products[p], stamp) /\ SoundProduct(replayedProducts[p], stamp)
        /\ Agree(products[p], replayedProducts[p])
    BY DEF ReplayInv, EngineInv
  <2>4. SoundProduct(c, at) /\ Agree(s, c)
    BY <2>2, <2>3, AfterDeltaIsSound, AgreeAfterDelta
  <2>5. products' = [products EXCEPT ![p] = s]
    BY <2>1 DEF HandleDelta
  <2>6. replayedProducts' = [replayedProducts EXCEPT ![p] = c]
    BY <2>1, SameCode DEF Replayed!HandleDelta
  <2> HIDE DEF s, c
  <2> QED
    BY <2>2, <2>4, <2>5, <2>6, EventOfOneProduct
<1>3. CASE \E p \in Products, sequence \in 0 .. MaxSequence :
             /\ HandleHeartbeat(p, source, sequence, at)
             /\ Replayed!HandleHeartbeat(p, source, sequence, at)
  <2>1. PICK p \in Products, sequence \in 0 .. MaxSequence :
             /\ HandleHeartbeat(p, source, sequence, at)
             /\ Replayed!HandleHeartbeat(p, source, sequence, at)
    BY <1>3
  <2> DEFINE s == AfterHeartbeat(products[p], source, sequence)
             c == AfterHeartbeat(replayedProducts[p], source, sequence)
  <2>2. Receive(at) /\ sequence \in Nat /\ at \in Time /\ stamp \in Time /\ stamp <= at
    BY <2>1, ReceiveTypes DEF HandleHeartbeat, ReplayInv
  <2>3. /\ SoundProduct(products[p], stamp) /\ SoundProduct(replayedProducts[p], stamp)
        /\ Agree(products[p], replayedProducts[p])
    BY DEF ReplayInv, EngineInv
  <2>4. SoundProduct(c, at) /\ Agree(s, c)
    BY <2>2, <2>3, AfterHeartbeatIsSound, AgreeAfterHeartbeat, SoundLater
  <2>5. products' = [products EXCEPT ![p] = s]
    BY <2>1 DEF HandleHeartbeat
  <2>6. replayedProducts' = [replayedProducts EXCEPT ![p] = c]
    BY <2>1, SameCode DEF Replayed!HandleHeartbeat
  <2> HIDE DEF s, c
  <2> QED
    BY <2>2, <2>4, <2>5, <2>6, EventOfOneProduct
<1>4. CASE \E p \in Products : HandleTrade(p, source, at) /\ Replayed!HandleTrade(p, source, at)
  <2>1. PICK p \in Products : HandleTrade(p, source, at) /\ Replayed!HandleTrade(p, source, at)
    BY <1>4
  <2> DEFINE s == [products[p] EXCEPT !.source = source]
             c == [replayedProducts[p] EXCEPT !.source = source]
  <2>2. Receive(at) /\ at \in Time /\ stamp \in Time /\ stamp <= at
    BY <2>1, ReceiveTypes DEF HandleTrade, ReplayInv
  <2>3. /\ SoundProduct(products[p], stamp) /\ SoundProduct(replayedProducts[p], stamp)
        /\ Agree(products[p], replayedProducts[p])
        /\ products \in [Products -> ProductState]
        /\ replayedProducts \in [Products -> ProductState]
    BY DEF ReplayInv, EngineInv
  <2>4. SoundProduct(c, at) /\ Agree(s, c)
    BY <2>2, <2>3, SourceChangeIsSound, AgreeAfterTrade, SoundLater
  <2>5. products' = [products EXCEPT ![p] = s]
    BY <2>1, <2>3 DEF HandleTrade
  <2>6. replayedProducts' = [replayedProducts EXCEPT ![p] = c]
    BY <2>1, <2>3 DEF Replayed!HandleTrade
  <2> HIDE DEF s, c
  <2> QED
    BY <2>2, <2>4, <2>5, <2>6, EventOfOneProduct
<1>5. CASE \E status \in DecodedStatus :
             /\ HandleSourceStatus(source, status, at)
             /\ Replayed!HandleSourceStatus(source, status, at)
  <2>1. PICK status \in DecodedStatus :
             /\ HandleSourceStatus(source, status, at)
             /\ Replayed!HandleSourceStatus(source, status, at)
    BY <1>5
  <2>2. at \in Time /\ stamp \in Time /\ stamp <= at /\ stamp' = at
    BY <2>1, ReceiveTypes DEF HandleSourceStatus, ReplayInv
  <2> DEFINE loses == status \in {"connecting", "disconnected", "error"}
  <2>3. ASSUME NEW p \in Products
        PROVE  /\ products'[p] = IF loses /\ products[p].source = source
                                 THEN AfterReset(products[p]) ELSE products[p]
               /\ replayedProducts'[p] = IF loses /\ replayedProducts[p].source = source
                                         THEN AfterReset(replayedProducts[p])
                                         ELSE replayedProducts[p]
    BY <2>1, SameCode DEF HandleSourceStatus, Replayed!HandleSourceStatus
  <2>4. ASSUME NEW p \in Products
        PROVE  /\ SoundProduct(replayedProducts'[p], at)
               /\ Agree(products'[p], replayedProducts'[p])
    <3> DEFINE s == products[p]
               c == replayedProducts[p]
    <3>1. /\ s \in ProductState /\ c \in ProductState
          /\ SoundProduct(c, stamp) /\ Agree(s, c)
      BY DEF ReplayInv, EngineInv
    <3>2. SoundProduct(c, at) /\ SoundProduct(AfterReset(c), at)
      BY <2>2, <3>1, SoundLater, AfterResetIsSound
    <3>3. s.hasSnapshot => s.source = c.source
      BY <3>1 DEF Agree, SameBook
    <3>4. /\ Agree(AfterReset(s), c) /\ Agree(AfterReset(s), AfterReset(c))
          /\ ~s.hasSnapshot => Agree(s, AfterReset(c))
      BY <3>1, AgreeAfterReset
    <3> QED
      BY <2>3, <3>1, <3>2, <3>3, <3>4
  <2>5. replayedProducts' \in [Products -> ProductState]
    <3>1. replayedProducts' = [p \in Products |-> replayedProducts'[p]]
      BY <2>1 DEF Replayed!HandleSourceStatus
    <3>2. \A p \in Products : replayedProducts'[p] \in ProductState
      BY <2>4 DEF SoundProduct
    <3> QED
      BY <3>1, <3>2
  <2>6. EngineInv'
    BY NextKeepsEngineInv DEF ReplayInv
  <2> QED
    BY <2>2, <2>4, <2>5, <2>6, ReplayInvKept
<1> QED
  BY <1>1, <1>2, <1>3, <1>4, <1>5 DEF HandleFrame

(* A status that is not in the journal resets the live products only.      *)
LEMMA OwnStatusKeepsReplayInv ==
  ASSUME ReplayInv, Next, NEW source \in Sources, NEW at, HandleOwnStatus(source, at)
  PROVE  ReplayInv'
<1>1. PICK status \in Status : HandleSourceStatus(source, status, at)
  BY DEF HandleOwnStatus
<1>2. at \in Time /\ stamp \in Time /\ stamp <= at /\ stamp' = at
  BY <1>1, ReceiveTypes DEF HandleSourceStatus, ReplayInv
<1>3. replayedProducts' = replayedProducts /\ replayedProducts \in [Products -> ProductState]
  BY DEF HandleOwnStatus, replayedVars, ReplayInv
<1>4. ASSUME NEW p \in Products
      PROVE  SoundProduct(replayedProducts'[p], at) /\ Agree(products'[p], replayedProducts'[p])
  <2>1. /\ products[p] \in ProductState /\ replayedProducts[p] \in ProductState
        /\ SoundProduct(replayedProducts[p], stamp) /\ Agree(products[p], replayedProducts[p])
    BY DEF ReplayInv, EngineInv
  <2>2. products'[p] = products[p] \/ products'[p] = AfterReset(products[p])
    BY <1>1 DEF HandleSourceStatus
  <2> QED
    BY <1>2, <1>3, <2>1, <2>2, SoundLater, AgreeAfterReset
<1>5. EngineInv' /\ run # "down" /\ run' = run
  BY NextKeepsEngineInv DEF ReplayInv, HandleOwnStatus
<1> QED
  BY <1>2, <1>3, <1>4, <1>5, ReplayInvKept

LEMMA RefreshKeepsReplayInv == ASSUME ReplayInv, Next, Refresh PROVE ReplayInv'
<1>1. /\ replayedProducts' = replayedProducts /\ replayedProducts \in [Products -> ProductState]
      /\ stamp' = stamp /\ stamp \in Time /\ now \in Time
  BY DEF Refresh, RefreshStaleness, replayedVars, ReplayInv, EngineInv
<1>2. ASSUME NEW p \in Products
      PROVE  SoundProduct(replayedProducts'[p], stamp') /\ Agree(products'[p], replayedProducts'[p])
  <2>1. /\ products[p] \in ProductState
        /\ SoundProduct(replayedProducts[p], stamp) /\ Agree(products[p], replayedProducts[p])
    BY DEF ReplayInv, EngineInv
  <2>2. products'[p] = AfterRefresh(products[p], now)
    BY DEF Refresh, RefreshStaleness
  <2> QED
    BY <1>1, <2>1, <2>2, AgreeAfterRefresh
<1>3. EngineInv' /\ run # "down" /\ run' = run
  BY NextKeepsEngineInv DEF ReplayInv, Refresh
<1> QED
  BY <1>1, <1>2, <1>3, ReplayInvKept

(* The frames that the ended run left behind reach the replay alone.       *)
LEMMA UnhandledFrameKeepsReplayInv ==
  ASSUME ReplayInv, NEW source \in Sources, NEW at, ReplayUnhandledFrame(source, at)
  PROVE  ReplayInv'
<1>1. /\ run = "down" /\ run' = run /\ products' = products
      /\ products = [p \in Products |-> DefaultProduct]
      /\ stamp \in Time /\ now \in Time
  BY DEF ReplayUnhandledFrame, ReplayInv, EngineInv
<1>2. Replayed!Receive(at)
  BY DEF ReplayUnhandledFrame, Replayed!HandleSourceStatus, Replayed!HandleSnapshot,
     Replayed!HandleDelta, Replayed!HandleHeartbeat, Replayed!HandleTrade
<1>3. at \in Time /\ stamp <= at /\ stamp' = at /\ now' = now
  BY <1>1, <1>2 DEF Replayed!Receive, Time
<1>4. EngineInv'
  <2>1. UNCHANGED <<products, sourceStatus, processed, history, account, risk>>
    BY DEF ReplayUnhandledFrame, tradingVars
  <2>2. \A p \in Products : SoundProduct(products[p], at)
    <3>1. \A p \in Products : SoundProduct(products[p], stamp)
      BY DEF ReplayInv, EngineInv
    <3> QED
      BY <1>1, <1>3, <3>1, SoundLater
  <2>3. (\A p \in Products : SoundProduct(products[p], stamp))'
    BY <1>3, <2>1, <2>2 DEF SoundProduct
  <2>4. TradingInv'
    BY <2>1 DEF ReplayInv, EngineInv, TradingInv, RiskLimitsHold
  <2> QED
    BY <1>1, <1>3, <2>1, <2>3, <2>4 DEF ReplayInv, EngineInv
<1>5. ASSUME NEW p \in Products, NEW c, SoundProduct(c, at),
             replayedProducts' = [replayedProducts EXCEPT ![p] = c]
      PROVE  /\ replayedProducts' \in [Products -> ProductState]
             /\ \A q \in Products : SoundProduct(replayedProducts'[q], stamp')
  BY <1>3, <1>5, ReplayedEvent
<1>6. ASSUME NEW p \in Products
      PROVE  /\ replayedProducts[p] \in ProductState
             /\ SoundProduct(replayedProducts[p], stamp) /\ SoundProduct(replayedProducts[p], at)
  BY <1>1, <1>3, SoundLater DEF ReplayInv
<1>7. /\ replayedProducts' \in [Products -> ProductState]
      /\ \A q \in Products : SoundProduct(replayedProducts'[q], stamp')
  <2>1. ASSUME NEW p \in Products, NEW image \in Snapshots,
               Replayed!HandleSnapshot(p, source, image, at)
        PROVE  <1>7
    <3>1. replayedProducts' =
            [replayedProducts EXCEPT ![p] = AfterSnapshot(replayedProducts[p], source, image, at)]
      BY <2>1, SameCode DEF Replayed!HandleSnapshot
    <3>2. SoundProduct(AfterSnapshot(replayedProducts[p], source, image, at), at)
      BY <1>3, <1>6, EngineAssumption, AfterSnapshotIsSound
    <3> QED
      BY <1>5, <3>1, <3>2
  <2>2. ASSUME NEW p \in Products, NEW changes \in Deltas,
               Replayed!HandleDelta(p, source, changes, at)
        PROVE  <1>7
    <3>1. replayedProducts' =
            [replayedProducts EXCEPT ![p] = AfterDelta(replayedProducts[p], source, changes, at)]
      BY <2>2, SameCode DEF Replayed!HandleDelta
    <3>2. SoundProduct(AfterDelta(replayedProducts[p], source, changes, at), at)
      BY <1>1, <1>3, <1>6, EngineAssumption, AfterDeltaIsSound
    <3> QED
      BY <1>5, <3>1, <3>2
  <2>3. ASSUME NEW p \in Products, NEW sequence \in 0 .. MaxSequence,
               Replayed!HandleHeartbeat(p, source, sequence, at)
        PROVE  <1>7
    <3>1. replayedProducts' =
            [replayedProducts EXCEPT ![p] = AfterHeartbeat(replayedProducts[p], source, sequence)]
      BY <2>3, SameCode DEF Replayed!HandleHeartbeat
    <3>2. SoundProduct(AfterHeartbeat(replayedProducts[p], source, sequence), at)
      BY <1>3, <1>6, AfterHeartbeatIsSound
    <3> QED
      BY <1>5, <3>1, <3>2
  <2>4. ASSUME NEW p \in Products, Replayed!HandleTrade(p, source, at)
        PROVE  <1>7
    <3>1. replayedProducts' =
            [replayedProducts EXCEPT ![p] = [replayedProducts[p] EXCEPT !.source = source]]
      BY <2>4 DEF Replayed!HandleTrade, ReplayInv
    <3>2. SoundProduct([replayedProducts[p] EXCEPT !.source = source], at)
      BY <1>3, <1>6, SourceChangeIsSound
    <3> QED
      BY <1>5, <3>1, <3>2
  <2>5. ASSUME NEW status \in DecodedStatus, Replayed!HandleSourceStatus(source, status, at)
        PROVE  <1>7
    <3>1. ASSUME NEW p \in Products
          PROVE  /\ SoundProduct(replayedProducts'[p], at)
                 /\ replayedProducts'[p] \in ProductState
      <4>1. replayedProducts'[p] \in {replayedProducts[p], AfterReset(replayedProducts[p])}
        BY <2>5, SameCode DEF Replayed!HandleSourceStatus
      <4>2. SoundProduct(AfterReset(replayedProducts[p]), at)
        BY <1>3, <1>6, AfterResetIsSound
      <4>3. SoundProduct(replayedProducts'[p], at)
        BY <1>6, <4>1, <4>2
      <4> QED
        BY <4>3 DEF SoundProduct
    <3>2. replayedProducts' = [p \in Products |-> replayedProducts'[p]]
      BY <2>5 DEF Replayed!HandleSourceStatus
    <3> QED
      BY <1>3, <3>1, <3>2
  <2> QED
    BY <2>1, <2>2, <2>3, <2>4, <2>5 DEF ReplayUnhandledFrame
<1>8. \A p \in Products : Agree(products'[p], replayedProducts'[p])
  BY <1>1 DEF Agree, Heard, DefaultProduct, DefaultQuality
<1> QED
  BY <1>1, <1>4, <1>7, <1>8, ReplayInvKept

(* The new engine has heard no heartbeat and has no book yet.              *)
LEMMA EndRunKeepsReplayInv == ASSUME ReplayInv, EndRun PROVE ReplayInv'
<1>1. EngineInv'
  <2>1. NewEngine'
    BY DEF EndRun, NewEngine, ReplayInv, EngineInv
  <2> QED
    BY <2>1, NewEngineIsSound, PTL
<1>2. products' = [p \in Products |-> DefaultProduct] /\ run' = "down"
  BY DEF EndRun
<1>3. ASSUME NEW p \in Products
      PROVE  Agree(products[p], replayedProducts[p])'
  <2>1. /\ products'[p].hasSnapshot = FALSE
        /\ products'[p].quality.lastSequence = None
    BY <1>2 DEF DefaultProduct, DefaultQuality
  <2> QED
    BY <1>2, <2>1 DEF Agree, Heard
<1>4. UNCHANGED <<replayedProducts, stamp>>
  BY DEF EndRun, replayedVars
<1>5. (\A p \in Products : SoundProduct(replayedProducts[p], stamp))'
  BY <1>4 DEF ReplayInv, SoundProduct
<1> QED
  BY <1>1, <1>2, <1>3, <1>4, <1>5 DEF ReplayInv

(* All that matters of a run is whether it is the first.                   *)
LEMMA StartRunKeepsReplayInv == ASSUME ReplayInv, StartRun PROVE ReplayInv'
<1>1. /\ UNCHANGED vars /\ replayedProducts' = replayedProducts
      /\ run # "first" /\ run' # "first" /\ run' # "down"
  BY DEF StartRun, replayedVars
<1>2. EngineInv'
  BY <1>1, NextKeepsEngineInv DEF ReplayInv
<1>3. stamp' = stamp /\ products' = products
  BY <1>1 DEF vars
<1>4. ASSUME NEW p \in Products
      PROVE  /\ SoundProduct(replayedProducts[p], stamp)'
             /\ Agree(products[p], replayedProducts[p])'
  <2>1. SoundProduct(replayedProducts[p], stamp) /\ Agree(products[p], replayedProducts[p])
    BY DEF ReplayInv
  <2> QED
    BY <1>1, <1>3, <2>1 DEF SoundProduct, Agree, Heard, SameBook
<1> QED
  BY <1>1, <1>2, <1>4 DEF ReplayInv

LEMMA ReplayStep == ReplayInv /\ [ReplayNext]_replayVars => ReplayInv'
<1> SUFFICES ASSUME ReplayInv, [ReplayNext]_replayVars PROVE ReplayInv'
  OBVIOUS
<1>1. CASE UNCHANGED replayVars
  <2>1. EngineInv'
    BY <1>1, NextKeepsEngineInv DEF ReplayInv, replayVars
  <2> QED
    BY <1>1, <2>1 DEF ReplayInv, Agree, Heard, SoundProduct, SameBook, vars, replayVars, replayedVars
<1>2. CASE \E at \in 0 .. MaxTime, source \in Sources :
             HandleFrame(source, at) \/ HandleOwnStatus(source, at)
  BY <1>2, LiveStep, FrameKeepsReplayInv, OwnStatusKeepsReplayInv
<1>3. CASE KillSwitch \/ Wait
  <2>1. /\ products' = products /\ replayedProducts' = replayedProducts /\ stamp' = stamp
        /\ run' = run
    BY <1>3 DEF KillSwitch, Wait, TriggerKillSwitch, Tick, replayedVars
  <2>2. EngineInv'
    BY <1>3, LiveStep, NextKeepsEngineInv DEF ReplayInv
  <2> QED
    BY <2>1, <2>2, ReplayInvKept DEF ReplayInv
<1>4. CASE Refresh
  BY <1>4, LiveStep, RefreshKeepsReplayInv
<1> QED
  BY <1>1, <1>2, <1>3, <1>4, UnhandledFrameKeepsReplayInv, EndRunKeepsReplayInv,
     StartRunKeepsReplayInv DEF ReplayNext

-----------------------------------------------------------------------------
(***************************************************************************)
(* The theorems.                                                           *)
(***************************************************************************)

(* The inductive invariant: the replay has seen every heartbeat that the   *)
(* live engine has, and holds the same book wherever the live one has one. *)
THEOREM ReplayInvariance == ReplaySpec => []ReplayInv
<1> QED
  BY ReplayInvInit, ReplayStep, PTL DEF ReplaySpec

(* README: a journal can be replayed to "rebuild the ending market state". *)
(* Over any number of runs and crashes, a replay has every book that the   *)
(* live engine holds, and trusts none that the live engine distrusts, up   *)
(* to what the timer marked; in the first run of a journal its features    *)
(* and quality are the live ones too, and later they are unless it has     *)
(* quarantined the product.                                                *)
THEOREM LiveBooksAreRebuilt == ReplaySpec => []ReplayRebuildsLiveBooks
<1>1. ReplayInv => ReplayRebuildsLiveBooks
  BY DEF ReplayInv, Agree, ReplayRebuildsLiveBooks
<1> QED
  BY <1>1, ReplayInvariance, PTL

=============================================================================
