------------------------------- MODULE Engine -------------------------------
(***************************************************************************)
(* src/engine.rs: one Engine behind its lock, as the event task of         *)
(* src/main.rs and the MCP server use it.                                  *)
(*                                                                         *)
(* Every handler runs under the write lock, so each is one action.  The    *)
(* event task takes events from a FIFO channel that one source fills; an   *)
(* event carries the time its source received it at, and may wait in the   *)
(* channel for long.  Hence an event that is handled at time now carries   *)
(* a time between that of the event before it (stamp) and now.             *)
(***************************************************************************)
EXTENDS PaperTrading, Lists

CONSTANTS
  PaperBotEnabled,   \* whether Engine::new got a bot
  Snapshots,         \* the images that book snapshots may carry
  Deltas,            \* the sequences of changes that deltas may carry
  MaxSequence,       \* bound on heartbeat sequence numbers
  MaxTime,           \* bound on the clock
  MaxFills           \* bound on the number of fills

ASSUME EngineAssumption ==
  /\ PaperBotEnabled \in BOOLEAN
  /\ Snapshots \subseteq BookImage
  /\ Deltas \subseteq Seq(BookChange)
  /\ MaxSequence \in Nat
  /\ MaxTime \in Nat
  /\ MaxFills \in Nat

VARIABLES
  now,            \* the wall clock
  stamp,          \* received_at of the event handled last
  products,       \* the ProductState of each product; absent ones are default
  sourceStatus,   \* the status each source reported last
  processed,      \* processed_events
  history,        \* the bot's mid prices for each product
  account,        \* the paper account
  risk            \* the state of the risk kernel

tradingVars == <<history, account, risk>>
vars == <<now, stamp, products, sourceStatus, processed, history, account, risk>>

ProductState == [source      : Option(Sources),
                 book        : Book,
                 hasSnapshot : BOOLEAN,
                 features    : Option(Features),
                 quality     : Quality]

DefaultProduct == [source      |-> None,
                   book        |-> EmptyBook,
                   hasSnapshot |-> FALSE,
                   features    |-> None,
                   quality     |-> DefaultQuality]

TypeOK ==
  /\ now \in Time
  /\ stamp \in Time
  /\ products \in [Products -> ProductState]
  /\ sourceStatus \in [Sources -> Option(Status)]
  /\ processed \in 0 .. CounterMax
  /\ history \in [Products -> History]
  /\ account \in Account
  /\ risk \in Risk

Init ==
  /\ now = 0
  /\ stamp = 0
  /\ products = [p \in Products |-> DefaultProduct]
  /\ sourceStatus = [s \in Sources |-> None]
  /\ processed = 0
  /\ history = [p \in Products |-> <<>>]
  /\ account = EmptyAccount
  /\ risk = InitialRisk

-----------------------------------------------------------------------------
(* What every event does: the channel is FIFO and the event is counted.    *)
Receive(at) ==
  /\ at \in stamp .. now
  /\ stamp' = at
  /\ processed' = SaturatingAdd(processed)
  /\ UNCHANGED now

(* risk.evaluate, then account.fill if it approves. *)
Submit(order, quality, at) ==
  \/ /\ PassesRisk(risk, order, quality, account.positions[order.product], at)
     /\ Len(account.fills) < MaxFills
     /\ risk' = Approve(risk)
     /\ account' = Filled(account, order)
  \/ /\ ~PassesRisk(risk, order, quality, account.positions[order.product], at)
     /\ risk' = Reject(risk)
     /\ UNCHANGED account

(* Mutant: the bot is given the features from before the event. *)
MaybeRunPaperBot_OldFeatures(p, s, at) ==
  IF ~PaperBotEnabled \/ s.features = None \/ products[p].features = None
  THEN UNCHANGED tradingVars
  ELSE LET mid2 == products[p].features.mid2
           h    == Observed(history[p], mid2)
           side == Signal(h)
       IN  /\ history' = [history EXCEPT ![p] = h]
           /\ IF side = None
              THEN UNCHANGED <<account, risk>>
              ELSE Submit(MomentumOrder(p, side, mid2, at), s.quality, at)

(* maybe_run_paper_bot, for a product that the current event left in state *)
(* s; the callers run it only if the event left features behind.           *)
MaybeRunPaperBot(p, s, at) ==
  IF ~PaperBotEnabled \/ s.features = None
  THEN UNCHANGED tradingVars
  ELSE LET h    == Observed(history[p], s.features.mid2)
           side == Signal(h)
       IN  /\ history' = [history EXCEPT ![p] = h]
           /\ IF side = None
              THEN UNCHANGED <<account, risk>>
              ELSE Submit(MomentumOrder(p, side, s.features.mid2, at), s.quality, at)

Quarantined(s) == [s EXCEPT !.features = None, !.quality = MarkQuarantined(s.quality)]

(* Mutant: the sides are not cleared before the image is inserted. *)
AfterSnapshot_OverOldBook(s, source, image, at) ==
  LET Over(new, old) == [p \in DOMAIN new \cup DOMAIN old |->
                           IF p \in DOMAIN new THEN new[p] ELSE old[p]]
      fresh   == ApplySnapshot(image)
      applied == [s EXCEPT !.source = source, !.hasSnapshot = TRUE,
                           !.book = [bids |-> Over(fresh.bids, s.book.bids),
                                     asks |-> Over(fresh.asks, s.book.asks)]]
  IN  IF IsCrossed(applied.book)
      THEN Quarantined(applied)
      ELSE [applied EXCEPT !.features = FromTop(Top(applied.book)),
                           !.quality = AcceptSnapshot(s.quality, at)]

(* A product after a BookSnapshot event. *)
AfterSnapshot(s, source, image, at) ==
  LET applied == [s EXCEPT !.source = source, !.hasSnapshot = TRUE,
                           !.book = ApplySnapshot(image)]
  IN  IF IsCrossed(applied.book)
      THEN Quarantined(applied)
      ELSE [applied EXCEPT !.features = FromTop(Top(applied.book)),
                           !.quality = AcceptSnapshot(s.quality, at)]

(* A product after a BookDelta event.  The changes go into the book even   *)
(* when the feed refuses the delta.                                        *)
AfterDelta(s, source, changes, at) ==
  LET fed     == [s EXCEPT !.source = source]
      applied == [fed EXCEPT !.book = ApplyChanges(s.book, changes)]
  IN  IF ~s.hasSnapshot THEN Quarantined(fed)
      ELSE IF IsCrossed(applied.book) THEN Quarantined(applied)
      ELSE IF RefusesDelta(s.quality) THEN [applied EXCEPT !.features = None]
      ELSE [applied EXCEPT !.features = FromTop(Top(applied.book)),
                           !.quality = AcceptDelta(s.quality, at)]

(* Mutant: a heartbeat never touches the features. *)
AfterHeartbeat_KeepsFeatures(s, source, sequence) ==
  [s EXCEPT !.source = source, !.quality = ObserveHeartbeat(s.quality, sequence)]

AfterHeartbeat(s, source, sequence) ==
  LET quality == ObserveHeartbeat(s.quality, sequence)
  IN  [s EXCEPT !.source = source, !.quality = quality,
                !.features = IF Tradable(quality.state) THEN @ ELSE None]

(* Mutant: only the flag is reset. *)
AfterReset_FlagOnly(s) == [s EXCEPT !.hasSnapshot = FALSE, !.features = None]

(* A product after its source reported a status that loses the book.  *)
AfterReset(s) == [Quarantined(s) EXCEPT !.hasSnapshot = FALSE]

AfterRefresh(s, at) ==
  LET quality == RefreshedStaleness(s.quality, at)
  IN  [s EXCEPT !.quality = quality,
                !.features = IF quality.state = "Stale" THEN None ELSE @]

-----------------------------------------------------------------------------
HandleSnapshot(p, source, image, at) ==
  /\ Receive(at)
  /\ products' = [products EXCEPT ![p] = AfterSnapshot(@, source, image, at)]
  /\ MaybeRunPaperBot(p, AfterSnapshot(products[p], source, image, at), at)
  /\ UNCHANGED sourceStatus

HandleDelta(p, source, changes, at) ==
  /\ Receive(at)
  /\ products' = [products EXCEPT ![p] = AfterDelta(@, source, changes, at)]
  /\ MaybeRunPaperBot(p, AfterDelta(products[p], source, changes, at), at)
  /\ UNCHANGED sourceStatus

HandleHeartbeat(p, source, sequence, at) ==
  /\ Receive(at)
  /\ products' = [products EXCEPT ![p] = AfterHeartbeat(@, source, sequence)]
  /\ UNCHANGED <<sourceStatus, tradingVars>>

HandleTrade(p, source, at) ==
  /\ Receive(at)
  /\ products' = [products EXCEPT ![p].source = source]
  /\ UNCHANGED <<sourceStatus, tradingVars>>

HandleSourceStatus(source, status, at) ==
  /\ Receive(at)
  /\ sourceStatus' = [sourceStatus EXCEPT ![source] = status]
  /\ products' = [p \in Products |->
                    IF /\ status \in {"connecting", "disconnected", "error"}
                       /\ products[p].source = source
                    THEN AfterReset(products[p])
                    ELSE products[p]]
  /\ UNCHANGED tradingVars

(* Mutant: ages are taken against the last event. *)
RefreshStaleness_EventTime ==
  /\ products' = [p \in Products |-> AfterRefresh(products[p], stamp)]
  /\ UNCHANGED <<now, stamp, sourceStatus, processed, tradingVars>>

(* The interval branch of the event task. *)
RefreshStaleness ==
  /\ products' = [p \in Products |-> AfterRefresh(products[p], now)]
  /\ UNCHANGED <<now, stamp, sourceStatus, processed, tradingVars>>

(* Mutant: a second trigger resumes trading. *)
TriggerKillSwitch_Toggles ==
  /\ risk' = [risk EXCEPT !.killSwitch = ~@]
  /\ UNCHANGED <<now, stamp, products, sourceStatus, processed, history, account>>

(* The MCP tool Risk.TriggerKillSwitch. *)
TriggerKillSwitch ==
  /\ risk' = [risk EXCEPT !.killSwitch = TRUE]
  /\ UNCHANGED <<now, stamp, products, sourceStatus, processed, history, account>>

(* Time passes. *)
Tick ==
  /\ now < MaxTime
  /\ now' = now + 1
  /\ UNCHANGED <<stamp, products, sourceStatus, processed, tradingVars>>

Handle(at) ==
  \E source \in Sources :
    \/ \E status \in Status : HandleSourceStatus(source, status, at)
    \/ \E p \in Products :
         \/ \E image \in Snapshots : HandleSnapshot(p, source, image, at)
         \/ \E changes \in Deltas : HandleDelta(p, source, changes, at)
         \/ \E sequence \in 0 .. MaxSequence : HandleHeartbeat(p, source, sequence, at)
         \/ HandleTrade(p, source, at)

Next ==
  \/ \E at \in 0 .. MaxTime : Handle(at)
  \/ RefreshStaleness
  \/ TriggerKillSwitch
  \/ Tick

Spec == Init /\ [][Next]_vars

(* tokio::select! polls its branches in random order, so the interval is   *)
(* served however busy the channel is.                                     *)
FairSpec == Spec /\ WF_vars(RefreshStaleness)

-----------------------------------------------------------------------------
(***************************************************************************)
(* Properties.                                                             *)
(***************************************************************************)

(* Whoever reads a product as VALID reads a book that was built from a     *)
(* snapshot of the current connection, that is not crossed, and whose      *)
(* newest update is not from the future of the event stream.               *)
ValidBookIsSound ==
  \A p \in Products :
    LET s == products[p]
    IN  Tradable(s.quality.state) =>
          /\ s.hasSnapshot
          /\ ~IsCrossed(s.book)
          /\ s.quality.lastBookAt \in 0 .. stamp

(* Features are exactly those of the book as it is now while the product   *)
(* is VALID, and there are none in every other state: no handler leaves    *)
(* the features of an older book, or of a feed that is no longer trusted.  *)
FeaturesTrackBook ==
  \A p \in Products :
    LET s == products[p]
    IN  s.features = IF Tradable(s.quality.state) THEN FromTop(Top(s.book)) ELSE None

(* "A fresh source snapshot is the only operation allowed to clear a       *)
(* hard-invalid state": a product for which deltas are refused becomes     *)
(* tradable only in a step that replaces its book by a snapshot's image.   *)
HardInvalidLatched ==
  [][\A p \in Products :
       /\ products[p].quality.state \notin {"Valid", "Stale"}
       /\ Tradable(products[p].quality.state)'
       =>
         /\ \E image \in Snapshots : products'[p].book = ApplySnapshot(image)
         /\ products'[p].quality.lastBookAt = stamp']_vars

(* Once the kill switch is on it stays on and the account never changes    *)
(* again, whatever events were already waiting in the channel.             *)
KillSwitchHalts ==
  [][risk.killSwitch => risk'.killSwitch /\ UNCHANGED account]_vars

(* No sequence of fills takes a position over its limit, nor is any fill   *)
(* larger than the notional limit.                                         *)
RiskLimitsHold ==
  /\ \A p \in Products : Magnitude(account.positions[p]) <= MaxAbsolutePosition
  /\ \A i \in DOMAIN account.fills :
       account.fills[i].quantity * account.fills[i].price2 <= 2 * MaxOrderNotional

(* What one fill adds to the position in p, and to the cash flow. *)
HeldBy(fill, p) ==
  IF fill.product # p THEN 0 ELSE IF fill.side = "buy" THEN fill.quantity ELSE -fill.quantity

PaidBy(fill) ==
  IF fill.side = "buy" THEN -(fill.quantity * fill.price2) ELSE fill.quantity * fill.price2

(* The account can be rebuilt from its fills alone: every position is the  *)
(* sum of the signed quantities, the cash flow the sum of what they cost,  *)
(* and as many orders were approved as there are fills.                    *)
AccountReconciles ==
  LET fills == account.fills
  IN  /\ \A p \in Products :
           account.positions[p] = Total([i \in DOMAIN fills |-> HeldBy(fills[i], p)])
      /\ account.cash2 = Total([i \in DOMAIN fills |-> PaidBy(fills[i])])
      /\ risk.approved = IF Len(fills) < CounterMax THEN Len(fills) ELSE CounterMax

(* Fills are only ever appended, one at a time, and only at the mid price  *)
(* of a VALID book that the very same event has just updated.              *)
FillsOnlyAtCurrentQuote ==
  [][account.fills' # account.fills =>
       LET fill == account'.fills[Len(account'.fills)]
           s    == products'[fill.product]
       IN  /\ account'.fills = Append(account.fills, fill)
           /\ Tradable(s.quality.state)
           /\ s.quality.lastBookAt = fill.at
           /\ fill.at = stamp'
           /\ s.features # None
           /\ fill.price2 = s.features.mid2]_vars

(* A product that is VALID on a book older than StaleAfter does not stay   *)
(* so: it is marked, or a newer update reaches it.                         *)
Overdue(p) == /\ Tradable(products[p].quality.state)
              /\ AgeExceeds(products[p].quality, now, StaleAfter)

StaleNoticed == \A p \in Products : Overdue(p) ~> ~Overdue(p)

(* README: paper orders are rejected unless the book was recently updated. *)
(* The risk kernel is given the received_at of the event as the current    *)
(* time, so what it compares is not the age the book has when it fills.    *)
FillsOnFreshData ==
  [][account.fills' # account.fills =>
       LET fill == account'.fills[Len(account'.fills)]
       IN  ~AgeExceeds(products'[fill.product].quality, now, StaleAfter)]_vars

-----------------------------------------------------------------------------
(* The engine as a TradingDesk: a product is trusted while it has features.*)
Desk == INSTANCE TradingDesk WITH
          trusted   <- {p \in Products : products[p].features # None},
          halted    <- risk.killSwitch,
          positions <- account.positions

ImplementsDesk == Desk!DeskSpec

=============================================================================
