---------------------------- MODULE FeedQuality -----------------------------
(***************************************************************************)
(* src/quality.rs as operators: each method of FeedQuality maps a record   *)
(* to the record it leaves behind.                                         *)
(*                                                                         *)
(* The texts in `reason` and the time in `last_heartbeat_at` are left out: *)
(* they are shown to a reader and no code path tests them.                 *)
(***************************************************************************)
EXTENDS Domain

CONSTANT StaleAfter   \* stale_after_ms, also the risk kernel's max_data_age_ms

ASSUME StaleAfterAssumption == StaleAfter \in Nat

QualityState == {"Initializing", "Valid", "Stale", "GapDetected",
                 "ChecksumFailed", "Divergent", "Quarantined"}

(* QualityState::tradable *)
Tradable(state) == state = "Valid"

(* QualityState::requires_snapshot_recovery *)
RequiresSnapshotRecovery(state) ==
  state \in {"GapDetected", "ChecksumFailed", "Divergent", "Quarantined"}

Quality == [state        : QualityState,
            lastBookAt   : Option(Time),
            lastSequence : Option(Nat),
            gapCount     : 0 .. CounterMax]

DefaultQuality == [state        |-> "Initializing",
                   lastBookAt   |-> None,
                   lastSequence |-> None,
                   gapCount     |-> 0]

MarkQuarantined(q) == [q EXCEPT !.state = "Quarantined"]

(* A sequence that does not grow quarantines the feed and is not recorded. *)
ObserveHeartbeat(q, sequence) ==
  IF q.lastSequence # None /\ sequence <= q.lastSequence
  THEN MarkQuarantined(q)
  ELSE [q EXCEPT !.lastSequence = sequence]

(* For sources with contiguous numbers, of which the program has none yet.  *)
(* A gap is recorded, and the numbering goes on from the number received.  *)
ObserveContiguous(q, sequence) ==
  IF q.lastSequence # None /\ sequence # SaturatingAdd(q.lastSequence)
  THEN [q EXCEPT !.state = "GapDetected",
                 !.gapCount = SaturatingAdd(@),
                 !.lastSequence = sequence]
  ELSE [q EXCEPT !.lastSequence = sequence]

AcceptSnapshot(q, at) == [q EXCEPT !.lastBookAt = at, !.state = "Valid"]

(* Mutant: only a feed without any book refuses deltas. *)
RefusesDelta_OnlyInitializing(q) == q.state = "Initializing"

(* accept_delta answers false, and changes nothing, exactly when ... *)
RefusesDelta(q) == RequiresSnapshotRecovery(q.state) \/ q.state = "Initializing"

(* ... and otherwise refreshes the book, also out of Stale. *)
AcceptDelta(q, at) == [q EXCEPT !.lastBookAt = at, !.state = "Valid"]

AgeExceeds(q, at, limit) == q.lastBookAt # None /\ at - q.lastBookAt > limit

RefreshedStaleness(q, at) ==
  IF q.state = "Valid" /\ AgeExceeds(q, at, StaleAfter)
  THEN [q EXCEPT !.state = "Stale"]
  ELSE q

=============================================================================
