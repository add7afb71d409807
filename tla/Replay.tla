------------------------------- MODULE Replay -------------------------------
(***************************************************************************)
(* The live engine beside the engine of replay_coinbase_journal            *)
(* (src/replay.rs), which handles the events that the journal decodes to.  *)
(*                                                                         *)
(* Frames are journaled in the order in which their events reach the       *)
(* engine, each with its received_at, so the second engine is kept in step *)
(* with the first: it is what a replay of the journal has made of the      *)
(* frames that the live engine has handled so far.  It never sees what is  *)
(* not journaled: the statuses that the source reports on its own, the     *)
(* timer, the kill switch.  It has no bot.                                 *)
(*                                                                         *)
(* All runs append to one journal, and a replay reads them all: the second *)
(* engine lives on when a run ends, the first is a fresh one in each run.  *)
(***************************************************************************)
EXTENDS Engine

VARIABLES
  run,               \* "first" run of the journal, "later" one, or "down"
  replayedProducts,
  replayedStatus,
  replayedEvents,
  replayedHistory,   \* the second engine has no bot, so this and the next
  replayedAccount,   \* two keep their initial values
  replayedRisk

replayedVars == <<replayedProducts, replayedStatus, replayedEvents,
                  replayedHistory, replayedAccount, replayedRisk>>

replayVars == <<vars, run, replayedVars>>

Replayed == INSTANCE Engine WITH
  PaperBotEnabled <- FALSE,
  products        <- replayedProducts,
  sourceStatus    <- replayedStatus,
  processed       <- replayedEvents,
  history         <- replayedHistory,
  account         <- replayedAccount,
  risk            <- replayedRisk

(* The first run starts with an empty journal; what a run finds in a       *)
(* journal of earlier ones is reached by the steps EndRun and StartRun.    *)
ReplayInit == run = "first" /\ Init /\ Replayed!Init

-----------------------------------------------------------------------------
(* The statuses that decode_message makes of a frame.  *)
DecodedStatus == {"error", "subscribed"}

(* An event that was decoded from a frame of the journal. *)
HandleFrame(source, at) ==
  /\ run # "down" /\ UNCHANGED run
  /\ \/ \E status \in DecodedStatus :
          HandleSourceStatus(source, status, at) /\ Replayed!HandleSourceStatus(source, status, at)
     \/ \E p \in Products :
          \/ \E image \in Snapshots :
               HandleSnapshot(p, source, image, at) /\ Replayed!HandleSnapshot(p, source, image, at)
          \/ \E changes \in Deltas :
               HandleDelta(p, source, changes, at) /\ Replayed!HandleDelta(p, source, changes, at)
          \/ \E sequence \in 0 .. MaxSequence :
               /\ HandleHeartbeat(p, source, sequence, at)
               /\ Replayed!HandleHeartbeat(p, source, sequence, at)
          \/ HandleTrade(p, source, at) /\ Replayed!HandleTrade(p, source, at)

(* A status that the source reports on its own. *)
HandleOwnStatus(source, at) ==
  /\ run # "down"
  /\ \E status \in Status \ DecodedStatus : HandleSourceStatus(source, status, at)
  /\ UNCHANGED <<run, replayedVars>>

(* The end of a run, or of its process: the live engine is gone.  The next *)
(* one is new; until it starts, its values stand for no engine.            *)
EndRun ==
  /\ run # "down"
  /\ run' = "down"
  /\ products' = [p \in Products |-> DefaultProduct]
  /\ sourceStatus' = [s \in Sources |-> None]
  /\ processed' = 0
  /\ history' = [p \in Products |-> <<>>]
  /\ account' = EmptyAccount
  /\ risk' = InitialRisk
  /\ UNCHANGED <<now, stamp, replayedVars>>

(* A frame that the ended run journaled and did not live to handle.        *)
ReplayUnhandledFrame(source, at) ==
  /\ run = "down"
  /\ \/ \E status \in DecodedStatus : Replayed!HandleSourceStatus(source, status, at)
     \/ \E p \in Products :
          \/ \E image \in Snapshots : Replayed!HandleSnapshot(p, source, image, at)
          \/ \E changes \in Deltas : Replayed!HandleDelta(p, source, changes, at)
          \/ \E sequence \in 0 .. MaxSequence : Replayed!HandleHeartbeat(p, source, sequence, at)
          \/ Replayed!HandleTrade(p, source, at)
  /\ UNCHANGED <<run, products, sourceStatus, processed, tradingVars>>

(* run_source opens the journal for appending, and makes a new engine.     *)
StartRun ==
  /\ run = "down"
  /\ run' = "later"
  /\ UNCHANGED <<vars, replayedVars>>

KillSwitch == run # "down" /\ TriggerKillSwitch /\ UNCHANGED <<run, replayedVars>>

Wait == Tick /\ UNCHANGED <<run, replayedVars>>

Refresh == run # "down" /\ RefreshStaleness /\ UNCHANGED <<run, replayedVars>>

ReplayNext ==
  \/ \E at \in 0 .. MaxTime, source \in Sources :
       \/ HandleFrame(source, at)
       \/ HandleOwnStatus(source, at)
       \/ ReplayUnhandledFrame(source, at)
  \/ EndRun
  \/ StartRun
  \/ KillSwitch
  \/ Wait
  \/ Refresh

ReplaySpec ==
  /\ ReplayInit /\ [][ReplayNext]_replayVars
  /\ WF_replayVars(Refresh)

-----------------------------------------------------------------------------
(***************************************************************************)
(* Properties.                                                             *)
(***************************************************************************)

(* The live product equals the replayed one, except that the live timer    *)
(* may have marked it and that a replay of several runs may trust it less: *)
(* heartbeat numbers start anew with the live engine of each run, but not  *)
(* in the replay, where a number that an earlier run had passed            *)
(* quarantines the product until the next snapshot.                        *)
SameBook(live, copy) ==
  /\ live.hasSnapshot = copy.hasSnapshot
  /\ live.book = copy.book
  /\ live.source = copy.source
  /\ run = "first" => live.quality.lastSequence = copy.quality.lastSequence
  /\ \/ run # "first" /\ copy.quality.state = "Quarantined"
     \/ IF live.quality.state = "Stale"
        THEN Tradable(copy.quality.state)
        ELSE live.quality.state = copy.quality.state /\ live.features = copy.features
  /\ Tradable(copy.quality.state) => live.quality.lastBookAt = copy.quality.lastBookAt

(* Wherever the live engine has a book of the current connection, a replay *)
(* of the journal rebuilds that very book: neither the timer nor a reset   *)
(* of an earlier connection nor an earlier run in the same journal leaves  *)
(* a trace in it.  In the first run of a journal it has the same features  *)
(* and quality too; later it has them, or it has quarantined the product:  *)
(* it never trusts a book that the live engine distrusts.                  *)
ReplayRebuildsLiveBooks ==
  \A p \in Products :
    products[p].hasSnapshot => SameBook(products[p], replayedProducts[p])

=============================================================================
