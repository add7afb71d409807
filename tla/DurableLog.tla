----------------------------- MODULE DurableLog -----------------------------
(***************************************************************************)
(* What a journal promises: records are appended in order, a checkpoint    *)
(* makes all of them durable, and whatever is lost is lost from the end    *)
(* and was never part of a checkpoint.                                     *)
(***************************************************************************)
EXTENDS Naturals, Sequences

CONSTANT Records

VARIABLES
  log,      \* the records that are complete
  durable   \* how many of them no crash takes away

logVars == <<log, durable>>

LogInit == log = <<>> /\ durable = 0

AppendRecord ==
  /\ \E r \in Records : log' = Append(log, r)
  /\ UNCHANGED durable

Checkpoint ==
  /\ durable' = Len(log)
  /\ UNCHANGED log

LoseTail ==
  /\ \E n \in durable .. Len(log) : log' = SubSeq(log, 1, n)
  /\ UNCHANGED durable

LogNext == AppendRecord \/ Checkpoint \/ LoseTail

LogSpec == LogInit /\ [][LogNext]_logVars

=============================================================================
