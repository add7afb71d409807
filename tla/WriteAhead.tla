----------------------------- MODULE WriteAhead -----------------------------
(***************************************************************************)
(* What capturing a feed promises: the market state is built from the      *)
(* journal.  Frames are logged one by one, and the frames the engine has   *)
(* applied are at any time a prefix of what the log decodes to.            *)
(***************************************************************************)
EXTENDS Lists

CONSTANTS
  Frame,
  Decodable   \* the frames that decode to a market event

VARIABLES
  log,
  applied

aheadVars == <<log, applied>>

Decoded == Selected(log, Decodable)

AheadInit == log = <<>> /\ applied = <<>>

LogFrame ==
  /\ \E f \in Frame : log' = Append(log, f)
  /\ UNCHANGED applied

ApplyNext ==
  /\ Len(applied) < Len(Decoded)
  /\ applied' = SubSeq(Decoded, 1, Len(applied) + 1)
  /\ UNCHANGED log

AheadNext == LogFrame \/ ApplyNext

AheadSpec == AheadInit /\ [][AheadNext]_aheadVars

=============================================================================
