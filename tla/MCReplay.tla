------------------------------ MODULE MCReplay ------------------------------
(***************************************************************************)
(* Replay on small instances.                                              *)
(***************************************************************************)
EXTENDS Replay, MCEngine

(* A sound and a locked image; changes that move the best bid or lock.     *)
ReplaySnapshots == {Image(1, 3), Image(2, 2)}
ReplayDeltas == {<<Change("buy", 2, 1)>>, <<Change("buy", 3, 1)>>}

=============================================================================
