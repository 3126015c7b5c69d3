---------------------- MODULE MCKickoffStateMachine -----------------------
(***************************************************************************)
(* A kickoff with two watchtowers that can be exchanged.                   *)
(***************************************************************************)
EXTENDS KickoffStateMachine, TLC

Symmetry == Permutations(Watchtowers)
=============================================================================
