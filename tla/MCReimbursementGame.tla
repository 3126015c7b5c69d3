------------------------- MODULE MCReimbursementGame -------------------------
(* One kickoff with two watchtowers and one assert, and the shortest locks  *)
(* that have the order of the parameter sets.                               *)
EXTENDS ReimbursementGame
=============================================================================
