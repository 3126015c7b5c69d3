--------------------------- MODULE MCStateManager ---------------------------
(***************************************************************************)
(* One operator with three kickoffs: k1 and k2 in round 0 and the same     *)
(* block, k3 in round 1 and the block after it.  Where there is a second   *)
(* operator, k2 is its kickoff.                                            *)
(***************************************************************************)
EXTENDS StateManager

MCOperatorOf ==
    [k \in Kickoffs |-> IF k = "k2" /\ "op2" \in Operators THEN "op2" ELSE "op"]
MCRoundOf == [k \in Kickoffs |-> IF k = "k3" THEN 1 ELSE 0]
MCKickoffHeight == [k \in Kickoffs |-> IF k = "k3" THEN 2 ELSE 1]
MCActivity == [m \in Machines |-> IF m \in Operators THEN {1, 2} ELSE {2, 3} \cap (StartHeight..MaxHeight)]
=============================================================================
