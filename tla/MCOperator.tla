----------------------------- MODULE MCOperator -----------------------------
(* The second deposit is signed for one connector only, which the first    *)
(* may take.                                                               *)
EXTENDS Operator

MCSigned == [w \in Withdrawals |-> IF w = 2 THEN {1} ELSE {1, 2}]
=============================================================================
