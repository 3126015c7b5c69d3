-------------------------- MODULE MCDepositSigning --------------------------
(* Verifiers, attempts, deposit data and session ids are interchangeable. *)
EXTENDS DepositSigning, TLC

Symmetry == Permutations(Verifiers) \cup Permutations(Attempts) \cup Permutations(Ids)
            \cup Permutations(Data)
=============================================================================
