--------------------------- MODULE FinalizedChain ---------------------------
(***************************************************************************)
(* What the syncer and its consumers promise the rest of the bridge: there *)
(* is one chain of finalized blocks, which only ever grows, by a child of  *)
(* its last block; and every consumer has seen a prefix of it, which also  *)
(* only grows.  Nothing of forks, reorgs, transactions or restarts shows.  *)
(***************************************************************************)
EXTENDS Integers, Sequences

CONSTANTS Blocks, Parent, Consumers

VARIABLES
    chain,      \* the finalized blocks, from start_height on
    seen        \* seen[c]: the blocks consumer c was handed

Init ==
    /\ chain = << >>
    /\ seen = [c \in Consumers |-> << >>]

(* The block after the last one gets finality_depth confirmations. *)
Finalize ==
    \E b \in Blocks :
        /\ chain # << >> => Parent[b] = chain[Len(chain)]
        /\ chain' = Append(chain, b)
        /\ UNCHANGED seen

(* A consumer is handed some more blocks, all at once. *)
HandOn(c) ==
    \E n \in Len(seen[c])..Len(chain) :
        /\ seen' = [seen EXCEPT ![c] = SubSeq(chain, 1, n)]
        /\ UNCHANGED chain

Next == Finalize \/ \E c \in Consumers : HandOn(c)

Spec == Init /\ [][Next]_<<chain, seen>>
=============================================================================
