---------------------------- MODULE BitcoinChain ----------------------------
(***************************************************************************)
(* What the bridge sees of Bitcoin: the tree of every block that is ever   *)
(* mined, and the two protocol parameters that say where the bridge starts *)
(* to read it and when it trusts a block.  A block stands for its hash;    *)
(* the hash determines the parent and the height.                          *)
(***************************************************************************)
EXTENDS Integers, Sequences, FiniteSets

CONSTANTS
    Blocks,         \* every block of the tree
    NoBlock,        \* the parent of a genesis block; an empty column
    Parent,         \* Parent[b]: the block header's prev_blockhash
    Height,         \* Height[b]: the number of ancestors of b
    StartHeight,    \* ProtocolParamset::start_height
    FinalityDepth   \* ProtocolParamset::finality_depth

ASSUME ChainAssumption ==
    /\ IsFiniteSet(Blocks)
    /\ NoBlock \notin Blocks
    /\ Parent \in [Blocks -> Blocks \cup {NoBlock}]
    /\ Height \in [Blocks -> Nat]
    /\ \A b \in Blocks : Parent[b] = NoBlock => Height[b] = 0
    /\ \A b \in Blocks : Parent[b] # NoBlock => Height[b] = Height[Parent[b]] + 1
    /\ StartHeight \in Nat
    /\ FinalityDepth \in Nat \ {0}

(* The heights at which there is something to store. *)
Heights == {Height[b] : b \in Blocks}

(* Mutant of IsBlockFinalized: counts one confirmation too many. *)
IsBlockFinalizedEarly(block_height, chain_tip_height) ==
    /\ block_height <= chain_tip_height
    /\ chain_tip_height - block_height + 2 >= FinalityDepth

(* ProtocolParamset::is_block_finalized: the tip itself has one confirmation. *)
IsBlockFinalized(block_height, chain_tip_height) ==
    /\ block_height <= chain_tip_height
    /\ chain_tip_height - block_height + 1 >= FinalityDepth

(* A block and all its ancestors: the active chain of a node whose tip is b. *)
ChainOf[b \in Blocks] ==
    {b} \cup IF Parent[b] = NoBlock THEN {} ELSE ChainOf[Parent[b]]
=============================================================================
