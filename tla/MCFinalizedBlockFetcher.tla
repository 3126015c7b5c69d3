---------------------- MODULE MCFinalizedBlockFetcher -----------------------
(***************************************************************************)
(* A small block tree for the syncer and its consumers:                    *)
(*                                                                         *)
(*    g --- a1 --- a2 --- a3 --- a4                                        *)
(*     \      \                                                            *)
(*      \      b2 --- b3 --- b4 --- b5                                     *)
(*       d1 --- d2                                                         *)
(*                                                                         *)
(* With start_height 1, the branches fork below and at the first block;    *)
(* with finality_depth 3 there are reorgs that are too deep (from a4 to    *)
(* b5) and reorgs that are not, and a branch can be left and joined again  *)
(* (from a2 to b3 to a4).                                                  *)
(***************************************************************************)
EXTENDS FinalizedBlockFetcher, TLC

MCParent ==
    "g"  :> "none" @@
    "a1" :> "g"  @@ "a2" :> "a1" @@ "a3" :> "a2" @@ "a4" :> "a3" @@
    "b2" :> "a1" @@ "b3" :> "b2" @@ "b4" :> "b3" @@ "b5" :> "b4" @@
    "d1" :> "g"  @@ "d2" :> "d1"

MCBlocks == DOMAIN MCParent

MCHeight ==
    LET height[b \in MCBlocks] ==
            IF MCParent[b] = "none" THEN 0 ELSE height[MCParent[b]] + 1
    IN  [b \in MCBlocks |-> height[b]]
=============================================================================
