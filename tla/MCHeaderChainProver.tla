------------------------- MODULE MCHeaderChainProver ------------------------
(***************************************************************************)
(* Epochs of four blocks, on each network.                                 *)
(***************************************************************************)
EXTENDS HeaderChainProver

MCNetworks == {"mainnet", "testnet4", "regtest"}

(* The first epoch is faster than the target, so that the second, in which *)
(* the genesis block of the proofs lies, has a smaller target; on testnet4 *)
(* that block is a late one.                                               *)
LateGenesis(network) ==
    [network |-> network, genesis_height |-> 5, start_height |-> 7, max_height |-> 9,
     early_times |-> [h \in 0..6 |-> <<10, 12, 14, 15, 17, 22, 24>>[h + 1]],
     steps |-> {-1, 2, 12}, batch_size |-> 2]

(* From the first block of Bitcoin, as the parameter sets of regtest and   *)
(* testnet4 have it: the ring of times is not full, and seven leaves make  *)
(* an MMR of three peaks.                                                  *)
FirstBlock(network) ==
    [network |-> network, genesis_height |-> 0, start_height |-> 4, max_height |-> 6,
     early_times |-> [h \in 0..3 |-> <<10, 12, 13, 14>>[h + 1]],
     steps |-> {1, 12}, batch_size |-> 3]

MCParamsets == {LateGenesis(n) : n \in MCNetworks} \cup {FirstBlock(n) : n \in MCNetworks}
=============================================================================
