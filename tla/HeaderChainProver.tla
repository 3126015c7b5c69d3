-------------------------- MODULE HeaderChainProver -------------------------
(***************************************************************************)
(* The header chain prover of an entity that runs a verifier and an        *)
(* operator on one database.  Its table, header_chain_proofs, gets a row   *)
(* for every final block and, for some rows, a proof of the chain up to    *)
(* there.  Three tasks work on it at the same time:                        *)
(*   - the verifier's handling of a final block adds the row, in a         *)
(*     transaction, and then proves batches, on other connections;         *)
(*   - a watchtower challenge proves the chain up to the last row;         *)
(*   - the operator's asserts prove it up to the block hash that the       *)
(*     operator committed to earlier.                                      *)
(***************************************************************************)
EXTENDS HeaderChain

CONSTANTS
    Paramsets,          \* deployments: what ProtocolParamset and the bounds may be
    FetchBatch,         \* BATCH_SIZE of save_block_infos_within_range
    MaxChallenges,      \* bound: watchtower challenges
    MaxFaults           \* bound: failures

(* get_chain_state_from_height does not adjust the target, so a genesis    *)
(* block that ends an epoch has the wrong bits; it takes the bits of a     *)
(* late block of testnet4 from the first block of the epoch.               *)
ASSUME ProverAssumption ==
    /\ \A p \in Paramsets :
          /\ p.network \in {"mainnet", "testnet4", "regtest"}
          /\ p.genesis_height \in Nat
          /\ p.genesis_height % BlocksPerEpoch # BlocksPerEpoch - 1
          /\ p.start_height \in Nat /\ p.start_height > p.genesis_height
          /\ p.max_height \in Nat
          /\ p.max_height - p.genesis_height + 1 < 2^MaxLevel
          /\ p.early_times \in [0..p.start_height - 1 -> Nat]
          /\ p.steps \subseteq Int
          /\ p.batch_size \in Nat \ {0}
    /\ FetchBatch \in Nat \ {0}
    /\ MaxChallenges \in Nat /\ MaxFaults \in Nat

VARIABLES
    (* Bitcoin *)
    paramset,           \* the deployment, which never changes
    chain,              \* the headers of its network's final chain
    finalTip,           \* the height of the last final block
    (* header_chain_proofs *)
    rows,               \* the heights that have a (committed) row
    proofs,             \* the chain state that the proof of a height commits to
    (* the tasks *)
    up,                 \* whether HeaderChainProver::new has returned
    handler,            \* handle_finalized_block
    request,            \* request["challenge"], request["asserts"]
    wanted,             \* the height of the block hash the operator committed to, 0 before
    asserted,           \* whether send_asserts has succeeded
    challenges,         \* watchtower challenges so far
    faults

bitcoin == <<paramset, chain, finalTip>>
table == <<rows, proofs>>
vars == <<bitcoin, table, up, handler, request, wanted, asserted, challenges, faults>>

net == paramset.network
GenesisHeight == paramset.genesis_height
StartHeight == paramset.start_height
BatchSize == paramset.batch_size    \* header_chain_proof_batch_size
MaxHeight == paramset.max_height    \* bound: the last block

Kinds == {"challenge", "asserts"}
Idle == [at |-> "idle", block |-> 0, pending |-> {}, proven |-> {}]

-----------------------------------------------------------------------------
(* The times that Bitcoin's rule allows the blocks of the chain to have.    *)
(* Epochs that end before they start, which the circuit does not expect,    *)
(* are left out: they need a whole epoch with times below its first one.    *)
Times ==
    LET TimesOf(steps) ==
            LET time[h \in 0..MaxHeight] ==
                    IF h < StartHeight THEN paramset.early_times[h] ELSE time[h - 1] + steps[h]
            IN  time
        Valid(time) ==
            /\ \A h \in StartHeight..MaxHeight : time[h] > MedianTimePast(time, h)
            /\ \A h \in 0..MaxHeight :
                  h % BlocksPerEpoch = BlocksPerEpoch - 1 =>
                     time[h] >= time[h + 1 - BlocksPerEpoch]
    IN  {time \in {TimesOf(steps) : steps \in [StartHeight..MaxHeight -> paramset.steps]} : Valid(time)}

(* The chainwork of block h. *)
ChainWork(h) == MapThenSumSet(LAMBDA i : WorkOf(chain[i].pow), 0..h)

(* The ring of the last times up to block g; the entries stay 0 where the  *)
(* walk back has ended at block 0.                                         *)
LastTimes(g) ==
    [i \in 0..Window - 1 |->
        LET h == CHOOSE h \in g + 1 - Window..g : h % Window = i
        IN  IF h < 0 THEN 0 ELSE chain[h].time]

(* Mutant of GenesisState: the bits are those of the block on every network. *)
GenesisStateOwnBits ==
    LET g == GenesisHeight
        epochStart == BlocksPerEpoch * (g \div BlocksPerEpoch)
    IN  [block_height |-> g,
         total_work |-> ChainWork(g),
         best_block_hash |-> g,
         current_target_bits |-> chain[g].bits,
         epoch_start_time |-> IF net = "regtest" THEN 0 ELSE chain[epochStart].time,
         prev_timestamps |-> LastTimes(g),
         block_hashes_mmr |-> MmrAppend(EmptyMmr, g)]

(* get_chain_state_from_height(genesis_height) *)
GenesisState ==
    LET g == GenesisHeight
        epochStart == BlocksPerEpoch * (g \div BlocksPerEpoch)
    IN  [block_height |-> g,
         total_work |-> ChainWork(g),
         best_block_hash |-> g,
         current_target_bits |->
            IF net = "testnet4" THEN chain[epochStart].bits ELSE chain[g].bits,
         epoch_start_time |-> IF net = "regtest" THEN 0 ELSE chain[epochStart].time,
         prev_timestamps |-> LastTimes(g),
         block_hashes_mmr |-> MmrAppend(EmptyMmr, g)]

-----------------------------------------------------------------------------
(* The table. *)

Proven == DOMAIN proofs

(* set_block_proof *)
SetBlockProof(h, state) ==
    proofs' = [x \in Proven \cup {h} |-> IF x = h THEN state ELSE proofs[x]]

(* get_next_unproven_block: of the rows without a proof whose parent has   *)
(* one, the last; none if a later block is proven.                         *)
IsNextUnproven(h) ==
    LET candidates == {x \in rows : x \notin Proven /\ x - 1 \in Proven}
    IN  /\ h \in candidates
        /\ \A x \in candidates : x <= h
        /\ \A x \in Proven : x <= h

(* is_batch_ready and get_next_n_non_proven_block: the batch starts at h.  *)
(* What another task proves between the two queries has the same effect as *)
(* if it had been proven before both.                                      *)
IsBatchReady(h) ==
    /\ IsNextUnproven(h)
    /\ Max(rows) - h + 1 >= BatchSize
    /\ Cardinality({x \in rows : x >= h}) >= BatchSize

(* The headers of some rows, by height. *)
HeadersOfRows(heights) ==
    LET Nth(i) == CHOOSE h \in heights : Cardinality({x \in heights : x <= h}) = i
    IN  [i \in 1..Cardinality(heights) |-> chain[Nth(i)]]

(* get_next_n_non_proven_block: the next n rows. *)
NextRows(first, n) ==
    {h \in rows : first <= h /\ Cardinality({x \in rows : first <= x /\ x <= h}) <= n}

(* get_block_info_from_range *)
RowsOfRange(first, last) == {h \in rows : first <= h /\ h <= last}

(* The circuit, run by the prover on the proof of block prev. *)
Prove(prev, headers) == ApplyBlockHeaders(net, proofs[prev], headers)

-----------------------------------------------------------------------------
(* Bitcoin (external): a block becomes final. *)
Finalize ==
    /\ finalTip < MaxHeight
    /\ finalTip' = finalTip + 1
    /\ UNCHANGED <<paramset, chain, table, up, handler, request, wanted, asserted, challenges, faults>>

(* HeaderChainProver::new saves the blocks below start_height, one batch   *)
(* per transaction.                                                        *)
FetchMissing ==
    /\ ~ up
    /\ LET first == IF rows = {} THEN GenesisHeight ELSE Max(rows) + 1
           last == IF first + FetchBatch - 1 < StartHeight - 1
                   THEN first + FetchBatch - 1 ELSE StartHeight - 1
       IN  /\ first < StartHeight
           /\ rows' = rows \cup (first..last)
    /\ UNCHANGED <<bitcoin, proofs, up, handler, request, wanted, asserted, challenges, faults>>

(* Without a proof to start from, it proves the genesis block, again if it *)
(* has done so before.                                                     *)
ProveGenesis ==
    /\ ~ up
    /\ rows # {} /\ Max(rows) >= StartHeight - 1
    /\ SetBlockProof(GenesisHeight, GenesisState)
    /\ up' = TRUE
    /\ UNCHANGED <<bitcoin, rows, handler, request, wanted, asserted, challenges, faults>>

-----------------------------------------------------------------------------
(* handle_finalized_block *)

(* The heights are handled in order (module FinalizedBlockFetcher); the    *)
(* first one without a committed handling is the next.                     *)
(* save_unproven_block_cache: the row is part of the open transaction.  It *)
(* waits for another transaction that has inserted the same row.           *)
SaveUnproven ==
    /\ up
    /\ handler.at = "idle"
    /\ handler.block < finalTip
    /\ handler.block + 1 \notin request["asserts"].pending
    /\ handler' = [handler EXCEPT !.at = "prove", !.block = handler.block + 1]
    /\ UNCHANGED <<bitcoin, table, up, request, wanted, asserted, challenges, faults>>

(* prove_if_ready reads a batch: only committed rows. *)
TakeBatch ==
    /\ handler.at = "prove"
    /\ \E h \in rows :
          /\ IsBatchReady(h)
          /\ LET run == Prove(h - 1, HeadersOfRows(NextRows(h, BatchSize)))
             IN  handler' = [handler EXCEPT !.at = IF run.ok THEN "proving" ELSE "rejected",
                                            !.proven = {run.state}]
    /\ UNCHANGED <<bitcoin, table, up, request, wanted, asserted, challenges, faults>>

(* The proof is ready and saved; the loop asks for the next batch. *)
SaveBatch ==
    /\ handler.at = "proving"
    /\ \E s \in handler.proven : SetBlockProof(s.block_height, s)
    /\ handler' = [handler EXCEPT !.at = "prove", !.proven = {}]
    /\ UNCHANGED <<bitcoin, rows, up, request, wanted, asserted, challenges, faults>>

(* No batch is ready: the transaction commits. *)
CommitBlock ==
    /\ handler.at = "prove"
    /\ \A h \in rows : ~ IsBatchReady(h)
    /\ rows' = rows \cup {handler.block}
    /\ handler' = [handler EXCEPT !.at = "idle"]
    /\ UNCHANGED <<bitcoin, proofs, up, request, wanted, asserted, challenges, faults>>

-----------------------------------------------------------------------------
(* send_latest_blockhash: the operator commits to the last block that      *)
(* its state manager has seen, which does not wait for the verifier.       *)
CommitBlockhash ==
    /\ up
    /\ wanted = 0
    /\ \E h \in StartHeight..finalTip : wanted' = h
    /\ UNCHANGED <<bitcoin, table, up, handler, request, asserted, challenges, faults>>

(* prove_till_hash: from the last proof at or below the block; nothing to  *)
(* do if that is the block's own.                                          *)
ProveTill(kind, h, pending) ==
    \E prev \in Proven :
        /\ prev <= h
        /\ \A x \in Proven : x <= h => x <= prev
        /\ request' = [request EXCEPT ![kind] =
              IF prev = h
              THEN [at |-> "proved", block |-> h, pending |-> pending, proven |-> {proofs[h]}]
              ELSE LET run == Prove(prev, HeadersOfRows(RowsOfRange(prev + 1, h)))
                   IN  [at |-> IF run.ok THEN "proving" ELSE "rejected",
                        block |-> h, pending |-> pending, proven |-> {run.state}]]

(* send_watchtower_challenge: get_tip_header_chain_proof. *)
Challenge ==
    /\ up
    /\ request["challenge"].at = "idle"
    /\ challenges < MaxChallenges
    /\ challenges' = challenges + 1
    /\ ProveTill("challenge", Max(rows), {})
    /\ UNCHANGED <<bitcoin, table, up, handler, wanted, asserted, faults>>

(* send_asserts inserts the missing rows up to the node's final block in   *)
(* its own transaction, waiting for the one of the verifier that inserts   *)
(* one of them.  prove_till_hash reads on another connection: as long as   *)
(* the row of the wanted block is not committed it fails, the transaction  *)
(* rolls back and the duty is retried.                                     *)
SendAsserts ==
    /\ up
    /\ request["asserts"].at = "idle"
    /\ wanted # 0 /\ ~ asserted
    /\ wanted \in rows
    /\ handler.at = "idle" \/ handler.block \in rows
    /\ ProveTill("asserts", wanted, (Max(rows) + 1)..finalTip)
    /\ UNCHANGED <<bitcoin, table, up, handler, wanted, asserted, challenges, faults>>

(* The end of prove_and_save_block. *)
SaveProof(kind) ==
    /\ request[kind].at = "proving"
    /\ \E s \in request[kind].proven : SetBlockProof(request[kind].block, s)
    /\ request' = [request EXCEPT ![kind].at = "proved"]
    /\ UNCHANGED <<bitcoin, rows, up, handler, wanted, asserted, challenges, faults>>

(* The challenge or the asserts are queued, and the transaction commits. *)
Finish(kind) ==
    /\ request[kind].at = "proved"
    /\ rows' = rows \cup request[kind].pending
    /\ asserted' = (asserted \/ kind = "asserts")
    /\ request' = [request EXCEPT ![kind] = Idle]
    /\ UNCHANGED <<bitcoin, proofs, up, handler, wanted, challenges, faults>>

-----------------------------------------------------------------------------
(* Mutant of HandlerFails: the block counts as handled. *)
HandlerFailsButMovesOn ==
    /\ handler.at # "idle"
    /\ faults < MaxFaults
    /\ faults' = faults + 1
    /\ handler' = [Idle EXCEPT !.block = handler.block]
    /\ UNCHANGED <<bitcoin, table, up, request, wanted, asserted, challenges>>

(* An error or a timeout: the open transaction of the task rolls back. *)
HandlerFails ==
    /\ handler.at # "idle"
    /\ faults < MaxFaults
    /\ faults' = faults + 1
    /\ handler' = [Idle EXCEPT !.block = handler.block - 1]
    /\ UNCHANGED <<bitcoin, table, up, request, wanted, asserted, challenges>>

RequestFails(kind) ==
    /\ request[kind].at # "idle"
    /\ faults < MaxFaults
    /\ faults' = faults + 1
    /\ request' = [request EXCEPT ![kind] = Idle]
    /\ UNCHANGED <<bitcoin, table, up, handler, wanted, asserted, challenges>>

(* The process ends, also while it starts. *)
Crash ==
    /\ faults < MaxFaults
    /\ faults' = faults + 1
    /\ up' = FALSE
    /\ handler' = [Idle EXCEPT !.block = IF handler.at = "idle" THEN handler.block
                                         ELSE handler.block - 1]
    /\ request' = [kind \in Kinds |-> Idle]
    /\ UNCHANGED <<bitcoin, table, wanted, asserted, challenges>>

-----------------------------------------------------------------------------
Init ==
    /\ paramset \in Paramsets
    /\ \E time \in Times : chain = HeadersOf(net, time)
    /\ finalTip = StartHeight
    /\ rows = {} /\ proofs = << >>
    /\ up = FALSE
    /\ handler = [Idle EXCEPT !.block = StartHeight - 1]
    /\ request = [kind \in Kinds |-> Idle]
    /\ wanted = 0 /\ asserted = FALSE
    /\ challenges = 0 /\ faults = 0

Start == FetchMissing \/ ProveGenesis
Handle == SaveUnproven \/ TakeBatch \/ SaveBatch \/ CommitBlock
AssertTask == SendAsserts \/ SaveProof("asserts") \/ Finish("asserts")

Next ==
    \/ Finalize
    \/ Start
    \/ Handle
    \/ CommitBlockhash
    \/ Challenge
    \/ SendAsserts
    \/ \E kind \in Kinds : SaveProof(kind) \/ Finish(kind) \/ RequestFails(kind)
    \/ HandlerFails
    \/ Crash

Spec == Init /\ [][Next]_vars

(* The process is started again, and its two tasks retry what failed. *)
FairSpec == Spec /\ WF_vars(Start) /\ WF_vars(Handle) /\ WF_vars(AssertTask)

-----------------------------------------------------------------------------
(* No honest chain makes the circuit panic, however it is cut into batches *)
(* and wherever a proof starts.                                            *)
HonestHeadersAccepted ==
    /\ handler.at # "rejected"
    /\ \A kind \in Kinds : request[kind].at # "rejected"

(* The bits of the epoch that block h is in. *)
EpochBits(h) ==
    IF net = "regtest" THEN BitsOfTarget(MaxTarget)
    ELSE chain[BlocksPerEpoch * (h \div BlocksPerEpoch)].bits

(* Every proof is of the chain it says it is of: what it commits to is     *)
(* what Bitcoin's rules give for that block, whatever proofs and batches   *)
(* lie below it.  Only the work may differ, since a target is rounded when *)
(* a batch ends and not where Bitcoin rounds it: it is never more than the *)
(* chain's work, and (where all blocks have the same target) more than the *)
(* work of the chain one block shorter, so that the operator's proof beats *)
(* a watchtower's of an earlier block, however the two were batched.       *)
ProofsAreOfTheChain ==
    \A h \in Proven :
        LET s == proofs[h]
        IN  /\ s.block_height = h /\ s.best_block_hash = h
            /\ \A x \in h + 1 - Window..h :
                  s.prev_timestamps[x % Window] = IF x < 0 THEN 0 ELSE chain[x].time
            /\ h < MaxHeight => s.current_target_bits = EpochBits(h + 1)
            /\ net # "regtest" =>
                  s.epoch_start_time = chain[BlocksPerEpoch * (h \div BlocksPerEpoch)].time
            /\ s.total_work <= ChainWork(h)
            /\ net # "testnet4" => s.total_work > ChainWork(h - 1)

(* The inclusion proof that create_spv computes from the block hashes of    *)
(* the table, for any block from genesis to the proven one, is accepted by  *)
(* the MMR of the proof; and it is accepted for that block alone.           *)
InclusionProofsVerify ==
    \A h \in Proven : \A x \in GenesisHeight..h :
        LET hashes == [i \in 1..h + 1 - GenesisHeight |-> GenesisHeight + i - 1]
            proof == GenerateProof(hashes, x - GenesisHeight)
        IN  \A y \in GenesisHeight..h :
               VerifyProof(proofs[h].block_hashes_mmr, y, proof) <=> x = y

(* The operator gets the proof for its asserts, although it cannot see the  *)
(* rows it has inserted itself: the verifier's task brings them.            *)
AssertsAreProved == (wanted # 0) ~> asserted
=============================================================================
