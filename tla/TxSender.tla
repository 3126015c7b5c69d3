------------------------------- MODULE TxSender -------------------------------
(***************************************************************************)
(* The transaction sender: a task that polls the Bitcoin node, keeps a     *)
(* table of what is confirmed, and sends and re-sends what is queued until *)
(* it is final.  One queued transaction is modelled, with everything that  *)
(* can happen around it.  It spends an output of another transaction, its  *)
(* activator, after a relative timelock; somebody else may spend the same  *)
(* output.  It pays its fee by CPFP (a child spends it together with fee   *)
(* payer outputs of the wallet), by RBF (the wallet adds inputs, and every *)
(* bump is a new version with its own txid), or it is funded already.      *)
(*                                                                         *)
(* The node and the chain move between any two calls of the task.  Heights *)
(* are kept as confirmations (1 in the block at the tip), counted as far   *)
(* as something depends on them; fee rates and amounts are in units of the *)
(* node's incremental relay fee.                                           *)
(***************************************************************************)
EXTENDS Integers, FiniteSets, FiniteSetsExt

CONSTANTS
    Queued,           \* what may be queued: pairs of a fee_paying_type and a timelock
    FinalityDepth,    \* finality_depth
    MaxRetries,       \* input_unspent_max_retries
    FeeBumpAfter,     \* fee_bump_after_blocks
    MinBump,          \* min_bump_kvb
    HardCap,          \* fee_rate_hard_cap
    IntWidth,         \* the width of the counter of confirmations (32)
    MaxTimelock,      \* bound: the timelocks of what is queued
    MaxFaults,        \* bound: reorgs, evictions, errors and crashes
    MaxVersions,      \* bound: the versions of the transaction ever broadcast
    MaxPayers,        \* bound: the fee payer transactions ever broadcast
    MaxBlocks         \* bound: the blocks mined during one run of the task

VARIABLES
    kind,      \* fee_paying_type
    timelock,  \* the timelock of the activator
    \* the node and the chain
    pool,      \* the mempool
    conf,      \* the confirmations of every transaction, 0 when it is not mined
    rate,      \* the fee rate of every broadcast version and fee payer
    child,     \* the fee payers that the child of the CPFP package spends
    rested,    \* the fee payers that have waited long enough for a bump
    feeRate,   \* the rate at which transactions are being mined
    \* the sender's database
    row,       \* tx_sender_try_to_send_txs
    activate,  \* tx_sender_activate_try_to_send_txids
    rbfTxids,  \* tx_sender_rbf_txids: the versions saved for the row
    payers,    \* tx_sender_fee_payer_utxos
    \* the task
    pc,        \* where its run is
    fee,       \* the fee rate of the run
    newTip,    \* last_processed_tip_height # current_tip_height
    behind,    \* the blocks mined since the run read current_tip_height
    todo,      \* the fee payers that are still to be looked up
    asked,     \* the transaction that getrawtransaction found in a block
    block,     \* the age of that block at the tip, negative when it is stale
    sendable,  \* get_sendable_txs returned the row
    unsaved,   \* the transactions broadcast and not yet saved
    \* history and bounds
    spent,     \* the output was spent in a block, by whomever
    stale,     \* what was in a block that was stale when getblock was called
    faults

env == <<kind, timelock>>
node == <<pool, conf, rate, child, rested, feeRate>>
db == <<row, activate, rbfTxids, payers>>
lookup == <<todo, asked, block>>
history == <<spent, stale>>
task == <<pc, fee, newTip, behind, lookup, sendable, unsaved>>
vars == <<env, node, db, task, history, faults>>

ASSUME TxSenderAssumption ==
    /\ Queued \subseteq {"cpfp", "rbf", "nofunding"} \X (0..MaxTimelock)
    /\ {FinalityDepth, FeeBumpAfter, MinBump, HardCap, IntWidth} \subseteq Nat \ {0}
    /\ 2 ^ IntWidth \in Nat \ {0}
    /\ {MaxTimelock, MaxRetries, MaxFaults, MaxVersions, MaxPayers, MaxBlocks} \subseteq Nat
    \* A reorg, an eviction or its own confirmation between two calls can
    \* fail one check each; the limit is far above that.
    /\ MaxRetries > MaxFaults + 1
    /\ MaxVersions > MaxFaults + 1 /\ MaxPayers > MaxFaults + 1

Min2(a, b) == IF a < b THEN a ELSE b
Max2(a, b) == IF a > b THEN a ELSE b

None == -1                   \* NULL
A == <<"activator", 1>>
C == <<"conflict", 1>>
Versions == {<<"version", i>> : i \in 1..MaxVersions}
Payers == {<<"payer", i>> : i \in 1..MaxPayers}
Txids == {A, C} \cup Versions \cup Payers
Spenders == {C} \cup Versions
NoTxid == <<"none", 0>>

(* The transaction as it was queued: CPFP and NoFunding send this one.     *)
Tx == <<"version", 1>>

MaxAge == Max2(FinalityDepth, 1 + MaxTimelock) + MaxBlocks
MaxBumpAge == FeeBumpAfter + MaxBlocks
Older(n, max) == IF n = None THEN None ELSE Min2(n + 1, max)

Confirmed(t) == conf[t] > 0
InputSpent == \E t \in Spenders : Confirmed(t)

-----------------------------------------------------------------------------
(* The node. *)

(* What the mempool accepts on top of the confirmations c and of the       *)
(* unconfirmed transactions P.  The package of a CPFP transaction is TRUC: *)
(* it has no other unconfirmed ancestors.                                  *)
Available(t, c, P) ==
    CASE t \in Payers \cup {A} -> TRUE
      [] t = C -> c[A] > 0 \/ A \in P
      [] OTHER -> \/ c[A] >= Max2(timelock, 1)
                  \/ kind # "cpfp" /\ timelock = 0 /\ A \in P

(* What stays in the mempool: a package goes with its fee payers. *)
Fresh(c, P) ==
    {t \in P : /\ Available(t, c, P)
                /\ t \in Versions => \A p \in child : c[p] > 0}

(* A block more: every height in the database is one block older. *)
TipMoves ==
    /\ pc # "idle" => behind < MaxBlocks
    /\ rested' = (rested \cup (pool \cap Payers)) \cap pool'
    /\ row' = [row EXCEPT !.seen = Older(@, MaxAge), !.bumpAge = Older(@, MaxBumpAge)]
    /\ activate' = [activate EXCEPT !.seen = Older(@, MaxAge)]
    /\ IF pc = "idle" THEN newTip' = TRUE /\ UNCHANGED behind
                      ELSE behind' = behind + 1 /\ UNCHANGED newTip
    /\ UNCHANGED <<env, rate, child, feeRate, rbfTxids, payers, pc, fee, todo, asked, sendable, unsaved,
                   stale>>

(* The age of the block that was named, when a block is added. *)
OlderBlock(n) ==
    IF n > 0 THEN Min2(n + 1, MaxAge) ELSE IF n < 0 THEN -Min2(1 - n, MaxAge) ELSE 0

MineBlock(S) ==
    /\ S \cap Spenders # {} => Confirmed(A) \/ A \in S
    /\ conf' = [t \in Txids |-> IF t \in S THEN 1
                                ELSE IF Confirmed(t) THEN Min2(conf[t] + 1, MaxAge) ELSE 0]
    /\ pool' = pool \ S
    /\ block' = OlderBlock(block)
    /\ spent' = (spent \/ S \cap Spenders # {})
    /\ TipMoves
    /\ UNCHANGED faults

(* Miners take what pays the going rate, eventually all of it. *)
Paying == {t \in pool : t \in {A, C} \/ rate[t] >= feeRate}
MinePaying ==
    MineBlock({t \in Paying : t \in Spenders => Confirmed(A) \/ A \in Paying})
Mine == \E S \in SUBSET pool : MineBlock(S)

(* The last d blocks are replaced, by one more: their transactions return  *)
(* to the mempool or are lost.                                             *)
Reorg ==
    /\ faults < MaxFaults
    /\ \E d \in 1..(FinalityDepth - 1) :
        LET dropped == {t \in Txids : conf[t] \in 1..d}
            c == [t \in Txids |-> IF t \in dropped \/ ~Confirmed(t) THEN 0
                                  ELSE Min2(conf[t] + 1, MaxAge)]
        IN /\ dropped # {}
           /\ conf' = c
           /\ \E back \in SUBSET dropped : pool' = Fresh(c, pool \cup back)
           /\ block' = IF block \in 1..d THEN -OlderBlock(block) ELSE OlderBlock(block)
    /\ TipMoves
    /\ faults' = faults + 1
    /\ UNCHANGED spent

Evict ==
    /\ faults < MaxFaults
    /\ \E t \in pool : pool' = Fresh(conf, pool \ {t})
    /\ rested' = rested \cap pool'
    /\ faults' = faults + 1
    /\ UNCHANGED <<env, conf, rate, child, feeRate, db, task, history>>

FeeRises ==
    /\ feeRate < HardCap
    /\ feeRate' = feeRate + 1
    /\ UNCHANGED <<env, pool, conf, rate, child, rested, db, task, history, faults>>

(* Somebody sends the activator, or another transaction for its output,    *)
(* which pays more than ours.                                              *)
BroadcastActivator ==
    /\ A \notin pool /\ ~Confirmed(A)
    /\ pool' = pool \cup {A}
    /\ UNCHANGED <<env, conf, rate, child, rested, feeRate, db, task, history, faults>>

BroadcastConflict ==
    /\ C \notin pool /\ ~InputSpent
    /\ Available(C, conf, pool)
    /\ pool' = (pool \ Versions) \cup {C}
    /\ UNCHANGED <<env, conf, rate, child, rested, feeRate, db, task, history, faults>>

-----------------------------------------------------------------------------
(* One run of the task: first the confirmations are synced,                *)
(* sync_transaction_confirmations_via_rpc.                                 *)

Begin ==
    /\ pc = "idle"
    /\ fee' = Min2(feeRate, HardCap)
    /\ behind' = 0
    /\ pc' = "sync_tx"
    /\ UNCHANGED <<env, node, db, newTip, lookup, sendable, unsaved, history, faults>>

(* getblock gives a stale block -1 confirmations, and `as u32' makes a     *)
(* large number of them.                                                   *)
Confirmations == IF block < 0 THEN -1 ELSE block
AsU32(n) == n % (2 ^ IntWidth)

(* Mutant of IsFinal: one confirmation too few. *)
IsFinalEarly(confirmations) == AsU32(confirmations) >= FinalityDepth - 1

IsFinal(confirmations) == AsU32(confirmations) >= FinalityDepth

(* get_tx_status_cached: getrawtransaction finds t in a block, and at the  *)
(* step `next' getblock is called for that block.                          *)
NameBlock(t, next) ==
    /\ asked' = t
    /\ block' = conf[t]
    /\ pc' = next

(* The answer of getblock, which gives the height of a stale block too. *)
SeenAge == IF block < 0 THEN -block ELSE block
Answered ==
    /\ asked' = NoTxid
    /\ block' = 0
    /\ stale' = IF block < 0 THEN stale \cup {asked} ELSE stale

(* The txids that the row may have on the chain. *)
SentTxids == IF kind = "rbf" THEN rbfTxids ELSE {Tx}

Saved(p) == payers[p].amount > 0
ChainOf(p) == IF payers[p].parent = None THEN p[2] ELSE payers[p].parent
Chain(p) == {q \in Payers : Saved(q) /\ ChainOf(q) = ChainOf(p)}

(* list_unfinalized_fee_payer_utxos: the fee payers of a chain with a      *)
(* final one are not looked up again.                                      *)
UnfinalizedPayers == {p \in Payers : Saved(p) /\ \A q \in Chain(p) : ~payers[q].final}

ListPayers == pc' = "sync_payers" /\ todo' = UnfinalizedPayers

(* getrawtransaction for the row.  A row that is settled is left alone,    *)
(* and so is an RBF row that was never sent.                               *)
SyncTx ==
    /\ pc = "sync_tx"
    /\ IF row.final \/ row.timedOut \/ SentTxids = {}
       THEN ListPayers /\ UNCHANGED <<row, asked, block>>
       ELSE IF \E t \in SentTxids : Confirmed(t)
            THEN /\ NameBlock(CHOOSE t \in SentTxids : Confirmed(t), "sync_block")
                 /\ UNCHANGED <<row, todo>>
            ELSE /\ row' = [row EXCEPT !.seen = None]
                 /\ ListPayers /\ UNCHANGED <<asked, block>>
    /\ UNCHANGED <<env, node, activate, rbfTxids, payers, fee, newTip, behind,
                   sendable, unsaved, history, faults>>

SyncBlock ==
    /\ pc = "sync_block"
    /\ row' = [row EXCEPT !.seen = SeenAge, !.final = IsFinal(Confirmations)]
    /\ Answered
    /\ ListPayers
    /\ UNCHANGED <<env, node, activate, rbfTxids, payers, fee, newTip, behind,
                   sendable, unsaved, spent, faults>>

(* The same for every fee payer that was listed. *)
SyncPayer ==
    /\ pc = "sync_payers"
    /\ \E p \in todo :
        /\ todo' = todo \ {p}
        /\ IF Confirmed(p)
           THEN NameBlock(p, "sync_payer_block") /\ UNCHANGED payers
           ELSE /\ payers' = [payers EXCEPT ![p].seen = FALSE]
                /\ UNCHANGED <<pc, asked, block>>
    /\ UNCHANGED <<env, node, row, activate, rbfTxids, fee, newTip, behind,
                   sendable, unsaved, history, faults>>

SyncPayerBlock ==
    /\ pc = "sync_payer_block"
    /\ payers' = [payers EXCEPT ![asked].seen = TRUE, ![asked].final = IsFinal(Confirmations)]
    /\ Answered
    /\ pc' = "sync_payers"
    /\ UNCHANGED <<env, node, row, activate, rbfTxids, fee, newTip, behind, todo,
                   sendable, unsaved, spent, faults>>

PayersSynced ==
    /\ pc = "sync_payers" /\ todo = {}
    /\ pc' = "sync_activate"
    /\ UNCHANGED <<env, node, db, fee, newTip, behind, lookup, sendable, unsaved,
                   history, faults>>

(* And for the activator, of which the mempool is recorded too.  The run   *)
(* that finds it gone clears seen_at_height only.                          *)
SyncActivate ==
    /\ pc = "sync_activate"
    /\ IF ~activate.final /\ Confirmed(A)
       THEN NameBlock(A, "sync_activate_block") /\ UNCHANGED activate
       ELSE /\ activate' =
                IF activate.final THEN activate
                ELSE [seen |-> None, final |-> FALSE,
                      inMempool |-> activate.seen = None /\ A \in pool]
            /\ pc' = "select" /\ UNCHANGED <<asked, block>>
    /\ UNCHANGED <<env, node, row, rbfTxids, payers, fee, newTip, behind, todo,
                   sendable, unsaved, history, faults>>

SyncActivateBlock ==
    /\ pc = "sync_activate_block"
    /\ activate' = [seen |-> SeenAge, final |-> IsFinal(Confirmations), inMempool |-> FALSE]
    /\ Answered
    /\ pc' = "select"
    /\ UNCHANGED <<env, node, row, rbfTxids, payers, fee, newTip, behind, todo,
                   sendable, unsaved, spent, faults>>

-----------------------------------------------------------------------------
(* Then try_to_send_unconfirmed_txs. *)

Active ==
    IF timelock > 0 THEN activate.seen # None /\ activate.seen - behind - 1 >= timelock
                    ELSE activate.seen # None \/ activate.inMempool

(* get_sendable_txs; at a new tip it is asked with the highest rate, so    *)
(* that everything unconfirmed is sent again.                              *)
Select ==
    /\ pc = "select"
    /\ sendable' = /\ Active
                   /\ row.seen = None /\ ~row.timedOut
                   /\ kind = "cpfp" \/ row.eff = None \/ newTip \/ row.eff < fee
    /\ pc' = "bump"
    /\ UNCHANGED <<env, node, db, fee, newTip, behind, lookup, unsaved, history, faults>>

(* get_unconfirmed_fee_payer_txs.  The comparison with the replacement_of  *)
(* of an original fee payer, which is NULL, is never true: an original is  *)
(* listed even when its replacement is confirmed.                          *)
Unconfirmed ==
    {p \in Payers : /\ Saved(p) /\ ~payers[p].seen /\ ~payers[p].evicted
                    /\ payers[p].parent # None => \A q \in Chain(p) : ~payers[q].seen}

(* The txid of the next transaction that the wallet funds: one never       *)
(* broadcast.                                                              *)
Unused(S) == {t \in S : rate[t] = 0}
NextOf(S) == CHOOSE t \in Unused(S) : TRUE
NextPayer == NextOf(Payers)
CanFund == Unused(Payers) # {}

(* bump_fees_of_unconfirmed_fee_payer_txs.  A chain of which nothing is in *)
(* the mempool or mined is marked evicted, after the bumps; here in the    *)
(* same step.                                                              *)
BumpPayers ==
    /\ pc = "bump"
    /\ LET alive == {ChainOf(p) : p \in {q \in Unconfirmed : q \in pool \/ Confirmed(q)}}
           gone == {ChainOf(p) : p \in Unconfirmed} \ alive
           cheap == {p \in Unconfirmed \cap pool \cap rested : rate[p] < fee}
       IN /\ payers' = [p \in Payers |-> IF Saved(p) /\ ChainOf(p) \in gone
                                         THEN [payers[p] EXCEPT !.evicted = TRUE]
                                         ELSE payers[p]]
          /\ IF cheap # {} /\ CanFund
             THEN \E p \in cheap :
                    /\ pool' = (pool \ {p}) \cup {NextPayer}
                    /\ rate' = [rate EXCEPT ![NextPayer] = Max2(fee, rate[p] + 1)]
                    /\ rested' = rested \ {p}
                    /\ unsaved' = {<<NextPayer, payers[p].amount, ChainOf(p)>>}
                    /\ pc' = "save_bump"
             ELSE /\ pc' = IF sendable THEN "check" ELSE "finish"
                  /\ UNCHANGED <<pool, rate, rested, unsaved>>
    /\ UNCHANGED <<env, conf, child, feeRate, row, activate, rbfTxids, fee, newTip, behind,
                   lookup, sendable, history, faults>>

(* save_fee_payer_tx *)
SavePayer ==
    /\ pc \in {"save_bump", "save_payer"}
    /\ \E u \in unsaved :
        payers' = [payers EXCEPT ![u[1]] = [amount |-> u[2], parent |-> u[3], seen |-> FALSE,
                                            final |-> FALSE, evicted |-> FALSE]]
    /\ unsaved' = {}
    /\ pc' = IF pc = "save_bump" /\ sendable THEN "check" ELSE "finish"
    /\ UNCHANGED <<env, node, row, activate, rbfTxids, fee, newTip, behind, lookup,
                   sendable, history, faults>>

(* Mutant of InputAvailable: the output of an activator in the mempool     *)
(* counts as spent.                                                        *)
InputInUtxoSet == Confirmed(A) /\ ~InputSpent

(* are_tx_inputs_unspent: the output is in the set of unspent ones, or the *)
(* activator is in the mempool.                                            *)
InputAvailable == (Confirmed(A) /\ ~InputSpent) \/ A \in pool

CheckInputs ==
    /\ pc = "check"
    /\ IF InputAvailable
       THEN row' = [row EXCEPT !.fails = 0] /\ pc' = "send"
       ELSE /\ row' = [row EXCEPT !.fails = @ + 1, !.timedOut = row.fails + 1 >= MaxRetries]
            /\ pc' = "finish"
    /\ UNCHANGED <<env, node, activate, rbfTxids, payers, fee, newTip, behind, lookup,
                   sendable, unsaved, history, faults>>

(* Mutant of IsStuck: no bump without a higher market rate. *)
IsNeverStuck == FALSE

(* calculate_target_fee_rate *)
IsStuck == row.bumpAge # None /\ row.bumpAge - behind >= FeeBumpAfter
TargetFeeRate ==
    IF row.eff = None THEN Min2(fee, HardCap)
    ELSE IF fee > row.eff /\ ~IsStuck
         THEN IF fee - row.eff < MinBump THEN row.eff ELSE Min2(Max2(fee, row.eff + 1), HardCap)
    ELSE IF IsStuck THEN Min2(Max2(fee, row.eff + 1), HardCap)
    ELSE row.eff

(* update_effective_fee_rate: the height stays with an unchanged rate. *)
WithEffectiveRate(r) ==
    IF row.eff = r THEN row ELSE [row EXCEPT !.eff = r, !.bumpAge = behind]

(* The node's answer to sendrawtransaction or submitpackage. *)
Accepts(t, r) ==
    /\ ~InputSpent /\ C \notin pool
    /\ Available(t, conf, pool)
    /\ \A v \in (Versions \ {t}) \cap pool : rate[v] < r

(* send_no_funding_tx *)
SendNoFunding ==
    /\ pc = "send" /\ kind = "nofunding"
    /\ IF Accepts(Tx, HardCap)
       THEN /\ pool' = pool \cup {Tx}
            /\ rate' = [rate EXCEPT ![Tx] = HardCap]
       ELSE UNCHANGED <<pool, rate>>
    /\ pc' = "finish"
    /\ UNCHANGED <<env, conf, child, rested, feeRate, db, fee, newTip, behind, lookup,
                   sendable, unsaved, history, faults>>

-----------------------------------------------------------------------------
(* send_cpfp_tx *)

Seen == {p \in Payers : Saved(p) /\ payers[p].seen}
Unspent(p) == Confirmed(p) /\ ~(Confirmed(Tx) /\ p \in child)
Total == MapThenSumSet(LAMBDA p : payers[p].amount, Seen)

(* It waits for its fee payers, or a confirmed one is not there any more. *)
WaitForPayers ==
    /\ pc = "send" /\ kind = "cpfp"
    /\ Unconfirmed # {} \/ \E p \in Seen : ~Unspent(p)
    /\ pc' = "finish"
    /\ UNCHANGED <<env, node, db, fee, newTip, behind, lookup, sendable, unsaved, history, faults>>

(* create_fee_payer_utxo: twice what is needed now, less what is there. *)
CreatePayer ==
    /\ pc = "send" /\ kind = "cpfp"
    /\ Unconfirmed = {} /\ \A p \in Seen : Unspent(p)
    /\ Total < TargetFeeRate
    /\ CanFund
    /\ pool' = pool \cup {NextPayer}
    /\ rate' = [rate EXCEPT ![NextPayer] = TargetFeeRate]
    /\ unsaved' = {<<NextPayer, 2 * TargetFeeRate - Total, None>>}
    /\ pc' = "save_payer"
    /\ UNCHANGED <<env, conf, child, rested, feeRate, db, fee, newTip, behind, lookup,
                   sendable, history, faults>>

(* The package is made; its rate is saved before it is submitted. *)
CreatePackage ==
    /\ pc = "send" /\ kind = "cpfp"
    /\ Unconfirmed = {} /\ \A p \in Seen : Unspent(p)
    /\ Total >= TargetFeeRate
    /\ row' = WithEffectiveRate(TargetFeeRate)
    /\ unsaved' = {<<Tx, TargetFeeRate, Seen>>}
    /\ pc' = "submit"
    /\ UNCHANGED <<env, node, activate, rbfTxids, payers, fee, newTip, behind, lookup,
                   sendable, history, faults>>

SubmitPackage ==
    /\ pc = "submit"
    /\ \E u \in unsaved :
        IF /\ Accepts(Tx, u[2])
           /\ \A p \in u[3] : Confirmed(p)
           /\ Tx \in pool => rate[Tx] < u[2]
        THEN /\ pool' = pool \cup {Tx}
             /\ rate' = [rate EXCEPT ![Tx] = u[2]]
             /\ child' = u[3]
        ELSE UNCHANGED <<pool, rate, child>>
    /\ unsaved' = {}
    /\ pc' = "finish"
    /\ UNCHANGED <<env, conf, rested, feeRate, db, fee, newTip, behind, lookup,
                   sendable, history, faults>>

-----------------------------------------------------------------------------
(* send_rbf_tx *)

InMempool == rbfTxids \cap pool

(* A version is confirmed, or the one in the mempool pays enough. *)
LeaveVersion ==
    /\ pc = "send" /\ kind = "rbf"
    /\ IF InMempool = {} THEN \E v \in rbfTxids : Confirmed(v)
                         ELSE \A v \in InMempool : rate[v] >= TargetFeeRate
    /\ pc' = "finish"
    /\ UNCHANGED <<env, node, db, fee, newTip, behind, lookup, sendable, unsaved, history, faults>>

(* A version at the rate r is funded, signed and broadcast; it replaces    *)
(* the one in the mempool.                                                 *)
BroadcastVersion(r) ==
    /\ LET v == NextOf(Versions)
       IN IF Unused(Versions) # {} /\ Accepts(v, r)
          THEN /\ pool' = (pool \ Versions) \cup {v}
               /\ rate' = [rate EXCEPT ![v] = r]
               /\ unsaved' = {<<v, r>>}
               /\ pc' = "save_rbf"
          ELSE pc' = "finish" /\ UNCHANGED <<pool, rate, unsaved>>
    /\ UNCHANGED <<env, conf, child, rested, feeRate, db, fee, newTip, behind, lookup,
                   sendable, history, faults>>

BumpVersion ==
    /\ pc = "send" /\ kind = "rbf"
    /\ \E v \in InMempool : /\ rate[v] < TargetFeeRate
                            /\ BroadcastVersion(Max2(TargetFeeRate, rate[v] + 1))

FirstVersion ==
    /\ pc = "send" /\ kind = "rbf"
    /\ InMempool = {} /\ \A v \in rbfTxids : ~Confirmed(v)
    /\ BroadcastVersion(TargetFeeRate)

(* save_rbf_txid, and in a second write update_effective_fee_rate. *)
SaveVersion ==
    /\ pc = "save_rbf"
    /\ \E u \in unsaved : rbfTxids' = rbfTxids \cup {u[1]}
    /\ pc' = "save_rate"
    /\ UNCHANGED <<env, node, row, activate, payers, fee, newTip, behind, lookup, sendable,
                   unsaved, history, faults>>

SaveRate ==
    /\ pc = "save_rate"
    /\ \E u \in unsaved : row' = WithEffectiveRate(u[2])
    /\ unsaved' = {}
    /\ pc' = "finish"
    /\ UNCHANGED <<env, node, activate, rbfTxids, payers, fee, newTip, behind, lookup, sendable,
                   history, faults>>

-----------------------------------------------------------------------------
Reset ==
    /\ todo' = {} /\ asked' = NoTxid /\ block' = 0
    /\ behind' = 0 /\ fee' = 0 /\ sendable' = FALSE /\ unsaved' = {}

Finish ==
    /\ pc = "finish"
    /\ pc' = "idle"
    /\ newTip' = (behind > 0)
    /\ Reset
    /\ UNCHANGED <<env, node, db, history, faults>>

(* An error of the node or the database ends the run, or only the row. *)
FailRun ==
    /\ pc \notin {"idle", "finish"}
    /\ faults < MaxFaults
    /\ pc' = "idle"
    /\ newTip' = (newTip \/ behind > 0)
    /\ Reset
    /\ faults' = faults + 1
    /\ UNCHANGED <<env, node, db, history>>

FailRow ==
    /\ pc \in {"check", "send", "submit", "save_payer", "save_rbf", "save_rate"}
    /\ faults < MaxFaults
    /\ pc' = "finish"
    /\ faults' = faults + 1
    /\ UNCHANGED <<env, node, db, fee, newTip, behind, lookup, sendable, unsaved, history>>

(* A new task has processed no tip. *)
Crash ==
    /\ faults < MaxFaults
    /\ pc' = "idle"
    /\ newTip' = TRUE
    /\ Reset
    /\ faults' = faults + 1
    /\ UNCHANGED <<env, node, db, history>>

Init ==
    /\ \E q \in Queued : kind = q[1] /\ timelock = q[2]
    /\ pool = {} /\ conf = [t \in Txids |-> 0] /\ rate = [t \in Txids |-> 0]
    /\ child = {} /\ rested = {} /\ feeRate = 1
    \* insert_try_to_send
    /\ row = [seen |-> None, final |-> FALSE, fails |-> 0, timedOut |-> FALSE,
              eff |-> None, bumpAge |-> None]
    /\ activate = [seen |-> None, final |-> FALSE, inMempool |-> FALSE]
    /\ rbfTxids = {}
    /\ payers = [p \in Payers |-> [amount |-> 0, parent |-> None, seen |-> FALSE,
                                   final |-> FALSE, evicted |-> FALSE]]
    /\ pc = "idle" /\ fee = 0 /\ newTip = TRUE /\ behind = 0
    /\ todo = {} /\ asked = NoTxid /\ block = 0 /\ sendable = FALSE /\ unsaved = {}
    /\ spent = FALSE /\ stale = {} /\ faults = 0

Step ==
    \/ Begin \/ SyncTx \/ SyncBlock \/ SyncPayer \/ SyncPayerBlock \/ PayersSynced
    \/ SyncActivate \/ SyncActivateBlock
    \/ Select \/ BumpPayers \/ SavePayer \/ CheckInputs
    \/ SendNoFunding \/ WaitForPayers \/ CreatePayer \/ CreatePackage \/ SubmitPackage
    \/ LeaveVersion \/ BumpVersion \/ FirstVersion \/ SaveVersion \/ SaveRate \/ Finish

Next ==
    \/ Step \/ FailRun \/ FailRow \/ Crash
    \/ Mine \/ Reorg \/ Evict \/ FeeRises \/ BroadcastActivator \/ BroadcastConflict

Spec == Init /\ [][Next]_vars

(* The task is polled for ever, and blocks keep coming that take what pays *)
(* enough.                                                                 *)
FairSpec == Spec /\ WF_vars(Step) /\ SF_vars(MinePaying)

-----------------------------------------------------------------------------
TypeOK ==
    /\ <<kind, timelock>> \in Queued
    /\ pool \subseteq Txids /\ conf \in [Txids -> 0..MaxAge]
    /\ rate \in [Txids -> 0..(HardCap + 1)]
    /\ child \subseteq Payers /\ rested \subseteq Payers
    /\ row \in [seen : -1..MaxAge, final : BOOLEAN, fails : Nat, timedOut : BOOLEAN,
                eff : -1..(HardCap + 1), bumpAge : -1..MaxBumpAge]
    /\ rbfTxids \subseteq Versions
    /\ behind \in 0..MaxBlocks /\ faults \in 0..MaxFaults

(* What the database calls final is FinalityDepth deep in the chain, the   *)
(* transaction, its fee payers and its activator alike, or was in a block  *)
(* that a reorg replaced between the two calls of its lookup: a final row  *)
(* is never looked up again, and nothing is sent any more.                 *)
FinalizedIsFinal ==
    /\ row.final => \E t \in SentTxids : conf[t] >= FinalityDepth \/ t \in stale
    /\ \A p \in Payers : payers[p].final => conf[p] >= FinalityDepth \/ p \in stale
    /\ activate.final => conf[A] >= FinalityDepth \/ A \in stale

(* What the comments of sync_transaction_confirmations_via_rpc say: a      *)
(* transaction is marked as finalized if it has finality_depth             *)
(* confirmations, whatever the node does between two calls.  TLC refutes   *)
(* it, see the README: `stale' above is the one exception.                 *)
FinalizedIsConfirmed ==
    row.final => \E t \in SentTxids : conf[t] >= FinalityDepth

(* The sender gives a transaction up only when the output it spends was    *)
(* spent in a block: no reorg, eviction, error or crash, no race of the    *)
(* check with the sync before it, and no activator that is only in the     *)
(* mempool makes it give up a transaction that could still be mined.  An   *)
(* activator that a stale block made final is never looked up again.       *)
GivenUpOnlyIfSpent == row.timedOut => spent \/ A \in stale

(* Once the activator stays in the chain, the transaction becomes final or *)
(* is given up (for one that spent its output).  It is sent again after    *)
(* every loss, a lost fee payer is replaced, and one that waits for too    *)
(* low a fee is bumped.  Only a fee payer that a stale block made final is *)
(* not replaced.                                                           *)
KeepsTrying ==
    <>[]Confirmed(A) /\ [](stale \cap Payers = {}) => <>(row.final \/ row.timedOut)
=============================================================================
