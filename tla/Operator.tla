------------------------------ MODULE Operator ------------------------------
(***************************************************************************)
(* The payouts of an operator and its way to reimbursement.  The operator  *)
(* fronts a withdrawal that its database knows (withdraw); the finalized   *)
(* payout is recorded (handle_finalized_block) and assigned a kickoff      *)
(* connector of a round (the payout checker); the kickoff, the end of the  *)
(* round and the reimbursement are then sent automatically or, in a build  *)
(* without automation, by somebody who asks again and again for the next   *)
(* transactions that are safe to send (get_reimbursement_txs).             *)
(*                                                                         *)
(* Every finalized block is handled by all verifiers with the same code in *)
(* the same order, so one table of withdrawals stands for theirs and for   *)
(* the operator's.  Nobody challenges: that game is ReimbursementGame.     *)
(* Timelocks are left out, a transaction may be mined any time after those *)
(* that it spends.  Withdrawals are numbered as in Citrea; round 0 is the  *)
(* collateral.                                                             *)
(***************************************************************************)
EXTENDS Integers, Sequences, FiniteSets, SequencesExt, FiniteSetsExt

CONSTANTS
    Withdrawals,   \* indices of withdrawals, each of its own deposit
    NumRounds,     \* num_round_txs
    Connectors,    \* the kickoff connectors of a round
    Signed,        \* for every deposit, the connectors get_kickoff_utxos_to_sign chose
    Modes,         \* of {"automation", "manual"}
    OneByOne,      \* without automation: a withdrawal is fronted only when all earlier
                   \* payouts are reimbursed
    MaxReorgs      \* bound

ASSUME OperatorAssumption ==
    /\ Withdrawals \subseteq Nat /\ IsFiniteSet(Withdrawals)
    /\ NumRounds \in Nat /\ Cardinality(Withdrawals) <= NumRounds
    \* With automation every round has one kickoff and end_round burns the
    \* other connectors: it fails where there is none.
    /\ Cardinality(Connectors) > 1
    /\ \A w \in Withdrawals : Signed[w] \subseteq Connectors /\ Signed[w] # {}
    /\ Modes \subseteq {"automation", "manual"} /\ OneByOne \in BOOLEAN

VARIABLES
    mode,
    \* the chain
    pool,      \* the transactions that are being sent
    mined,     \* those in the chain
    recent,    \* the last ones in order, those not handled yet
    final,     \* how many of these are finalized
    reorgs,
    paidIn,    \* the block of the operator's payout of a withdrawal, NoBlock when not mined
    witness,   \* the block hash that the witness of the kickoff of a connector commits to
    \* the database, written by handle_finalized_block
    utxos,     \* withdrawals whose utxo is known
    payouts,   \* payout_tx_blockhash of the withdrawals paid by the operator, NoBlock for others
    \* the database, written by the operator
    round,     \* current_round_index
    used,      \* used_kickoff_connectors: Unused (no row), NullPayout or the withdrawal
    \* a call of get_reimbursement_txs
    asking,    \* the round whose connectors it found spent, 0 when there is no call
    \* history
    accused    \* withdrawals whose kickoff is_kickoff_malicious refused

blocks == <<mined, recent, final, reorgs, paidIn>>
chain == <<pool, witness, blocks>>
synced == <<utxos, payouts, accused>>
vars == <<mode, chain, synced, round, used, asking>>

Slots == (1..NumRounds) \X Connectors

Unused == -1
NullPayout == -2
NoBlock == -1

Init ==
    /\ mode \in Modes
    /\ pool = {} /\ mined = {} /\ recent = <<>> /\ final = 0 /\ reorgs = 0
    /\ paidIn = [w \in Withdrawals |-> NoBlock] /\ witness = [s \in Slots |-> NoBlock]
    /\ utxos = {} /\ payouts = [w \in Withdrawals |-> NoBlock] /\ accused = {}
    /\ round = 0
    /\ used = [s \in Slots |-> Unused]
    /\ asking = 0

-----------------------------------------------------------------------------
(* Transactions, and when they can be mined. *)

Tx(type, r, ks, w) == [type |-> type, round |-> r, ks |-> ks, w |-> w]

WithdrawalTx(w) == Tx("withdrawal", 0, {}, w)  \* the batch proof that contains it
PayoutTx(w) == Tx("payout", 0, {}, w)
OtherPayoutTx(w) == Tx("other", 0, {}, w)      \* optimistic, or of another operator
RoundTx(r) == Tx("round", r, {}, 0)
KickoffTx(s, w) == Tx("kickoff", s[1], {s[2]}, w)
ChallengeTimeoutTx(s) == Tx("timeout", s[1], {s[2]}, 0)
BurnTx(r, ks) == Tx("burn", r, ks, 0)
ReadyToReimburseTx(r) == Tx("ready", r, {}, 0)
ReimburseTx(s, w) == Tx("reimburse", s[1], {s[2]}, w)

ConnectorSpent(s) ==
    \E t \in mined : t.type \in {"kickoff", "burn"} /\ t.round = s[1] /\ s[2] \in t.ks

KickoffMined(s) == \E t \in mined : t.type = "kickoff" /\ t.round = s[1] /\ t.ks = {s[2]}

FinalizerSpent(s) == ChallengeTimeoutTx(s) \in mined

Spendable(t) ==
    CASE t.type = "withdrawal" ->
             \A v \in Withdrawals : v < t.w => WithdrawalTx(v) \in mined
      [] t.type \in {"payout", "other"} -> mined \cap {PayoutTx(t.w), OtherPayoutTx(t.w)} = {}
      [] t.type = "round" -> t.round > 1 => ReadyToReimburseTx(t.round - 1) \in mined
      [] t.type \in {"kickoff", "burn"} ->
             RoundTx(t.round) \in mined /\ \A k \in t.ks : ~ConnectorSpent(<<t.round, k>>)
      [] t.type = "timeout" -> \A k \in t.ks : KickoffMined(<<t.round, k>>)
      [] t.type = "ready" -> RoundTx(t.round) \in mined
      [] t.type = "reimburse" ->
             /\ \A k \in t.ks : KickoffTx(<<t.round, k>>, t.w) \in mined
             /\ RoundTx(t.round + 1) \in mined

(* A block is named by the branch that it is on: a payout that is mined    *)
(* again after a reorg is in another block.                                *)
Mine(t) ==
    /\ t \in pool /\ Spendable(t)
    /\ mined' = mined \cup {t} /\ pool' = pool \ {t}
    /\ recent' = Append(recent, t)
    /\ paidIn' = IF t.type = "payout" THEN [paidIn EXCEPT ![t.w] = reorgs] ELSE paidIn
    /\ UNCHANGED <<mode, final, reorgs, witness, synced, round, used, asking>>

Finalize ==
    /\ final < Len(recent)
    /\ final' = final + 1
    /\ UNCHANGED <<mode, pool, mined, recent, reorgs, paidIn, witness, synced, round, used, asking>>

(* The last n transactions return to the mempool. *)
Reorg(n) ==
    LET gone == ToSet(SubSeq(recent, Len(recent) - n + 1, Len(recent)))
    IN /\ reorgs < MaxReorgs /\ n \in 1..(Len(recent) - final)
       /\ reorgs' = reorgs + 1
       /\ mined' = mined \ gone /\ pool' = pool \cup gone
       /\ recent' = SubSeq(recent, 1, Len(recent) - n)
       /\ paidIn' = [w \in Withdrawals |-> IF PayoutTx(w) \in gone THEN NoBlock ELSE paidIn[w]]
       /\ UNCHANGED <<mode, final, witness, synced, round, used, asking>>

Send(txs) == pool' = pool \cup (txs \ mined)

(* The kickoff of the connector s is sent.  Its witness is no part of its  *)
(* txid.                                                                   *)
Commit(s, hash) == witness' = [witness EXCEPT ![s] = hash]

(* Withdrawals are made on Citrea and proven on Bitcoin in their order;    *)
(* and somebody else pays one.                                             *)
RequestWithdrawal(w) ==
    /\ WithdrawalTx(w) \notin pool \cup mined
    /\ \A v \in Withdrawals : v < w => WithdrawalTx(v) \in pool \cup mined
    /\ Send({WithdrawalTx(w)})
    /\ UNCHANGED <<mode, blocks, witness, synced, round, used, asking>>

PayOtherwise(w) ==
    /\ w \in utxos /\ OtherPayoutTx(w) \notin pool \cup mined
    /\ Send({OtherPayoutTx(w)})
    /\ UNCHANGED <<mode, blocks, witness, synced, round, used, asking>>

-----------------------------------------------------------------------------
(* handle_finalized_block, and the check of a kickoff in it. *)

(* is_kickoff_malicious: the payer of the deposit is not the operator, or  *)
(* the kickoff commits to another block than that of the payout.           *)
Paid(w) == payouts[w] # NoBlock
Committed(t) == {witness[<<t.round, k>>] : k \in t.ks} \ {NoBlock}
IsKickoffMalicious(t) == ~Paid(t.w) \/ payouts[t.w] \notin Committed(t)

(* update_citrea_deposit_and_withdrawals *)
UtxosWith(t) == IF t.type = "withdrawal" THEN utxos \cup {t.w} ELSE utxos

(* update_finalized_payouts: an OP_RETURN names the operator that pays.  A *)
(* payout of a withdrawal not in the table is not seen, then or later.     *)
PayoutsWith(t) ==
    IF t.type = "payout" /\ t.w \in utxos THEN [payouts EXCEPT ![t.w] = paidIn[t.w]] ELSE payouts

(* A kickoff for a payout without a commitment in its witness is an error, *)
(* and the block is handled again and again.                               *)
HandleFinalizedBlock ==
    LET t == Head(recent)
    IN /\ final > 0
       /\ t.type = "kickoff" /\ Paid(t.w) => Committed(t) # {}
       /\ recent' = Tail(recent) /\ final' = final - 1
       /\ utxos' = UtxosWith(t)
       /\ payouts' = PayoutsWith(t)
       /\ accused' = IF t.type = "kickoff" /\ IsKickoffMalicious(t)
                     THEN accused \cup {t.w} ELSE accused
       /\ UNCHANGED <<mode, pool, mined, reorgs, paidIn, witness, round, used, asking>>

-----------------------------------------------------------------------------
(* The operator. *)

Handled(w) == \E s \in Slots : used[s] = w

SlotOf(w) == CHOOSE s \in Slots : used[s] = w

Reimbursed(w) == \E s \in Slots : ReimburseTx(s, w) \in mined

(* get_withdrawal_utxo_from_citrea_withdrawal.                             *)
(* Mutant of KnowsWithdrawal: the table is not consulted.                  *)
TrustsRequest(w) == TRUE

KnowsWithdrawal(w) == w \in utxos

(* withdraw: the payout is funded and sent. *)
Withdraw(w) ==
    /\ KnowsWithdrawal(w)
    /\ mined \cap {PayoutTx(w), OtherPayoutTx(w)} = {} /\ PayoutTx(w) \notin pool
    /\ mode = "manual" /\ OneByOne =>
           \A v \in Withdrawals \ {w} : PayoutTx(v) \in pool \cup mined => Reimbursed(v)
    /\ Send({PayoutTx(w)})
    /\ UNCHANGED <<mode, blocks, witness, synced, round, used, asking>>

(* Mutant of UnhandledPayouts: those the node shows, not the handled ones. *)
PayoutsOfNode ==
    {<<w, paidIn[w]>> : w \in {v \in Withdrawals : PayoutTx(v) \in mined /\ ~Handled(v)}}

(* get_first_unhandled_payout_by_operator_xonly_pk: the payouts with their *)
(* blocks.                                                                 *)
UnhandledPayouts == {<<w, payouts[w]>> : w \in {v \in Withdrawals : Paid(v) /\ ~Handled(v)}}

(* get_unused_and_signed_kickoff_connector: one of the first round that    *)
(* has any.                                                                *)
UnusedAndSigned(w) ==
    LET free == {s \in Slots : s[1] >= round /\ s[2] \in Signed[w] /\ used[s] = Unused}
    IN {s \in free : \A z \in free : s[1] <= z[1]}

(* What the operator has decided: the round index, the table of connectors *)
(* and the transactions to send.                                           *)
Plan == [round |-> round, used |-> used, txs |-> {}]

(* get_kickoff_txid_for_used_kickoff_connector *)
Assigned(table, r) == {k \in Connectors : table[<<r, k>>] \in Withdrawals}

StartFirstRound(o) == [o EXCEPT !.round = 1, !.txs = @ \cup {RoundTx(1)}]

(* What has no kickoff is burned and marked.  The ready-to-reimburse       *)
(* transaction is sent by the state machine.                               *)
EndRound(o) ==
    IF o.round = 0 THEN StartFirstRound(o)
    ELSE LET unspent == Connectors \ Assigned(o.used, o.round)
         IN [round |-> o.round + 1,
             used |-> [s \in Slots |-> IF s[1] = o.round /\ s[2] \in unspent
                                       THEN NullPayout ELSE o.used[s]],
             txs |-> o.txs \cup {BurnTx(o.round, unspent), RoundTx(o.round + 1)}]

HandleFinalizedPayout(o, w, s) ==
    IF mode = "manual" THEN [o EXCEPT !.used[s] = w]
    ELSE LET current == IF s[1] = o.round THEN o ELSE EndRound(o)
         IN [current EXCEPT !.used[s] = w,
                            !.txs = @ \cup {KickoffTx(s, w), ChallengeTimeoutTx(s), ReimburseTx(s, w)}]

(* PayoutCheckerTask::run_once, in one transaction: the first payout is    *)
(* handled, and with automation the round of its kickoff is ended.         *)
CheckPayouts(payout, s) ==
    LET w == payout[1]
        handled == HandleFinalizedPayout(Plan, w, s)
        done == IF mode = "automation" THEN EndRound(handled) ELSE handled
    IN /\ \A other \in UnhandledPayouts : w <= other[1]
       /\ s \in UnusedAndSigned(w)
       /\ mode = "automation" => s[1] \in {round, round + 1}
       /\ round' = done.round /\ used' = done.used /\ Send(done.txs)
       /\ IF mode = "automation" THEN Commit(s, payout[2]) ELSE UNCHANGED witness
       /\ UNCHANGED <<mode, blocks, synced, asking>>

(* The round machine, in finalized blocks: every connector is spent and    *)
(* so are the finalizers of the kickoffs.                                  *)
SendReadyToReimburse(r) ==
    LET seen == mined \ ToSet(recent)
    IN /\ mode = "automation" /\ ReadyToReimburseTx(r) \notin pool \cup mined
       /\ \A k \in Connectors : \E t \in seen :
              /\ t.type \in {"kickoff", "burn"} /\ t.round = r /\ k \in t.ks
              /\ t.type = "kickoff" => ChallengeTimeoutTx(<<r, k>>) \in seen
       /\ Send({ReadyToReimburseTx(r)})
       /\ UNCHANGED <<mode, blocks, witness, synced, round, used, asking>>

-----------------------------------------------------------------------------
(* get_reimbursement_txs. *)

(* check_if_utxo_spending_tx_is_finalized for a connector.  A syncer that  *)
(* lags behind makes the call fail, and it is made again.                  *)
(* Mutant of IsFinal: it is enough that the transaction is mined.          *)
IsMined(t) == t \in mined

IsFinal(t) == t \in mined \ ToSet(SubSeq(recent, final + 1, Len(recent)))

ConnectorFinal(s) ==
    \E t \in mined : /\ t.type \in {"kickoff", "burn"} /\ t.round = s[1] /\ s[2] \in t.ks
                     /\ IsFinal(t)

Unspent(r) == {k \in Connectors : ~ConnectorSpent(<<r, k>>)}

(* find_and_mark_unspent_kickoff_utxos *)
MarkSpent(r) ==
    used' = [s \in Slots |-> IF s[1] = r /\ ConnectorSpent(s) /\ used[s] = Unused
                             THEN NullPayout ELSE used[s]]

(* send_next_round_tx: the round is the current one once it is mined. *)
SendNextRoundTx(r) ==
    /\ IF RoundTx(r + 1) \in mined THEN round' = r + 1 /\ UNCHANGED pool
                                   ELSE Send({RoundTx(r + 1)}) /\ UNCHANGED round
    /\ UNCHANGED <<used, asking>>

(* create_burn_unused_kickoff_connectors_tx *)
BurnUnused(r) == Send({BurnTx(r, Unspent(r))}) /\ MarkSpent(r) /\ UNCHANGED <<round, asking>>

(* advance_round_manually: an error where the connectors are spent in      *)
(* blocks that are not final.                                              *)
AdvanceRound(r) ==
    \/ r = 0 /\ SendNextRoundTx(r)
    \/ /\ r > 0 /\ RoundTx(r) \in mined
       /\ \/ ReadyToReimburseTx(r) \in mined /\ SendNextRoundTx(r)
          \/ /\ ReadyToReimburseTx(r) \notin mined
             /\ \/ Unspent(r) # {} /\ BurnUnused(r)
                \/ /\ \A k \in Connectors : ConnectorFinal(<<r, k>>)
                   /\ asking' = r
                   /\ UNCHANGED <<round, used, pool>>

(* get_next_txs_to_send, by where the round of the kickoff is. *)
NextTxsToSend(w, s) ==
    \/ /\ round = s[1] /\ KickoffTx(s, w) \notin mined
       /\ Send({KickoffTx(s, w)}) /\ Commit(s, payouts[w])
       /\ UNCHANGED <<round, used, asking>>
    \/ /\ UNCHANGED witness
       /\ \/ round < s[1] /\ AdvanceRound(round)
          \/ round > s[1] /\ Send({ReimburseTx(s, w)}) /\ UNCHANGED <<round, used, asking>>
          \/ /\ round = s[1] /\ KickoffTx(s, w) \in mined
             /\ IF FinalizerSpent(s) THEN AdvanceRound(round)
                ELSE Send({ChallengeTimeoutTx(s)}) /\ UNCHANGED <<round, used, asking>>

(* validate_payer_is_operator: the payout checker has handled the payout. *)
PayerIsOperator(w) == Paid(w) /\ Handled(w)

(* Where only the round index moved the code's loop asks again with the    *)
(* new one: here that is another call.                                     *)
GetReimbursementTxs(w) ==
    /\ mode = "manual" /\ asking = 0 /\ PayerIsOperator(w) /\ ~Reimbursed(w)
    /\ NextTxsToSend(w, SlotOf(w))
    /\ UNCHANGED <<mode, blocks, synced>>

(* validate_all_kickoff_finalizers_spent, on what the node and the table   *)
(* show by then; on an error the call is rolled back.                      *)
ValidateFinalizers ==
    LET r == asking
        done == \A k \in Assigned(used, r) :
                    KickoffMined(<<r, k>>) /\ IsFinal(ChallengeTimeoutTx(<<r, k>>))
    IN /\ asking > 0
       /\ IF done THEN Send({ReadyToReimburseTx(r)}) /\ MarkSpent(r)
                  ELSE UNCHANGED <<pool, used>>
       /\ asking' = 0
       /\ UNCHANGED <<mode, blocks, witness, synced, round>>

-----------------------------------------------------------------------------
Next ==
    \/ \E t \in pool : Mine(t)
    \/ Finalize
    \/ \E n \in 1..Len(recent) : Reorg(n)
    \/ HandleFinalizedBlock
    \/ \E w \in Withdrawals :
          \/ RequestWithdrawal(w)
          \/ PayOtherwise(w)
          \/ Withdraw(w)
          \/ GetReimbursementTxs(w)
    \/ \E payout \in UnhandledPayouts, s \in Slots : CheckPayouts(payout, s)
    \/ \E r \in 1..NumRounds : SendReadyToReimburse(r)
    \/ ValidateFinalizers

(* Blocks go on being mined and handled, the tasks run in loops, and       *)
(* without automation somebody asks until each payout is reimbursed.       *)
Fairness ==
    /\ WF_vars(\E t \in pool : Mine(t))
    /\ WF_vars(Finalize)
    /\ WF_vars(HandleFinalizedBlock)
    /\ WF_vars(\E payout \in UnhandledPayouts, s \in Slots : CheckPayouts(payout, s))
    /\ WF_vars(\E r \in 1..NumRounds : SendReadyToReimburse(r))
    /\ \A w \in Withdrawals : WF_vars(GetReimbursementTxs(w))
    /\ WF_vars(ValidateFinalizers)

Spec == Init /\ [][Next]_vars
FairSpec == Spec /\ Fairness

-----------------------------------------------------------------------------
(* Properties. *)

(* No kickoff of an operator that runs this code is malicious in the eyes  *)
(* of the verifiers, although its payouts race with others' and are        *)
(* reorged and mined again in other blocks: it acts on the payout, and     *)
(* commits to the block of it, that every verifier has recorded by the     *)
(* time it sees the kickoff.                                               *)
HonestKickoffAccepted == accused = {}

(* "To avoid operator getting slashed": when the ready-to-reimburse        *)
(* transaction of a round is mined, no kickoff connector is unspent and no *)
(* kickoff is without its finalizer spent, after a reorg either.           *)
NeverPunishable ==
    \A r \in 1..NumRounds : ReadyToReimburseTx(r) \in mined =>
        \A k \in Connectors : /\ ConnectorSpent(<<r, k>>)
                              /\ KickoffMined(<<r, k>>) => FinalizerSpent(<<r, k>>)

(* Whoever fronts a withdrawal gets the deposit: a payout whose block was  *)
(* handled is recorded, gets a connector that nothing else spends, and is  *)
(* reimbursed.                                                             *)
EveryPayoutReimbursed ==
    \A w \in Withdrawals : PayoutTx(w) \in mined \ ToSet(recent) ~> Reimbursed(w)

(* The transaction that burns unused connectors spends unused ones: none   *)
(* that is assigned to a payout.                                           *)
BurnsOnlyUnused ==
    \A t \in pool \cup mined : t.type = "burn" =>
        t.ks \cap Assigned(used, t.round) = {}
=============================================================================
