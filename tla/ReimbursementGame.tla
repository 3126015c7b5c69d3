--------------------------- MODULE ReimbursementGame ---------------------------
(***************************************************************************)
(* One round of one operator on the chain: the operator against the        *)
(* verifiers, over the transactions of BridgeTransactions.  One side is    *)
(* honest and runs this code: it sends what its state machines queue, and  *)
(* that is mined in the first block in which it is valid, unless the other *)
(* side's transaction spends the same output in that block.  The other     *)
(* side sends whatever it has the signatures for.                          *)
(*                                                                         *)
(* A party acts on final blocks: what it sees of a block can answer it     *)
(* FinalityDepth blocks later.  age is the number of blocks since a        *)
(* transaction was mined, counted as far as anything depends on it.        *)
(***************************************************************************)
EXTENDS BridgeTransactions

CONSTANTS
    FinalityDepth,  \* finality_depth
    Sides,          \* which sides may be the honest one
    NoKickoff       \* no kickoff was challenged

VARIABLES
    age,      \* the mined transactions, each with its age
    spent,    \* the outputs that are spent
    honest,   \* the side that runs this code
    paid,     \* the kickoffs whose withdrawal the operator paid
    target,   \* the kickoff that the verifiers challenge (challenged_rounds)
    used,     \* the kickoff outputs spent when the round ended
    seen      \* the kickoffs that were mined before the round ended

vars == <<age, spent, honest, paid, target, used, seen>>

F == FinalityDepth

(* What a party sees in time.  Every step that one side has to take fits   *)
(* between the timelocks of the other side's answers.  Nothing is assumed  *)
(* of the timelock between ReadyToReimburse and the next round but that    *)
(* there is one: the parameter sets have it shorter and longer than what   *)
(* the verifiers need to see the end of the round.                         *)
ASSUME GameAssumption ==
    /\ F \in Nat \ {0}
    /\ Sides \subseteq {"operator", "verifiers"}
    /\ NoKickoff \notin Kickoffs
    /\ F < ChallengeTimeoutLock
    /\ ChallengeTimeoutLock + F <= WatchtowerTimeoutLock
    /\ WatchtowerTimeoutLock + 2 * F - 1 < BlockhashTimeoutLock
    /\ WatchtowerTimeoutLock + F < NackLock
    /\ WatchtowerTimeoutLock + 3 * F - 1 < AssertTimeoutLock
    /\ AssertTimeoutLock + F < DisproveTimeoutLock
    /\ NackLock + F < DisproveTimeoutLock
    /\ BlockhashTimeoutLock + F < DisproveTimeoutLock
    /\ ReimburseLock >= 1

Mined == DOMAIN age
AgeAtLeast(tx, n) == tx \in Mined /\ age[tx] >= n
Final(tx) == AgeAtLeast(tx, F)

(* No age is counted further than somebody waits for it: the timelocks,    *)
(* and what the honest side does when a transaction is final.              *)
Cap(tx) ==
    CASE tx[1] = "Kickoff" -> DisproveTimeoutLock
      [] tx[1] = "ReadyToReimburse" -> ReimburseLock
      [] tx[1] \in {"Challenge", "WatchtowerChallenge", "WatchtowerChallengeTimeout"} ->
            IF honest = "operator" THEN 2 * F ELSE F
      [] tx[1] \in {"MiniAssert", "OperatorChallengeAck"} -> IF honest = "operator" THEN 0 ELSE F
      [] tx[1] \in {"ChallengeTimeout", "DisproveTimeout", "BurnUnusedKickoffConnectors"} ->
            IF honest = "operator" THEN F ELSE 0
      [] tx[1] \in {"Round", "MoveToVault", "LatestBlockhash"} -> F
      [] OTHER -> 0

-----------------------------------------------------------------------------
(* Who can send what: get_deposit_sig_owner says whose signatures a        *)
(* transaction needs.  Those of the N-of-N and those that the operator     *)
(* shared at the deposit or the setup are with everyone; the rest the      *)
(* operator keeps.                                                         *)
OperatorCanSend ==
    {tx \in Txs :
        tx[1] \in {"NextRound", "ReadyToReimburse", "OperatorExit", "Kickoff",
                   "BurnUnusedKickoffConnectors", "Challenge", "ChallengeTimeout",
                   "WatchtowerChallengeTimeout", "OperatorChallengeAck", "LatestBlockhash",
                   "MiniAssert", "DisproveTimeout", "Reimburse"}}

VerifiersCanSend ==
    {tx \in Txs :
        tx[1] \in {"UnspentKickoff", "KickoffNotFinalized", "Challenge", "WatchtowerChallenge",
                   "WatchtowerChallengeTimeout", "OperatorChallengeNack",
                   "LatestBlockhashTimeout", "AssertTimeout", "Disprove"}}

WatchtowerUtxosSpent(k, n) ==
    \A w \in Watchtowers : \/ AgeAtLeast(<<"WatchtowerChallenge", k, w>>, n)
                           \/ AgeAtLeast(<<"WatchtowerChallengeTimeout", k, w>>, n)

(* A script of the disprove output can be satisfied: the operator's        *)
(* commitments are on the chain and what they claim is false.              *)
DisproveWitness(k) ==
    /\ k \notin paid
    /\ <<"LatestBlockhash", k>> \in Mined
    /\ \A i \in Asserts : <<"MiniAssert", k, i>> \in Mined

(* Valid in the current block, with the inputs I. *)
Valid(tx, I) ==
    /\ tx \notin Mined
    /\ \A in \in I : in.out \notin spent /\ AgeAtLeast(in.out.tx, in.lock)
    /\ tx[1] = "Disprove" => DisproveWitness(tx[2])

-----------------------------------------------------------------------------
(* The honest operator. *)

(* Mutant of ReadyToEnd: a finalizer that a challenged kickoff left is not *)
(* counted.                                                                *)
ReadyToEndUnchallenged ==
    \A k \in Kickoffs : \/ Final(<<"BurnUnusedKickoffConnectors", k>>)
                        \/ Final(<<"ChallengeTimeout", k>>)

(* QueueReadyToReimburse: every kickoff output is spent, and the finalizer *)
(* of every kickoff.                                                       *)
ReadyToEnd ==
    \A k \in Kickoffs : \/ Final(<<"BurnUnusedKickoffConnectors", k>>)
                        \/ Final(<<"ChallengeTimeout", k>>)
                        \/ Final(<<"DisproveTimeout", k>>)

(* queue_relevant_txs_for_new_kickoff: queued with the kickoff, sent when  *)
(* their timelocks are over.                                               *)
NewKickoffTxs(k) == {<<"ChallengeTimeout", k>>, <<"DisproveTimeout", k>>, <<"Reimburse", k>>}

(* queue_watchtower_challenge_timeout_txs, when the challenge is final. *)
OwnTimeoutTxs(k) ==
    {<<"WatchtowerChallengeTimeout", k, w>> : w \in {w \in Watchtowers : Final(<<"Challenge", k>>)}}

(* queue_operator_challenge_ack_for_watchtower. *)
AckTxs(k) ==
    {<<"OperatorChallengeAck", k, w>> :
        w \in {w \in Watchtowers : Final(<<"WatchtowerChallenge", k, w>>)}}

(* send_latest_blockhash, finality_depth - 1 blocks after every watchtower *)
(* output is seen spent.                                                   *)
LatestBlockhashTxs(k) ==
    {tx \in {<<"LatestBlockhash", k>>} :
        /\ AgeAtLeast(<<"Challenge", k>>, 2 * F - 1)
        /\ WatchtowerUtxosSpent(k, 2 * F - 1)}

(* send_asserts. *)
AssertTxs(k) ==
    {tx \in {<<"MiniAssert", k, i>> : i \in Asserts} :
        /\ Final(<<"Challenge", k>>)
        /\ WatchtowerUtxosSpent(k, F)
        /\ Final(<<"LatestBlockhash", k>>)}

(* The duties of an operator.  The next round follows when it may. *)
OperatorQueue ==
    {tx \in {ReadyToReimburse} : ReadyToEnd}
    \cup {NextRound}
    \cup UNION {NewKickoffTxs(k) \cup OwnTimeoutTxs(k) \cup AckTxs(k)
                \cup LatestBlockhashTxs(k) \cup AssertTxs(k) : k \in Kickoffs}

(* What the operator sends when it likes: a kickoff for each withdrawal    *)
(* that it paid, and at the end of the round it burns the other outputs.   *)
OperatorMay ==
    {<<"Kickoff", k>> : k \in paid} \cup {<<"BurnUnusedKickoffConnectors", k>> : k \in Kickoffs \ paid}

-----------------------------------------------------------------------------
(* The honest verifiers. *)

(* A kickoff has a machine if it was seen before the round ended, and is   *)
(* challenged when its machine sees the challenge output spent.            *)
ChallengedKickoff(k) == k \in seen /\ Final(<<"Challenge", k>>)

(* disprove_if_ready. *)
ReadyToDisprove(k) ==
    /\ ChallengedKickoff(k)
    /\ WatchtowerUtxosSpent(k, F)
    /\ Final(<<"LatestBlockhash", k>>)
    /\ \A i \in Asserts : Final(<<"MiniAssert", k, i>>)
    /\ \A w \in Watchtowers :
        <<"WatchtowerChallenge", k, w>> \in Mined => Final(<<"OperatorChallengeAck", k, w>>)

(* Mutant of ChallengedKickoffTxs: the asserts are not enforced. *)
ChallengedKickoffTxsNoAsserts(k) ==
    {tx \in Txs : /\ tx[1] \in {"KickoffNotFinalized", "LatestBlockhashTimeout",
                                "OperatorChallengeNack", "WatchtowerChallengeTimeout"}
                  /\ tx[2] = k}

(* queue_txs_for_challenged_kickoff. *)
ChallengedKickoffTxs(k) ==
    {tx \in Txs : /\ tx[1] \in {"AssertTimeout", "KickoffNotFinalized", "LatestBlockhashTimeout",
                                "OperatorChallengeNack", "WatchtowerChallengeTimeout"}
                  /\ tx[2] = k}

(* send_watchtower_challenge: every verifier is a watchtower. *)
WatchtowerChallengeTxs(k) == {<<"WatchtowerChallenge", k, w>> : w \in Watchtowers}

(* What a verifier sends for a kickoff that it sees challenged. *)
ChallengedTxs ==
    UNION {ChallengedKickoffTxs(k) \cup WatchtowerChallengeTxs(k) :
               k \in {k \in Kickoffs : ChallengedKickoff(k)}}

(* send_disprove_tx, with a script that the commitments satisfy. *)
DisproveTxs == {<<"Disprove", k>> : k \in {k \in Kickoffs : ReadyToDisprove(k)}}

(* send_unspent_kickoff_connectors, for those unused when the round ended. *)
UnspentKickoffTxs ==
    {tx \in {<<"UnspentKickoff", k>> : k \in Kickoffs \ used} : Final(ReadyToReimburse)}

(* The duties of a verifier. *)
VerifierQueue ==
    {tx \in Of("Challenge") : tx[2] = target}
    \cup ChallengedTxs \cup DisproveTxs \cup UnspentKickoffTxs

-----------------------------------------------------------------------------
Queue == IF honest = "operator" THEN OperatorQueue ELSE VerifierQueue

MayMine ==
    IF honest = "operator"
    THEN Queue \cup OperatorMay \cup VerifiersCanSend
    ELSE Queue \cup OperatorCanSend

Init ==
    /\ age = [tx \in {Round, MoveToVault} |-> IF tx = Round THEN 1 ELSE F]
    /\ spent = {}
    /\ honest \in Sides
    /\ paid \in SUBSET Kickoffs
    /\ target = NoKickoff
    /\ used = {}
    /\ seen = {}

(* Every way to take the collateral from the operator. *)
Burned ==
    \E tx \in Mined : tx[1] \in {"UnspentKickoff", "KickoffNotFinalized", "OperatorChallengeNack",
                               "LatestBlockhashTimeout", "AssertTimeout", "Disprove"}

(* The game is over when the collateral has left the rounds. *)
Over == <<"OperatorExit">> \in Mined \/ Burned

Mine(tx) ==
    /\ tx \in MayMine
    /\ ~Over
    /\ \E I \in InputSets(tx) :
        /\ Valid(tx, I)
        /\ spent' = spent \cup {in.out : in \in I}
    /\ age' = [x \in Mined \cup {tx} |-> IF x = tx THEN 0 ELSE age[x]]
    /\ used' = IF tx = ReadyToReimburse
               THEN {k \in Kickoffs : KickoffOut(k) \in spent} ELSE used
    /\ seen' = IF tx[1] = "Kickoff" /\ ReadyToReimburse \notin Mined
               THEN seen \cup {tx[2]} ELSE seen
    /\ UNCHANGED <<honest, paid, target>>

(* The kickoffs that handle_kickoff finds malicious after the next block. *)
Malicious == {k \in seen \ paid : age[Kickoff(k)] + 1 >= F}

(* handle_kickoff: the first malicious kickoff of the round is challenged  *)
(* (where that is left to people, by them).                                *)
ChallengeOne ==
    IF target = NoKickoff /\ Malicious # {} THEN target' \in Malicious
    ELSE UNCHANGED target

(* The block is full: whatever the honest side could have mined is in it,  *)
(* and one more block is final.                                            *)
NextBlock ==
    /\ ~Over
    /\ \A tx \in Queue : \A I \in InputSets(tx) : ~Valid(tx, I)
    /\ age' = [tx \in Mined |-> IF age[tx] < Cap(tx) THEN age[tx] + 1 ELSE age[tx]]
    /\ ChallengeOne
    /\ UNCHANGED <<spent, honest, paid, used, seen>>

Next == NextBlock \/ \E tx \in Txs : Mine(tx)

HonestMine == \E tx \in Queue \cup (IF honest = "operator" THEN OperatorMay ELSE {}) : Mine(tx)

(* Blocks are mined, and what the honest side has to send gets into one. *)
Spec == Init /\ [][Next]_vars /\ WF_vars(NextBlock) /\ WF_vars(HonestMine)

-----------------------------------------------------------------------------
TypeOK ==
    /\ Mined \subseteq Txs
    /\ \A tx \in Mined : age[tx] \in 0..Cap(tx)
    /\ target \in Kickoffs \cup {NoKickoff}
    /\ paid \cup used \cup seen \subseteq Kickoffs

Reimbursed(k) == <<"Reimburse", k>> \in Mined

(* The verifiers close the round around a malicious kickoff: when the      *)
(* operator reaches the next round, whose outputs every reimbursement of   *)
(* this one needs, no kickoff that the round machine reported and the      *)
(* operator did not pay for is older than twice the finality depth.  Until *)
(* then the verifiers have seen it, challenged one kickoff of the round,   *)
(* and seen the challenge; from then on the end of the round is answered   *)
(* in its own block.  The timelocks of the reimbursement do not matter.    *)
NextRoundOutrunsNoChallenge ==
    [][ honest = "verifiers" /\ NextRound \in Mined' \ Mined =>
            \A k \in seen \ paid : age[Kickoff(k)] <= 2 * F ]_vars

(* What create_kickoff_not_finalized_txhandler says: an operator that ends *)
(* the round while a kickoff is not finalized has its collateral burned,   *)
(* and so does not get the deposit of a kickoff that is reported and that  *)
(* it did not pay for.  It is a theorem for a ReimburseLock above 2 * F;   *)
(* TLC refutes it for shorter ones.                                        *)
ReportedUnpaidNeverReimbursed ==
    honest = "verifiers" =>
        \A k \in Kickoffs : Reimbursed(k) /\ k \in seen => k \in paid

(* What the duty CheckIfKickoff says, that it is sent when a kickoff       *)
(* output is spent, would give: no deposit goes to an operator that did    *)
(* not pay for it.  TLC refutes it for every ReimburseLock: a kickoff that *)
(* is mined with or after ReadyToReimburse is never reported.              *)
UnpaidNeverReimbursed ==
    honest = "verifiers" => \A k \in Kickoffs : Reimbursed(k) => k \in paid

(* Nobody can burn the collateral of an operator that runs this code,      *)
(* whatever challenges are sent and when.                                  *)
HonestCollateralIsSafe == honest = "operator" => ~Burned

(* An operator that runs this code gets every deposit that it paid for. *)
HonestIsReimbursed ==
    \A k \in Kickoffs : (honest = "operator" /\ k \in paid) ~> Reimbursed(k)

(* An operator with a malicious kickoff that is reported, and that it did  *)
(* not leave behind within twice the finality depth, loses its collateral, *)
(* unless it leaves the bridge with it.                                    *)
MaliciousIsRemoved ==
    (/\ honest = "verifiers"
     /\ NextRound \notin Mined
     /\ \E k \in seen \ paid : age[Kickoff(k)] > 2 * F)
    ~> (Burned \/ OperatorExit \in Mined)
=============================================================================
