-------------------------- MODULE BridgeTransactions --------------------------
(***************************************************************************)
(* The graph of presigned transactions of one round of one operator: which *)
(* outputs each transaction spends, and after how many blocks it may.      *)
(*                                                                         *)
(* Outputs and transactions are tuples that begin with the name that the   *)
(* code gives them (UtxoVout, TransactionType).  Amounts, anchors and data *)
(* outputs are left out.  A kickoff output k stands also for the deposit   *)
(* whose kickoff may spend it.                                             *)
(***************************************************************************)
EXTENDS Naturals, FiniteSets

CONSTANTS
    Kickoffs,     \* the kickoff outputs of the round
    Watchtowers,  \* the watchtowers of the deposits
    Asserts,      \* the indices of the assert outputs of a kickoff
    ChallengeTimeoutLock,   \* operator_challenge_timeout_timelock
    WatchtowerTimeoutLock,  \* watchtower_challenge_timeout_timelock
    BlockhashTimeoutLock,   \* latest_blockhash_timeout_timelock
    NackLock,               \* operator_challenge_nack_timelock
    AssertTimeoutLock,      \* assert_timeout_timelock
    DisproveTimeoutLock,    \* disprove_timeout_timelock
    ReimburseLock           \* operator_reimburse_timelock

ASSUME TimelockAssumption ==
    /\ {ChallengeTimeoutLock, WatchtowerTimeoutLock, BlockhashTimeoutLock, NackLock,
        AssertTimeoutLock, DisproveTimeoutLock, ReimburseLock} \subseteq Nat

-----------------------------------------------------------------------------
(* Transactions. *)
Round == <<"Round">>
NextRound == <<"NextRound">>
ReadyToReimburse == <<"ReadyToReimburse">>
OperatorExit == <<"OperatorExit">>  \* any other transaction that spends the collateral
MoveToVault == <<"MoveToVault">>

Of(type) == {<<type, k>> : k \in Kickoffs}
OfEach(type, S) == {<<type, k, i>> : k \in Kickoffs, i \in S}

Txs ==
    {Round, NextRound, ReadyToReimburse, OperatorExit, MoveToVault}
    \cup Of("Kickoff") \cup Of("UnspentKickoff") \cup Of("BurnUnusedKickoffConnectors")
    \cup Of("Challenge") \cup Of("ChallengeTimeout") \cup Of("KickoffNotFinalized")
    \cup Of("LatestBlockhash") \cup Of("LatestBlockhashTimeout")
    \cup Of("Disprove") \cup Of("DisproveTimeout") \cup Of("Reimburse")
    \cup OfEach("MiniAssert", Asserts) \cup OfEach("AssertTimeout", Asserts)
    \cup OfEach("WatchtowerChallenge", Watchtowers)
    \cup OfEach("WatchtowerChallengeTimeout", Watchtowers)
    \cup OfEach("OperatorChallengeAck", Watchtowers)
    \cup OfEach("OperatorChallengeNack", Watchtowers)

-----------------------------------------------------------------------------
(* Outputs.  An output names the transaction that creates it. *)
Out(tx, name) == [tx |-> tx, name |-> name]

Kickoff(k) == <<"Kickoff", k>>
CollateralInRound == Out(Round, <<"CollateralInRound">>)
CollateralInReadyToReimburse == Out(ReadyToReimburse, <<"CollateralInReadyToReimburse">>)
KickoffOut(k) == Out(Round, <<"Kickoff", k>>)
KickoffFinalizer(k) == Out(Kickoff(k), <<"KickoffFinalizer">>)

(* An input spends an output with a relative timelock in blocks. *)
In(out, lock) == [out |-> out, lock |-> lock]

(* Mutant of NextRoundInputs: the default sequence. *)
NextRoundInputsUnlocked == {In(CollateralInReadyToReimburse, 0)}

(* create_round_txhandler, for a round after the first. *)
NextRoundInputs == {In(CollateralInReadyToReimburse, ReimburseLock)}

(* create_ready_to_reimburse_txhandler. *)
ReadyToReimburseInputs == {In(CollateralInRound, 0)}

(* create_unspent_kickoff_txhandlers. *)
UnspentKickoffInputs(k) == {In(CollateralInReadyToReimburse, 0), In(KickoffOut(k), 1)}

(* create_burn_unused_kickoff_connectors_txhandler; an operator may spend  *)
(* a kickoff output by any transaction of its own, after one block.        *)
BurnInputs(k) == {In(KickoffOut(k), 1)}

(* create_kickoff_txhandler. *)
KickoffInputs(k) == {In(KickoffOut(k), 0)}

(* create_kickoff_not_finalized_txhandler. *)
KickoffNotFinalizedInputs(k) ==
    {In(KickoffFinalizer(k), 0), In(CollateralInReadyToReimburse, 0)}

(* create_challenge_txhandler. *)
ChallengeInputs(k) == {In(Out(Kickoff(k), <<"Challenge">>), 0)}

(* Mutant of ChallengeTimeoutInputs: the finalizer is left. *)
ChallengeTimeoutInputsOnly(k) ==
    {In(Out(Kickoff(k), <<"Challenge">>), ChallengeTimeoutLock)}

(* create_challenge_timeout_txhandler. *)
ChallengeTimeoutInputs(k) ==
    {In(Out(Kickoff(k), <<"Challenge">>), ChallengeTimeoutLock), In(KickoffFinalizer(k), 0)}

(* create_watchtower_challenge_txhandler. *)
WatchtowerChallengeInputs(k, w) == {In(Out(Kickoff(k), <<"WatchtowerChallenge", w>>), 0)}

(* create_watchtower_challenge_timeout_txhandler. *)
WatchtowerTimeoutInputs(k, w) ==
    {In(Out(Kickoff(k), <<"WatchtowerChallenge", w>>), WatchtowerTimeoutLock),
     In(Out(Kickoff(k), <<"WatchtowerChallengeAck", w>>), WatchtowerTimeoutLock)}

(* create_operator_challenge_ack_txhandler. *)
AckInputs(k, w) == {In(Out(Kickoff(k), <<"WatchtowerChallengeAck", w>>), 0)}

(* create_operator_challenge_nack_txhandler. *)
NackInputs(k, w) ==
    {In(Out(Kickoff(k), <<"WatchtowerChallengeAck", w>>), NackLock),
     In(KickoffFinalizer(k), 0), In(CollateralInRound, 0)}

(* create_latest_blockhash_txhandler. *)
LatestBlockhashInputs(k) == {In(Out(Kickoff(k), <<"LatestBlockhash">>), 0)}

(* create_latest_blockhash_timeout_txhandler. *)
LatestBlockhashTimeoutInputs(k) ==
    {In(Out(Kickoff(k), <<"LatestBlockhash">>), BlockhashTimeoutLock),
     In(KickoffFinalizer(k), 0), In(CollateralInRound, 0)}

(* create_mini_asserts. *)
MiniAssertInputs(k, i) == {In(Out(Kickoff(k), <<"Assert", i>>), 0)}

(* create_assert_timeout_txhandlers. *)
AssertTimeoutInputs(k, i) ==
    {In(Out(Kickoff(k), <<"Assert", i>>), AssertTimeoutLock),
     In(KickoffFinalizer(k), 0), In(CollateralInRound, 0)}

(* create_disprove_txhandler. *)
DisproveInputs(k) ==
    {In(Out(Kickoff(k), <<"Disprove">>), 0), In(CollateralInRound, 0)}

(* create_disprove_timeout_txhandler. *)
DisproveTimeoutInputs(k) ==
    {In(Out(Kickoff(k), <<"Disprove">>), DisproveTimeoutLock), In(KickoffFinalizer(k), 0)}

(* create_reimburse_txhandler; the connector is in the next round. *)
ReimburseInputs(k) ==
    {In(Out(MoveToVault, <<"DepositInMove", k>>), 0),
     In(Out(Kickoff(k), <<"ReimburseInKickoff">>), 0),
     In(Out(NextRound, <<"ReimburseInRound", k>>), 0)}

(* create_round_txhandlers: what the operator signs for a round.  With its *)
(* own key it can spend the collateral otherwise too (OperatorExit).       *)
RoundInputSets(tx) ==
    CASE tx = ReadyToReimburse -> {ReadyToReimburseInputs}
      [] tx = OperatorExit -> {{In(CollateralInRound, 0)}, {In(CollateralInReadyToReimburse, 0)}}
      [] tx[1] = "UnspentKickoff" -> {UnspentKickoffInputs(tx[2])}
      [] tx[1] = "BurnUnusedKickoffConnectors" -> {BurnInputs(tx[2])}
      [] OTHER -> {}

(* create_txhandlers, first half: the kickoff, what the operator commits   *)
(* to on it, and the ways to settle it.                                    *)
KickoffInputSets(tx) ==
    CASE tx[1] = "Kickoff" -> {KickoffInputs(tx[2])}
      [] tx[1] = "MiniAssert" -> {MiniAssertInputs(tx[2], tx[3])}
      [] tx[1] = "LatestBlockhash" -> {LatestBlockhashInputs(tx[2])}
      [] tx[1] = "Challenge" -> {ChallengeInputs(tx[2])}
      [] tx[1] = "ChallengeTimeout" -> {ChallengeTimeoutInputs(tx[2])}
      [] tx[1] = "KickoffNotFinalized" -> {KickoffNotFinalizedInputs(tx[2])}
      [] tx[1] = "LatestBlockhashTimeout" -> {LatestBlockhashTimeoutInputs(tx[2])}
      [] OTHER -> {}

(* create_txhandlers, second half: watchtowers, asserts and their outcome. *)
ChallengeInputSets(tx) ==
    CASE tx[1] = "WatchtowerChallenge" -> {WatchtowerChallengeInputs(tx[2], tx[3])}
      [] tx[1] = "WatchtowerChallengeTimeout" -> {WatchtowerTimeoutInputs(tx[2], tx[3])}
      [] tx[1] = "OperatorChallengeNack" -> {NackInputs(tx[2], tx[3])}
      [] tx[1] = "OperatorChallengeAck" -> {AckInputs(tx[2], tx[3])}
      [] tx[1] = "AssertTimeout" -> {AssertTimeoutInputs(tx[2], tx[3])}
      [] tx[1] = "DisproveTimeout" -> {DisproveTimeoutInputs(tx[2])}
      [] tx[1] = "Reimburse" -> {ReimburseInputs(tx[2])}
      [] tx[1] = "Disprove" -> {DisproveInputs(tx[2])}
      [] OTHER -> {}

(* The sets of inputs with which tx can be built. *)
InputSets(tx) ==
    (IF tx = NextRound THEN {NextRoundInputs} ELSE {})
    \cup RoundInputSets(tx) \cup KickoffInputSets(tx) \cup ChallengeInputSets(tx)
=============================================================================
