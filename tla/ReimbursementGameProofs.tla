----------------------- MODULE ReimbursementGameProofs ------------------------
(***************************************************************************)
(* The game is safe for both sides: for any number of kickoffs,            *)
(* watchtowers and asserts, and any finality depth and timelocks that the  *)
(* assumption of the game allows.                                          *)
(***************************************************************************)
EXTENDS ReimbursementGame, Integers, TLAPS

-----------------------------------------------------------------------------
(* The chain. *)

(* The outputs of the inputs I were unspent, old enough, and are spent. *)
Taken(I) == \A in \in I : in.out \in spent /\ AgeAtLeast(in.out.tx, in.lock)

(* What is spent was spent by a mined transaction, and a mined transaction *)
(* has spent its inputs after their timelocks.                             *)
ChainInv ==
    /\ honest \in Sides
    /\ Round \in Mined
    /\ MoveToVault \in Mined
    /\ Mined \subseteq Txs
    /\ \A tx \in Mined : age[tx] \in Nat /\ age[tx] <= Cap(tx)
    /\ paid \subseteq Kickoffs
    /\ \A o \in spent : \E tx \in Mined : \E I \in InputSets(tx) : \E in \in I : in.out = o
    /\ \A tx \in Mined \ {Round, MoveToVault} : \E I \in InputSets(tx) : Taken(I)

(* tx is mined, and was so at the latest lock blocks after the kickoff of  *)
(* k, counted to n blocks.                                                 *)
Follows(tx, k, lock, n) ==
    /\ tx \in Mined
    /\ age[tx] >= n \/ age[tx] + lock >= age[Kickoff(k)]

(* The kickoff of k is mined since more than lock blocks. *)
Past(k, lock) == AgeAtLeast(Kickoff(k), lock + 1)

-----------------------------------------------------------------------------
(* The honest operator. *)

AckOut(k, w) == Out(Kickoff(k), <<"WatchtowerChallengeAck", w>>)

(* The operator kicks off what it paid and burns the rest; it acknowledges *)
(* only watchtower challenges, and ends the round when nothing is open.    *)
OperatorSent ==
    /\ \A k \in Kickoffs :
          /\ Kickoff(k) \in Mined => k \in paid
          /\ <<"BurnUnusedKickoffConnectors", k>> \in Mined => k \notin paid
    /\ \A k \in Kickoffs, w \in Watchtowers :
          <<"OperatorChallengeAck", k, w>> \in Mined => <<"WatchtowerChallenge", k, w>> \in Mined
    /\ ReadyToReimburse \in Mined => ReadyToEnd

(* A kickoff that is not settled meets every deadline. *)
MeetsDeadlines(k) ==
    /\ Past(k, ChallengeTimeoutLock) =>
          Follows(<<"Challenge", k>>, k, ChallengeTimeoutLock, 2 * F)
    /\ Past(k, WatchtowerTimeoutLock) =>
          \A w \in Watchtowers :
             \/ Follows(<<"WatchtowerChallenge", k, w>>, k, WatchtowerTimeoutLock, 2 * F)
             \/ Follows(<<"WatchtowerChallengeTimeout", k, w>>, k, WatchtowerTimeoutLock, 2 * F)
    /\ Past(k, WatchtowerTimeoutLock + F) => \A w \in Watchtowers : AckOut(k, w) \in spent
    /\ Past(k, WatchtowerTimeoutLock + 2 * F - 1) =>
          Follows(<<"LatestBlockhash", k>>, k, WatchtowerTimeoutLock + 2 * F - 1, F)
    /\ Past(k, WatchtowerTimeoutLock + 3 * F - 1) =>
          \A i \in Asserts : <<"MiniAssert", k, i>> \in Mined

OperatorInv ==
    honest = "operator" =>
        /\ ~Burned
        /\ OperatorSent
        /\ \A k \in Kickoffs :
              Kickoff(k) \in Mined /\ KickoffFinalizer(k) \notin spent => MeetsDeadlines(k)

-----------------------------------------------------------------------------
(* The honest verifiers. *)

(* The kickoffs that are seen are older than the end of the round. *)
SeenInv ==
    \A k \in seen :
        /\ k \in Kickoffs
        /\ Kickoff(k) \in Mined
        /\ ReadyToReimburse \in Mined =>
              \/ age[ReadyToReimburse] <= age[Kickoff(k)]
              \/ age[Kickoff(k)] = DisproveTimeoutLock

(* The operator cannot answer a watchtower twice. *)
WatchtowerInv ==
    \A k \in Kickoffs, w \in Watchtowers :
        ~ (/\ <<"WatchtowerChallenge", k, w>> \in Mined
           /\ <<"WatchtowerChallengeTimeout", k, w>> \in Mined)

(* The challenged kickoff k: every answer is forced in time, or the        *)
(* collateral is burned.                                                   *)
Forced(k) ==
    /\ Past(k, F) => Follows(<<"Challenge", k>>, k, F, F)
    /\ Past(k, 2 * F) =>
          \A w \in Watchtowers :
             \/ Follows(<<"WatchtowerChallenge", k, w>>, k, 2 * F, F)
             \/ Follows(<<"WatchtowerChallengeTimeout", k, w>>, k, 2 * F, F)
    /\ Past(k, NackLock) =>
          \A w \in Watchtowers :
             \/ Follows(<<"OperatorChallengeAck", k, w>>, k, NackLock, F)
             \/ <<"WatchtowerChallengeTimeout", k, w>> \in Mined
    /\ Past(k, BlockhashTimeoutLock) =>
          Follows(<<"LatestBlockhash", k>>, k, BlockhashTimeoutLock, F)
    /\ Past(k, AssertTimeoutLock) =>
          \A i \in Asserts : Follows(<<"MiniAssert", k, i>>, k, AssertTimeoutLock, F)

(* It cannot be settled: it is burned before its disprove timeout, and     *)
(* with the first block after the end of the round at the latest.          *)
Trapped(k) ==
    /\ <<"ChallengeTimeout", k>> \notin Mined
    /\ <<"DisproveTimeout", k>> \notin Mined
    /\ \/ ~Past(k, NackLock + F)
       \/ ~Past(k, BlockhashTimeoutLock + F)
       \/ ~Past(k, AssertTimeoutLock + F)
    /\ ReadyToReimburse \in Mined => ~Past(k, 2 * F) \/ age[ReadyToReimburse] = 0

(* The kickoff that is challenged is the oldest malicious one, and it is   *)
(* trapped until the next round.                                           *)
TargetInv ==
    /\ target = NoKickoff => \A k \in seen \ paid : age[Kickoff(k)] < F
    /\ target # NoKickoff => /\ target \in seen \ paid
                             /\ \A k \in seen \ paid : age[Kickoff(k)] <= age[Kickoff(target)]
                             /\ NextRound \notin Mined => Forced(target) /\ Trapped(target)

(* The verifiers have the time to see the end of the round.  The doc       *)
(* comment of operator_reimburse_timelock (two days) gives it, most of the *)
(* parameter sets do not.                                                  *)
LongReimburseLock == 2 * F < ReimburseLock

VerifierInv ==
    honest = "verifiers" =>
        /\ SeenInv
        /\ WatchtowerInv
        /\ TargetInv
        /\ LongReimburseLock /\ seen \ paid # {} => NextRound \notin Mined

GameInv == ChainInv /\ OperatorInv /\ VerifierInv

-----------------------------------------------------------------------------
(* What spends what. *)

(* The transactions, by their names. *)
LEMMA TxKinds ==
    ASSUME NEW tx \in Txs
    PROVE  \/ tx \in {Round, NextRound, ReadyToReimburse, OperatorExit, MoveToVault}
           \/ \E k \in Kickoffs :
                 tx \in {<<"Kickoff", k>>,
                        <<"UnspentKickoff", k>>,
                        <<"BurnUnusedKickoffConnectors", k>>,
                        <<"Challenge", k>>,
                        <<"ChallengeTimeout", k>>,
                        <<"KickoffNotFinalized", k>>,
                        <<"LatestBlockhash", k>>,
                        <<"LatestBlockhashTimeout", k>>,
                        <<"Disprove", k>>,
                        <<"DisproveTimeout", k>>,
                        <<"Reimburse", k>>}
           \/ \E k \in Kickoffs, w \in Watchtowers :
                 tx \in {<<"WatchtowerChallenge", k, w>>,
                        <<"WatchtowerChallengeTimeout", k, w>>,
                        <<"OperatorChallengeAck", k, w>>,
                        <<"OperatorChallengeNack", k, w>>}
           \/ \E k \in Kickoffs, i \in Asserts :
                 tx \in {<<"MiniAssert", k, i>>,
                        <<"AssertTimeout", k, i>>}
    BY DEF Txs, Of, OfEach

(* The inputs of each kind of transaction. *)
LEMMA RoundInputs ==
    /\ InputSets(Round) = {}
    /\ InputSets(MoveToVault) = {}
    /\ InputSets(NextRound) = {NextRoundInputs}
    /\ InputSets(ReadyToReimburse) = {ReadyToReimburseInputs}
    /\ InputSets(OperatorExit) =
          {{In(CollateralInRound, 0)}, {In(CollateralInReadyToReimburse, 0)}}
    BY DEF InputSets, RoundInputSets, KickoffInputSets, ChallengeInputSets, Round,
           MoveToVault, NextRound, ReadyToReimburse, OperatorExit

LEMMA InputsOf ==
    ASSUME NEW k
    PROVE  /\ InputSets(<<"Kickoff", k>>) = {KickoffInputs(k)}
           /\ InputSets(<<"UnspentKickoff", k>>) = {UnspentKickoffInputs(k)}
           /\ InputSets(<<"BurnUnusedKickoffConnectors", k>>) = {BurnInputs(k)}
           /\ InputSets(<<"Challenge", k>>) = {ChallengeInputs(k)}
           /\ InputSets(<<"ChallengeTimeout", k>>) = {ChallengeTimeoutInputs(k)}
           /\ InputSets(<<"KickoffNotFinalized", k>>) = {KickoffNotFinalizedInputs(k)}
           /\ InputSets(<<"LatestBlockhash", k>>) = {LatestBlockhashInputs(k)}
           /\ InputSets(<<"LatestBlockhashTimeout", k>>) = {LatestBlockhashTimeoutInputs(k)}
           /\ InputSets(<<"Disprove", k>>) = {DisproveInputs(k)}
           /\ InputSets(<<"DisproveTimeout", k>>) = {DisproveTimeoutInputs(k)}
           /\ InputSets(<<"Reimburse", k>>) = {ReimburseInputs(k)}
    BY DEF InputSets, RoundInputSets, KickoffInputSets, ChallengeInputSets, NextRound,
           ReadyToReimburse, OperatorExit

LEMMA InputsOfEach ==
    ASSUME NEW k, NEW i
    PROVE  /\ InputSets(<<"WatchtowerChallenge", k, i>>) = {WatchtowerChallengeInputs(k, i)}
           /\ InputSets(<<"WatchtowerChallengeTimeout", k, i>>) = {WatchtowerTimeoutInputs(k, i)}
           /\ InputSets(<<"OperatorChallengeAck", k, i>>) = {AckInputs(k, i)}
           /\ InputSets(<<"OperatorChallengeNack", k, i>>) = {NackInputs(k, i)}
           /\ InputSets(<<"MiniAssert", k, i>>) = {MiniAssertInputs(k, i)}
           /\ InputSets(<<"AssertTimeout", k, i>>) = {AssertTimeoutInputs(k, i)}
    BY DEF InputSets, RoundInputSets, KickoffInputSets, ChallengeInputSets, NextRound,
           ReadyToReimburse, OperatorExit
(* tx spends the output o. *)
Spends(tx, o) == \E I \in InputSets(tx) : \E in \in I : in.out = o

(* The transactions that take the collateral from the operator. *)
Burns(tx) ==
    tx[1] \in {"UnspentKickoff", "KickoffNotFinalized", "OperatorChallengeNack",
               "LatestBlockhashTimeout", "AssertTimeout", "Disprove"}

(* The outputs that each kind of transaction spends. *)
LEMMA RoundSpends ==
    ASSUME NEW o
    PROVE  /\ ~Spends(Round, o)
           /\ ~Spends(MoveToVault, o)
           /\ Spends(NextRound, o) => o = CollateralInReadyToReimburse
           /\ Spends(ReadyToReimburse, o) => o = CollateralInRound
           /\ Spends(OperatorExit, o) => o \in {CollateralInRound, CollateralInReadyToReimburse}
    BY RoundInputs DEF Spends, NextRoundInputs, ReadyToReimburseInputs, In

LEMMA SpendsOf ==
    ASSUME NEW k, NEW o
    PROVE  /\ Spends(<<"Kickoff", k>>, o) => o = KickoffOut(k)
           /\ Spends(<<"UnspentKickoff", k>>, o) =>
                 o \in {CollateralInReadyToReimburse, KickoffOut(k)}
           /\ Spends(<<"BurnUnusedKickoffConnectors", k>>, o) => o = KickoffOut(k)
           /\ Spends(<<"Challenge", k>>, o) => o = Out(Kickoff(k), <<"Challenge">>)
           /\ Spends(<<"ChallengeTimeout", k>>, o) =>
                 o \in {Out(Kickoff(k), <<"Challenge">>), KickoffFinalizer(k)}
           /\ Spends(<<"KickoffNotFinalized", k>>, o) =>
                 o \in {KickoffFinalizer(k), CollateralInReadyToReimburse}
           /\ Spends(<<"LatestBlockhash", k>>, o) => o = Out(Kickoff(k), <<"LatestBlockhash">>)
           /\ Spends(<<"LatestBlockhashTimeout", k>>, o) =>
                 o \in {Out(Kickoff(k), <<"LatestBlockhash">>), KickoffFinalizer(k), CollateralInRound}
           /\ Spends(<<"Disprove", k>>, o) =>
                 o \in {Out(Kickoff(k), <<"Disprove">>), CollateralInRound}
           /\ Spends(<<"DisproveTimeout", k>>, o) =>
                 o \in {Out(Kickoff(k), <<"Disprove">>), KickoffFinalizer(k)}
           /\ Spends(<<"Reimburse", k>>, o) =>
                 o \in {Out(MoveToVault, <<"DepositInMove", k>>),
                        Out(Kickoff(k), <<"ReimburseInKickoff">>),
                        Out(NextRound, <<"ReimburseInRound", k>>)}
    <1>1. Spends(<<"Kickoff", k>>, o) => o = KickoffOut(k)
      <2>1. InputSets(<<"Kickoff", k>>) = {KickoffInputs(k)}
            BY InputsOf, Zenon
      <2> QED  BY <2>1 DEF Spends, KickoffInputs, In
    <1>2. Spends(<<"UnspentKickoff", k>>, o) =>
               o \in {CollateralInReadyToReimburse, KickoffOut(k)}
      <2>1. InputSets(<<"UnspentKickoff", k>>) = {UnspentKickoffInputs(k)}
            BY InputsOf, Zenon
      <2> QED  BY <2>1 DEF Spends, UnspentKickoffInputs, In
    <1>3. Spends(<<"BurnUnusedKickoffConnectors", k>>, o) => o = KickoffOut(k)
      <2>1. InputSets(<<"BurnUnusedKickoffConnectors", k>>) = {BurnInputs(k)}
            BY InputsOf, Zenon
      <2> QED  BY <2>1 DEF Spends, BurnInputs, In
    <1>4. Spends(<<"Challenge", k>>, o) => o = Out(Kickoff(k), <<"Challenge">>)
      <2>1. InputSets(<<"Challenge", k>>) = {ChallengeInputs(k)}
            BY InputsOf, Zenon
      <2> QED  BY <2>1 DEF Spends, ChallengeInputs, In
    <1>5. Spends(<<"ChallengeTimeout", k>>, o) =>
               o \in {Out(Kickoff(k), <<"Challenge">>), KickoffFinalizer(k)}
      <2>1. InputSets(<<"ChallengeTimeout", k>>) = {ChallengeTimeoutInputs(k)}
            BY InputsOf, Zenon
      <2> QED  BY <2>1 DEF Spends, ChallengeTimeoutInputs, In
    <1>6. Spends(<<"KickoffNotFinalized", k>>, o) =>
               o \in {KickoffFinalizer(k), CollateralInReadyToReimburse}
      <2>1. InputSets(<<"KickoffNotFinalized", k>>) = {KickoffNotFinalizedInputs(k)}
            BY InputsOf, Zenon
      <2> QED  BY <2>1 DEF Spends, KickoffNotFinalizedInputs, In
    <1>7. Spends(<<"LatestBlockhash", k>>, o) => o = Out(Kickoff(k), <<"LatestBlockhash">>)
      <2>1. InputSets(<<"LatestBlockhash", k>>) = {LatestBlockhashInputs(k)}
            BY InputsOf, Zenon
      <2> QED  BY <2>1 DEF Spends, LatestBlockhashInputs, In
    <1>8. Spends(<<"LatestBlockhashTimeout", k>>, o) =>
               o \in {Out(Kickoff(k), <<"LatestBlockhash">>), KickoffFinalizer(k), CollateralInRound}
      <2>1. InputSets(<<"LatestBlockhashTimeout", k>>) = {LatestBlockhashTimeoutInputs(k)}
            BY InputsOf, Zenon
      <2> QED  BY <2>1 DEF Spends, LatestBlockhashTimeoutInputs, In
    <1>9. Spends(<<"Disprove", k>>, o) =>
               o \in {Out(Kickoff(k), <<"Disprove">>), CollateralInRound}
      <2>1. InputSets(<<"Disprove", k>>) = {DisproveInputs(k)}
            BY InputsOf, Zenon
      <2> QED  BY <2>1 DEF Spends, DisproveInputs, In
    <1>10. Spends(<<"DisproveTimeout", k>>, o) =>
               o \in {Out(Kickoff(k), <<"Disprove">>), KickoffFinalizer(k)}
      <2>1. InputSets(<<"DisproveTimeout", k>>) = {DisproveTimeoutInputs(k)}
            BY InputsOf, Zenon
      <2> QED  BY <2>1 DEF Spends, DisproveTimeoutInputs, In
    <1>11. Spends(<<"Reimburse", k>>, o) =>
               o \in {Out(MoveToVault, <<"DepositInMove", k>>),
                  Out(Kickoff(k), <<"ReimburseInKickoff">>),
                  Out(NextRound, <<"ReimburseInRound", k>>)}
      <2>1. InputSets(<<"Reimburse", k>>) = {ReimburseInputs(k)}
            BY InputsOf, Zenon
      <2> QED  BY <2>1 DEF Spends, ReimburseInputs, In
    <1> QED  BY <1>1, <1>2, <1>3, <1>4, <1>5, <1>6, <1>7, <1>8, <1>9, <1>10, <1>11

LEMMA SpendsOfEach ==
    ASSUME NEW k, NEW i, NEW o
    PROVE  /\ Spends(<<"WatchtowerChallenge", k, i>>, o) =>
                 o = Out(Kickoff(k), <<"WatchtowerChallenge", i>>)
           /\ Spends(<<"WatchtowerChallengeTimeout", k, i>>, o) =>
                 o \in {Out(Kickoff(k), <<"WatchtowerChallenge", i>>), AckOut(k, i)}
           /\ Spends(<<"OperatorChallengeAck", k, i>>, o) => o = AckOut(k, i)
           /\ Spends(<<"OperatorChallengeNack", k, i>>, o) =>
                 o \in {AckOut(k, i), KickoffFinalizer(k), CollateralInRound}
           /\ Spends(<<"MiniAssert", k, i>>, o) => o = Out(Kickoff(k), <<"Assert", i>>)
           /\ Spends(<<"AssertTimeout", k, i>>, o) =>
                 o \in {Out(Kickoff(k), <<"Assert", i>>), KickoffFinalizer(k), CollateralInRound}
    <1>1. Spends(<<"WatchtowerChallenge", k, i>>, o) =>
               o = Out(Kickoff(k), <<"WatchtowerChallenge", i>>)
      <2>1. InputSets(<<"WatchtowerChallenge", k, i>>) = {WatchtowerChallengeInputs(k, i)}
            BY InputsOfEach, Zenon
      <2> QED  BY <2>1 DEF Spends, WatchtowerChallengeInputs, In
    <1>2. Spends(<<"WatchtowerChallengeTimeout", k, i>>, o) =>
               o \in {Out(Kickoff(k), <<"WatchtowerChallenge", i>>), AckOut(k, i)}
      <2>1. InputSets(<<"WatchtowerChallengeTimeout", k, i>>) = {WatchtowerTimeoutInputs(k, i)}
            BY InputsOfEach, Zenon
      <2> QED  BY <2>1 DEF Spends, WatchtowerTimeoutInputs, In, AckOut
    <1>3. Spends(<<"OperatorChallengeAck", k, i>>, o) => o = AckOut(k, i)
      <2>1. InputSets(<<"OperatorChallengeAck", k, i>>) = {AckInputs(k, i)}
            BY InputsOfEach, Zenon
      <2> QED  BY <2>1 DEF Spends, AckInputs, In, AckOut
    <1>4. Spends(<<"OperatorChallengeNack", k, i>>, o) =>
               o \in {AckOut(k, i), KickoffFinalizer(k), CollateralInRound}
      <2>1. InputSets(<<"OperatorChallengeNack", k, i>>) = {NackInputs(k, i)}
            BY InputsOfEach, Zenon
      <2> QED  BY <2>1 DEF Spends, NackInputs, In, AckOut
    <1>5. Spends(<<"MiniAssert", k, i>>, o) => o = Out(Kickoff(k), <<"Assert", i>>)
      <2>1. InputSets(<<"MiniAssert", k, i>>) = {MiniAssertInputs(k, i)}
            BY InputsOfEach, Zenon
      <2> QED  BY <2>1 DEF Spends, MiniAssertInputs, In
    <1>6. Spends(<<"AssertTimeout", k, i>>, o) =>
               o \in {Out(Kickoff(k), <<"Assert", i>>), KickoffFinalizer(k), CollateralInRound}
      <2>1. InputSets(<<"AssertTimeout", k, i>>) = {AssertTimeoutInputs(k, i)}
            BY InputsOfEach, Zenon
      <2> QED  BY <2>1 DEF Spends, AssertTimeoutInputs, In
    <1> QED  BY <1>1, <1>2, <1>3, <1>4, <1>5, <1>6
(* Each output is spent by the transactions that are made for it. *)
SpentAsStated(tx, k, i) ==
    /\ Spends(tx, Out(Kickoff(k), <<"Challenge">>)) =>
          tx \in {<<"Challenge", k>>, <<"ChallengeTimeout", k>>}
    /\ Spends(tx, Out(Kickoff(k), <<"LatestBlockhash">>)) =>
          tx \in {<<"LatestBlockhash", k>>, <<"LatestBlockhashTimeout", k>>}
    /\ Spends(tx, Out(Kickoff(k), <<"Disprove">>)) =>
          tx \in {<<"Disprove", k>>, <<"DisproveTimeout", k>>}
    /\ Spends(tx, Out(Kickoff(k), <<"WatchtowerChallenge", i>>)) =>
          tx \in {<<"WatchtowerChallenge", k, i>>, <<"WatchtowerChallengeTimeout", k, i>>}
    /\ Spends(tx, AckOut(k, i)) =>
          tx \in {<<"WatchtowerChallengeTimeout", k, i>>, <<"OperatorChallengeAck", k, i>>,
                  <<"OperatorChallengeNack", k, i>>}
    /\ Spends(tx, Out(Kickoff(k), <<"Assert", i>>)) =>
          tx \in {<<"MiniAssert", k, i>>, <<"AssertTimeout", k, i>>}
    /\ Spends(tx, KickoffFinalizer(k)) =>
          tx \in {<<"ChallengeTimeout", k>>, <<"DisproveTimeout", k>>} \/ Burns(tx)
    /\ Spends(tx, CollateralInRound) =>
          tx \in {ReadyToReimburse, OperatorExit} \/ Burns(tx)
    /\ Spends(tx, CollateralInReadyToReimburse) =>
          tx \in {NextRound, OperatorExit} \/ Burns(tx)

LEMMA Spenders ==
    ASSUME NEW tx \in Txs, NEW k \in Kickoffs, NEW i
    PROVE  SpentAsStated(tx, k, i)
    <1>1. CASE tx \in {Round, NextRound, ReadyToReimburse, OperatorExit, MoveToVault}
          BY <1>1, RoundSpends DEF SpentAsStated, Out, Kickoff, AckOut, KickoffFinalizer,
             CollateralInRound, CollateralInReadyToReimburse
    <1>2. ASSUME NEW j \in Kickoffs, tx = <<"Kickoff", j>>
          PROVE  SpentAsStated(tx, k, i)
      <2>1. \A o : Spends(tx, o) => o \in {KickoffOut(j)}
            BY <1>2, SpendsOf
      <2> QED  BY <2>1, <1>2 DEF SpentAsStated, Burns, Out, Kickoff,
               KickoffOut, AckOut, KickoffFinalizer, CollateralInRound, CollateralInReadyToReimburse
    <1>3. ASSUME NEW j \in Kickoffs, tx = <<"UnspentKickoff", j>>
          PROVE  SpentAsStated(tx, k, i)
      <2>1. \A o : Spends(tx, o) => o \in {CollateralInReadyToReimburse, KickoffOut(j)}
            BY <1>3, SpendsOf
      <2> QED  BY <2>1, <1>3 DEF SpentAsStated, Burns, Out, Kickoff,
               KickoffOut, AckOut, KickoffFinalizer, CollateralInRound, CollateralInReadyToReimburse
    <1>4. ASSUME NEW j \in Kickoffs, tx = <<"BurnUnusedKickoffConnectors", j>>
          PROVE  SpentAsStated(tx, k, i)
      <2>1. \A o : Spends(tx, o) => o \in {KickoffOut(j)}
            BY <1>4, SpendsOf
      <2> QED  BY <2>1, <1>4 DEF SpentAsStated, Burns, Out, Kickoff,
               KickoffOut, AckOut, KickoffFinalizer, CollateralInRound, CollateralInReadyToReimburse
    <1>5. ASSUME NEW j \in Kickoffs, tx = <<"Challenge", j>>
          PROVE  SpentAsStated(tx, k, i)
      <2>1. \A o : Spends(tx, o) => o \in {Out(Kickoff(j), <<"Challenge">>)}
            BY <1>5, SpendsOf
      <2> QED  BY <2>1, <1>5 DEF SpentAsStated, Burns, Out, Kickoff,
               KickoffOut, AckOut, KickoffFinalizer, CollateralInRound, CollateralInReadyToReimburse
    <1>6. ASSUME NEW j \in Kickoffs, tx = <<"ChallengeTimeout", j>>
          PROVE  SpentAsStated(tx, k, i)
      <2>1. \A o : Spends(tx, o) => o \in {Out(Kickoff(j), <<"Challenge">>), KickoffFinalizer(j)}
            BY <1>6, SpendsOf
      <2> QED  BY <2>1, <1>6 DEF SpentAsStated, Burns, Out, Kickoff,
               KickoffOut, AckOut, KickoffFinalizer, CollateralInRound, CollateralInReadyToReimburse
    <1>7. ASSUME NEW j \in Kickoffs, tx = <<"KickoffNotFinalized", j>>
          PROVE  SpentAsStated(tx, k, i)
      <2>1. \A o : Spends(tx, o) => o \in {KickoffFinalizer(j), CollateralInReadyToReimburse}
            BY <1>7, SpendsOf
      <2> QED  BY <2>1, <1>7 DEF SpentAsStated, Burns, Out, Kickoff,
               KickoffOut, AckOut, KickoffFinalizer, CollateralInRound, CollateralInReadyToReimburse
    <1>8. ASSUME NEW j \in Kickoffs, tx = <<"LatestBlockhash", j>>
          PROVE  SpentAsStated(tx, k, i)
      <2>1. \A o : Spends(tx, o) => o \in {Out(Kickoff(j), <<"LatestBlockhash">>)}
            BY <1>8, SpendsOf
      <2> QED  BY <2>1, <1>8 DEF SpentAsStated, Burns, Out, Kickoff,
               KickoffOut, AckOut, KickoffFinalizer, CollateralInRound, CollateralInReadyToReimburse
    <1>9. ASSUME NEW j \in Kickoffs, tx = <<"LatestBlockhashTimeout", j>>
          PROVE  SpentAsStated(tx, k, i)
      <2>1. \A o : Spends(tx, o) => o \in {Out(Kickoff(j), <<"LatestBlockhash">>), KickoffFinalizer(j), CollateralInRound}
            BY <1>9, SpendsOf
      <2> QED  BY <2>1, <1>9 DEF SpentAsStated, Burns, Out, Kickoff,
               KickoffOut, AckOut, KickoffFinalizer, CollateralInRound, CollateralInReadyToReimburse
    <1>10. ASSUME NEW j \in Kickoffs, tx = <<"Disprove", j>>
          PROVE  SpentAsStated(tx, k, i)
      <2>1. \A o : Spends(tx, o) => o \in {Out(Kickoff(j), <<"Disprove">>), CollateralInRound}
            BY <1>10, SpendsOf
      <2> QED  BY <2>1, <1>10 DEF SpentAsStated, Burns, Out, Kickoff,
               KickoffOut, AckOut, KickoffFinalizer, CollateralInRound, CollateralInReadyToReimburse
    <1>11. ASSUME NEW j \in Kickoffs, tx = <<"DisproveTimeout", j>>
          PROVE  SpentAsStated(tx, k, i)
      <2>1. \A o : Spends(tx, o) => o \in {Out(Kickoff(j), <<"Disprove">>), KickoffFinalizer(j)}
            BY <1>11, SpendsOf
      <2> QED  BY <2>1, <1>11 DEF SpentAsStated, Burns, Out, Kickoff,
               KickoffOut, AckOut, KickoffFinalizer, CollateralInRound, CollateralInReadyToReimburse
    <1>12. ASSUME NEW j \in Kickoffs, tx = <<"Reimburse", j>>
          PROVE  SpentAsStated(tx, k, i)
      <2>1. \A o : Spends(tx, o) => o \in {Out(MoveToVault, <<"DepositInMove", j>>), Out(Kickoff(j), <<"ReimburseInKickoff">>), Out(NextRound, <<"ReimburseInRound", j>>)}
            BY <1>12, SpendsOf
      <2> QED  BY <2>1, <1>12 DEF SpentAsStated, Burns, Out, Kickoff,
               KickoffOut, AckOut, KickoffFinalizer, CollateralInRound, CollateralInReadyToReimburse
    <1>13. ASSUME NEW j \in Kickoffs, NEW x, tx = <<"WatchtowerChallenge", j, x>>
          PROVE  SpentAsStated(tx, k, i)
      <2>1. \A o : Spends(tx, o) => o \in {Out(Kickoff(j), <<"WatchtowerChallenge", x>>)}
            BY <1>13, SpendsOfEach
      <2> QED  BY <2>1, <1>13 DEF SpentAsStated, Burns, Out, Kickoff,
               KickoffOut, AckOut, KickoffFinalizer, CollateralInRound, CollateralInReadyToReimburse
    <1>14. ASSUME NEW j \in Kickoffs, NEW x, tx = <<"WatchtowerChallengeTimeout", j, x>>
          PROVE  SpentAsStated(tx, k, i)
      <2>1. \A o : Spends(tx, o) => o \in {Out(Kickoff(j), <<"WatchtowerChallenge", x>>), AckOut(j, x)}
            BY <1>14, SpendsOfEach
      <2> QED  BY <2>1, <1>14 DEF SpentAsStated, Burns, Out, Kickoff,
               KickoffOut, AckOut, KickoffFinalizer, CollateralInRound, CollateralInReadyToReimburse
    <1>15. ASSUME NEW j \in Kickoffs, NEW x, tx = <<"OperatorChallengeAck", j, x>>
          PROVE  SpentAsStated(tx, k, i)
      <2>1. \A o : Spends(tx, o) => o \in {AckOut(j, x)}
            BY <1>15, SpendsOfEach
      <2> QED  BY <2>1, <1>15 DEF SpentAsStated, Burns, Out, Kickoff,
               KickoffOut, AckOut, KickoffFinalizer, CollateralInRound, CollateralInReadyToReimburse
    <1>16. ASSUME NEW j \in Kickoffs, NEW x, tx = <<"OperatorChallengeNack", j, x>>
          PROVE  SpentAsStated(tx, k, i)
      <2>1. \A o : Spends(tx, o) => o \in {AckOut(j, x), KickoffFinalizer(j), CollateralInRound}
            BY <1>16, SpendsOfEach
      <2> QED  BY <2>1, <1>16 DEF SpentAsStated, Burns, Out, Kickoff,
               KickoffOut, AckOut, KickoffFinalizer, CollateralInRound, CollateralInReadyToReimburse
    <1>17. ASSUME NEW j \in Kickoffs, NEW x, tx = <<"MiniAssert", j, x>>
          PROVE  SpentAsStated(tx, k, i)
      <2>1. \A o : Spends(tx, o) => o \in {Out(Kickoff(j), <<"Assert", x>>)}
            BY <1>17, SpendsOfEach
      <2> QED  BY <2>1, <1>17 DEF SpentAsStated, Burns, Out, Kickoff,
               KickoffOut, AckOut, KickoffFinalizer, CollateralInRound, CollateralInReadyToReimburse
    <1>18. ASSUME NEW j \in Kickoffs, NEW x, tx = <<"AssertTimeout", j, x>>
          PROVE  SpentAsStated(tx, k, i)
      <2>1. \A o : Spends(tx, o) => o \in {Out(Kickoff(j), <<"Assert", x>>), KickoffFinalizer(j), CollateralInRound}
            BY <1>18, SpendsOfEach
      <2> QED  BY <2>1, <1>18 DEF SpentAsStated, Burns, Out, Kickoff,
               KickoffOut, AckOut, KickoffFinalizer, CollateralInRound, CollateralInReadyToReimburse
    <1> QED  BY <1>1, <1>2, <1>3, <1>4, <1>5, <1>6, <1>7, <1>8, <1>9, <1>10, <1>11, <1>12, <1>13, <1>14, <1>15, <1>16, <1>17, <1>18, TxKinds
(* The timelocks are numbers of blocks. *)
LEMMA Locks ==
    /\ ChallengeTimeoutLock \in Nat /\ WatchtowerTimeoutLock \in Nat
    /\ BlockhashTimeoutLock \in Nat /\ NackLock \in Nat /\ AssertTimeoutLock \in Nat
    /\ DisproveTimeoutLock \in Nat /\ ReimburseLock \in Nat
    /\ F \in Nat /\ F >= 1
    BY TimelockAssumption, GameAssumption

LEMMA InputLocks ==
    ASSUME NEW tx \in Txs, NEW I \in InputSets(tx), NEW in \in I
    PROVE  in.lock \in Nat
    <1> USE Locks DEF In
    <1>1. CASE tx \in {Round, NextRound, ReadyToReimburse, OperatorExit, MoveToVault}
          BY <1>1, RoundInputs DEF NextRoundInputs, ReadyToReimburseInputs
    <1>2. ASSUME NEW k, tx = <<"Kickoff", k>>
          PROVE  in.lock \in Nat
      <2>1. InputSets(tx) = {KickoffInputs(k)}
            BY <1>2, InputsOf, Zenon
      <2> QED  BY <2>1 DEF KickoffInputs
    <1>3. ASSUME NEW k, tx = <<"UnspentKickoff", k>>
          PROVE  in.lock \in Nat
      <2>1. InputSets(tx) = {UnspentKickoffInputs(k)}
            BY <1>3, InputsOf, Zenon
      <2> QED  BY <2>1 DEF UnspentKickoffInputs
    <1>4. ASSUME NEW k, tx = <<"BurnUnusedKickoffConnectors", k>>
          PROVE  in.lock \in Nat
      <2>1. InputSets(tx) = {BurnInputs(k)}
            BY <1>4, InputsOf, Zenon
      <2> QED  BY <2>1 DEF BurnInputs
    <1>5. ASSUME NEW k, tx = <<"Challenge", k>>
          PROVE  in.lock \in Nat
      <2>1. InputSets(tx) = {ChallengeInputs(k)}
            BY <1>5, InputsOf, Zenon
      <2> QED  BY <2>1 DEF ChallengeInputs
    <1>6. ASSUME NEW k, tx = <<"ChallengeTimeout", k>>
          PROVE  in.lock \in Nat
      <2>1. InputSets(tx) = {ChallengeTimeoutInputs(k)}
            BY <1>6, InputsOf, Zenon
      <2> QED  BY <2>1 DEF ChallengeTimeoutInputs
    <1>7. ASSUME NEW k, tx = <<"KickoffNotFinalized", k>>
          PROVE  in.lock \in Nat
      <2>1. InputSets(tx) = {KickoffNotFinalizedInputs(k)}
            BY <1>7, InputsOf, Zenon
      <2> QED  BY <2>1 DEF KickoffNotFinalizedInputs
    <1>8. ASSUME NEW k, tx = <<"LatestBlockhash", k>>
          PROVE  in.lock \in Nat
      <2>1. InputSets(tx) = {LatestBlockhashInputs(k)}
            BY <1>8, InputsOf, Zenon
      <2> QED  BY <2>1 DEF LatestBlockhashInputs
    <1>9. ASSUME NEW k, tx = <<"LatestBlockhashTimeout", k>>
          PROVE  in.lock \in Nat
      <2>1. InputSets(tx) = {LatestBlockhashTimeoutInputs(k)}
            BY <1>9, InputsOf, Zenon
      <2> QED  BY <2>1 DEF LatestBlockhashTimeoutInputs
    <1>10. ASSUME NEW k, tx = <<"Disprove", k>>
          PROVE  in.lock \in Nat
      <2>1. InputSets(tx) = {DisproveInputs(k)}
            BY <1>10, InputsOf, Zenon
      <2> QED  BY <2>1 DEF DisproveInputs
    <1>11. ASSUME NEW k, tx = <<"DisproveTimeout", k>>
          PROVE  in.lock \in Nat
      <2>1. InputSets(tx) = {DisproveTimeoutInputs(k)}
            BY <1>11, InputsOf, Zenon
      <2> QED  BY <2>1 DEF DisproveTimeoutInputs
    <1>12. ASSUME NEW k, tx = <<"Reimburse", k>>
          PROVE  in.lock \in Nat
      <2>1. InputSets(tx) = {ReimburseInputs(k)}
            BY <1>12, InputsOf, Zenon
      <2> QED  BY <2>1 DEF ReimburseInputs
    <1>13. ASSUME NEW k, NEW i, tx = <<"WatchtowerChallenge", k, i>>
          PROVE  in.lock \in Nat
      <2>1. InputSets(tx) = {WatchtowerChallengeInputs(k, i)}
            BY <1>13, InputsOfEach, Zenon
      <2> QED  BY <2>1 DEF WatchtowerChallengeInputs
    <1>14. ASSUME NEW k, NEW i, tx = <<"WatchtowerChallengeTimeout", k, i>>
          PROVE  in.lock \in Nat
      <2>1. InputSets(tx) = {WatchtowerTimeoutInputs(k, i)}
            BY <1>14, InputsOfEach, Zenon
      <2> QED  BY <2>1 DEF WatchtowerTimeoutInputs
    <1>15. ASSUME NEW k, NEW i, tx = <<"OperatorChallengeAck", k, i>>
          PROVE  in.lock \in Nat
      <2>1. InputSets(tx) = {AckInputs(k, i)}
            BY <1>15, InputsOfEach, Zenon
      <2> QED  BY <2>1 DEF AckInputs
    <1>16. ASSUME NEW k, NEW i, tx = <<"OperatorChallengeNack", k, i>>
          PROVE  in.lock \in Nat
      <2>1. InputSets(tx) = {NackInputs(k, i)}
            BY <1>16, InputsOfEach, Zenon
      <2> QED  BY <2>1 DEF NackInputs
    <1>17. ASSUME NEW k, NEW i, tx = <<"MiniAssert", k, i>>
          PROVE  in.lock \in Nat
      <2>1. InputSets(tx) = {MiniAssertInputs(k, i)}
            BY <1>17, InputsOfEach, Zenon
      <2> QED  BY <2>1 DEF MiniAssertInputs
    <1>18. ASSUME NEW k, NEW i, tx = <<"AssertTimeout", k, i>>
          PROVE  in.lock \in Nat
      <2>1. InputSets(tx) = {AssertTimeoutInputs(k, i)}
            BY <1>18, InputsOfEach, Zenon
      <2> QED  BY <2>1 DEF AssertTimeoutInputs
    <1> QED  BY <1>1, <1>2, <1>3, <1>4, <1>5, <1>6, <1>7, <1>8, <1>9, <1>10, <1>11, <1>12, <1>13, <1>14, <1>15, <1>16, <1>17, <1>18, TxKinds

-----------------------------------------------------------------------------
(* What a step does to the chain. *)

LEMMA CapType ==
    ASSUME NEW tx
    PROVE  Cap(tx) \in Nat
    BY Locks DEF Cap

LEMMA CapStays ==
    ASSUME NEW tx, honest' = honest
    PROVE  Cap(tx)' = Cap(tx)
    BY DEF Cap

(* Mined transactions stay, get older, and what is spent stays spent. *)
Grows ==
    /\ Mined \subseteq Mined'
    /\ \A tx \in Mined : age'[tx] \in Nat /\ age'[tx] >= age[tx]
    /\ spent \subseteq spent'
    /\ honest' = honest
    /\ paid' = paid

LEMMA MineStep ==
    ASSUME NEW tx, Mine(tx)
    PROVE  /\ tx \in MayMine
           /\ ~Over
           /\ tx \notin Mined
           /\ Mined' = Mined \cup {tx}
           /\ age'[tx] = 0
           /\ \A x \in Mined : age'[x] = age[x]
           /\ honest' = honest
           /\ paid' = paid
           /\ target' = target
           /\ \E I \in InputSets(tx) : Valid(tx, I) /\ spent' = spent \cup {in.out : in \in I}
    BY DEF Mine, Mined, Valid

LEMMA BlockStep ==
    ASSUME NextBlock
    PROVE  /\ ~Over
           /\ Mined' = Mined
           /\ \A x \in Mined : age'[x] = IF age[x] < Cap(x) THEN age[x] + 1 ELSE age[x]
           /\ UNCHANGED <<spent, honest, paid, used, seen>>
    BY DEF NextBlock, Mined

LEMMA StepGrows ==
    ASSUME ChainInv, [Next]_vars
    PROVE  Grows
    <1>1. CASE NextBlock
          BY <1>1, BlockStep DEF Grows, ChainInv
    <1>2. ASSUME NEW tx \in Txs, Mine(tx)
          PROVE  Grows
          BY <1>2, MineStep DEF Grows, ChainInv
    <1>3. CASE UNCHANGED vars
          BY <1>3 DEF Grows, ChainInv, vars, Mined
    <1> QED  BY <1>1, <1>2, <1>3 DEF Next

LEMMA AgeStays ==
    ASSUME ChainInv, Grows, NEW tx, NEW n \in Int, AgeAtLeast(tx, n)
    PROVE  AgeAtLeast(tx, n)'
    BY DEF ChainInv, Grows, AgeAtLeast

LEMMA TakenStays ==
    ASSUME ChainInv, Grows, NEW tx \in Txs, NEW I \in InputSets(tx), Taken(I)
    PROVE  Taken(I)'
    <1> SUFFICES ASSUME NEW in \in I
                 PROVE  in.out \in spent' /\ AgeAtLeast(in.out.tx, in.lock)'
        BY DEF Taken
    <1>1. in.lock \in Int
          BY InputLocks
    <1>2. in.out \in spent /\ AgeAtLeast(in.out.tx, in.lock)
          BY DEF Taken
    <1>3. AgeAtLeast(in.out.tx, in.lock)'
          BY <1>1, <1>2, AgeStays
    <1> QED  BY <1>2, <1>3 DEF Grows

LEMMA ChainInit ==
    ASSUME Init
    PROVE  ChainInv
    BY Locks DEF Init, ChainInv, Mined, Txs, Round, MoveToVault, Cap

LEMMA ChainStep ==
    ASSUME ChainInv, [Next]_vars
    PROVE  ChainInv'
    <1>1. Grows
          BY StepGrows
    <1>2. /\ (honest \in Sides)'
          /\ (Round \in Mined)'
          /\ (MoveToVault \in Mined)'
          /\ (paid \subseteq Kickoffs)'
          BY <1>1 DEF Grows, ChainInv
    <1>3. \A x \in Mined \ {Round, MoveToVault} : \E I \in InputSets(x) : Taken(I)'
      <2> SUFFICES ASSUME NEW x \in Mined, x \notin {Round, MoveToVault}
                   PROVE  \E I \in InputSets(x) : Taken(I)'
          OBVIOUS
      <2>1. PICK I \in InputSets(x) : Taken(I)
            BY DEF ChainInv
      <2>2. x \in Txs
            BY DEF ChainInv
      <2> QED  BY <1>1, <2>1, <2>2, TakenStays
    <1>4. CASE NextBlock
      <2>1. /\ Mined' = Mined
            /\ spent' = spent
            BY <1>4, BlockStep
      <2>2. ASSUME NEW x \in Mined'
            PROVE  age'[x] \in Nat /\ age'[x] <= Cap(x)'
        <3>1. age'[x] = IF age[x] < Cap(x) THEN age[x] + 1 ELSE age[x]
              BY <1>4, <2>1, BlockStep
        <3>2. Cap(x)' = Cap(x) /\ Cap(x) \in Nat
              BY <1>1, CapStays, CapType DEF Grows
        <3> QED  BY <2>1, <3>1, <3>2 DEF ChainInv
      <2> QED  BY <1>2, <1>3, <2>1, <2>2 DEF ChainInv
    <1>5. ASSUME NEW tx \in Txs, Mine(tx)
          PROVE  ChainInv'
      <2>1. Mined' = Mined \cup {tx} /\ age'[tx] = 0 /\ \A x \in Mined : age'[x] = age[x]
            BY <1>5, MineStep
      <2>2. PICK I \in InputSets(tx) : Valid(tx, I) /\ spent' = spent \cup {in.out : in \in I}
            BY <1>5, MineStep
      <2>3. Taken(I)'
        <3> SUFFICES ASSUME NEW in \in I
                     PROVE  in.out \in spent' /\ AgeAtLeast(in.out.tx, in.lock)'
            BY DEF Taken
        <3>1. in.lock \in Int
              BY InputLocks
        <3>2. AgeAtLeast(in.out.tx, in.lock)
              BY <2>2 DEF Valid
        <3>3. AgeAtLeast(in.out.tx, in.lock)'
              BY <1>1, <3>1, <3>2, AgeStays
        <3> QED  BY <2>2, <3>3
      <2>4. \A x \in Mined' : age'[x] \in Nat /\ age'[x] <= Cap(x)'
        <3> SUFFICES ASSUME NEW x \in Mined'
                     PROVE  age'[x] \in Nat /\ age'[x] <= Cap(x)'
            OBVIOUS
        <3>1. Cap(x)' = Cap(x) /\ Cap(x) \in Nat
              BY <1>1, CapStays, CapType DEF Grows
        <3> QED  BY <2>1, <3>1 DEF ChainInv
      <2>5. Mined' \subseteq Txs
            BY <2>1 DEF ChainInv
      <2>6. \A o \in spent' : \E x \in Mined' : \E J \in InputSets(x) : \E in \in J : in.out = o
        <3> SUFFICES ASSUME NEW o \in spent'
                     PROVE  \E x \in Mined' : \E J \in InputSets(x) : \E in \in J : in.out = o
            OBVIOUS
        <3>1. CASE o \in spent
              BY <2>1, <3>1 DEF ChainInv
        <3>2. CASE \E in \in I : in.out = o
              BY <2>1, <3>2
        <3> QED  BY <2>2, <3>1, <3>2
      <2>7. \A x \in Mined' \ {Round, MoveToVault} : \E J \in InputSets(x) : Taken(J)'
            BY <1>3, <2>1, <2>3
      <2> QED  BY <1>2, <2>4, <2>5, <2>6, <2>7 DEF ChainInv
    <1>6. CASE UNCHANGED vars
          BY <1>6 DEF ChainInv, vars, Mined, Cap, Taken, AgeAtLeast
    <1> QED  BY <1>4, <1>5, <1>6 DEF Next
-----------------------------------------------------------------------------
(* What the state of an output says of the transactions that spend it. *)

LEMMA SpenderMined ==
    ASSUME ChainInv, NEW o \in spent
    PROVE  \E tx \in Mined : tx \in Txs /\ Spends(tx, o)
    BY DEF ChainInv, Spends

LEMMA BurnedBy ==
    Burned <=> \E tx \in Mined : Burns(tx)
    BY DEF Burned, Burns

LEMMA ChallengeSpent ==
    ASSUME ChainInv, NEW k \in Kickoffs, Out(Kickoff(k), <<"Challenge">>) \in spent
    PROVE  <<"Challenge", k>> \in Mined \/ <<"ChallengeTimeout", k>> \in Mined
    <1>1. PICK tx \in Mined : tx \in Txs /\ Spends(tx, Out(Kickoff(k), <<"Challenge">>))
          BY SpenderMined
    <1>2. SpentAsStated(tx, k, 0)
          BY <1>1, Spenders
    <1> QED  BY <1>1, <1>2, BurnedBy DEF SpentAsStated

LEMMA BlockhashSpent ==
    ASSUME ChainInv, NEW k \in Kickoffs, Out(Kickoff(k), <<"LatestBlockhash">>) \in spent
    PROVE  <<"LatestBlockhash", k>> \in Mined \/ Burned
    <1>1. PICK tx \in Mined : tx \in Txs /\ Spends(tx, Out(Kickoff(k), <<"LatestBlockhash">>))
          BY SpenderMined
    <1>2. SpentAsStated(tx, k, 0)
          BY <1>1, Spenders
    <1> QED  BY <1>1, <1>2, BurnedBy DEF SpentAsStated, Burns

LEMMA DisproveSpent ==
    ASSUME ChainInv, NEW k \in Kickoffs, Out(Kickoff(k), <<"Disprove">>) \in spent
    PROVE  <<"DisproveTimeout", k>> \in Mined \/ Burned
    <1>1. PICK tx \in Mined : tx \in Txs /\ Spends(tx, Out(Kickoff(k), <<"Disprove">>))
          BY SpenderMined
    <1>2. SpentAsStated(tx, k, 0)
          BY <1>1, Spenders
    <1> QED  BY <1>1, <1>2, BurnedBy DEF SpentAsStated, Burns

LEMMA WatchtowerSpent ==
    ASSUME ChainInv, NEW k \in Kickoffs, NEW i, Out(Kickoff(k), <<"WatchtowerChallenge", i>>) \in spent
    PROVE  \/ <<"WatchtowerChallenge", k, i>> \in Mined
           \/ <<"WatchtowerChallengeTimeout", k, i>> \in Mined
    <1>1. PICK tx \in Mined : tx \in Txs /\ Spends(tx, Out(Kickoff(k), <<"WatchtowerChallenge", i>>))
          BY SpenderMined
    <1>2. SpentAsStated(tx, k, i)
          BY <1>1, Spenders
    <1> QED  BY <1>1, <1>2, BurnedBy DEF SpentAsStated

LEMMA AckSpent ==
    ASSUME ChainInv, NEW k \in Kickoffs, NEW i, AckOut(k, i) \in spent
    PROVE  \/ <<"WatchtowerChallengeTimeout", k, i>> \in Mined
           \/ <<"OperatorChallengeAck", k, i>> \in Mined
           \/ Burned
    <1>1. PICK tx \in Mined : tx \in Txs /\ Spends(tx, AckOut(k, i))
          BY SpenderMined
    <1>2. SpentAsStated(tx, k, i)
          BY <1>1, Spenders
    <1> QED  BY <1>1, <1>2, BurnedBy DEF SpentAsStated, Burns

LEMMA AssertSpent ==
    ASSUME ChainInv, NEW k \in Kickoffs, NEW i, Out(Kickoff(k), <<"Assert", i>>) \in spent
    PROVE  <<"MiniAssert", k, i>> \in Mined \/ Burned
    <1>1. PICK tx \in Mined : tx \in Txs /\ Spends(tx, Out(Kickoff(k), <<"Assert", i>>))
          BY SpenderMined
    <1>2. SpentAsStated(tx, k, i)
          BY <1>1, Spenders
    <1> QED  BY <1>1, <1>2, BurnedBy DEF SpentAsStated, Burns

LEMMA FinalizerSpent ==
    ASSUME ChainInv, NEW k \in Kickoffs, KickoffFinalizer(k) \in spent
    PROVE  <<"ChallengeTimeout", k>> \in Mined \/ <<"DisproveTimeout", k>> \in Mined \/ Burned
    <1>1. PICK tx \in Mined : tx \in Txs /\ Spends(tx, KickoffFinalizer(k))
          BY SpenderMined
    <1>2. SpentAsStated(tx, k, 0)
          BY <1>1, Spenders
    <1> QED  BY <1>1, <1>2, BurnedBy DEF SpentAsStated, Burns

LEMMA RoundCollateralSpent ==
    ASSUME ChainInv, NEW k \in Kickoffs, CollateralInRound \in spent
    PROVE  ReadyToReimburse \in Mined \/ OperatorExit \in Mined \/ Burned
    <1>1. PICK tx \in Mined : tx \in Txs /\ Spends(tx, CollateralInRound)
          BY SpenderMined
    <1>2. SpentAsStated(tx, k, 0)
          BY <1>1, Spenders
    <1> QED  BY <1>1, <1>2, BurnedBy DEF SpentAsStated

LEMMA ReadyCollateralSpent ==
    ASSUME ChainInv, NEW k \in Kickoffs, CollateralInReadyToReimburse \in spent
    PROVE  NextRound \in Mined \/ OperatorExit \in Mined \/ Burned
    <1>1. PICK tx \in Mined : tx \in Txs /\ Spends(tx, CollateralInReadyToReimburse)
          BY SpenderMined
    <1>2. SpentAsStated(tx, k, 0)
          BY <1>1, Spenders
    <1> QED  BY <1>1, <1>2, BurnedBy DEF SpentAsStated

(* A mined transaction has spent its outputs, after their timelocks. *)
LEMMA NextRoundTook ==
    ASSUME ChainInv, NextRound \in Mined
    PROVE  /\ CollateralInReadyToReimburse \in spent
           /\ AgeAtLeast(ReadyToReimburse, ReimburseLock)
    <1>1. PICK I \in InputSets(NextRound) : Taken(I)
          BY DEF ChainInv, NextRound, Round, MoveToVault
    <1>2. InputSets(NextRound) = {NextRoundInputs}
          BY RoundInputs, Zenon
    <1>3. Taken(NextRoundInputs)
          BY <1>1, <1>2
    <1> QED  BY <1>3 DEF Taken, AgeAtLeast, NextRoundInputs, Out, In, Kickoff, CollateralInReadyToReimburse

LEMMA ReimburseTook ==
    ASSUME ChainInv, NEW k, <<"Reimburse", k>> \in Mined
    PROVE  /\ Out(MoveToVault, <<"DepositInMove", k>>) \in spent
           /\ Out(Kickoff(k), <<"ReimburseInKickoff">>) \in spent
           /\ Out(NextRound, <<"ReimburseInRound", k>>) \in spent
           /\ Kickoff(k) \in Mined
           /\ NextRound \in Mined
    <1>1. PICK I \in InputSets(<<"Reimburse", k>>) : Taken(I)
          BY DEF ChainInv, NextRound, Round, MoveToVault
    <1>2. InputSets(<<"Reimburse", k>>) = {ReimburseInputs(k)}
          BY InputsOf, Zenon
    <1>3. Taken(ReimburseInputs(k))
          BY <1>1, <1>2
    <1> QED  BY <1>3 DEF Taken, AgeAtLeast, ReimburseInputs, Out, In, Kickoff

LEMMA KickoffTook ==
    ASSUME ChainInv, NEW k, <<"Kickoff", k>> \in Mined
    PROVE  /\ KickoffOut(k) \in spent
    <1>1. PICK I \in InputSets(<<"Kickoff", k>>) : Taken(I)
          BY DEF ChainInv, NextRound, Round, MoveToVault
    <1>2. InputSets(<<"Kickoff", k>>) = {KickoffInputs(k)}
          BY InputsOf, Zenon
    <1>3. Taken(KickoffInputs(k))
          BY <1>1, <1>2
    <1> QED  BY <1>3 DEF Taken, AgeAtLeast, KickoffInputs, Out, In, Kickoff, KickoffOut

LEMMA BurnUnusedKickoffConnectorsTook ==
    ASSUME ChainInv, NEW k, <<"BurnUnusedKickoffConnectors", k>> \in Mined
    PROVE  /\ KickoffOut(k) \in spent
           /\ AgeAtLeast(Round, 1)
    <1>1. PICK I \in InputSets(<<"BurnUnusedKickoffConnectors", k>>) : Taken(I)
          BY DEF ChainInv, NextRound, Round, MoveToVault
    <1>2. InputSets(<<"BurnUnusedKickoffConnectors", k>>) = {BurnInputs(k)}
          BY InputsOf, Zenon
    <1>3. Taken(BurnInputs(k))
          BY <1>1, <1>2
    <1> QED  BY <1>3 DEF Taken, AgeAtLeast, BurnInputs, Out, In, Kickoff, KickoffOut

LEMMA ChallengeTook ==
    ASSUME ChainInv, NEW k, <<"Challenge", k>> \in Mined
    PROVE  /\ Out(Kickoff(k), <<"Challenge">>) \in spent
           /\ Kickoff(k) \in Mined
    <1>1. PICK I \in InputSets(<<"Challenge", k>>) : Taken(I)
          BY DEF ChainInv, NextRound, Round, MoveToVault
    <1>2. InputSets(<<"Challenge", k>>) = {ChallengeInputs(k)}
          BY InputsOf, Zenon
    <1>3. Taken(ChallengeInputs(k))
          BY <1>1, <1>2
    <1> QED  BY <1>3 DEF Taken, AgeAtLeast, ChallengeInputs, Out, In, Kickoff

LEMMA ChallengeTimeoutTook ==
    ASSUME ChainInv, NEW k, <<"ChallengeTimeout", k>> \in Mined
    PROVE  /\ Out(Kickoff(k), <<"Challenge">>) \in spent
           /\ KickoffFinalizer(k) \in spent
           /\ AgeAtLeast(Kickoff(k), ChallengeTimeoutLock)
    <1>1. PICK I \in InputSets(<<"ChallengeTimeout", k>>) : Taken(I)
          BY DEF ChainInv, NextRound, Round, MoveToVault
    <1>2. InputSets(<<"ChallengeTimeout", k>>) = {ChallengeTimeoutInputs(k)}
          BY InputsOf, Zenon
    <1>3. Taken(ChallengeTimeoutInputs(k))
          BY <1>1, <1>2
    <1> QED  BY <1>3 DEF Taken, AgeAtLeast, ChallengeTimeoutInputs, Out, In, Kickoff, KickoffFinalizer

LEMMA DisproveTimeoutTook ==
    ASSUME ChainInv, NEW k, <<"DisproveTimeout", k>> \in Mined
    PROVE  /\ Out(Kickoff(k), <<"Disprove">>) \in spent
           /\ KickoffFinalizer(k) \in spent
           /\ AgeAtLeast(Kickoff(k), DisproveTimeoutLock)
    <1>1. PICK I \in InputSets(<<"DisproveTimeout", k>>) : Taken(I)
          BY DEF ChainInv, NextRound, Round, MoveToVault
    <1>2. InputSets(<<"DisproveTimeout", k>>) = {DisproveTimeoutInputs(k)}
          BY InputsOf, Zenon
    <1>3. Taken(DisproveTimeoutInputs(k))
          BY <1>1, <1>2
    <1> QED  BY <1>3 DEF Taken, AgeAtLeast, DisproveTimeoutInputs, Out, In, Kickoff, KickoffFinalizer

LEMMA LatestBlockhashTook ==
    ASSUME ChainInv, NEW k, <<"LatestBlockhash", k>> \in Mined
    PROVE  /\ Out(Kickoff(k), <<"LatestBlockhash">>) \in spent
           /\ Kickoff(k) \in Mined
    <1>1. PICK I \in InputSets(<<"LatestBlockhash", k>>) : Taken(I)
          BY DEF ChainInv, NextRound, Round, MoveToVault
    <1>2. InputSets(<<"LatestBlockhash", k>>) = {LatestBlockhashInputs(k)}
          BY InputsOf, Zenon
    <1>3. Taken(LatestBlockhashInputs(k))
          BY <1>1, <1>2
    <1> QED  BY <1>3 DEF Taken, AgeAtLeast, LatestBlockhashInputs, Out, In, Kickoff

LEMMA WatchtowerChallengeTook ==
    ASSUME ChainInv, NEW k, NEW i, <<"WatchtowerChallenge", k, i>> \in Mined
    PROVE  /\ Out(Kickoff(k), <<"WatchtowerChallenge", i>>) \in spent
           /\ Kickoff(k) \in Mined
    <1>1. PICK I \in InputSets(<<"WatchtowerChallenge", k, i>>) : Taken(I)
          BY DEF ChainInv, NextRound, Round, MoveToVault
    <1>2. InputSets(<<"WatchtowerChallenge", k, i>>) = {WatchtowerChallengeInputs(k, i)}
          BY InputsOfEach, Zenon
    <1>3. Taken(WatchtowerChallengeInputs(k, i))
          BY <1>1, <1>2
    <1> QED  BY <1>3 DEF Taken, AgeAtLeast, WatchtowerChallengeInputs, Out, In, Kickoff

LEMMA WatchtowerChallengeTimeoutTook ==
    ASSUME ChainInv, NEW k, NEW i, <<"WatchtowerChallengeTimeout", k, i>> \in Mined
    PROVE  /\ Out(Kickoff(k), <<"WatchtowerChallenge", i>>) \in spent
           /\ AckOut(k, i) \in spent
           /\ AgeAtLeast(Kickoff(k), WatchtowerTimeoutLock)
    <1>1. PICK I \in InputSets(<<"WatchtowerChallengeTimeout", k, i>>) : Taken(I)
          BY DEF ChainInv, NextRound, Round, MoveToVault
    <1>2. InputSets(<<"WatchtowerChallengeTimeout", k, i>>) = {WatchtowerTimeoutInputs(k, i)}
          BY InputsOfEach, Zenon
    <1>3. Taken(WatchtowerTimeoutInputs(k, i))
          BY <1>1, <1>2
    <1> QED  BY <1>3 DEF Taken, AgeAtLeast, WatchtowerTimeoutInputs, Out, In, Kickoff, AckOut

LEMMA OperatorChallengeAckTook ==
    ASSUME ChainInv, NEW k, NEW i, <<"OperatorChallengeAck", k, i>> \in Mined
    PROVE  /\ AckOut(k, i) \in spent
           /\ Kickoff(k) \in Mined
    <1>1. PICK I \in InputSets(<<"OperatorChallengeAck", k, i>>) : Taken(I)
          BY DEF ChainInv, NextRound, Round, MoveToVault
    <1>2. InputSets(<<"OperatorChallengeAck", k, i>>) = {AckInputs(k, i)}
          BY InputsOfEach, Zenon
    <1>3. Taken(AckInputs(k, i))
          BY <1>1, <1>2
    <1> QED  BY <1>3 DEF Taken, AgeAtLeast, AckInputs, Out, In, Kickoff, AckOut

LEMMA MiniAssertTook ==
    ASSUME ChainInv, NEW k, NEW i, <<"MiniAssert", k, i>> \in Mined
    PROVE  /\ Out(Kickoff(k), <<"Assert", i>>) \in spent
           /\ Kickoff(k) \in Mined
    <1>1. PICK I \in InputSets(<<"MiniAssert", k, i>>) : Taken(I)
          BY DEF ChainInv, NextRound, Round, MoveToVault
    <1>2. InputSets(<<"MiniAssert", k, i>>) = {MiniAssertInputs(k, i)}
          BY InputsOfEach, Zenon
    <1>3. Taken(MiniAssertInputs(k, i))
          BY <1>1, <1>2
    <1> QED  BY <1>3 DEF Taken, AgeAtLeast, MiniAssertInputs, Out, In, Kickoff

(* When a transaction can be mined. *)
CanMine(tx) == \E I \in InputSets(tx) : Valid(tx, I)

LEMMA MineCan ==
    ASSUME NEW tx, Mine(tx)
    PROVE  CanMine(tx)
    BY MineStep DEF CanMine

LEMMA QueueCannot ==
    ASSUME NextBlock, NEW tx \in Queue
    PROVE  ~CanMine(tx)
    BY DEF NextBlock, CanMine

LEMMA NextRoundCan ==
    ASSUME ChainInv
    PROVE  CanMine(NextRound) <=>
              /\ NextRound \notin Mined
              /\ CollateralInReadyToReimburse \notin spent
              /\ AgeAtLeast(ReadyToReimburse, ReimburseLock)
    <1>1. InputSets(NextRound) = {NextRoundInputs}
          BY RoundInputs, Zenon
    <1>2. CanMine(NextRound) <=> Valid(NextRound, NextRoundInputs)
          BY <1>1 DEF CanMine
    <1> QED  BY <1>2 DEF ChainInv, Valid, AgeAtLeast, NextRound, NextRoundInputs, Out, In, Kickoff, CollateralInReadyToReimburse

LEMMA UnspentKickoffCan ==
    ASSUME ChainInv, NEW k
    PROVE  CanMine(<<"UnspentKickoff", k>>) <=>
              /\ <<"UnspentKickoff", k>> \notin Mined
              /\ CollateralInReadyToReimburse \notin spent
              /\ KickoffOut(k) \notin spent
              /\ ReadyToReimburse \in Mined
              /\ AgeAtLeast(Round, 1)
    <1>1. InputSets(<<"UnspentKickoff", k>>) = {UnspentKickoffInputs(k)}
          BY InputsOf, Zenon
    <1>2. CanMine(<<"UnspentKickoff", k>>) <=> Valid(<<"UnspentKickoff", k>>, UnspentKickoffInputs(k))
          BY <1>1 DEF CanMine
    <1> QED  BY <1>2 DEF ChainInv, Valid, AgeAtLeast, NextRound, UnspentKickoffInputs, Out, In, Kickoff, CollateralInReadyToReimburse, KickoffOut

LEMMA KickoffNotFinalizedCan ==
    ASSUME ChainInv, NEW k
    PROVE  CanMine(<<"KickoffNotFinalized", k>>) <=>
              /\ <<"KickoffNotFinalized", k>> \notin Mined
              /\ KickoffFinalizer(k) \notin spent
              /\ CollateralInReadyToReimburse \notin spent
              /\ Kickoff(k) \in Mined
              /\ ReadyToReimburse \in Mined
    <1>1. InputSets(<<"KickoffNotFinalized", k>>) = {KickoffNotFinalizedInputs(k)}
          BY InputsOf, Zenon
    <1>2. CanMine(<<"KickoffNotFinalized", k>>) <=> Valid(<<"KickoffNotFinalized", k>>, KickoffNotFinalizedInputs(k))
          BY <1>1 DEF CanMine
    <1> QED  BY <1>2 DEF ChainInv, Valid, AgeAtLeast, NextRound, KickoffNotFinalizedInputs, Out, In, Kickoff, KickoffFinalizer, CollateralInReadyToReimburse

LEMMA ChallengeCan ==
    ASSUME ChainInv, NEW k
    PROVE  CanMine(<<"Challenge", k>>) <=>
              /\ <<"Challenge", k>> \notin Mined
              /\ Out(Kickoff(k), <<"Challenge">>) \notin spent
              /\ Kickoff(k) \in Mined
    <1>1. InputSets(<<"Challenge", k>>) = {ChallengeInputs(k)}
          BY InputsOf, Zenon
    <1>2. CanMine(<<"Challenge", k>>) <=> Valid(<<"Challenge", k>>, ChallengeInputs(k))
          BY <1>1 DEF CanMine
    <1> QED  BY <1>2 DEF ChainInv, Valid, AgeAtLeast, NextRound, ChallengeInputs, Out, In, Kickoff

LEMMA ChallengeTimeoutCan ==
    ASSUME ChainInv, NEW k
    PROVE  CanMine(<<"ChallengeTimeout", k>>) <=>
              /\ <<"ChallengeTimeout", k>> \notin Mined
              /\ Out(Kickoff(k), <<"Challenge">>) \notin spent
              /\ KickoffFinalizer(k) \notin spent
              /\ AgeAtLeast(Kickoff(k), ChallengeTimeoutLock)
    <1>1. InputSets(<<"ChallengeTimeout", k>>) = {ChallengeTimeoutInputs(k)}
          BY InputsOf, Zenon
    <1>2. CanMine(<<"ChallengeTimeout", k>>) <=> Valid(<<"ChallengeTimeout", k>>, ChallengeTimeoutInputs(k))
          BY <1>1 DEF CanMine
    <1> QED  BY <1>2 DEF ChainInv, Valid, AgeAtLeast, NextRound, ChallengeTimeoutInputs, Out, In, Kickoff, KickoffFinalizer

LEMMA LatestBlockhashCan ==
    ASSUME ChainInv, NEW k
    PROVE  CanMine(<<"LatestBlockhash", k>>) <=>
              /\ <<"LatestBlockhash", k>> \notin Mined
              /\ Out(Kickoff(k), <<"LatestBlockhash">>) \notin spent
              /\ Kickoff(k) \in Mined
    <1>1. InputSets(<<"LatestBlockhash", k>>) = {LatestBlockhashInputs(k)}
          BY InputsOf, Zenon
    <1>2. CanMine(<<"LatestBlockhash", k>>) <=> Valid(<<"LatestBlockhash", k>>, LatestBlockhashInputs(k))
          BY <1>1 DEF CanMine
    <1> QED  BY <1>2 DEF ChainInv, Valid, AgeAtLeast, NextRound, LatestBlockhashInputs, Out, In, Kickoff

LEMMA LatestBlockhashTimeoutCan ==
    ASSUME ChainInv, NEW k
    PROVE  CanMine(<<"LatestBlockhashTimeout", k>>) <=>
              /\ <<"LatestBlockhashTimeout", k>> \notin Mined
              /\ Out(Kickoff(k), <<"LatestBlockhash">>) \notin spent
              /\ KickoffFinalizer(k) \notin spent
              /\ CollateralInRound \notin spent
              /\ AgeAtLeast(Kickoff(k), BlockhashTimeoutLock)
    <1>1. InputSets(<<"LatestBlockhashTimeout", k>>) = {LatestBlockhashTimeoutInputs(k)}
          BY InputsOf, Zenon
    <1>2. CanMine(<<"LatestBlockhashTimeout", k>>) <=> Valid(<<"LatestBlockhashTimeout", k>>, LatestBlockhashTimeoutInputs(k))
          BY <1>1 DEF CanMine
    <1> QED  BY <1>2 DEF ChainInv, Valid, AgeAtLeast, NextRound, LatestBlockhashTimeoutInputs, Out, In, Kickoff, KickoffFinalizer, CollateralInRound

LEMMA DisproveCan ==
    ASSUME ChainInv, NEW k
    PROVE  CanMine(<<"Disprove", k>>) <=>
              /\ <<"Disprove", k>> \notin Mined
              /\ Out(Kickoff(k), <<"Disprove">>) \notin spent
              /\ CollateralInRound \notin spent
              /\ Kickoff(k) \in Mined
              /\ DisproveWitness(k)
    <1>1. InputSets(<<"Disprove", k>>) = {DisproveInputs(k)}
          BY InputsOf, Zenon
    <1>2. CanMine(<<"Disprove", k>>) <=> Valid(<<"Disprove", k>>, DisproveInputs(k))
          BY <1>1 DEF CanMine
    <1> QED  BY <1>2 DEF ChainInv, Valid, AgeAtLeast, NextRound, DisproveInputs, Out, In, Kickoff, CollateralInRound

LEMMA DisproveTimeoutCan ==
    ASSUME ChainInv, NEW k
    PROVE  CanMine(<<"DisproveTimeout", k>>) <=>
              /\ <<"DisproveTimeout", k>> \notin Mined
              /\ Out(Kickoff(k), <<"Disprove">>) \notin spent
              /\ KickoffFinalizer(k) \notin spent
              /\ AgeAtLeast(Kickoff(k), DisproveTimeoutLock)
    <1>1. InputSets(<<"DisproveTimeout", k>>) = {DisproveTimeoutInputs(k)}
          BY InputsOf, Zenon
    <1>2. CanMine(<<"DisproveTimeout", k>>) <=> Valid(<<"DisproveTimeout", k>>, DisproveTimeoutInputs(k))
          BY <1>1 DEF CanMine
    <1> QED  BY <1>2 DEF ChainInv, Valid, AgeAtLeast, NextRound, DisproveTimeoutInputs, Out, In, Kickoff, KickoffFinalizer

LEMMA WatchtowerChallengeCan ==
    ASSUME ChainInv, NEW k, NEW i
    PROVE  CanMine(<<"WatchtowerChallenge", k, i>>) <=>
              /\ <<"WatchtowerChallenge", k, i>> \notin Mined
              /\ Out(Kickoff(k), <<"WatchtowerChallenge", i>>) \notin spent
              /\ Kickoff(k) \in Mined
    <1>1. InputSets(<<"WatchtowerChallenge", k, i>>) = {WatchtowerChallengeInputs(k, i)}
          BY InputsOfEach, Zenon
    <1>2. CanMine(<<"WatchtowerChallenge", k, i>>) <=> Valid(<<"WatchtowerChallenge", k, i>>, WatchtowerChallengeInputs(k, i))
          BY <1>1 DEF CanMine
    <1> QED  BY <1>2 DEF ChainInv, Valid, AgeAtLeast, NextRound, WatchtowerChallengeInputs, Out, In, Kickoff

LEMMA WatchtowerChallengeTimeoutCan ==
    ASSUME ChainInv, NEW k, NEW i
    PROVE  CanMine(<<"WatchtowerChallengeTimeout", k, i>>) <=>
              /\ <<"WatchtowerChallengeTimeout", k, i>> \notin Mined
              /\ Out(Kickoff(k), <<"WatchtowerChallenge", i>>) \notin spent
              /\ AckOut(k, i) \notin spent
              /\ AgeAtLeast(Kickoff(k), WatchtowerTimeoutLock)
    <1>1. InputSets(<<"WatchtowerChallengeTimeout", k, i>>) = {WatchtowerTimeoutInputs(k, i)}
          BY InputsOfEach, Zenon
    <1>2. CanMine(<<"WatchtowerChallengeTimeout", k, i>>) <=> Valid(<<"WatchtowerChallengeTimeout", k, i>>, WatchtowerTimeoutInputs(k, i))
          BY <1>1 DEF CanMine
    <1> QED  BY <1>2 DEF ChainInv, Valid, AgeAtLeast, NextRound, WatchtowerTimeoutInputs, Out, In, Kickoff, AckOut

LEMMA OperatorChallengeAckCan ==
    ASSUME ChainInv, NEW k, NEW i
    PROVE  CanMine(<<"OperatorChallengeAck", k, i>>) <=>
              /\ <<"OperatorChallengeAck", k, i>> \notin Mined
              /\ AckOut(k, i) \notin spent
              /\ Kickoff(k) \in Mined
    <1>1. InputSets(<<"OperatorChallengeAck", k, i>>) = {AckInputs(k, i)}
          BY InputsOfEach, Zenon
    <1>2. CanMine(<<"OperatorChallengeAck", k, i>>) <=> Valid(<<"OperatorChallengeAck", k, i>>, AckInputs(k, i))
          BY <1>1 DEF CanMine
    <1> QED  BY <1>2 DEF ChainInv, Valid, AgeAtLeast, NextRound, AckInputs, Out, In, Kickoff, AckOut

LEMMA OperatorChallengeNackCan ==
    ASSUME ChainInv, NEW k, NEW i
    PROVE  CanMine(<<"OperatorChallengeNack", k, i>>) <=>
              /\ <<"OperatorChallengeNack", k, i>> \notin Mined
              /\ AckOut(k, i) \notin spent
              /\ KickoffFinalizer(k) \notin spent
              /\ CollateralInRound \notin spent
              /\ AgeAtLeast(Kickoff(k), NackLock)
    <1>1. InputSets(<<"OperatorChallengeNack", k, i>>) = {NackInputs(k, i)}
          BY InputsOfEach, Zenon
    <1>2. CanMine(<<"OperatorChallengeNack", k, i>>) <=> Valid(<<"OperatorChallengeNack", k, i>>, NackInputs(k, i))
          BY <1>1 DEF CanMine
    <1> QED  BY <1>2 DEF ChainInv, Valid, AgeAtLeast, NextRound, NackInputs, Out, In, Kickoff, AckOut, KickoffFinalizer, CollateralInRound

LEMMA MiniAssertCan ==
    ASSUME ChainInv, NEW k, NEW i
    PROVE  CanMine(<<"MiniAssert", k, i>>) <=>
              /\ <<"MiniAssert", k, i>> \notin Mined
              /\ Out(Kickoff(k), <<"Assert", i>>) \notin spent
              /\ Kickoff(k) \in Mined
    <1>1. InputSets(<<"MiniAssert", k, i>>) = {MiniAssertInputs(k, i)}
          BY InputsOfEach, Zenon
    <1>2. CanMine(<<"MiniAssert", k, i>>) <=> Valid(<<"MiniAssert", k, i>>, MiniAssertInputs(k, i))
          BY <1>1 DEF CanMine
    <1> QED  BY <1>2 DEF ChainInv, Valid, AgeAtLeast, NextRound, MiniAssertInputs, Out, In, Kickoff

LEMMA AssertTimeoutCan ==
    ASSUME ChainInv, NEW k, NEW i
    PROVE  CanMine(<<"AssertTimeout", k, i>>) <=>
              /\ <<"AssertTimeout", k, i>> \notin Mined
              /\ Out(Kickoff(k), <<"Assert", i>>) \notin spent
              /\ KickoffFinalizer(k) \notin spent
              /\ CollateralInRound \notin spent
              /\ AgeAtLeast(Kickoff(k), AssertTimeoutLock)
    <1>1. InputSets(<<"AssertTimeout", k, i>>) = {AssertTimeoutInputs(k, i)}
          BY InputsOfEach, Zenon
    <1>2. CanMine(<<"AssertTimeout", k, i>>) <=> Valid(<<"AssertTimeout", k, i>>, AssertTimeoutInputs(k, i))
          BY <1>1 DEF CanMine
    <1> QED  BY <1>2 DEF ChainInv, Valid, AgeAtLeast, NextRound, AssertTimeoutInputs, Out, In, Kickoff, KickoffFinalizer, CollateralInRound
-----------------------------------------------------------------------------
(* What follows a kickoff in time keeps following it. *)

LEMMA FollowsBlock ==
    ASSUME ChainInv, NextBlock, NEW k, Kickoff(k) \in Mined, NEW tx \in Mined,
           NEW lock \in Nat, NEW n \in Nat, n <= Cap(tx),
           Past(k, lock) => Follows(tx, k, lock, n)
    PROVE  Follows(tx, k, lock, n)'
    <1>1. /\ age[tx] \in Nat /\ age[Kickoff(k)] \in Nat
          /\ Cap(tx) \in Nat
          BY CapType DEF ChainInv
    <1>2. /\ tx \in Mined'
          /\ age'[tx] = IF age[tx] < Cap(tx) THEN age[tx] + 1 ELSE age[tx]
          /\ age'[Kickoff(k)] \in {age[Kickoff(k)], age[Kickoff(k)] + 1}
          BY BlockStep
    <1>3. CASE age[tx] < Cap(tx)
          BY <1>1, <1>2, <1>3 DEF Follows, Past, AgeAtLeast, Kickoff
    <1>4. CASE age[tx] >= n
          BY <1>1, <1>2, <1>4 DEF Follows
    <1> QED  BY <1>1, <1>3, <1>4

LEMMA FollowsMine ==
    ASSUME NEW x, Mine(x), NEW k, Kickoff(k) \in Mined, NEW tx, NEW lock, NEW n,
           Follows(tx, k, lock, n)
    PROVE  Follows(tx, k, lock, n)'
    BY MineStep DEF Follows, Kickoff

LEMMA PastBlock ==
    ASSUME ChainInv, NextBlock, NEW k, Kickoff(k) \in Mined, NEW lock \in Nat, Past(k, lock)'
    PROVE  AgeAtLeast(Kickoff(k), lock)
    <1>1. /\ age[Kickoff(k)] \in Nat
          /\ age'[Kickoff(k)] \in {age[Kickoff(k)], age[Kickoff(k)] + 1}
          BY BlockStep DEF ChainInv
    <1> QED  BY <1>1 DEF Past, AgeAtLeast, Kickoff

LEMMA PastMine ==
    ASSUME NEW x, Mine(x), NEW k, NEW lock \in Nat, Past(k, lock)'
    PROVE  Kickoff(k) \in Mined /\ Past(k, lock)
    BY MineStep DEF Past, AgeAtLeast, Kickoff

-----------------------------------------------------------------------------
(* The operator's duties and the ages that it counts. *)

LEMMA OperatorCaps ==
    ASSUME honest = "operator", NEW k, NEW i
    PROVE  /\ Cap(<<"Challenge", k>>) = 2 * F
           /\ Cap(<<"WatchtowerChallenge", k, i>>) = 2 * F
           /\ Cap(<<"WatchtowerChallengeTimeout", k, i>>) = 2 * F
           /\ Cap(<<"LatestBlockhash", k>>) = F
    BY DEF Cap

LEMMA OperatorDuties ==
    ASSUME honest = "operator", NEW k \in Kickoffs
    PROVE  /\ <<"ChallengeTimeout", k>> \in Queue
           /\ Final(<<"Challenge", k>>) =>
                 \A w \in Watchtowers : <<"WatchtowerChallengeTimeout", k, w>> \in Queue
           /\ \A w \in Watchtowers :
                 Final(<<"WatchtowerChallenge", k, w>>) =>
                    <<"OperatorChallengeAck", k, w>> \in Queue
           /\ AgeAtLeast(<<"Challenge", k>>, 2 * F - 1) /\ WatchtowerUtxosSpent(k, 2 * F - 1) =>
                 <<"LatestBlockhash", k>> \in Queue
           /\ /\ Final(<<"Challenge", k>>)
              /\ WatchtowerUtxosSpent(k, F)
              /\ Final(<<"LatestBlockhash", k>>)
              => \A i \in Asserts : <<"MiniAssert", k, i>> \in Queue
    <1>1. /\ NewKickoffTxs(k) \subseteq Queue
          /\ OwnTimeoutTxs(k) \subseteq Queue
          /\ AckTxs(k) \subseteq Queue
          /\ LatestBlockhashTxs(k) \subseteq Queue
          /\ AssertTxs(k) \subseteq Queue
          BY DEF Queue, OperatorQueue
    <1>2. <<"ChallengeTimeout", k>> \in Queue
          BY <1>1 DEF NewKickoffTxs
    <1>3. Final(<<"Challenge", k>>) =>
             \A w \in Watchtowers : <<"WatchtowerChallengeTimeout", k, w>> \in Queue
          BY <1>1 DEF OwnTimeoutTxs
    <1>4. \A w \in Watchtowers :
             Final(<<"WatchtowerChallenge", k, w>>) =>
                <<"OperatorChallengeAck", k, w>> \in Queue
          BY <1>1 DEF AckTxs
    <1>5. AgeAtLeast(<<"Challenge", k>>, 2 * F - 1) /\ WatchtowerUtxosSpent(k, 2 * F - 1) =>
             <<"LatestBlockhash", k>> \in Queue
          BY <1>1 DEF LatestBlockhashTxs
    <1>6. /\ Final(<<"Challenge", k>>)
          /\ WatchtowerUtxosSpent(k, F)
          /\ Final(<<"LatestBlockhash", k>>)
          => \A i \in Asserts : <<"MiniAssert", k, i>> \in Queue
          BY <1>1 DEF AssertTxs
    <1> QED  BY <1>2, <1>3, <1>4, <1>5, <1>6
(* What the timelocks leave room for. *)
LEMMA Room ==
    /\ F < ChallengeTimeoutLock
    /\ ChallengeTimeoutLock + F <= WatchtowerTimeoutLock
    /\ WatchtowerTimeoutLock + 2 * F - 1 < BlockhashTimeoutLock
    /\ WatchtowerTimeoutLock + F < NackLock
    /\ WatchtowerTimeoutLock + 3 * F - 1 < AssertTimeoutLock
    /\ AssertTimeoutLock + F < DisproveTimeoutLock
    /\ NackLock + F < DisproveTimeoutLock
    /\ BlockhashTimeoutLock + F < DisproveTimeoutLock
    /\ 1 <= ReimburseLock
    BY GameAssumption

(* A transaction that follows the kickoff has an age when the kickoff has. *)
LEMMA FollowsAge ==
    ASSUME ChainInv, NEW k, NEW tx, NEW lock \in Nat, NEW n \in Nat, Follows(tx, k, lock, n),
           NEW m \in Nat, m <= n, AgeAtLeast(Kickoff(k), lock + m)
    PROVE  AgeAtLeast(tx, m)
    <1>1. tx \in Mined /\ Kickoff(k) \in Mined
          BY DEF Follows, AgeAtLeast
    <1>2. age[tx] \in Nat /\ age[Kickoff(k)] \in Nat
          BY <1>1 DEF ChainInv
    <1> QED  BY <1>1, <1>2 DEF Follows, AgeAtLeast

(* A kickoff that the honest operator has not settled. *)
LEMMA Unsettled ==
    ASSUME ChainInv, NEW k, KickoffFinalizer(k) \notin spent
    PROVE  <<"ChallengeTimeout", k>> \notin Mined /\ <<"DisproveTimeout", k>> \notin Mined
    BY ChallengeTimeoutTook, DisproveTimeoutTook

(* With the block in which a deadline of the operator is, its answer is in *)
(* the chain: everything that it had to send could not be mined anymore.   *)
LEMMA DeadlinesBlock ==
    ASSUME ChainInv, NextBlock, honest = "operator", ~Burned, OperatorSent,
           NEW k \in Kickoffs, Kickoff(k) \in Mined, KickoffFinalizer(k) \notin spent,
           MeetsDeadlines(k)
    PROVE  MeetsDeadlines(k)'
    <1> DEFINE CT == ChallengeTimeoutLock
               WT == WatchtowerTimeoutLock
               Challenge == <<"Challenge", k>>
               WC(w) == <<"WatchtowerChallenge", k, w>>
               WTT(w) == <<"WatchtowerChallengeTimeout", k, w>>
               LB == <<"LatestBlockhash", k>>
    <1>0. /\ age[Kickoff(k)] \in Nat
          /\ CT \in Nat /\ WT \in Nat /\ F \in Nat /\ F >= 1 /\ CT + F <= WT
          BY Locks, Room DEF ChainInv
    <1>1. Past(k, CT)' => Follows(Challenge, k, CT, 2 * F)'
      <2> SUFFICES ASSUME Past(k, CT)'
                   PROVE  Follows(Challenge, k, CT, 2 * F)'
          OBVIOUS
      <2>1. AgeAtLeast(Kickoff(k), CT)
            BY <1>0, PastBlock
      <2>2. ~CanMine(<<"ChallengeTimeout", k>>)
            BY OperatorDuties, QueueCannot
      <2>3. Out(Kickoff(k), <<"Challenge">>) \in spent
            BY <2>1, <2>2, ChallengeTimeoutCan, Unsettled
      <2>4. Challenge \in Mined
            BY <2>3, ChallengeSpent, Unsettled
      <2>5. Past(k, CT) => Follows(Challenge, k, CT, 2 * F)
            BY DEF MeetsDeadlines
      <2>6. 2 * F <= Cap(Challenge) /\ 2 * F \in Nat
        <3>1. Cap(Challenge) = 2 * F
              BY OperatorCaps, Zenon
        <3> QED  BY <1>0, <3>1
      <2> HIDE DEF CT, Challenge
      <2> QED  BY <1>0, <2>4, <2>5, <2>6, FollowsBlock
    <1>2. ASSUME NEW m \in Nat, m <= F, AgeAtLeast(Kickoff(k), WT + m)
          PROVE  AgeAtLeast(Challenge, F + m)
      <2>1. Past(k, CT) /\ AgeAtLeast(Kickoff(k), CT + (F + m))
            BY <1>0, <1>2 DEF Past, AgeAtLeast
      <2>2. Follows(Challenge, k, CT, 2 * F)
            BY <2>1 DEF MeetsDeadlines
      <2>3. F + m \in Nat /\ 2 * F \in Nat /\ F + m <= 2 * F
            BY <1>0, <1>2
      <2> HIDE DEF CT, Challenge
      <2> QED  BY <1>0, <2>1, <2>2, <2>3, FollowsAge
    <1>3. Past(k, WT)' => \A w \in Watchtowers : \/ Follows(WC(w), k, WT, 2 * F)'
                                                \/ Follows(WTT(w), k, WT, 2 * F)'
      <2> SUFFICES ASSUME Past(k, WT)', NEW w \in Watchtowers
                   PROVE  Follows(WC(w), k, WT, 2 * F)' \/ Follows(WTT(w), k, WT, 2 * F)'
          OBVIOUS
      <2>1. AgeAtLeast(Kickoff(k), WT)
            BY <1>0, PastBlock
      <2>2. Final(Challenge)
            BY <1>0, <1>2, <2>1 DEF Final
      <2>3. ~CanMine(WTT(w))
            BY <2>2, OperatorDuties, QueueCannot
      <2>4. WC(w) \in Mined \/ WTT(w) \in Mined
        <3>1. \/ WTT(w) \in Mined
              \/ Out(Kickoff(k), <<"WatchtowerChallenge", w>>) \in spent
              \/ AckOut(k, w) \in spent
              BY <2>1, <2>3, WatchtowerChallengeTimeoutCan
        <3>2. CASE Out(Kickoff(k), <<"WatchtowerChallenge", w>>) \in spent
              BY <3>2, WatchtowerSpent
        <3>3. CASE AckOut(k, w) \in spent
              BY <3>3, AckSpent DEF OperatorSent
        <3> QED  BY <3>1, <3>2, <3>3
      <2>5. Past(k, WT) => Follows(WC(w), k, WT, 2 * F) \/ Follows(WTT(w), k, WT, 2 * F)
            BY DEF MeetsDeadlines
      <2>6. 2 * F <= Cap(WC(w)) /\ 2 * F <= Cap(WTT(w)) /\ 2 * F \in Nat
        <3>1. Cap(WC(w)) = 2 * F /\ Cap(WTT(w)) = 2 * F
              BY OperatorCaps, Zenon
        <3> QED  BY <1>0, <3>1
      <2>7. CASE Follows(WC(w), k, WT, 2 * F)
        <3>1. WC(w) \in Mined
              BY <2>7 DEF Follows
        <3> HIDE DEF WT, WC
        <3> QED  BY <1>0, <2>6, <2>7, <3>1, FollowsBlock
      <2>8. CASE Follows(WTT(w), k, WT, 2 * F)
        <3>1. WTT(w) \in Mined
              BY <2>8 DEF Follows
        <3> HIDE DEF WT, WTT
        <3> QED  BY <1>0, <2>6, <2>8, <3>1, FollowsBlock
      <2>9. CASE ~Past(k, WT)
        <3>1. CASE WC(w) \in Mined
          <4> HIDE DEF WT, WC
          <4> QED  BY <1>0, <2>6, <2>9, <3>1, FollowsBlock
        <3>2. CASE WTT(w) \in Mined
          <4> HIDE DEF WT, WTT
          <4> QED  BY <1>0, <2>6, <2>9, <3>2, FollowsBlock
        <3> QED  BY <2>4, <3>1, <3>2
      <2> QED  BY <2>5, <2>7, <2>8, <2>9
    <1>4. ASSUME NEW m \in Nat, m >= 1, m <= 2 * F, AgeAtLeast(Kickoff(k), WT + m),
                 NEW w \in Watchtowers
          PROVE  AgeAtLeast(WC(w), m) \/ AgeAtLeast(WTT(w), m)
      <2>1. Past(k, WT)
            BY <1>0, <1>4 DEF Past, AgeAtLeast
      <2>2. Follows(WC(w), k, WT, 2 * F) \/ Follows(WTT(w), k, WT, 2 * F)
            BY <2>1 DEF MeetsDeadlines
      <2>3. 2 * F \in Nat
            BY <1>0
      <2> HIDE DEF WT, WC, WTT
      <2> QED  BY <1>0, <1>4, <2>2, <2>3, FollowsAge
    <1>5. Past(k, WT + F)' => \A w \in Watchtowers : AckOut(k, w) \in spent'
      <2> SUFFICES ASSUME Past(k, WT + F)', NEW w \in Watchtowers
                   PROVE  AckOut(k, w) \in spent'
          OBVIOUS
      <2>1. AgeAtLeast(Kickoff(k), WT + F)
            BY <1>0, PastBlock
      <2>2. CASE WTT(w) \in Mined
            BY <2>2, WatchtowerChallengeTimeoutTook, BlockStep
      <2>3. CASE Final(WC(w))
        <3>1. ~CanMine(<<"OperatorChallengeAck", k, w>>)
              BY <2>3, OperatorDuties, QueueCannot
        <3>2. AckOut(k, w) \in spent
              BY <3>1, OperatorChallengeAckCan, OperatorChallengeAckTook
        <3> QED  BY <3>2, BlockStep
      <2>4. Final(WC(w)) \/ WTT(w) \in Mined
        <3>1. AgeAtLeast(WC(w), F) \/ AgeAtLeast(WTT(w), F)
              BY <1>0, <1>4, <2>1
        <3> QED  BY <3>1 DEF Final, AgeAtLeast
      <2> QED  BY <2>2, <2>3, <2>4
    <1>6. Past(k, WT + 2 * F - 1)' => Follows(LB, k, WT + 2 * F - 1, F)'
      <2> SUFFICES ASSUME Past(k, WT + 2 * F - 1)'
                   PROVE  Follows(LB, k, WT + 2 * F - 1, F)'
          OBVIOUS
      <2>0. WT + 2 * F - 1 \in Nat /\ 2 * F - 1 \in Nat /\ WT + 2 * F - 1 = WT + (2 * F - 1)
            BY <1>0
      <2>1. AgeAtLeast(Kickoff(k), WT + (2 * F - 1))
            BY <2>0, PastBlock
      <2>2. WatchtowerUtxosSpent(k, 2 * F - 1)
        <3> SUFFICES ASSUME NEW w \in Watchtowers
                     PROVE  AgeAtLeast(WC(w), 2 * F - 1) \/ AgeAtLeast(WTT(w), 2 * F - 1)
            BY DEF WatchtowerUtxosSpent
        <3>1. 2 * F - 1 >= 1 /\ 2 * F - 1 <= 2 * F
              BY <1>0
        <3> QED  BY <1>4, <2>0, <2>1, <3>1
      <2>3. AgeAtLeast(Challenge, 2 * F - 1)
        <3>1. AgeAtLeast(Kickoff(k), WT + (F - 1)) /\ F - 1 \in Nat /\ F - 1 <= F
              BY <1>0, <2>1 DEF AgeAtLeast
        <3>2. AgeAtLeast(Challenge, F + (F - 1))
              BY <1>2, <3>1
        <3> QED  BY <1>0, <3>2 DEF AgeAtLeast
      <2>4. ~CanMine(LB)
            BY <2>2, <2>3, OperatorDuties, QueueCannot
      <2>5. LB \in Mined
            BY <2>4, LatestBlockhashCan, BlockhashSpent
      <2>6. Past(k, WT + 2 * F - 1) => Follows(LB, k, WT + 2 * F - 1, F)
            BY DEF MeetsDeadlines
      <2>7. F <= Cap(LB)
        <3>1. Cap(LB) = F
              BY OperatorCaps, Zenon
        <3> QED  BY <1>0, <3>1
      <2> HIDE DEF WT, LB
      <2> QED  BY <1>0, <2>0, <2>5, <2>6, <2>7, FollowsBlock
    <1>7. Past(k, WT + 3 * F - 1)' => \A i \in Asserts : <<"MiniAssert", k, i>> \in Mined'
      <2> SUFFICES ASSUME Past(k, WT + 3 * F - 1)', NEW i \in Asserts
                   PROVE  <<"MiniAssert", k, i>> \in Mined'
          OBVIOUS
      <2>0. WT + 3 * F - 1 \in Nat
            BY <1>0
      <2>1. AgeAtLeast(Kickoff(k), WT + 3 * F - 1)
            BY <2>0, PastBlock
      <2>2. WatchtowerUtxosSpent(k, F)
        <3> SUFFICES ASSUME NEW w \in Watchtowers
                     PROVE  AgeAtLeast(WC(w), F) \/ AgeAtLeast(WTT(w), F)
            BY DEF WatchtowerUtxosSpent
        <3>1. AgeAtLeast(Kickoff(k), WT + F) /\ F <= 2 * F
              BY <1>0, <2>1 DEF AgeAtLeast
        <3> QED  BY <1>0, <1>4, <3>1
      <2>3. Final(Challenge)
        <3>1. AgeAtLeast(Kickoff(k), WT + 0)
              BY <1>0, <2>1 DEF AgeAtLeast
        <3>2. AgeAtLeast(Challenge, F + 0)
              BY <1>0, <1>2, <3>1
        <3> QED  BY <1>0, <3>2 DEF Final
      <2>4. Final(LB)
        <3>1. /\ Past(k, WT + 2 * F - 1)
              /\ AgeAtLeast(Kickoff(k), (WT + 2 * F - 1) + F)
              /\ WT + 2 * F - 1 \in Nat
              BY <1>0, <2>1 DEF AgeAtLeast, Past
        <3>2. Follows(LB, k, WT + 2 * F - 1, F)
              BY <3>1 DEF MeetsDeadlines
        <3>3. AgeAtLeast(LB, F)
              BY <1>0, <3>1, <3>2, FollowsAge
        <3> QED  BY <3>3 DEF Final
      <2>5. ~CanMine(<<"MiniAssert", k, i>>)
            BY <2>2, <2>3, <2>4, OperatorDuties, QueueCannot
      <2>6. <<"MiniAssert", k, i>> \in Mined
            BY <2>5, MiniAssertCan, AssertSpent
      <2> QED  BY <2>6, BlockStep
    <1> QED  BY <1>1, <1>3, <1>5, <1>6, <1>7 DEF MeetsDeadlines
LEMMA DeadlinesMine ==
    ASSUME ChainInv, NEW x, Mine(x), NEW k \in Kickoffs, KickoffFinalizer(k) \notin spent',
           Kickoff(k) \in Mined /\ KickoffFinalizer(k) \notin spent => MeetsDeadlines(k)
    PROVE  MeetsDeadlines(k)'
    <1>0. /\ WatchtowerTimeoutLock \in Nat /\ ChallengeTimeoutLock \in Nat
          /\ WatchtowerTimeoutLock + F \in Nat /\ WatchtowerTimeoutLock + 2 * F - 1 \in Nat
          /\ WatchtowerTimeoutLock + 3 * F - 1 \in Nat
          BY Locks
    <1>1. ASSUME NEW lock \in Nat, Past(k, lock)'
          PROVE  Kickoff(k) \in Mined /\ Past(k, lock) /\ MeetsDeadlines(k)
      <2>1. Kickoff(k) \in Mined /\ Past(k, lock)
            BY <1>1, PastMine
      <2>2. spent \subseteq spent'
            BY MineStep
      <2> QED  BY <2>1, <2>2
    <1>2. spent \subseteq spent' /\ Mined \subseteq Mined'
          BY MineStep
    <1>3. Past(k, ChallengeTimeoutLock)' =>
             Follows(<<"Challenge", k>>, k, ChallengeTimeoutLock, 2 * F)'
      <2> SUFFICES ASSUME Past(k, ChallengeTimeoutLock)'
                   PROVE  Follows(<<"Challenge", k>>, k, ChallengeTimeoutLock, 2 * F)'
          OBVIOUS
      <2>1. Kickoff(k) \in Mined /\ Follows(<<"Challenge", k>>, k, ChallengeTimeoutLock, 2 * F)
            BY <1>0, <1>1 DEF MeetsDeadlines
      <2> QED  BY <2>1, FollowsMine
    <1>4. Past(k, WatchtowerTimeoutLock)' =>
             \A w \in Watchtowers :
                \/ Follows(<<"WatchtowerChallenge", k, w>>, k, WatchtowerTimeoutLock, 2 * F)'
                \/ Follows(<<"WatchtowerChallengeTimeout", k, w>>, k, WatchtowerTimeoutLock, 2 * F)'
      <2> SUFFICES ASSUME Past(k, WatchtowerTimeoutLock)', NEW w \in Watchtowers
                   PROVE  \/ Follows(<<"WatchtowerChallenge", k, w>>, k, WatchtowerTimeoutLock, 2 * F)'
                          \/ Follows(<<"WatchtowerChallengeTimeout", k, w>>, k, WatchtowerTimeoutLock,
                                     2 * F)'
          OBVIOUS
      <2>1. /\ Kickoff(k) \in Mined
            /\ \/ Follows(<<"WatchtowerChallenge", k, w>>, k, WatchtowerTimeoutLock, 2 * F)
               \/ Follows(<<"WatchtowerChallengeTimeout", k, w>>, k, WatchtowerTimeoutLock, 2 * F)
            BY <1>0, <1>1 DEF MeetsDeadlines
      <2> QED  BY <2>1, FollowsMine
    <1>5. Past(k, WatchtowerTimeoutLock + F)' => \A w \in Watchtowers : AckOut(k, w) \in spent'
          BY <1>0, <1>1, <1>2 DEF MeetsDeadlines
    <1>6. Past(k, WatchtowerTimeoutLock + 2 * F - 1)' =>
             Follows(<<"LatestBlockhash", k>>, k, WatchtowerTimeoutLock + 2 * F - 1, F)'
      <2> SUFFICES ASSUME Past(k, WatchtowerTimeoutLock + 2 * F - 1)'
                   PROVE  Follows(<<"LatestBlockhash", k>>, k, WatchtowerTimeoutLock + 2 * F - 1, F)'
          OBVIOUS
      <2>1. /\ Kickoff(k) \in Mined
            /\ Follows(<<"LatestBlockhash", k>>, k, WatchtowerTimeoutLock + 2 * F - 1, F)
            BY <1>0, <1>1 DEF MeetsDeadlines
      <2> QED  BY <2>1, FollowsMine
    <1>7. Past(k, WatchtowerTimeoutLock + 3 * F - 1)' =>
             \A i \in Asserts : <<"MiniAssert", k, i>> \in Mined'
          BY <1>0, <1>1, <1>2 DEF MeetsDeadlines
    <1> QED  BY <1>3, <1>4, <1>5, <1>6, <1>7 DEF MeetsDeadlines

(* What an honest operator sends, and what others can while it is honest. *)
LEMMA OperatorSends ==
    ASSUME honest = "operator", NEW tx \in MayMine
    PROVE  /\ \A k : tx = Kickoff(k) => k \in paid
           /\ \A k : tx = <<"BurnUnusedKickoffConnectors", k>> => k \notin paid
           /\ \A k, w : tx = <<"OperatorChallengeAck", k, w>> =>
                           <<"WatchtowerChallenge", k, w>> \in Mined
           /\ tx = ReadyToReimburse => ReadyToEnd
    <1>1. CASE tx \in VerifiersCanSend
          BY <1>1 DEF VerifiersCanSend, Kickoff, ReadyToReimburse
    <1>2. CASE tx \in OperatorMay
          BY <1>2 DEF OperatorMay, Kickoff, ReadyToReimburse
    <1>3. CASE tx \in OperatorQueue
      <2>1. CASE tx = ReadyToReimburse /\ ReadyToEnd
            BY <2>1 DEF ReadyToReimburse, Kickoff
      <2>2. CASE tx = NextRound
            BY <2>2 DEF ReadyToReimburse, NextRound, Kickoff
      <2>3. ASSUME NEW j \in Kickoffs, tx \in NewKickoffTxs(j) \cup OwnTimeoutTxs(j)
                      \cup LatestBlockhashTxs(j) \cup AssertTxs(j)
            PROVE  tx[1] \in {"ChallengeTimeout", "DisproveTimeout", "Reimburse",
                              "WatchtowerChallengeTimeout", "LatestBlockhash", "MiniAssert"}
            BY <2>3 DEF NewKickoffTxs, OwnTimeoutTxs, LatestBlockhashTxs, AssertTxs
      <2>4. ASSUME NEW j \in Kickoffs, tx \in AckTxs(j)
            PROVE  \E v \in Watchtowers : /\ tx = <<"OperatorChallengeAck", j, v>>
                                          /\ <<"WatchtowerChallenge", j, v>> \in Mined
            BY <2>4 DEF AckTxs, Final, AgeAtLeast
      <2>5. \/ tx = ReadyToReimburse /\ ReadyToEnd
            \/ tx = NextRound
            \/ \E j \in Kickoffs : \/ tx \in AckTxs(j)
                                   \/ tx \in NewKickoffTxs(j) \cup OwnTimeoutTxs(j)
                                             \cup LatestBlockhashTxs(j) \cup AssertTxs(j)
            BY <1>3 DEF OperatorQueue
      <2>6. CASE tx[1] \in {"ChallengeTimeout", "DisproveTimeout", "Reimburse",
                            "WatchtowerChallengeTimeout", "LatestBlockhash", "MiniAssert"}
            BY <2>6 DEF Kickoff, ReadyToReimburse
      <2>7. ASSUME NEW j \in Kickoffs, tx \in AckTxs(j)
            PROVE  /\ \A k : tx # Kickoff(k) /\ tx # <<"BurnUnusedKickoffConnectors", k>>
                   /\ \A k, w : tx = <<"OperatorChallengeAck", k, w>> =>
                                   <<"WatchtowerChallenge", k, w>> \in Mined
                   /\ tx # ReadyToReimburse
        <3>1. PICK v \in Watchtowers : /\ tx = <<"OperatorChallengeAck", j, v>>
                                       /\ <<"WatchtowerChallenge", j, v>> \in Mined
              BY <2>4, <2>7
        <3>2. \A k, w : tx = <<"OperatorChallengeAck", k, w>> => k = j /\ w = v
              BY <3>1
        <3>3. /\ \A k : tx # Kickoff(k) /\ tx # <<"BurnUnusedKickoffConnectors", k>>
              /\ tx # ReadyToReimburse
              BY <3>1 DEF Kickoff, ReadyToReimburse
        <3> QED  BY <3>1, <3>2, <3>3
      <2> QED  BY <2>1, <2>2, <2>3, <2>5, <2>6, <2>7
    <1> QED  BY <1>1, <1>2, <1>3 DEF MayMine, Queue
LEMMA ReadyToEndStays ==
    ASSUME ChainInv, Grows, ReadyToEnd
    PROVE  ReadyToEnd'
    <1>1. ASSUME NEW tx, Final(tx)
          PROVE  Final(tx)'
          BY <1>1, AgeStays, Locks DEF Final
    <1> QED  BY <1>1 DEF ReadyToEnd

(* When the honest operator has ended the round, no kickoff output is      *)
(* unspent and no kickoff is unsettled.                                    *)
LEMMA EndedSettled ==
    ASSUME ChainInv, OperatorSent, ReadyToReimburse \in Mined, NEW k \in Kickoffs
    PROVE  /\ KickoffOut(k) \in spent
           /\ Kickoff(k) \in Mined => KickoffFinalizer(k) \in spent
    <1>1. \/ <<"BurnUnusedKickoffConnectors", k>> \in Mined
          \/ <<"ChallengeTimeout", k>> \in Mined
          \/ <<"DisproveTimeout", k>> \in Mined
          BY DEF OperatorSent, ReadyToEnd, Final, AgeAtLeast
    <1>2. CASE <<"BurnUnusedKickoffConnectors", k>> \in Mined
          BY <1>2, BurnUnusedKickoffConnectorsTook DEF OperatorSent
    <1>3. ASSUME Kickoff(k) \in Mined
          PROVE  KickoffOut(k) \in spent
          BY <1>3, KickoffTook DEF Kickoff
    <1>4. CASE <<"ChallengeTimeout", k>> \in Mined
          BY <1>3, <1>4, ChallengeTimeoutTook DEF AgeAtLeast
    <1>5. CASE <<"DisproveTimeout", k>> \in Mined
          BY <1>3, <1>5, DisproveTimeoutTook DEF AgeAtLeast
    <1> QED  BY <1>1, <1>2, <1>4, <1>5

(* Nothing that burns the collateral of an honest operator can be mined. *)
LEMMA CannotBurn ==
    ASSUME ChainInv, OperatorInv, honest = "operator", NEW tx \in Txs, CanMine(tx)
    PROVE  ~Burns(tx)
    <1> SUFFICES ASSUME Burns(tx)
                 PROVE  FALSE
        OBVIOUS
    <1>0. OperatorSent
          BY DEF OperatorInv
    <1>1. ASSUME NEW k \in Kickoffs, NEW lock \in Nat, NEW late \in Nat, lock < late,
                 AgeAtLeast(Kickoff(k), late), KickoffFinalizer(k) \notin spent
          PROVE  MeetsDeadlines(k) /\ Past(k, lock)
      <2>1. Kickoff(k) \in Mined /\ age[Kickoff(k)] \in Nat
            BY <1>1 DEF AgeAtLeast, ChainInv
      <2> QED  BY <1>1, <2>1 DEF OperatorInv, Past, AgeAtLeast
    <1>2. ASSUME NEW k \in Kickoffs, tx = <<"UnspentKickoff", k>>
          PROVE  FALSE
          BY <1>0, <1>2, UnspentKickoffCan, EndedSettled
    <1>3. ASSUME NEW k \in Kickoffs, tx = <<"KickoffNotFinalized", k>>
          PROVE  FALSE
          BY <1>0, <1>3, KickoffNotFinalizedCan, EndedSettled
    <1>4. ASSUME NEW k \in Kickoffs, tx = <<"Disprove", k>>
          PROVE  FALSE
          BY <1>0, <1>4, DisproveCan DEF DisproveWitness, OperatorSent
    <1>5. ASSUME NEW k \in Kickoffs, tx = <<"LatestBlockhashTimeout", k>>
          PROVE  FALSE
      <2>1. /\ Out(Kickoff(k), <<"LatestBlockhash">>) \notin spent
            /\ KickoffFinalizer(k) \notin spent
            /\ AgeAtLeast(Kickoff(k), BlockhashTimeoutLock)
            BY <1>5, LatestBlockhashTimeoutCan
      <2>2. MeetsDeadlines(k) /\ Past(k, WatchtowerTimeoutLock + 2 * F - 1)
        <3>1. /\ WatchtowerTimeoutLock + 2 * F - 1 \in Nat /\ BlockhashTimeoutLock \in Nat
              /\ WatchtowerTimeoutLock + 2 * F - 1 < BlockhashTimeoutLock
              BY Locks, Room
        <3> QED  BY <1>1, <2>1, <3>1
      <2>3. <<"LatestBlockhash", k>> \in Mined
            BY <2>2 DEF MeetsDeadlines, Follows
      <2> QED  BY <2>1, <2>3, LatestBlockhashTook
    <1>6. ASSUME NEW k \in Kickoffs, NEW w \in Watchtowers, tx = <<"OperatorChallengeNack", k, w>>
          PROVE  FALSE
      <2>1. /\ AckOut(k, w) \notin spent
            /\ KickoffFinalizer(k) \notin spent
            /\ AgeAtLeast(Kickoff(k), NackLock)
            BY <1>6, OperatorChallengeNackCan
      <2>2. MeetsDeadlines(k) /\ Past(k, WatchtowerTimeoutLock + F)
        <3>1. /\ WatchtowerTimeoutLock + F \in Nat /\ NackLock \in Nat
              /\ WatchtowerTimeoutLock + F < NackLock
              BY Locks, Room
        <3> QED  BY <1>1, <2>1, <3>1
      <2> QED  BY <2>1, <2>2 DEF MeetsDeadlines
    <1>7. ASSUME NEW k \in Kickoffs, NEW i \in Asserts, tx = <<"AssertTimeout", k, i>>
          PROVE  FALSE
      <2>1. /\ Out(Kickoff(k), <<"Assert", i>>) \notin spent
            /\ KickoffFinalizer(k) \notin spent
            /\ AgeAtLeast(Kickoff(k), AssertTimeoutLock)
            BY <1>7, AssertTimeoutCan
      <2>2. MeetsDeadlines(k) /\ Past(k, WatchtowerTimeoutLock + 3 * F - 1)
        <3>1. /\ WatchtowerTimeoutLock + 3 * F - 1 \in Nat /\ AssertTimeoutLock \in Nat
              /\ WatchtowerTimeoutLock + 3 * F - 1 < AssertTimeoutLock
              BY Locks, Room
        <3> QED  BY <1>1, <2>1, <3>1
      <2>3. <<"MiniAssert", k, i>> \in Mined
            BY <2>2 DEF MeetsDeadlines
      <2> QED  BY <2>1, <2>3, MiniAssertTook
    <1> QED
      <2>1. \/ \E k \in Kickoffs : tx \in {<<"UnspentKickoff", k>>, <<"KickoffNotFinalized", k>>,
                                          <<"Disprove", k>>, <<"LatestBlockhashTimeout", k>>}
            \/ \E k \in Kickoffs, w \in Watchtowers : tx = <<"OperatorChallengeNack", k, w>>
            \/ \E k \in Kickoffs, i \in Asserts : tx = <<"AssertTimeout", k, i>>
            BY TxKinds DEF Burns, Round, NextRound, ReadyToReimburse, OperatorExit, MoveToVault
      <2> QED  BY <1>2, <1>3, <1>4, <1>5, <1>6, <1>7, <2>1

LEMMA OperatorInit ==
    ASSUME Init
    PROVE  OperatorInv
    <1>1. Mined = {Round, MoveToVault}
          BY DEF Init, Mined
    <1> QED  BY <1>1 DEF OperatorInv, Burned, OperatorSent, Kickoff, Round, MoveToVault,
                ReadyToReimburse

LEMMA OperatorStep ==
    ASSUME ChainInv, OperatorInv, [Next]_vars
    PROVE  OperatorInv'
    <1> SUFFICES ASSUME honest' = "operator"
                 PROVE  /\ ~Burned'
                        /\ OperatorSent'
                        /\ \A k \in Kickoffs :
                              Kickoff(k) \in Mined' /\ KickoffFinalizer(k) \notin spent' =>
                                 MeetsDeadlines(k)'
        BY DEF OperatorInv
    <1>1. Grows
          BY StepGrows
    <1>2. honest = "operator" /\ paid' = paid
          BY <1>1 DEF Grows
    <1>3. /\ ~Burned
          /\ OperatorSent
          /\ \A k \in Kickoffs :
                Kickoff(k) \in Mined /\ KickoffFinalizer(k) \notin spent => MeetsDeadlines(k)
          BY <1>2 DEF OperatorInv
    <1>4. CASE NextBlock
      <2>1. Mined' = Mined /\ spent' = spent
            BY <1>4, BlockStep
      <2>2. ~Burned'
            BY <1>3, <2>1 DEF Burned
      <2>3. OperatorSent'
            BY <1>1, <1>2, <1>3, <2>1, ReadyToEndStays DEF OperatorSent
      <2> QED  BY <1>2, <1>3, <1>4, <2>1, <2>2, <2>3, DeadlinesBlock
    <1>5. ASSUME NEW tx \in Txs, Mine(tx)
          PROVE  /\ ~Burned'
                 /\ OperatorSent'
                 /\ \A k \in Kickoffs :
                       Kickoff(k) \in Mined' /\ KickoffFinalizer(k) \notin spent' =>
                          MeetsDeadlines(k)'
      <2>1. tx \in MayMine /\ Mined' = Mined \cup {tx}
            BY <1>5, MineStep
      <2>2. ~Burns(tx)
            BY <1>2, <1>5, CannotBurn, MineCan
      <2>3. ~Burned'
            BY <1>3, <2>1, <2>2 DEF Burned, Burns
      <2>4. /\ \A k : tx = Kickoff(k) => k \in paid
            /\ \A k : tx = <<"BurnUnusedKickoffConnectors", k>> => k \notin paid
            /\ \A k, w : tx = <<"OperatorChallengeAck", k, w>> =>
                            <<"WatchtowerChallenge", k, w>> \in Mined
            /\ tx = ReadyToReimburse => ReadyToEnd
            BY <1>2, <2>1, OperatorSends
      <2>5. OperatorSent'
            BY <1>1, <1>2, <1>3, <2>1, <2>4, ReadyToEndStays DEF OperatorSent
      <2>6. \A k \in Kickoffs :
               Kickoff(k) \in Mined' /\ KickoffFinalizer(k) \notin spent' => MeetsDeadlines(k)'
            BY <1>3, <1>5, DeadlinesMine
      <2> QED  BY <2>3, <2>5, <2>6
    <1>6. CASE UNCHANGED vars
          BY <1>3, <1>6 DEF vars, Burned, OperatorSent, MeetsDeadlines, Mined, ReadyToEnd, Final,
             AgeAtLeast, Past, Follows
    <1> QED  BY <1>4, <1>5, <1>6 DEF Next
-----------------------------------------------------------------------------
(* The verifiers' duties and the ages that they count. *)

LEMMA VerifierCaps ==
    ASSUME honest = "verifiers", NEW k, NEW i
    PROVE  /\ Cap(<<"Challenge", k>>) = F
           /\ Cap(<<"WatchtowerChallenge", k, i>>) = F
           /\ Cap(<<"WatchtowerChallengeTimeout", k, i>>) = F
           /\ Cap(<<"OperatorChallengeAck", k, i>>) = F
           /\ Cap(<<"LatestBlockhash", k>>) = F
           /\ Cap(<<"MiniAssert", k, i>>) = F
    BY DEF Cap

LEMMA KickoffCap ==
    ASSUME NEW k
    PROVE  Cap(Kickoff(k)) = DisproveTimeoutLock
    BY DEF Cap, Kickoff

LEMMA TxsHave ==
    ASSUME NEW k \in Kickoffs
    PROVE  /\ <<"KickoffNotFinalized", k>> \in Txs
           /\ <<"LatestBlockhashTimeout", k>> \in Txs
           /\ <<"Challenge", k>> \in Of("Challenge")
           /\ \A w \in Watchtowers : <<"OperatorChallengeNack", k, w>> \in Txs
           /\ \A i \in Asserts : <<"AssertTimeout", k, i>> \in Txs
    BY DEF Txs, Of, OfEach

LEMMA VerifierDuties ==
    ASSUME honest = "verifiers", NEW k \in Kickoffs
    PROVE  /\ target = k => <<"Challenge", k>> \in Queue
           /\ ChallengedKickoff(k) =>
                 /\ <<"KickoffNotFinalized", k>> \in Queue
                 /\ <<"LatestBlockhashTimeout", k>> \in Queue
                 /\ \A w \in Watchtowers : /\ <<"WatchtowerChallenge", k, w>> \in Queue
                                           /\ <<"OperatorChallengeNack", k, w>> \in Queue
                 /\ \A i \in Asserts : <<"AssertTimeout", k, i>> \in Queue
           /\ ReadyToDisprove(k) => <<"Disprove", k>> \in Queue
    <1>1. Queue = VerifierQueue
          BY DEF Queue
    <1>2. target = k => <<"Challenge", k>> \in VerifierQueue
          BY TxsHave DEF VerifierQueue
    <1>3. ReadyToDisprove(k) => <<"Disprove", k>> \in VerifierQueue
      <2>1. ReadyToDisprove(k) => <<"Disprove", k>> \in DisproveTxs
            BY DEF DisproveTxs
      <2> QED  BY <2>1 DEF VerifierQueue
    <1>4. ChallengedKickoff(k) => /\ ChallengedKickoffTxs(k) \subseteq VerifierQueue
                                  /\ WatchtowerChallengeTxs(k) \subseteq VerifierQueue
      <2>1. ChallengedKickoff(k) => /\ ChallengedKickoffTxs(k) \subseteq ChallengedTxs
                                    /\ WatchtowerChallengeTxs(k) \subseteq ChallengedTxs
            BY DEF ChallengedTxs
      <2> QED  BY <2>1 DEF VerifierQueue
    <1>5. /\ <<"KickoffNotFinalized", k>> \in ChallengedKickoffTxs(k)
          /\ <<"LatestBlockhashTimeout", k>> \in ChallengedKickoffTxs(k)
          BY TxsHave DEF ChallengedKickoffTxs
    <1>6. ASSUME NEW w \in Watchtowers
          PROVE  /\ <<"WatchtowerChallenge", k, w>> \in WatchtowerChallengeTxs(k)
                 /\ <<"OperatorChallengeNack", k, w>> \in ChallengedKickoffTxs(k)
      <2>1. <<"OperatorChallengeNack", k, w>> \in Txs
            BY TxsHave, Zenon
      <2>2. <<"OperatorChallengeNack", k, w>> \in ChallengedKickoffTxs(k)
            BY <2>1 DEF ChallengedKickoffTxs
      <2> QED  BY <2>2 DEF WatchtowerChallengeTxs
    <1>7. ASSUME NEW i \in Asserts
          PROVE  <<"AssertTimeout", k, i>> \in ChallengedKickoffTxs(k)
      <2>1. <<"AssertTimeout", k, i>> \in Txs
            BY TxsHave, Zenon
      <2> QED  BY <2>1 DEF ChallengedKickoffTxs
    <1> QED  BY <1>1, <1>2, <1>3, <1>4, <1>5, <1>6, <1>7

(* The challenged kickoff k in a state of the game. *)
Trap(k) ==
    /\ honest = "verifiers"
    /\ k \in Kickoffs
    /\ target = k
    /\ k \in seen
    /\ k \notin paid
    /\ Kickoff(k) \in Mined
    /\ NextRound \notin Mined
    /\ WatchtowerInv
    /\ Forced(k)
    /\ Trapped(k)

(* While the game goes on its finalizer is unspent. *)
LEMMA TrapHolds ==
    ASSUME ChainInv, ~Over, NEW k, Trap(k)
    PROVE  /\ ~Burned
           /\ OperatorExit \notin Mined
           /\ KickoffFinalizer(k) \notin spent
           /\ CollateralInReadyToReimburse \notin spent
           /\ Out(Kickoff(k), <<"Disprove">>) \notin spent
           /\ ReadyToReimburse \notin Mined => CollateralInRound \notin spent
    <1>1. ~Burned /\ OperatorExit \notin Mined
          BY DEF Over, OperatorExit
    <1>2. KickoffFinalizer(k) \notin spent
          BY <1>1, FinalizerSpent DEF Trap, Trapped
    <1>3. CollateralInReadyToReimburse \notin spent
          BY <1>1, ReadyCollateralSpent DEF Trap
    <1>4. Out(Kickoff(k), <<"Disprove">>) \notin spent
          BY <1>1, DisproveSpent DEF Trap, Trapped
    <1>5. ReadyToReimburse \notin Mined => CollateralInRound \notin spent
          BY <1>1, RoundCollateralSpent DEF Trap
    <1> QED  BY <1>1, <1>2, <1>3, <1>4, <1>5

(* Twice the finality depth after the kickoff the challenge is final, and  *)
(* at the end of a block the round has not ended: the transaction against  *)
(* a kickoff that is not finalized would be mined.                         *)
LEMMA TrapChallenged ==
    ASSUME ChainInv, NextBlock, NEW k, Trap(k), AgeAtLeast(Kickoff(k), 2 * F)
    PROVE  ChallengedKickoff(k) /\ ReadyToReimburse \notin Mined
    <1>1. Past(k, F) /\ AgeAtLeast(Kickoff(k), F + F)
          BY Locks DEF Past, AgeAtLeast, ChainInv
    <1>2. Follows(<<"Challenge", k>>, k, F, F)
          BY <1>1 DEF Trap, Forced
    <1>3. AgeAtLeast(<<"Challenge", k>>, F)
      <2>1. F \in Nat /\ F <= F
            BY Locks
      <2> QED  BY <1>1, <1>2, <2>1, FollowsAge
    <1>4. ChallengedKickoff(k)
          BY <1>3 DEF Trap, ChallengedKickoff, Final
    <1>5. ~CanMine(<<"KickoffNotFinalized", k>>)
          BY <1>4, VerifierDuties, QueueCannot DEF Trap
    <1>6. ~Over
          BY BlockStep
    <1>7. <<"KickoffNotFinalized", k>> \notin Mined
          BY <1>6, TrapHolds, BurnedBy DEF Burns
    <1> QED  BY <1>4, <1>5, <1>6, <1>7, TrapHolds, KickoffNotFinalizedCan DEF Trap
(* A transaction that must have been mined with the block follows the      *)
(* kickoff.                                                                *)
LEMMA ForcedFollows ==
    ASSUME ChainInv, NextBlock, NEW k, Kickoff(k) \in Mined, NEW tx, NEW lock \in Nat,
           Cap(tx) = F, tx \in Mined, Past(k, lock) => Follows(tx, k, lock, F)
    PROVE  Follows(tx, k, lock, F)'
    <1>1. F \in Nat /\ F <= Cap(tx)
          BY Locks
    <1> QED  BY <1>1, FollowsBlock

LEMMA ForcedBlock ==
    ASSUME ChainInv, NextBlock, NEW k, Trap(k)
    PROVE  Forced(k)'
    <1> DEFINE Challenge == <<"Challenge", k>>
               WC(w) == <<"WatchtowerChallenge", k, w>>
               WTT(w) == <<"WatchtowerChallengeTimeout", k, w>>
               Ack(w) == <<"OperatorChallengeAck", k, w>>
               LB == <<"LatestBlockhash", k>>
               MA(i) == <<"MiniAssert", k, i>>
    <1>0. /\ ~Over /\ ~Burned
          /\ KickoffFinalizer(k) \notin spent
          /\ Kickoff(k) \in Mined /\ k \in Kickoffs /\ honest = "verifiers"
          /\ Forced(k)
          BY BlockStep, TrapHolds DEF Trap
    <1>1. ASSUME NEW lock \in Nat, 2 * F <= lock, Past(k, lock)'
          PROVE  /\ AgeAtLeast(Kickoff(k), lock)
                 /\ ChallengedKickoff(k)
                 /\ CollateralInRound \notin spent
      <2>1. AgeAtLeast(Kickoff(k), lock)
            BY <1>0, <1>1, PastBlock
      <2>2. AgeAtLeast(Kickoff(k), 2 * F)
            BY <1>0, <1>1, <2>1, Locks DEF AgeAtLeast, ChainInv
      <2> QED  BY <1>0, <2>1, <2>2, TrapChallenged, TrapHolds
    <1>2. Past(k, F)' => Follows(Challenge, k, F, F)'
      <2> SUFFICES ASSUME Past(k, F)'
                   PROVE  Follows(Challenge, k, F, F)'
          OBVIOUS
      <2>1. ~CanMine(Challenge)
            BY VerifierDuties, QueueCannot DEF Trap
      <2>2. Challenge \in Mined
            BY <1>0, <2>1, ChallengeCan, ChallengeSpent DEF Trap, Trapped
      <2>3. Cap(Challenge) = F
            BY <1>0, VerifierCaps, Zenon
      <2>4. Past(k, F) => Follows(Challenge, k, F, F)
            BY <1>0 DEF Forced
      <2> HIDE DEF Challenge
      <2> QED  BY <1>0, <2>2, <2>3, <2>4, Locks, ForcedFollows
    <1>3. Past(k, 2 * F)' => \A w \in Watchtowers : \/ Follows(WC(w), k, 2 * F, F)'
                                                   \/ Follows(WTT(w), k, 2 * F, F)'
      <2> SUFFICES ASSUME Past(k, 2 * F)', NEW w \in Watchtowers
                   PROVE  Follows(WC(w), k, 2 * F, F)' \/ Follows(WTT(w), k, 2 * F, F)'
          OBVIOUS
      <2>0. 2 * F \in Nat
            BY Locks
      <2>1. ~CanMine(WC(w))
        <3>1. ChallengedKickoff(k)
              BY <1>1, <2>0
        <3>2. WC(w) \in Queue
              BY <1>0, <3>1, VerifierDuties
        <3> QED  BY <3>2, QueueCannot
      <2>2. WC(w) \in Mined \/ WTT(w) \in Mined
            BY <1>0, <2>1, WatchtowerChallengeCan, WatchtowerSpent
      <2>3. Cap(WC(w)) = F /\ Cap(WTT(w)) = F
            BY <1>0, VerifierCaps, Zenon
      <2>4. Past(k, 2 * F) => Follows(WC(w), k, 2 * F, F) \/ Follows(WTT(w), k, 2 * F, F)
            BY <1>0 DEF Forced
      <2>5. Follows(WC(w), k, 2 * F, F) => WC(w) \in Mined
            BY DEF Follows
      <2>6. Follows(WTT(w), k, 2 * F, F) => WTT(w) \in Mined
            BY DEF Follows
      <2> HIDE DEF WC, WTT
      <2>7. CASE Past(k, 2 * F)
            BY <1>0, <2>0, <2>3, <2>4, <2>5, <2>6, <2>7, ForcedFollows
      <2>8. CASE ~Past(k, 2 * F)
            BY <1>0, <2>0, <2>2, <2>3, <2>8, ForcedFollows
      <2> QED  BY <2>7, <2>8
    <1>4. Past(k, NackLock)' => \A w \in Watchtowers : \/ Follows(Ack(w), k, NackLock, F)'
                                                      \/ WTT(w) \in Mined'
      <2> SUFFICES ASSUME Past(k, NackLock)', NEW w \in Watchtowers, WTT(w) \notin Mined
                   PROVE  Follows(Ack(w), k, NackLock, F)'
          BY BlockStep
      <2>0. NackLock \in Nat /\ 2 * F <= NackLock
            BY Locks, Room
      <2>1. ~CanMine(<<"OperatorChallengeNack", k, w>>)
            BY <1>0, <1>1, <2>0, VerifierDuties, QueueCannot
      <2>2. <<"OperatorChallengeNack", k, w>> \notin Mined
            BY <1>0, BurnedBy DEF Burns
      <2>3. AckOut(k, w) \in spent
            BY <1>0, <1>1, <2>0, <2>1, <2>2, OperatorChallengeNackCan
      <2>4. Ack(w) \in Mined
            BY <1>0, <2>3, AckSpent
      <2>5. Cap(Ack(w)) = F
            BY <1>0, VerifierCaps, Zenon
      <2>6. Past(k, NackLock) => Follows(Ack(w), k, NackLock, F)
            BY <1>0 DEF Forced
      <2> HIDE DEF Ack
      <2> QED  BY <1>0, <2>0, <2>4, <2>5, <2>6, ForcedFollows
    <1>5. Past(k, BlockhashTimeoutLock)' => Follows(LB, k, BlockhashTimeoutLock, F)'
      <2> SUFFICES ASSUME Past(k, BlockhashTimeoutLock)'
                   PROVE  Follows(LB, k, BlockhashTimeoutLock, F)'
          OBVIOUS
      <2>0. BlockhashTimeoutLock \in Nat /\ 2 * F <= BlockhashTimeoutLock
            BY Locks, Room
      <2>1. ~CanMine(<<"LatestBlockhashTimeout", k>>)
            BY <1>0, <1>1, <2>0, VerifierDuties, QueueCannot
      <2>2. <<"LatestBlockhashTimeout", k>> \notin Mined
            BY <1>0, BurnedBy DEF Burns
      <2>3. Out(Kickoff(k), <<"LatestBlockhash">>) \in spent
            BY <1>0, <1>1, <2>0, <2>1, <2>2, LatestBlockhashTimeoutCan
      <2>4. LB \in Mined
            BY <1>0, <2>3, BlockhashSpent
      <2>5. Cap(LB) = F
            BY <1>0, VerifierCaps, Zenon
      <2>6. Past(k, BlockhashTimeoutLock) => Follows(LB, k, BlockhashTimeoutLock, F)
            BY <1>0 DEF Forced
      <2> HIDE DEF LB
      <2> QED  BY <1>0, <2>0, <2>4, <2>5, <2>6, ForcedFollows
    <1>6. Past(k, AssertTimeoutLock)' => \A i \in Asserts : Follows(MA(i), k, AssertTimeoutLock, F)'
      <2> SUFFICES ASSUME Past(k, AssertTimeoutLock)', NEW i \in Asserts
                   PROVE  Follows(MA(i), k, AssertTimeoutLock, F)'
          OBVIOUS
      <2>0. AssertTimeoutLock \in Nat /\ 2 * F <= AssertTimeoutLock
            BY Locks, Room
      <2>1. ~CanMine(<<"AssertTimeout", k, i>>)
            BY <1>0, <1>1, <2>0, VerifierDuties, QueueCannot
      <2>2. <<"AssertTimeout", k, i>> \notin Mined
            BY <1>0, BurnedBy DEF Burns
      <2>3. Out(Kickoff(k), <<"Assert", i>>) \in spent
            BY <1>0, <1>1, <2>0, <2>1, <2>2, AssertTimeoutCan
      <2>4. MA(i) \in Mined
            BY <1>0, <2>3, AssertSpent
      <2>5. Cap(MA(i)) = F
            BY <1>0, VerifierCaps, Zenon
      <2>6. Past(k, AssertTimeoutLock) => Follows(MA(i), k, AssertTimeoutLock, F)
            BY <1>0 DEF Forced
      <2> HIDE DEF MA
      <2> QED  BY <1>0, <2>0, <2>4, <2>5, <2>6, ForcedFollows
    <1> QED  BY <1>2, <1>3, <1>4, <1>5, <1>6 DEF Forced
(* Before its disprove timeout the kickoff is disproved: everything that   *)
(* is needed for it was forced and is final.                               *)
LEMMA TrappedBlock ==
    ASSUME ChainInv, NextBlock, NEW k, Trap(k)
    PROVE  Trapped(k)'
    <1>0. /\ ~Over /\ ~Burned
          /\ Kickoff(k) \in Mined /\ k \in Kickoffs /\ honest = "verifiers" /\ k \notin paid
          /\ Forced(k) /\ Trapped(k) /\ WatchtowerInv
          /\ Mined' = Mined
          /\ age[Kickoff(k)] \in Nat
          BY BlockStep, TrapHolds DEF Trap, ChainInv
    <1>1. ASSUME NEW lock \in Nat, 2 * F <= lock, Past(k, lock)'
          PROVE  AgeAtLeast(Kickoff(k), lock) /\ AgeAtLeast(Kickoff(k), 2 * F)
      <2>1. AgeAtLeast(Kickoff(k), lock)
            BY <1>0, <1>1, PastBlock
      <2> QED  BY <1>0, <1>1, <2>1, Locks DEF AgeAtLeast
    <1>2. (ReadyToReimburse \in Mined => ~Past(k, 2 * F) \/ age[ReadyToReimburse] = 0)'
      <2>1. 2 * F \in Nat /\ 2 * F <= 2 * F
            BY Locks
      <2>2. Past(k, 2 * F)' => ReadyToReimburse \notin Mined
            BY <1>1, <2>1, TrapChallenged
      <2> QED  BY <1>0, <2>2
    <1>3. (~ (Past(k, NackLock + F) /\ Past(k, BlockhashTimeoutLock + F) /\ Past(k, AssertTimeoutLock + F)))'
      <2> SUFFICES ASSUME Past(k, NackLock + F)', Past(k, BlockhashTimeoutLock + F)',
                          Past(k, AssertTimeoutLock + F)'
                   PROVE  FALSE
          OBVIOUS
      <2>1. /\ F \in Nat /\ F >= 1 /\ F <= F /\ 2 * F \in Nat
            /\ NackLock \in Nat /\ BlockhashTimeoutLock \in Nat /\ AssertTimeoutLock \in Nat
            /\ NackLock + F \in Nat /\ BlockhashTimeoutLock + F \in Nat /\ AssertTimeoutLock + F \in Nat
            /\ 3 * F <= NackLock + F /\ 2 * F <= NackLock + F
            /\ 2 * F <= BlockhashTimeoutLock + F /\ 2 * F <= AssertTimeoutLock + F
            BY Locks, Room
      <2>2. /\ AgeAtLeast(Kickoff(k), NackLock + F)
            /\ AgeAtLeast(Kickoff(k), BlockhashTimeoutLock + F)
            /\ AgeAtLeast(Kickoff(k), AssertTimeoutLock + F)
            /\ AgeAtLeast(Kickoff(k), 2 * F)
            BY <1>1, <2>1
      <2>3. /\ Past(k, 2 * F) /\ AgeAtLeast(Kickoff(k), 2 * F + F)
            /\ Past(k, NackLock) /\ Past(k, BlockhashTimeoutLock) /\ Past(k, AssertTimeoutLock)
            BY <1>0, <2>1, <2>2 DEF Past, AgeAtLeast
      <2>4. ChallengedKickoff(k) /\ ReadyToReimburse \notin Mined
            BY <2>2, TrapChallenged
      <2>5. WatchtowerUtxosSpent(k, F)
        <3> SUFFICES ASSUME NEW w \in Watchtowers
                     PROVE  \/ AgeAtLeast(<<"WatchtowerChallenge", k, w>>, F)
                            \/ AgeAtLeast(<<"WatchtowerChallengeTimeout", k, w>>, F)
            BY DEF WatchtowerUtxosSpent
        <3>1. \/ Follows(<<"WatchtowerChallenge", k, w>>, k, 2 * F, F)
              \/ Follows(<<"WatchtowerChallengeTimeout", k, w>>, k, 2 * F, F)
              BY <1>0, <2>3 DEF Forced
        <3> QED  BY <2>1, <2>3, <3>1, FollowsAge
      <2>6. Final(<<"LatestBlockhash", k>>)
        <3>1. Follows(<<"LatestBlockhash", k>>, k, BlockhashTimeoutLock, F)
              BY <1>0, <2>3 DEF Forced
        <3>2. AgeAtLeast(<<"LatestBlockhash", k>>, F)
              BY <2>1, <2>2, <3>1, FollowsAge
        <3> QED  BY <3>2 DEF Final
      <2>7. ASSUME NEW i \in Asserts
            PROVE  Final(<<"MiniAssert", k, i>>)
        <3>1. Follows(<<"MiniAssert", k, i>>, k, AssertTimeoutLock, F)
              BY <1>0, <2>3 DEF Forced
        <3>2. AgeAtLeast(<<"MiniAssert", k, i>>, F)
              BY <2>1, <2>2, <3>1, FollowsAge
        <3> QED  BY <3>2 DEF Final
      <2>8. ASSUME NEW w \in Watchtowers, <<"WatchtowerChallenge", k, w>> \in Mined
            PROVE  Final(<<"OperatorChallengeAck", k, w>>)
        <3>1. Follows(<<"OperatorChallengeAck", k, w>>, k, NackLock, F)
              BY <1>0, <2>3, <2>8 DEF Forced, WatchtowerInv
        <3>2. AgeAtLeast(<<"OperatorChallengeAck", k, w>>, F)
              BY <2>1, <2>2, <3>1, FollowsAge
        <3> QED  BY <3>2 DEF Final
      <2>9. ReadyToDisprove(k)
            BY <2>4, <2>5, <2>6, <2>7, <2>8 DEF ReadyToDisprove
      <2>10. ~CanMine(<<"Disprove", k>>)
            BY <1>0, <2>9, VerifierDuties, QueueCannot
      <2>11. DisproveWitness(k)
        <3>1. <<"LatestBlockhash", k>> \in Mined
              BY <2>6 DEF Final, AgeAtLeast
        <3>2. \A i \in Asserts : <<"MiniAssert", k, i>> \in Mined
              BY <2>7 DEF Final, AgeAtLeast
        <3> QED  BY <1>0, <3>1, <3>2 DEF DisproveWitness
      <2>12. <<"Disprove", k>> \notin Mined
            BY <1>0, BurnedBy DEF Burns
      <2> QED  BY <1>0, <2>4, <2>10, <2>11, <2>12, TrapHolds, DisproveCan
    <1> QED  BY <1>0, <1>2, <1>3 DEF Trapped

LEMMA ForcedMine ==
    ASSUME NEW x, Mine(x), NEW k, Forced(k)
    PROVE  Forced(k)'
    <1>0. /\ F \in Nat /\ 2 * F \in Nat /\ NackLock \in Nat /\ BlockhashTimeoutLock \in Nat
          /\ AssertTimeoutLock \in Nat
          BY Locks
    <1>1. ASSUME NEW lock \in Nat, Past(k, lock)'
          PROVE  Kickoff(k) \in Mined /\ Past(k, lock)
          BY <1>1, PastMine
    <1>2. ASSUME NEW tx, NEW lock, NEW n, Kickoff(k) \in Mined, Follows(tx, k, lock, n)
          PROVE  Follows(tx, k, lock, n)'
          BY <1>2, FollowsMine
    <1>3. Mined \subseteq Mined'
          BY MineStep
    <1>4. Past(k, F)' => Follows(<<"Challenge", k>>, k, F, F)'
          BY <1>0, <1>1, <1>2 DEF Forced
    <1>5. ASSUME Past(k, 2 * F)', NEW w \in Watchtowers
          PROVE  \/ Follows(<<"WatchtowerChallenge", k, w>>, k, 2 * F, F)'
                 \/ Follows(<<"WatchtowerChallengeTimeout", k, w>>, k, 2 * F, F)'
      <2>1. /\ Kickoff(k) \in Mined
            /\ \/ Follows(<<"WatchtowerChallenge", k, w>>, k, 2 * F, F)
               \/ Follows(<<"WatchtowerChallengeTimeout", k, w>>, k, 2 * F, F)
            BY <1>0, <1>1, <1>5 DEF Forced
      <2> QED  BY <1>2, <2>1
    <1>6. ASSUME Past(k, NackLock)', NEW w \in Watchtowers
          PROVE  \/ Follows(<<"OperatorChallengeAck", k, w>>, k, NackLock, F)'
                 \/ <<"WatchtowerChallengeTimeout", k, w>> \in Mined'
      <2>1. /\ Kickoff(k) \in Mined
            /\ \/ Follows(<<"OperatorChallengeAck", k, w>>, k, NackLock, F)
               \/ <<"WatchtowerChallengeTimeout", k, w>> \in Mined
            BY <1>0, <1>1, <1>6 DEF Forced
      <2> QED  BY <1>2, <1>3, <2>1
    <1>7. Past(k, BlockhashTimeoutLock)' =>
             Follows(<<"LatestBlockhash", k>>, k, BlockhashTimeoutLock, F)'
          BY <1>0, <1>1, <1>2 DEF Forced
    <1>8. ASSUME Past(k, AssertTimeoutLock)', NEW i \in Asserts
          PROVE  Follows(<<"MiniAssert", k, i>>, k, AssertTimeoutLock, F)'
      <2>1. /\ Kickoff(k) \in Mined
            /\ Follows(<<"MiniAssert", k, i>>, k, AssertTimeoutLock, F)
            BY <1>0, <1>1, <1>8 DEF Forced
      <2> QED  BY <1>2, <2>1
    <1> QED  BY <1>4, <1>5, <1>6, <1>7, <1>8 DEF Forced

LEMMA TrappedMine ==
    ASSUME ChainInv, NEW x, Mine(x), NEW k, Trap(k)
    PROVE  Trapped(k)'
    <1>0. /\ Kickoff(k) \in Mined /\ k \in Kickoffs
          /\ Forced(k) /\ Trapped(k)
          /\ age[Kickoff(k)] \in Nat
          /\ Mined' = Mined \cup {x} /\ age'[x] = 0 /\ \A y \in Mined : age'[y] = age[y]
          /\ CanMine(x)
          BY MineStep, MineCan DEF Trap, ChainInv
    <1>1. x # <<"ChallengeTimeout", k>>
      <2> SUFFICES ASSUME x = <<"ChallengeTimeout", k>>
                   PROVE  FALSE
          OBVIOUS
      <2>1. /\ AgeAtLeast(Kickoff(k), ChallengeTimeoutLock)
            /\ Out(Kickoff(k), <<"Challenge">>) \notin spent
            BY <1>0, ChallengeTimeoutCan
      <2>2. Past(k, F)
            BY <1>0, <2>1, Locks, Room DEF Past, AgeAtLeast
      <2>3. <<"Challenge", k>> \in Mined
            BY <1>0, <2>2 DEF Forced, Follows
      <2> QED  BY <2>1, <2>3, ChallengeTook
    <1>2. x # <<"DisproveTimeout", k>>
      <2> SUFFICES ASSUME x = <<"DisproveTimeout", k>>
                   PROVE  FALSE
          OBVIOUS
      <2>1. AgeAtLeast(Kickoff(k), DisproveTimeoutLock)
            BY <1>0, DisproveTimeoutCan
      <2>2. /\ Past(k, NackLock + F)
            /\ Past(k, BlockhashTimeoutLock + F)
            /\ Past(k, AssertTimeoutLock + F)
            BY <1>0, <2>1, Locks, Room DEF Past, AgeAtLeast
      <2> QED  BY <1>0, <2>2 DEF Trapped
    <1>3. ASSUME NEW lock \in Nat, Past(k, lock)'
          PROVE  Past(k, lock)
          BY <1>3, PastMine
    <1>4. /\ NackLock + F \in Nat /\ BlockhashTimeoutLock + F \in Nat
          /\ AssertTimeoutLock + F \in Nat /\ 2 * F \in Nat
          BY Locks
    <1>5. (ReadyToReimburse \in Mined => ~Past(k, 2 * F) \/ age[ReadyToReimburse] = 0)'
          BY <1>0, <1>3, <1>4 DEF Trapped
    <1> QED  BY <1>0, <1>1, <1>2, <1>3, <1>4, <1>5 DEF Trapped
(* The kickoff that the verifiers choose is as old as the finality depth,  *)
(* so that nothing has been done about it.                                 *)
LEMMA NewTarget ==
    ASSUME ChainInv, NextBlock, NEW k \in Kickoffs, Kickoff(k) \in Mined, age[Kickoff(k)] < F
    PROVE  Forced(k)' /\ Trapped(k)'
    <1>0. /\ age[Kickoff(k)] \in Nat
          /\ age'[Kickoff(k)] \in {age[Kickoff(k)], age[Kickoff(k)] + 1}
          /\ Mined' = Mined
          BY BlockStep DEF ChainInv
    <1>1. ASSUME NEW lock \in Nat, F <= lock
          PROVE  ~Past(k, lock)'
          BY <1>0, <1>1, Locks DEF Past, AgeAtLeast, Kickoff
    <1>2. /\ F \in Nat /\ F <= F
          /\ 2 * F \in Nat /\ F <= 2 * F
          /\ NackLock \in Nat /\ F <= NackLock
          /\ BlockhashTimeoutLock \in Nat /\ F <= BlockhashTimeoutLock
          /\ AssertTimeoutLock \in Nat /\ F <= AssertTimeoutLock
          /\ NackLock + F \in Nat /\ F <= NackLock + F
          BY Locks, Room
    <1>3. <<"ChallengeTimeout", k>> \notin Mined
      <2>1. ~AgeAtLeast(Kickoff(k), ChallengeTimeoutLock)
            BY <1>0, Locks, Room DEF AgeAtLeast
      <2> QED  BY <2>1, ChallengeTimeoutTook
    <1>4. <<"DisproveTimeout", k>> \notin Mined
      <2>1. ~AgeAtLeast(Kickoff(k), DisproveTimeoutLock)
            BY <1>0, Locks, Room DEF AgeAtLeast
      <2> QED  BY <2>1, DisproveTimeoutTook
    <1>5. Forced(k)'
          BY <1>1, <1>2 DEF Forced
    <1>6. Trapped(k)'
          BY <1>0, <1>1, <1>2, <1>3, <1>4 DEF Trapped
    <1> QED  BY <1>5, <1>6

(* What a mined transaction adds to the kickoffs that were seen. *)
LEMMA SeenMine ==
    ASSUME ChainInv, NEW tx \in Txs, Mine(tx)
    PROVE  \/ seen' = seen
           \/ /\ ReadyToReimburse \notin Mined
              /\ \E k \in Kickoffs : tx = Kickoff(k) /\ seen' = seen \cup {k}
    <1>1. CASE tx[1] = "Kickoff" /\ ReadyToReimburse \notin Mined
      <2>1. PICK k \in Kickoffs : tx = <<"Kickoff", k>>
            BY <1>1 DEF Txs, Of, OfEach, Round, NextRound, ReadyToReimburse, OperatorExit,
               MoveToVault
      <2>2. tx[2] = k
            BY <2>1
      <2> QED  BY <1>1, <2>1, <2>2 DEF Mine, Kickoff
    <1> QED  BY <1>1 DEF Mine

LEMMA SeenInvBlock ==
    ASSUME ChainInv, NextBlock, SeenInv
    PROVE  SeenInv'
    <1>0. seen' = seen /\ Mined' = Mined
          BY BlockStep
    <1> SUFFICES ASSUME NEW k \in seen, ReadyToReimburse \in Mined
                 PROVE  \/ age'[ReadyToReimburse] <= age'[Kickoff(k)]
                        \/ age'[Kickoff(k)] = DisproveTimeoutLock
        BY <1>0 DEF SeenInv
    <1>1. /\ Kickoff(k) \in Mined
          /\ age[Kickoff(k)] \in Nat /\ age[Kickoff(k)] <= DisproveTimeoutLock
          /\ age[ReadyToReimburse] \in Nat
          BY KickoffCap DEF SeenInv, ChainInv
    <1>2. age'[Kickoff(k)] = IF age[Kickoff(k)] < DisproveTimeoutLock
                             THEN age[Kickoff(k)] + 1 ELSE age[Kickoff(k)]
          BY <1>1, BlockStep, KickoffCap
    <1>3. age'[ReadyToReimburse] \in {age[ReadyToReimburse], age[ReadyToReimburse] + 1}
          BY BlockStep
    <1>4. \/ age[ReadyToReimburse] <= age[Kickoff(k)]
          \/ age[Kickoff(k)] = DisproveTimeoutLock
          BY DEF SeenInv
    <1> QED  BY <1>1, <1>2, <1>3, <1>4, Locks

LEMMA SeenInvMine ==
    ASSUME ChainInv, NEW tx \in Txs, Mine(tx), SeenInv
    PROVE  SeenInv'
    <1>0. /\ Mined' = Mined \cup {tx} /\ age'[tx] = 0 /\ tx \notin Mined
          /\ \A y \in Mined : age'[y] = age[y]
          BY MineStep
    <1>1. ASSUME NEW k \in seen
          PROVE  /\ k \in Kickoffs
                 /\ Kickoff(k) \in Mined'
                 /\ ReadyToReimburse \in Mined' =>
                       \/ age'[ReadyToReimburse] <= age'[Kickoff(k)]
                       \/ age'[Kickoff(k)] = DisproveTimeoutLock
      <2>1. /\ k \in Kickoffs /\ Kickoff(k) \in Mined /\ age'[Kickoff(k)] = age[Kickoff(k)]
            /\ age[Kickoff(k)] \in Nat
            BY <1>0, <1>1 DEF SeenInv, ChainInv
      <2>2. CASE tx = ReadyToReimburse
            BY <1>0, <2>1, <2>2
      <2>3. CASE tx # ReadyToReimburse
            BY <1>0, <1>1, <2>1, <2>3 DEF SeenInv
      <2> QED  BY <1>0, <2>1, <2>2, <2>3
    <1>2. CASE seen' = seen
          BY <1>1, <1>2 DEF SeenInv
    <1>3. ASSUME ReadyToReimburse \notin Mined, NEW k \in Kickoffs, tx = Kickoff(k),
                 seen' = seen \cup {k}
          PROVE  SeenInv'
      <2>1. ReadyToReimburse \notin Mined'
            BY <1>0, <1>3 DEF ReadyToReimburse, Kickoff
      <2> QED  BY <1>0, <1>1, <1>3, <2>1 DEF SeenInv
    <1> QED  BY <1>2, <1>3, SeenMine

LEMMA WatchtowerInvMine ==
    ASSUME ChainInv, NEW tx, Mine(tx), WatchtowerInv
    PROVE  WatchtowerInv'
    <1>0. Mined' = Mined \cup {tx} /\ CanMine(tx)
          BY MineStep, MineCan
    <1> SUFFICES ASSUME NEW k \in Kickoffs, NEW w \in Watchtowers,
                        <<"WatchtowerChallenge", k, w>> \in Mined',
                        <<"WatchtowerChallengeTimeout", k, w>> \in Mined'
                 PROVE  FALSE
        BY DEF WatchtowerInv
    <1>1. CASE tx = <<"WatchtowerChallenge", k, w>>
      <2>1. <<"WatchtowerChallengeTimeout", k, w>> \in Mined
            BY <1>0, <1>1
      <2> QED  BY <1>0, <1>1, <2>1, WatchtowerChallengeCan, WatchtowerChallengeTimeoutTook
    <1>2. CASE tx = <<"WatchtowerChallengeTimeout", k, w>>
      <2>1. <<"WatchtowerChallenge", k, w>> \in Mined
            BY <1>0, <1>2
      <2> QED  BY <1>0, <1>2, <2>1, WatchtowerChallengeTimeoutCan, WatchtowerChallengeTook
    <1>3. CASE tx # <<"WatchtowerChallenge", k, w>> /\ tx # <<"WatchtowerChallengeTimeout", k, w>>
          BY <1>0, <1>3 DEF WatchtowerInv
    <1> QED  BY <1>1, <1>2, <1>3

(* The trap, as the invariant of the verifiers describes it. *)
LEMMA InTrap ==
    ASSUME ChainInv, VerifierInv, honest = "verifiers", target # NoKickoff,
           NextRound \notin Mined
    PROVE  Trap(target)
    BY DEF VerifierInv, TargetInv, SeenInv, Trap

(* The round is not left by the next one when a malicious kickoff is older *)
(* than twice the finality depth.                                          *)
LEMMA NextRoundInTime ==
    ASSUME ChainInv, VerifierInv, honest = "verifiers", NextRound \notin Mined,
           CanMine(NextRound), NEW k \in seen \ paid
    PROVE  age[Kickoff(k)] <= 2 * F
    <1>1. AgeAtLeast(ReadyToReimburse, ReimburseLock)
          BY NextRoundCan
    <1>2. ReadyToReimburse \in Mined /\ age[ReadyToReimburse] \in Nat /\ age[ReadyToReimburse] >= 1
          BY <1>1, Locks, Room DEF AgeAtLeast, ChainInv
    <1>3. Kickoff(k) \in Mined /\ age[Kickoff(k)] \in Nat
          BY DEF VerifierInv, SeenInv, ChainInv
    <1> SUFFICES ASSUME age[Kickoff(k)] > 2 * F
                 PROVE  FALSE
        BY <1>3, Locks
    <1>4. target # NoKickoff
      <2>1. ~ (age[Kickoff(k)] < F)
            BY <1>3, Locks
      <2> QED  BY <2>1 DEF VerifierInv, TargetInv
    <1>5. /\ target \in seen /\ Trapped(target)
          /\ age[Kickoff(k)] <= age[Kickoff(target)]
          BY <1>4 DEF VerifierInv, TargetInv
    <1>6. Kickoff(target) \in Mined /\ age[Kickoff(target)] \in Nat
          BY <1>5 DEF VerifierInv, SeenInv, ChainInv
    <1>7. Past(target, 2 * F)
          BY <1>3, <1>5, <1>6, Locks DEF Past, AgeAtLeast
    <1>8. age[ReadyToReimburse] = 0
          BY <1>2, <1>5, <1>7 DEF Trapped
    <1> QED  BY <1>2, <1>8

(* With the time to see the end of the round it is not left at all. *)
LEMMA NextRoundCannot ==
    ASSUME ChainInv, VerifierInv, honest = "verifiers", LongReimburseLock,
           NextRound \notin Mined, seen \ paid # {}, CanMine(NextRound)
    PROVE  FALSE
    <1>1. AgeAtLeast(ReadyToReimburse, ReimburseLock)
          BY NextRoundCan
    <1>2. ReadyToReimburse \in Mined /\ age[ReadyToReimburse] \in Nat /\ age[ReadyToReimburse] > 2 * F
          BY <1>1, Locks DEF LongReimburseLock, AgeAtLeast, ChainInv
    <1>3. PICK k \in seen : k \notin paid
          OBVIOUS
    <1>4. Kickoff(k) \in Mined /\ age[Kickoff(k)] \in Nat
          BY <1>3 DEF VerifierInv, SeenInv, ChainInv
    <1>5. \/ age[ReadyToReimburse] <= age[Kickoff(k)]
          \/ age[Kickoff(k)] = DisproveTimeoutLock
          BY <1>2, <1>3 DEF VerifierInv, SeenInv
    <1>6. age[Kickoff(k)] > 2 * F
          BY <1>2, <1>4, <1>5, Locks, Room
    <1>7. age[Kickoff(k)] <= 2 * F
          BY <1>3, NextRoundInTime
    <1> QED  BY <1>4, <1>6, <1>7, Locks

LEMMA VerifierInit ==
    ASSUME Init
    PROVE  VerifierInv
    <1>1. Mined = {Round, MoveToVault} /\ seen = {} /\ target = NoKickoff
          BY DEF Init, Mined
    <1> QED  BY <1>1 DEF VerifierInv, SeenInv, WatchtowerInv, TargetInv, Round, MoveToVault

(* The older of two kickoffs stays the older one. *)
LEMMA OlderBlock ==
    ASSUME ChainInv, NextBlock, NEW j, NEW k, Kickoff(j) \in Mined, Kickoff(k) \in Mined,
           age[Kickoff(j)] <= age[Kickoff(k)]
    PROVE  age'[Kickoff(j)] <= age'[Kickoff(k)]
    <1>1. Cap(Kickoff(j)) = DisproveTimeoutLock /\ Cap(Kickoff(k)) = DisproveTimeoutLock
          BY KickoffCap, Zenon
    <1>2. /\ age[Kickoff(j)] \in Nat /\ age[Kickoff(k)] \in Nat
          /\ age[Kickoff(k)] <= Cap(Kickoff(k))
          BY DEF ChainInv
    <1>3. age' = [tx \in Mined |-> IF age[tx] < Cap(tx) THEN age[tx] + 1 ELSE age[tx]]
          BY DEF NextBlock
    <1>4. /\ age'[Kickoff(j)] =
                IF age[Kickoff(j)] < Cap(Kickoff(j)) THEN age[Kickoff(j)] + 1 ELSE age[Kickoff(j)]
          /\ age'[Kickoff(k)] =
                IF age[Kickoff(k)] < Cap(Kickoff(k)) THEN age[Kickoff(k)] + 1 ELSE age[Kickoff(k)]
          BY <1>3
    <1> QED  BY <1>1, <1>2, <1>4, Locks

(* A block: a kickoff is chosen as soon as one is final, and the chosen    *)
(* one stays trapped.                                                      *)
LEMMA TargetInvBlock ==
    ASSUME ChainInv, VerifierInv, honest = "verifiers", NextBlock
    PROVE  TargetInv'
    <1>0. /\ SeenInv /\ TargetInv
          /\ seen' = seen /\ paid' = paid
          BY BlockStep DEF VerifierInv
    <1>1. CASE target # NoKickoff
      <2>1. target' = target
            BY <1>1 DEF NextBlock, ChallengeOne
      <2>2. \A k : Trap(k) => Forced(k)' /\ Trapped(k)'
            BY ForcedBlock, TrappedBlock
      <2>3. PICK k : k = target
            OBVIOUS
      <2>4. NextRound \notin Mined => Forced(k)' /\ Trapped(k)'
            BY <1>1, <2>2, <2>3, InTrap
      <2>5. k = target'
            BY <2>1, <2>3
      <2>6. NextRound \notin Mined => Forced(target)' /\ Trapped(target)'
            BY <2>4, <2>5 DEF Forced, Trapped, Past, Follows, AgeAtLeast, Mined, Kickoff
      <2>7. (NextRound \notin Mined)' => (Forced(target) /\ Trapped(target))'
            BY <2>6, BlockStep DEF NextRound
      <2>8. target \in seen \ paid /\ \A j \in seen \ paid : age[Kickoff(j)] <= age[Kickoff(target)]
            BY <1>0, <1>1 DEF TargetInv
      <2>9. ASSUME NEW j \in seen \ paid
            PROVE  age'[Kickoff(j)] <= age'[Kickoff(target)]
            BY <1>0, <2>8, <2>9, OlderBlock DEF SeenInv
      <2>10. (\A j \in seen \ paid : age[Kickoff(j)] <= age[Kickoff(target)])'
            BY <1>0, <2>1, <2>9 DEF Kickoff
      <2> QED  BY <1>0, <1>1, <2>1, <2>7, <2>8, <2>10 DEF TargetInv
    <1>2. CASE target = NoKickoff /\ Malicious # {}
      <2>1. target' \in Malicious
            BY <1>2 DEF NextBlock, ChallengeOne
      <2>2. PICK k : k = target'
            OBVIOUS
      <2>3. /\ k \in seen \ paid
            /\ k \in Kickoffs
            /\ Kickoff(k) \in Mined
            /\ age[Kickoff(k)] < F
            BY <1>0, <1>2, <2>1, <2>2 DEF Malicious, SeenInv, TargetInv
      <2>4. Forced(k)' /\ Trapped(k)'
            BY <2>3, NewTarget
      <2>5. Forced(target)' /\ Trapped(target)'
            BY <2>2, <2>4 DEF Forced, Trapped, Past, Follows, AgeAtLeast, Mined, Kickoff
      <2>6. target' # NoKickoff
            BY <2>2, <2>3, GameAssumption
      <2>7. ASSUME NEW j \in seen \ paid
            PROVE  age'[Kickoff(j)] <= age'[Kickoff(k)]
        <3>1. Kickoff(j) \in Mined /\ age[Kickoff(j)] \in Nat /\ age[Kickoff(k)] \in Nat
              BY <1>0, <2>3, <2>7 DEF SeenInv, ChainInv
        <3>2. age[Kickoff(j)] < F /\ age[Kickoff(k)] + 1 >= F
              BY <1>0, <1>2, <2>1, <2>2, <2>7 DEF Malicious, TargetInv
        <3>3. age[Kickoff(j)] <= age[Kickoff(k)]
              BY <3>1, <3>2, Locks
        <3> QED  BY <2>3, <3>1, <3>3, OlderBlock
      <2>8. (\A j \in seen \ paid : age[Kickoff(j)] <= age[Kickoff(target)])'
            BY <1>0, <2>2, <2>7 DEF Kickoff
      <2> QED  BY <1>0, <2>2, <2>3, <2>5, <2>6, <2>8 DEF TargetInv
    <1>3. CASE target = NoKickoff /\ Malicious = {}
      <2>1. target' = NoKickoff
            BY <1>3 DEF NextBlock, ChallengeOne
      <2>2. ASSUME NEW k \in seen \ paid
            PROVE  age'[Kickoff(k)] < F
        <3>1. Kickoff(k) \in Mined /\ age[Kickoff(k)] \in Nat
              BY <1>0, <2>2 DEF SeenInv, ChainInv
        <3>2. ~ (age[Kickoff(k)] + 1 >= F)
              BY <1>3, <2>2 DEF Malicious
        <3>3. age'[Kickoff(k)] \in {age[Kickoff(k)], age[Kickoff(k)] + 1}
              BY <3>1, BlockStep
        <3> QED  BY <3>1, <3>2, <3>3, Locks
      <2>3. \A k \in (seen \ paid)' : age'[Kickoff(k)] < F
            BY <1>0, <2>2
      <2>4. (\A k \in seen \ paid : age[Kickoff(k)] < F)'
            BY <2>3 DEF Kickoff
      <2> QED  BY <2>1, <2>4 DEF TargetInv
    <1> QED  BY <1>1, <1>2, <1>3

LEMMA TargetInvMine ==
    ASSUME ChainInv, VerifierInv, honest = "verifiers", NEW tx \in Txs, Mine(tx)
    PROVE  TargetInv'
    <1>0. /\ SeenInv /\ TargetInv
          /\ paid' = paid /\ target' = target
          /\ Mined' = Mined \cup {tx} /\ age'[tx] = 0
          /\ \A x \in Mined : age'[x] = age[x]
          BY MineStep DEF VerifierInv
    <1>1. CASE target # NoKickoff
      <2>1. seen \subseteq seen'
            BY SeenMine
      <2>2. \A k : Trap(k) => Forced(k)' /\ Trapped(k)'
            BY ForcedMine, TrappedMine DEF Trap
      <2>3. PICK k : k = target
            OBVIOUS
      <2>4. NextRound \notin Mined' => Forced(k)' /\ Trapped(k)'
            BY <1>0, <1>1, <2>2, <2>3, InTrap
      <2>5. k = target'
            BY <1>0, <2>3
      <2>6. NextRound \notin Mined' => Forced(target)' /\ Trapped(target)'
            BY <2>4, <2>5 DEF Forced, Trapped, Past, Follows, AgeAtLeast, Mined, Kickoff
      <2>7. (NextRound \notin Mined)' => (Forced(target) /\ Trapped(target))'
            BY <2>6 DEF NextRound
      <2>8. /\ target \in seen \ paid /\ Kickoff(target) \in Mined
            /\ age'[Kickoff(target)] \in Nat
            /\ \A j \in seen \ paid : age'[Kickoff(j)] <= age'[Kickoff(target)]
            BY <1>0, <1>1 DEF TargetInv, SeenInv, ChainInv
      <2>9. ASSUME NEW j \in Kickoffs, tx = Kickoff(j)
            PROVE  age'[Kickoff(j)] <= age'[Kickoff(target)]
            BY <1>0, <2>8, <2>9
      <2>10. \A j \in (seen \ paid)' : age'[Kickoff(j)] <= age'[Kickoff(target)]
            BY <1>0, <2>8, <2>9, SeenMine
      <2>11. (\A j \in seen \ paid : age[Kickoff(j)] <= age[Kickoff(target)])'
            BY <1>0, <2>10 DEF Kickoff
      <2> QED  BY <1>0, <1>1, <2>1, <2>7, <2>8, <2>11 DEF TargetInv
    <1>2. CASE target = NoKickoff
      <2>1. ASSUME NEW k \in seen \ paid
            PROVE  age'[Kickoff(k)] < F
            BY <1>0, <1>2, <2>1 DEF SeenInv, TargetInv
      <2>2. ASSUME NEW k \in Kickoffs, tx = Kickoff(k)
            PROVE  age'[Kickoff(k)] < F
            BY <1>0, <2>2, Locks
      <2>3. \A k \in (seen \ paid)' : age'[Kickoff(k)] < F
            BY <1>0, <2>1, <2>2, SeenMine
      <2>4. (\A k \in seen \ paid : age[Kickoff(k)] < F)'
            BY <2>3 DEF Kickoff
      <2> QED  BY <1>0, <1>2, <2>4 DEF TargetInv
    <1> QED  BY <1>1, <1>2

(* The round with a malicious kickoff is not left by the next round. *)
LEMMA NoNextRoundMine ==
    ASSUME ChainInv, VerifierInv, honest = "verifiers", NEW tx \in Txs, Mine(tx),
           LongReimburseLock, seen' \ paid' # {}
    PROVE  NextRound \notin Mined'
    <1>0. /\ paid' = paid /\ Mined' = Mined \cup {tx} /\ CanMine(tx)
          BY MineStep, MineCan
    <1>1. CASE seen' = seen
      <2>1. seen \ paid # {}
            BY <1>0, <1>1
      <2>2. NextRound \notin Mined
            BY <2>1 DEF VerifierInv
      <2>3. tx # NextRound
            BY <1>0, <2>1, <2>2, NextRoundCannot
      <2> QED  BY <1>0, <2>2, <2>3
    <1>2. ASSUME ReadyToReimburse \notin Mined, NEW k \in Kickoffs, tx = Kickoff(k)
          PROVE  NextRound \notin Mined'
      <2>1. NextRound \notin Mined
            BY <1>2, NextRoundTook DEF AgeAtLeast
      <2>2. tx # NextRound
            BY <1>2 DEF Kickoff, NextRound
      <2> QED  BY <1>0, <2>1, <2>2
    <1> QED  BY <1>1, <1>2, SeenMine

LEMMA VerifierStep ==
    ASSUME ChainInv, VerifierInv, [Next]_vars
    PROVE  VerifierInv'
    <1> SUFFICES ASSUME honest' = "verifiers"
                 PROVE  /\ SeenInv'
                        /\ WatchtowerInv'
                        /\ TargetInv'
                        /\ LongReimburseLock /\ seen' \ paid' # {} => NextRound \notin Mined'
        BY DEF VerifierInv, NextRound, LongReimburseLock
    <1>1. honest = "verifiers"
          BY StepGrows DEF Grows
    <1>2. /\ SeenInv /\ WatchtowerInv /\ TargetInv
          /\ (LongReimburseLock /\ seen \ paid # {} => NextRound \notin Mined)
          BY <1>1 DEF VerifierInv
    <1>3. CASE NextBlock
      <2>1. Mined' = Mined /\ seen' = seen /\ paid' = paid
            BY <1>3, BlockStep
      <2>2. WatchtowerInv'
            BY <1>2, <2>1 DEF WatchtowerInv
      <2>3. SeenInv'
            BY <1>2, <1>3, SeenInvBlock
      <2>4. TargetInv'
            BY <1>1, <1>3, TargetInvBlock
      <2> QED  BY <1>2, <2>1, <2>2, <2>3, <2>4
    <1>4. ASSUME NEW tx \in Txs, Mine(tx)
          PROVE  /\ SeenInv'
                 /\ WatchtowerInv'
                 /\ TargetInv'
                 /\ LongReimburseLock /\ seen' \ paid' # {} => NextRound \notin Mined'
      <2>1. SeenInv' /\ WatchtowerInv'
            BY <1>2, <1>4, SeenInvMine, WatchtowerInvMine
      <2>2. TargetInv'
            BY <1>1, <1>4, TargetInvMine
      <2>3. LongReimburseLock /\ seen' \ paid' # {} => NextRound \notin Mined'
            BY <1>1, <1>4, NoNextRoundMine
      <2> QED  BY <2>1, <2>2, <2>3
    <1>5. CASE UNCHANGED vars
          BY <1>2, <1>5 DEF vars, SeenInv, WatchtowerInv, TargetInv, Forced, Trapped, Mined,
             AgeAtLeast, Past, Follows
    <1> QED  BY <1>3, <1>4, <1>5 DEF Next

-----------------------------------------------------------------------------
(* The theorems. *)

(* The state of every game is one of a chain that keeps its timelocks, of  *)
(* an honest operator that meets every deadline of the kickoffs that are   *)
(* not settled, and of honest verifiers that force every answer of the     *)
(* kickoff that they challenge.                                            *)
THEOREM GameIsInductive == Spec => []GameInv
    <1>1. Init => GameInv
          BY ChainInit, OperatorInit, VerifierInit DEF GameInv
    <1>2. GameInv /\ [Next]_vars => GameInv'
          BY ChainStep, OperatorStep, VerifierStep DEF GameInv
    <1> QED  BY <1>1, <1>2, PTL DEF Spec

(* HonestCollateralIsSafe: whatever the verifiers send and when, what the  *)
(* operator's state machines send on final blocks is mined before the      *)
(* verifiers' timeouts, so that no burn of the collateral is ever valid:   *)
(* queue_relevant_txs_for_new_kickoff, send_asserts, send_latest_blockhash *)
(* and the answers to watchtowers.                                         *)
THEOREM HonestCollateral == Spec => []HonestCollateralIsSafe
    <1>1. GameInv => HonestCollateralIsSafe
          BY DEF GameInv, OperatorInv, HonestCollateralIsSafe
    <1> QED  BY <1>1, GameIsInductive, PTL

(* NextRoundOutrunsNoChallenge: handle_kickoff challenges one malicious    *)
(* kickoff of a round, the first that it finds final, and that is enough:  *)
(* queue_txs_for_challenged_kickoff and send_disprove_tx burn the          *)
(* collateral before the operator can reach the next round, unless it is   *)
(* there within twice the finality depth after every kickoff that it did   *)
(* not pay for.                                                            *)
THEOREM ChallengeIsNotOutrun == Spec => NextRoundOutrunsNoChallenge
    <1> DEFINE InTime == honest = "verifiers" /\ NextRound \in Mined' \ Mined =>
                            \A k \in seen \ paid : age[Kickoff(k)] <= 2 * F
    <1>1. GameInv /\ [Next]_vars => [InTime]_vars
      <2> SUFFICES ASSUME ChainInv, VerifierInv, Next, honest = "verifiers",
                          NextRound \in Mined', NextRound \notin Mined, NEW k \in seen \ paid
                   PROVE  age[Kickoff(k)] <= 2 * F
          BY DEF GameInv
      <2>1. CASE NextBlock
            BY <2>1, BlockStep
      <2>2. ASSUME NEW tx \in Txs, Mine(tx)
            PROVE  age[Kickoff(k)] <= 2 * F
        <3>1. tx = NextRound /\ CanMine(tx)
              BY <2>2, MineStep, MineCan
        <3> QED  BY <3>1, NextRoundInTime
      <2> QED  BY <2>1, <2>2 DEF Next
    <1>2. [][InTime]_vars => NextRoundOutrunsNoChallenge
          BY DEF NextRoundOutrunsNoChallenge
    <1> HIDE DEF InTime
    <1> QED  BY <1>1, <1>2, GameIsInductive, PTL DEF Spec

(* ReportedUnpaidNeverReimbursed, where operator_reimburse_timelock is     *)
(* longer than twice the finality depth: the verifiers then see the end of *)
(* the round before the next one, and every malicious kickoff with it.     *)
THEOREM ReportedUnpaidIsNotReimbursed ==
    ASSUME LongReimburseLock
    PROVE  Spec => []ReportedUnpaidNeverReimbursed
    <1>1. GameInv => ReportedUnpaidNeverReimbursed
      <2> SUFFICES ASSUME ChainInv, VerifierInv, honest = "verifiers", NEW k \in Kickoffs,
                          Reimbursed(k), k \in seen, k \notin paid
                   PROVE  FALSE
          BY DEF GameInv, ReportedUnpaidNeverReimbursed
      <2>1. NextRound \in Mined
            BY ReimburseTook DEF Reimbursed
      <2> QED  BY <2>1 DEF VerifierInv
    <1> QED  BY <1>1, GameIsInductive, PTL

(* TypeOK: what is mined are transactions of the round, each counted to    *)
(* the age that somebody waits for, and only kickoffs of the round are     *)
(* seen and challenged.                                                    *)
THEOREM GameTypes == Spec => []TypeOK
    <1> DEFINE Known == /\ target \in Kickoffs \cup {NoKickoff}
                        /\ used \subseteq Kickoffs
                        /\ seen \subseteq Kickoffs
    <1>1. Init => Known
          BY DEF Init
    <1>2. ChainInv /\ Known /\ [Next]_vars => Known'
      <2> SUFFICES ASSUME ChainInv, Known, [Next]_vars
                   PROVE  Known'
          OBVIOUS
      <2>1. CASE NextBlock
            BY <2>1 DEF NextBlock, ChallengeOne, Malicious
      <2>2. ASSUME NEW tx \in Txs, Mine(tx)
            PROVE  Known'
        <3>1. seen' \subseteq Kickoffs
              BY <2>2, SeenMine
        <3>2. target' = target /\ used' \subseteq Kickoffs
              BY <2>2 DEF Mine
        <3> QED  BY <3>1, <3>2
      <2>3. CASE UNCHANGED vars
            BY <2>3 DEF vars
      <2> QED  BY <2>1, <2>2, <2>3 DEF Next
    <1>3. GameInv => ChainInv
          BY DEF GameInv
    <1>4. ChainInv /\ Known => TypeOK
      <2> SUFFICES ASSUME ChainInv, Known
                   PROVE  TypeOK
          OBVIOUS
      <2>1. ASSUME NEW tx \in Mined
            PROVE  age[tx] \in 0..Cap(tx)
            BY <2>1, CapType DEF ChainInv
      <2> QED  BY <2>1 DEF ChainInv, TypeOK
    <1> HIDE DEF Known
    <1> QED  BY <1>1, <1>2, <1>3, <1>4, GameIsInductive, PTL DEF Spec
=============================================================================
