--------------------------- MODULE TxSenderProofs ---------------------------
(***************************************************************************)
(* What the sender calls final is final, and it gives a transaction up     *)
(* only when somebody spent its input: for every fee, timelock and depth,  *)
(* any number of versions and fee payers, and any sequence of blocks,      *)
(* reorgs, evictions, errors and crashes between the calls of the task.    *)
(***************************************************************************)
EXTENDS TxSender, TLAPS

-----------------------------------------------------------------------------
(* What is in the mempool is not mined. *)
NodeInv ==
    /\ conf \in [Txids -> 0..MaxAge] /\ pool \subseteq Txids
    /\ \A t \in pool : conf[t] = 0
    /\ faults \in 0..MaxFaults

RowType == [seen : Int, final : BOOLEAN, fails : Nat, timedOut : BOOLEAN, eff : Int, bumpAge : Int]
PayerType(N, P) == [amount : N, parent : P, seen : BOOLEAN, final : BOOLEAN, evicted : BOOLEAN]
PayerShape(r) == \E N, P : r \in PayerType(N, P)

(* Fee rates are positive, so that a transaction with none was never       *)
(* broadcast.                                                              *)
FeeInv ==
    /\ rate \in [Txids -> Nat]
    /\ \A p \in Payers : rate[p] = 0 => p \notin pool /\ conf[p] = 0
    /\ feeRate \in Nat \ {0}
    /\ pc # "idle" => fee \in Nat \ {0}
    /\ row \in RowType /\ (row.eff # None => row.eff > 0)
    /\ behind \in Nat /\ block \in Int
    /\ pc \in {"save_rbf", "save_rate", "submit"} => \A u \in unsaved : u[2] \in Nat \ {0}
    /\ pc = "save_rbf" => \A u \in unsaved : u[1] \in Versions
    /\ rbfTxids \subseteq Versions

(* A transaction that getrawtransaction found in a block is in that block  *)
(* when getblock is called, or the block is stale.                         *)
Looking == {"sync_block", "sync_payer_block", "sync_activate_block"}
LookupInv ==
    /\ todo \subseteq Payers
    /\ pc = "sync_block" => asked \in SentTxids
    /\ pc = "sync_payer_block" => asked \in Payers
    /\ pc = "sync_activate_block" => asked = A
    /\ pc \in Looking => block < 0 \/ (block > 0 /\ conf[asked] = block)

(* The fee payers and the activator are final when the database says so,   *)
(* unless a stale block said so.                                           *)
SyncedInv ==
    /\ payers = [p \in Payers |-> payers[p]]
    /\ \A p \in Payers : PayerShape(payers[p])
    /\ \A p \in Payers : payers[p].final => conf[p] >= FinalityDepth \/ p \in stale
    /\ activate \in [seen : Nat \cup {None}, final : BOOLEAN, inMempool : BOOLEAN]
    /\ activate.final => conf[A] >= FinalityDepth \/ A \in stale

(* So is the transaction. *)
RowInv == row.final => \E t \in SentTxids : conf[t] >= FinalityDepth \/ t \in stale

(* The activator was there when the run looked. *)
Awake == activate.seen # None \/ activate.inMempool

(* As long as the output is unspent, every failed check in a row had a     *)
(* fault of its own: between the sync of its run and the check.  Only an   *)
(* activator found in a stale block is believed to be there when it is not. *)
RetryInv ==
    /\ spent \in BOOLEAN
    /\ sendable \in BOOLEAN
    /\ InputSpent => spent
    /\ pc = "check" => sendable
    /\ pc \in {"bump", "save_bump", "check"} /\ sendable => Awake
    /\ ~spent /\ A \notin stale =>
          /\ ~row.timedOut
          /\ row.fails <= faults
          /\ pc \in {"select", "bump", "save_bump", "check"} /\ Awake /\ ~InputAvailable =>
                row.fails < faults

-----------------------------------------------------------------------------
LEMMA Bounds ==
    /\ FinalityDepth \in Nat \ {0} /\ HardCap \in Nat \ {0} /\ MinBump \in Nat /\ FeeBumpAfter \in Nat
    /\ MaxFaults \in Nat /\ MaxRetries \in Nat /\ MaxRetries > MaxFaults + 1
    /\ MaxAge \in Nat /\ MaxAge >= FinalityDepth
<1>1. /\ FinalityDepth \in Nat \ {0} /\ HardCap \in Nat \ {0} /\ MinBump \in Nat /\ FeeBumpAfter \in Nat
      /\ MaxFaults \in Nat /\ MaxRetries \in Nat /\ MaxRetries > MaxFaults + 1
      /\ MaxTimelock \in Nat /\ MaxBlocks \in Nat
  BY TxSenderAssumption
<1> QED BY <1>1 DEF MaxAge, Max2

LEMMA Ids ==
    /\ A \in Txids /\ C \in Txids /\ Tx \in Versions /\ Tx # A
    /\ Versions \subseteq Txids /\ Payers \subseteq Txids /\ Versions \subseteq Spenders /\ C \in Spenders
    /\ Spenders \subseteq Txids
    /\ A \notin Payers /\ A \notin Spenders /\ Payers \cap Spenders = {}
<1>1. MaxVersions \in Nat /\ MaxVersions > 0
  BY TxSenderAssumption
<1>2. /\ A \in Txids /\ C \in Txids /\ Versions \subseteq Txids /\ Payers \subseteq Txids
      /\ Versions \subseteq Spenders /\ C \in Spenders /\ Spenders \subseteq Txids
  BY DEF Txids, Spenders
<1>3. Tx \in Versions /\ Tx # A
  BY <1>1 DEF Tx, Versions, A
<1>4. A \notin Payers /\ A \notin Spenders /\ Payers \cap Spenders = {}
  BY DEF A, C, Payers, Spenders, Versions
<1> QED BY <1>2, <1>3, <1>4

(* The cast to a smaller width never makes more of a depth. *)
LEMMA FinalIsDeep ==
    ASSUME NEW n \in Nat, IsFinal(n)
    PROVE  n >= FinalityDepth
<1>1. 2 ^ IntWidth \in Nat \ {0}
  BY TxSenderAssumption
<1>2. n % (2 ^ IntWidth) <= n
  <2> DEFINE m == 2 ^ IntWidth
  <2>1. m \in Nat \ {0}
    BY <1>1
  <2> HIDE DEF m
  <2>2. n % m <= n
    BY <2>1
  <2> QED BY <2>2 DEF m
<1>3. n % (2 ^ IntWidth) \in Int /\ n % (2 ^ IntWidth) >= FinalityDepth
  BY <1>1 DEF IsFinal, AsU32
<1> QED BY <1>2, <1>3, Bounds

LEMMA AgeTypes ==
    ASSUME NEW n \in Int
    PROVE  /\ OlderBlock(n) \in Int
           /\ n > 0 => OlderBlock(n) = Min2(n + 1, MaxAge) /\ OlderBlock(n) > 0
           /\ n < 0 => OlderBlock(n) < 0
<1>1. MaxAge \in Int /\ MaxAge > 0
  BY Bounds
<1> QED BY <1>1 DEF OlderBlock, Min2

LEMMA TargetIsPositive ==
    ASSUME FeeInv, pc # "idle"
    PROVE  TargetFeeRate \in Nat \ {0}
  BY Bounds DEF FeeInv, RowType, TargetFeeRate, IsStuck, Min2, Max2, None

-----------------------------------------------------------------------------
(* Blocks. *)

(* What a block, or a reorg, does to the confirmations. *)
LEMMA MinedTypes ==
    ASSUME NodeInv, NEW S \in SUBSET Txids, NEW c,
           c = [t \in Txids |-> IF t \in S THEN 1
                                ELSE IF Confirmed(t) THEN Min2(conf[t] + 1, MaxAge) ELSE 0]
    PROVE  /\ c \in [Txids -> 0..MaxAge]
           /\ \A t \in Txids : t \notin S /\ conf[t] = 0 => c[t] = 0
           /\ \A t \in Txids : t \notin S /\ conf[t] >= FinalityDepth => c[t] >= FinalityDepth
  BY Bounds DEF NodeInv, Confirmed, Min2

LEMMA TipMovesFees ==
    ASSUME FeeInv, TipMoves, block' \in Int
    PROVE  /\ rate' = rate /\ feeRate' = feeRate /\ fee' = fee /\ pc' = pc /\ unsaved' = unsaved
           /\ rbfTxids' = rbfTxids /\ payers' = payers /\ sendable' = sendable /\ kind' = kind
           /\ row' \in RowType /\ row'.eff = row.eff /\ row'.final = row.final
           /\ row'.fails = row.fails /\ row'.timedOut = row.timedOut
           /\ behind' \in Nat /\ todo' = todo /\ asked' = asked /\ stale' = stale
           /\ activate' = [activate EXCEPT !.seen = Older(@, MaxAge)]
<1>1. /\ rate' = rate /\ feeRate' = feeRate /\ fee' = fee /\ pc' = pc /\ unsaved' = unsaved
      /\ rbfTxids' = rbfTxids /\ payers' = payers /\ sendable' = sendable /\ kind' = kind
      /\ todo' = todo /\ asked' = asked /\ stale' = stale
      /\ activate' = [activate EXCEPT !.seen = Older(@, MaxAge)]
      /\ row' = [row EXCEPT !.seen = Older(@, MaxAge), !.bumpAge = Older(@, MaxBumpAge)]
  BY DEF TipMoves, env
<1>2. behind' \in Nat
  BY DEF TipMoves, FeeInv
<1>3. MaxAge \in Int /\ MaxBumpAge \in Int
  BY Bounds, TxSenderAssumption DEF MaxBumpAge
<1>4. \A n \in Int : Older(n, MaxAge) \in Int /\ Older(n, MaxBumpAge) \in Int
  BY <1>3 DEF Older, Min2, None
<1>5. row \in RowType
  BY DEF FeeInv
<1> QED BY <1>1, <1>2, <1>4, <1>5 DEF RowType

LEMMA MineTypes ==
    ASSUME NodeInv, FeeInv, Mine
    PROVE  NodeInv' /\ FeeInv'
<1>1. PICK S \in SUBSET pool : MineBlock(S)
  BY DEF Mine
<1>2. S \in SUBSET Txids
  BY DEF NodeInv
<1>3. /\ conf' = [t \in Txids |-> IF t \in S THEN 1
                                  ELSE IF Confirmed(t) THEN Min2(conf[t] + 1, MaxAge) ELSE 0]
      /\ pool' = pool \ S /\ faults' = faults /\ TipMoves
      /\ block' = OlderBlock(block)
  BY <1>1 DEF MineBlock
<1>4. block' \in Int
  BY <1>3, AgeTypes DEF FeeInv
<1>5. /\ conf' \in [Txids -> 0..MaxAge]
      /\ \A t \in Txids : t \notin S /\ conf[t] = 0 => conf'[t] = 0
  BY <1>2, <1>3, MinedTypes
<1>6. NodeInv'
  BY <1>2, <1>3, <1>5 DEF NodeInv
<1>7. \A p \in Payers : rate[p] = 0 => p \notin pool' /\ conf'[p] = 0
  BY <1>3, <1>5, Ids DEF FeeInv
<1>8. FeeInv'
  BY <1>3, <1>4, <1>7, TipMovesFees DEF FeeInv
<1> QED BY <1>6, <1>8

LEMMA ReorgTypes ==
    ASSUME NodeInv, FeeInv, Reorg
    PROVE  NodeInv' /\ FeeInv'
<1>1. PICK d \in 1..(FinalityDepth - 1) :
         LET dropped == {t \in Txids : conf[t] \in 1..d}
             c == [t \in Txids |-> IF t \in dropped \/ ~Confirmed(t) THEN 0
                                   ELSE Min2(conf[t] + 1, MaxAge)]
         IN /\ dropped # {}
            /\ conf' = c
            /\ \E back \in SUBSET dropped : pool' = Fresh(c, pool \cup back)
            /\ block' = IF block \in 1..d THEN -OlderBlock(block) ELSE OlderBlock(block)
  BY DEF Reorg
<1> DEFINE dropped == {t \in Txids : conf[t] \in 1..d}
<1>2. PICK back \in SUBSET dropped : pool' = Fresh(conf', pool \cup back)
  BY <1>1
<1>3. pool' \subseteq pool \cup back
  BY <1>2 DEF Fresh
<1>4. /\ conf' = [t \in Txids |-> IF t \in dropped \/ ~Confirmed(t) THEN 0 ELSE Min2(conf[t] + 1, MaxAge)]
      /\ block' = IF block \in 1..d THEN -OlderBlock(block) ELSE OlderBlock(block)
  BY <1>1
<1>5. block' \in Int /\ TipMoves /\ faults' = faults + 1 /\ faults < MaxFaults
  BY <1>4, AgeTypes DEF FeeInv, Reorg
<1>6. conf' \in [Txids -> 0..MaxAge] /\ \A t \in Txids : conf[t] = 0 \/ t \in dropped => conf'[t] = 0
  BY <1>4, Bounds DEF NodeInv, Confirmed, Min2
<1>7. \A p \in Payers : p \in dropped => conf[p] # 0
  BY DEF NodeInv
<1> HIDE DEF dropped
<1>8. back \subseteq Txids
  BY DEF dropped
<1>9. NodeInv'
  BY <1>3, <1>5, <1>6, <1>8, Bounds DEF NodeInv
<1>10. \A p \in Payers : rate[p] = 0 => p \notin pool' /\ conf'[p] = 0
  BY <1>3, <1>6, <1>7, Ids DEF FeeInv
<1>11. FeeInv'
  BY <1>5, <1>10, TipMovesFees DEF FeeInv
<1> QED BY <1>9, <1>11

-----------------------------------------------------------------------------
(* The other steps. *)

(* Steps that leave the transactions and their rates alone. *)
LEMMA QuietTypes ==
    ASSUME NodeInv, FeeInv, conf' = conf, pool' \subseteq pool, rate' = rate, feeRate' \in Nat \ {0},
           faults' \in 0..MaxFaults,
           pc' # "idle" => fee' \in Nat \ {0},
           row' \in RowType, row'.eff # None => row'.eff > 0,
           behind' \in Nat, block' \in Int,
           pc' \in {"save_rbf", "save_rate", "submit"} => pc' = pc /\ unsaved' = unsaved,
           rbfTxids' = rbfTxids
    PROVE  NodeInv' /\ FeeInv'
  BY DEF NodeInv, FeeInv

(* Steps that broadcast the transaction t. *)
LEMMA BroadcastTypes ==
    ASSUME NodeInv, FeeInv, conf' = conf, feeRate' = feeRate, faults' = faults, row' = row, fee' = fee,
           behind' = behind, block' = block, rbfTxids' = rbfTxids,
           NEW t \in Txids, conf[t] = 0, NEW r \in Nat, t \in Payers => r # 0,
           pool' \subseteq pool \cup {t}, rate' = [rate EXCEPT ![t] = r],
           pc # "idle", pc' \notin {"submit", "save_rate"},
           pc' = "save_rbf" => \A u \in unsaved' : u[1] \in Versions /\ u[2] \in Nat \ {0}
    PROVE  NodeInv' /\ FeeInv'
<1>1. NodeInv'
  BY DEF NodeInv
<1>2. rate' \in [Txids -> Nat] /\ \A p \in Payers : rate'[p] = 0 => rate[p] = 0 /\ p # t
  BY Ids DEF FeeInv
<1>3. \A p \in Payers : rate'[p] = 0 => p \notin pool' /\ conf'[p] = 0
  BY <1>2 DEF FeeInv
<1>4. FeeInv'
  BY <1>2, <1>3 DEF FeeInv
<1> QED BY <1>1, <1>4

LEMMA NodeTypes ==
    ASSUME NodeInv, FeeInv, Evict \/ FeeRises \/ BroadcastActivator \/ BroadcastConflict
    PROVE  NodeInv' /\ FeeInv'
<1>1. CASE Evict
  <2>1. pool' \subseteq pool
    BY <1>1 DEF Evict, Fresh
  <2>2. faults' \in 0..MaxFaults
    BY <1>1, Bounds DEF Evict, NodeInv
  <2>3. /\ conf' = conf /\ rate' = rate /\ feeRate' = feeRate /\ row' = row /\ rbfTxids' = rbfTxids
        /\ pc' = pc /\ fee' = fee /\ behind' = behind /\ block' = block /\ unsaved' = unsaved
    BY <1>1 DEF Evict, db, task, lookup
  <2> QED BY <2>1, <2>2, <2>3, QuietTypes DEF FeeInv
<1>2. CASE FeeRises
  BY <1>2, QuietTypes DEF FeeRises, NodeInv, FeeInv, db, task, lookup
<1>3. CASE BroadcastActivator
  <2>1. pool' = pool \cup {A} /\ conf[A] = 0 /\ A \in Txids /\ A \notin Payers
    BY <1>3, Ids DEF BroadcastActivator, Confirmed, NodeInv
  <2>2. NodeInv'
    BY <1>3, <2>1 DEF BroadcastActivator, NodeInv
  <2>3. FeeInv'
    BY <1>3, <2>1 DEF BroadcastActivator, FeeInv, db, task, lookup
  <2> QED BY <2>2, <2>3
<1>4. CASE BroadcastConflict
  <2>1. pool' \subseteq pool \cup {C} /\ conf[C] = 0 /\ C \in Txids /\ C \notin Payers
    BY <1>4, Ids DEF BroadcastConflict, InputSpent, Confirmed, NodeInv
  <2>2. NodeInv'
    BY <1>4, <2>1 DEF BroadcastConflict, NodeInv
  <2>3. FeeInv'
    BY <1>4, <2>1 DEF BroadcastConflict, FeeInv, db, task, lookup
  <2> QED BY <2>2, <2>3
<1> QED BY <1>1, <1>2, <1>3, <1>4

LEMMA RowTypes ==
    ASSUME FeeInv, NEW x \in {row, [row EXCEPT !.seen = None],
                              [row EXCEPT !.seen = SeenAge, !.final = IsFinal(Confirmations)],
                              [row EXCEPT !.fails = 0],
                              [row EXCEPT !.fails = @ + 1, !.timedOut = row.fails + 1 >= MaxRetries]}
    PROVE  x \in RowType /\ x.eff = row.eff
<1>1. row \in RowType /\ block \in Int /\ None \in Int
  BY DEF FeeInv, None
<1> DEFINE s == SeenAge
           f == IsFinal(Confirmations)
           g == row.fails + 1 >= MaxRetries
<1>2. s \in Int
  BY <1>1 DEF SeenAge
<1>3. f \in BOOLEAN
  BY DEF IsFinal
<1>4. g \in BOOLEAN
  OBVIOUS
<1>5. \/ x \in {row, [row EXCEPT !.seen = None], [row EXCEPT !.fails = 0]}
      \/ x = [row EXCEPT !.seen = s, !.final = f]
      \/ x = [row EXCEPT !.fails = @ + 1, !.timedOut = g]
  OBVIOUS
<1> HIDE DEF s, f, g
<1>6. CASE x \in {row, [row EXCEPT !.seen = None], [row EXCEPT !.fails = 0]}
  BY <1>1, <1>6 DEF RowType
<1>7. CASE x = [row EXCEPT !.seen = s, !.final = f]
  BY <1>1, <1>2, <1>3, <1>7 DEF RowType
<1>8. CASE x = [row EXCEPT !.fails = @ + 1, !.timedOut = g]
  <2> DEFINE h == row.fails + 1
  <2>1. h \in Nat /\ x = [row EXCEPT !.fails = h, !.timedOut = g]
    BY <1>1, <1>8 DEF RowType
  <2> HIDE DEF h
  <2> QED BY <1>1, <1>4, <2>1 DEF RowType
<1> QED BY <1>5, <1>6, <1>7, <1>8

LEMMA SyncTypes ==
    ASSUME NodeInv, FeeInv, LookupInv,
           \/ Begin \/ SyncTx \/ SyncBlock \/ SyncPayer \/ SyncPayerBlock \/ PayersSynced
           \/ SyncActivate \/ SyncActivateBlock \/ Select
    PROVE  NodeInv' /\ FeeInv'
<1>1. CASE Begin
  <2>1. fee' \in Nat \ {0}
    BY <1>1, Bounds DEF Begin, FeeInv, Min2
  <2> QED BY <1>1, <2>1, QuietTypes DEF Begin, NodeInv, FeeInv, node, db, lookup
<1>2. CASE SyncTx
  <2>1. row' \in RowType /\ row'.eff = row.eff
    BY <1>2, RowTypes DEF SyncTx
  <2>2. block' \in Int
    <3>1. (\E t \in SentTxids : Confirmed(t)) => conf[CHOOSE t \in SentTxids : Confirmed(t)] \in Int
      <4>1. SentTxids \subseteq Txids
        BY Ids DEF SentTxids, FeeInv
      <4> QED BY <4>1, Bounds DEF NodeInv
    <3> QED BY <1>2, <3>1 DEF SyncTx, FeeInv, NameBlock
  <2>3. pc = "sync_tx" /\ pc' \in {"sync_payers", "sync_block"}
    BY <1>2 DEF SyncTx, NameBlock, ListPayers
  <2> QED BY <1>2, <2>1, <2>2, <2>3, QuietTypes DEF SyncTx, NodeInv, FeeInv, node
<1>3. CASE SyncBlock
  <2>1. row' \in RowType /\ row'.eff = row.eff
    BY <1>3, RowTypes DEF SyncBlock
  <2>2. pc = "sync_block" /\ pc' = "sync_payers" /\ block' = 0
    BY <1>3 DEF SyncBlock, ListPayers, Answered
  <2> QED BY <1>3, <2>1, <2>2, QuietTypes DEF SyncBlock, NodeInv, FeeInv, node
<1>4. CASE SyncPayer
  <2>1. block' \in Int /\ pc = "sync_payers" /\ pc' \in {"sync_payers", "sync_payer_block"}
    <3>1. PICK p \in todo : block' \in {block, conf[p]} /\ pc' \in {pc, "sync_payer_block"}
      BY <1>4 DEF SyncPayer, NameBlock
    <3>2. conf[p] \in Int
      BY Ids, Bounds DEF NodeInv, LookupInv
    <3> QED BY <1>4, <3>1, <3>2 DEF FeeInv, SyncPayer
  <2> QED BY <1>4, <2>1, QuietTypes DEF SyncPayer, NodeInv, FeeInv, node
<1>5. CASE SyncPayerBlock
  <2>1. pc = "sync_payer_block" /\ pc' = "sync_payers" /\ block' = 0
    BY <1>5 DEF SyncPayerBlock, Answered
  <2> QED BY <1>5, <2>1, QuietTypes DEF SyncPayerBlock, NodeInv, FeeInv, node
<1>6. CASE PayersSynced
  BY <1>6, QuietTypes DEF PayersSynced, NodeInv, FeeInv, node, db, lookup
<1>7. CASE SyncActivate
  <2>1. block' \in Int /\ pc = "sync_activate" /\ pc' \in {"select", "sync_activate_block"}
    <3>1. conf[A] \in Int
      BY Ids, Bounds DEF NodeInv
    <3> QED BY <1>7, <3>1 DEF SyncActivate, NameBlock, FeeInv
  <2> QED BY <1>7, <2>1, QuietTypes DEF SyncActivate, NodeInv, FeeInv, node
<1>8. CASE SyncActivateBlock
  <2>1. pc = "sync_activate_block" /\ pc' = "select" /\ block' = 0
    BY <1>8 DEF SyncActivateBlock, Answered
  <2> QED BY <1>8, <2>1, QuietTypes DEF SyncActivateBlock, NodeInv, FeeInv, node
<1>9. CASE Select
  BY <1>9, QuietTypes DEF Select, NodeInv, FeeInv, node, db, lookup
<1> QED BY <1>1, <1>2, <1>3, <1>4, <1>5, <1>6, <1>7, <1>8, <1>9

LEMMA NextIsUnused ==
    ASSUME FeeInv, NEW S \in SUBSET Txids, Unused(S) # {}
    PROVE  NextOf(S) \in S /\ rate[NextOf(S)] = 0
  BY DEF NextOf, Unused

LEMMA PayerTypes ==
    ASSUME NodeInv, FeeInv, BumpPayers \/ SavePayer \/ CheckInputs \/ CreatePayer
    PROVE  NodeInv' /\ FeeInv'
<1> DEFINE n == NextPayer
<1>1. CanFund => n \in Payers /\ rate[n] = 0 /\ conf[n] = 0 /\ n \in Txids
  BY Ids, NextIsUnused DEF CanFund, NextPayer, FeeInv
<1> HIDE DEF n
<1>2. CASE BumpPayers
  <2>1. pc = "bump" /\ conf' = conf /\ feeRate' = feeRate /\ row' = row /\ rbfTxids' = rbfTxids /\ fee' = fee
        /\ behind' = behind /\ block' = block /\ faults' = faults
    BY <1>2 DEF BumpPayers, lookup
  <2>2. \/ /\ pc' \in {"check", "finish"} /\ pool' = pool /\ rate' = rate /\ unsaved' = unsaved
        \/ /\ CanFund /\ pc' = "save_bump"
           /\ \E p \in pool \cap Payers : pool' = (pool \ {p}) \cup {n} /\ rate' = [rate EXCEPT ![n] = Max2(fee, rate[p] + 1)]
    <3>1. \/ /\ pc' \in {"check", "finish"} /\ pool' = pool /\ rate' = rate /\ unsaved' = unsaved
          \/ /\ CanFund /\ pc' = "save_bump"
             /\ \E p \in Unconfirmed \cap pool \cap rested :
                   /\ pool' = (pool \ {p}) \cup {NextPayer}
                   /\ rate' = [rate EXCEPT ![NextPayer] = Max2(fee, rate[p] + 1)]
      BY <1>2 DEF BumpPayers
    <3>2. Unconfirmed \subseteq Payers
      BY DEF Unconfirmed
    <3> QED BY <3>1, <3>2 DEF n
  <2>3. CASE pc' \in {"check", "finish"} /\ pool' = pool /\ rate' = rate /\ unsaved' = unsaved
    BY <2>1, <2>3, QuietTypes DEF NodeInv, FeeInv
  <2>4. ASSUME CanFund, pc' = "save_bump", NEW p \in pool \cap Payers, pool' = (pool \ {p}) \cup {n},
               rate' = [rate EXCEPT ![n] = Max2(fee, rate[p] + 1)]
        PROVE  NodeInv' /\ FeeInv'
    <3> DEFINE r == Max2(fee, rate[p] + 1)
    <3>1. r \in Nat /\ r # 0
      BY <2>1, Ids DEF FeeInv, Max2
    <3> HIDE DEF r
    <3>2. pool' \subseteq pool \cup {n} /\ rate' = [rate EXCEPT ![n] = r]
      BY <2>4 DEF r
    <3> QED BY <1>1, <2>1, <2>4, <3>1, <3>2, BroadcastTypes
  <2> QED BY <2>2, <2>3, <2>4
<1>3. CASE SavePayer
  <2>1. pc' \in {"check", "finish"} /\ pc # "idle"
    BY <1>3 DEF SavePayer
  <2> QED BY <1>3, <2>1, QuietTypes DEF SavePayer, NodeInv, FeeInv, node, lookup
<1>4. CASE CheckInputs
  <2>1. row' \in RowType /\ row'.eff = row.eff
    BY <1>4, RowTypes DEF CheckInputs
  <2>2. pc' \in {"send", "finish"} /\ pc # "idle"
    BY <1>4 DEF CheckInputs
  <2> QED BY <1>4, <2>1, <2>2, QuietTypes DEF CheckInputs, NodeInv, FeeInv, node, lookup
<1>5. CASE CreatePayer
  <2> DEFINE r == TargetFeeRate
  <2>1. pc = "send" /\ pc' = "save_payer" /\ CanFund /\ pool' = pool \cup {n} /\ rate' = [rate EXCEPT ![n] = r]
        /\ conf' = conf /\ feeRate' = feeRate /\ row' = row /\ rbfTxids' = rbfTxids /\ fee' = fee
        /\ behind' = behind /\ block' = block /\ faults' = faults
    BY <1>5 DEF CreatePayer, n, db, lookup
  <2>2. r \in Nat \ {0}
    BY <2>1, TargetIsPositive
  <2> HIDE DEF r
  <2> QED BY <1>1, <2>1, <2>2, BroadcastTypes
<1> QED BY <1>2, <1>3, <1>4, <1>5

LEMMA EffectiveTypes ==
    ASSUME FeeInv, NEW r \in Nat \ {0}
    PROVE  /\ WithEffectiveRate(r) \in RowType /\ WithEffectiveRate(r).eff > 0
           /\ WithEffectiveRate(r).final = row.final /\ WithEffectiveRate(r).fails = row.fails
           /\ WithEffectiveRate(r).timedOut = row.timedOut
<1>1. row \in RowType /\ behind \in Int /\ r \in Int /\ r > 0
  BY DEF FeeInv
<1>2. CASE row.eff = r
  BY <1>1, <1>2 DEF WithEffectiveRate, RowType
<1>3. CASE row.eff # r
  BY <1>1, <1>3 DEF WithEffectiveRate, RowType
<1> QED BY <1>2, <1>3

LEMMA VersionTypes ==
    ASSUME NodeInv, FeeInv, NEW r \in Nat \ {0}, pc = "send", BroadcastVersion(r)
    PROVE  NodeInv' /\ FeeInv'
<1> DEFINE v == NextOf(Versions)
<1>1. /\ conf' = conf /\ feeRate' = feeRate /\ row' = row /\ rbfTxids' = rbfTxids /\ fee' = fee
      /\ behind' = behind /\ block' = block /\ faults' = faults
  BY DEF BroadcastVersion, db, lookup
<1>2. CASE Unused(Versions) # {} /\ Accepts(v, r)
  <2>1. v \in Versions /\ v \in Txids /\ v \notin Payers
    BY <1>2, Ids, NextIsUnused
  <2>2. conf[v] = 0
    BY <1>2, <2>1, Ids DEF Accepts, InputSpent, Confirmed, NodeInv
  <2>3. /\ pool' = (pool \ Versions) \cup {v} /\ rate' = [rate EXCEPT ![v] = r]
        /\ unsaved' = {<<v, r>>} /\ pc' = "save_rbf"
    BY <1>2 DEF BroadcastVersion
  <2> HIDE DEF v
  <2>4. pool' \subseteq pool \cup {v} /\ \A u \in unsaved' : u[1] \in Versions /\ u[2] \in Nat \ {0}
    BY <2>1, <2>3
  <2> QED BY <1>1, <2>1, <2>2, <2>3, <2>4, BroadcastTypes
<1>3. CASE ~(Unused(Versions) # {} /\ Accepts(v, r))
  <2>1. pc' = "finish" /\ pool' = pool /\ rate' = rate /\ unsaved' = unsaved
    BY <1>3 DEF BroadcastVersion
  <2> QED BY <1>1, <2>1, QuietTypes DEF NodeInv, FeeInv
<1> QED BY <1>2, <1>3

LEMMA SendTypes ==
    ASSUME NodeInv, FeeInv,
           \/ SendNoFunding \/ WaitForPayers \/ CreatePackage \/ SubmitPackage
           \/ LeaveVersion \/ BumpVersion \/ FirstVersion \/ SaveVersion \/ SaveRate
    PROVE  NodeInv' /\ FeeInv'
<1>1. CASE SendNoFunding
  <2>1. /\ pc = "send" /\ pc' = "finish" /\ conf' = conf /\ feeRate' = feeRate /\ row' = row
        /\ rbfTxids' = rbfTxids /\ fee' = fee /\ behind' = behind /\ block' = block /\ faults' = faults
    BY <1>1 DEF SendNoFunding, db, lookup
  <2>2. CASE Accepts(Tx, HardCap)
    <3>1. Tx \in Txids /\ Tx \notin Payers /\ conf[Tx] = 0
      BY <2>2, Ids DEF Accepts, InputSpent, Confirmed, NodeInv
    <3>2. pool' \subseteq pool \cup {Tx} /\ rate' = [rate EXCEPT ![Tx] = HardCap] /\ HardCap \in Nat
      BY <1>1, <2>2, Bounds DEF SendNoFunding
    <3> QED BY <2>1, <3>1, <3>2, BroadcastTypes
  <2>3. CASE ~Accepts(Tx, HardCap)
    BY <1>1, <2>1, <2>3, QuietTypes DEF SendNoFunding, NodeInv, FeeInv
  <2> QED BY <2>2, <2>3
<1>2. CASE WaitForPayers
  BY <1>2, QuietTypes DEF WaitForPayers, NodeInv, FeeInv, node, db, lookup
<1>3. CASE CreatePackage
  <2>1. TargetFeeRate \in Nat \ {0}
    BY <1>3, TargetIsPositive DEF CreatePackage
  <2>2. row' \in RowType /\ row'.eff > 0
    BY <1>3, <2>1, EffectiveTypes DEF CreatePackage
  <2>3. \A u \in unsaved' : u[2] \in Nat \ {0}
    BY <1>3, <2>1 DEF CreatePackage
  <2>4. /\ pc' = "submit" /\ conf' = conf /\ pool' = pool /\ rate' = rate /\ feeRate' = feeRate
        /\ rbfTxids' = rbfTxids /\ fee' = fee /\ behind' = behind /\ block' = block /\ faults' = faults
        /\ pc = "send"
    BY <1>3 DEF CreatePackage, node, lookup
  <2> QED BY <2>2, <2>3, <2>4 DEF NodeInv, FeeInv
<1>4. CASE SubmitPackage
  <2>1. /\ pc = "submit" /\ pc' = "finish" /\ conf' = conf /\ feeRate' = feeRate /\ row' = row
        /\ rbfTxids' = rbfTxids /\ fee' = fee /\ behind' = behind /\ block' = block /\ faults' = faults
        /\ unsaved' = {}
    BY <1>4 DEF SubmitPackage, db, lookup
  <2>2. PICK u \in unsaved :
           \/ Accepts(Tx, u[2]) /\ pool' = pool \cup {Tx} /\ rate' = [rate EXCEPT ![Tx] = u[2]]
           \/ pool' = pool /\ rate' = rate
    BY <1>4 DEF SubmitPackage
  <2>3. u[2] \in Nat
    BY <2>1 DEF FeeInv
  <2>4. CASE Accepts(Tx, u[2]) /\ pool' = pool \cup {Tx} /\ rate' = [rate EXCEPT ![Tx] = u[2]]
    <3>1. Tx \in Txids /\ Tx \notin Payers /\ conf[Tx] = 0
      BY <2>4, Ids DEF Accepts, InputSpent, Confirmed, NodeInv
    <3> DEFINE r == u[2]
    <3>2. r \in Nat /\ rate' = [rate EXCEPT ![Tx] = r] /\ pool' \subseteq pool \cup {Tx}
      BY <2>3, <2>4
    <3> HIDE DEF r
    <3> QED BY <2>1, <3>1, <3>2, BroadcastTypes
  <2>5. CASE pool' = pool /\ rate' = rate
    BY <2>1, <2>5, QuietTypes DEF NodeInv, FeeInv
  <2> QED BY <2>2, <2>4, <2>5
<1>5. CASE LeaveVersion
  BY <1>5, QuietTypes DEF LeaveVersion, NodeInv, FeeInv, node, db, lookup
<1>6. CASE BumpVersion
  <2>1. PICK v \in InMempool : BroadcastVersion(Max2(TargetFeeRate, rate[v] + 1))
    BY <1>6 DEF BumpVersion
  <2>2. TargetFeeRate \in Nat \ {0} /\ pc = "send"
    BY <1>6, TargetIsPositive DEF BumpVersion
  <2>3. rate[v] \in Nat
    BY Ids DEF InMempool, FeeInv
  <2>4. Max2(TargetFeeRate, rate[v] + 1) \in Nat \ {0}
    BY <2>2, <2>3 DEF Max2
  <2> QED BY <2>1, <2>2, <2>4, VersionTypes
<1>7. CASE FirstVersion
  <2>1. TargetFeeRate \in Nat \ {0} /\ pc = "send" /\ BroadcastVersion(TargetFeeRate)
    BY <1>7, TargetIsPositive DEF FirstVersion
  <2> QED BY <2>1, VersionTypes
<1>8. CASE SaveVersion
  <2>1. PICK u \in unsaved : rbfTxids' = rbfTxids \cup {u[1]}
    BY <1>8 DEF SaveVersion
  <2>2. u[1] \in Versions
    BY <1>8 DEF SaveVersion, FeeInv
  <2>3. /\ pc' = "save_rate" /\ conf' = conf /\ pool' = pool /\ rate' = rate /\ feeRate' = feeRate
        /\ fee' = fee /\ behind' = behind /\ block' = block /\ faults' = faults /\ pc = "save_rbf"
        /\ row' = row /\ unsaved' = unsaved
    BY <1>8 DEF SaveVersion, node, lookup
  <2> QED BY <2>1, <2>2, <2>3 DEF NodeInv, FeeInv
<1>9. CASE SaveRate
  <2>1. PICK u \in unsaved : row' = WithEffectiveRate(u[2])
    BY <1>9 DEF SaveRate
  <2>2. u[2] \in Nat \ {0}
    BY <1>9 DEF SaveRate, FeeInv
  <2>3. row' \in RowType /\ row'.eff > 0
    BY <2>1, <2>2, EffectiveTypes
  <2>4. /\ pc' = "finish" /\ conf' = conf /\ pool' = pool /\ rate' = rate /\ feeRate' = feeRate
        /\ fee' = fee /\ behind' = behind /\ block' = block /\ faults' = faults /\ pc = "save_rate"
        /\ rbfTxids' = rbfTxids
    BY <1>9 DEF SaveRate, node, lookup
  <2> QED BY <2>3, <2>4 DEF NodeInv, FeeInv
<1> QED BY <1>1, <1>2, <1>3, <1>4, <1>5, <1>6, <1>7, <1>8, <1>9

LEMMA EndTypes ==
    ASSUME NodeInv, FeeInv, Finish \/ FailRun \/ FailRow \/ Crash
    PROVE  NodeInv' /\ FeeInv'
<1>1. faults' \in 0..MaxFaults
  BY Bounds DEF Finish, FailRun, FailRow, Crash, NodeInv
<1>2. CASE Finish
  BY <1>1, <1>2, QuietTypes DEF Finish, Reset, FeeInv, NodeInv, node, db
<1>3. CASE FailRun
  BY <1>1, <1>3, QuietTypes DEF FailRun, Reset, FeeInv, NodeInv, node, db
<1>4. CASE FailRow
  BY <1>1, <1>4, QuietTypes DEF FailRow, FeeInv, NodeInv, node, db, lookup
<1>5. CASE Crash
  BY <1>1, <1>5, QuietTypes DEF Crash, Reset, FeeInv, NodeInv, node, db
<1> QED BY <1>2, <1>3, <1>4, <1>5

LEMMA TypesInit ==
    ASSUME Init
    PROVE  NodeInv /\ FeeInv
  BY Bounds DEF Init, NodeInv, FeeInv, RowType, None

LEMMA TypesNext ==
    ASSUME NodeInv, FeeInv, LookupInv, [Next]_vars
    PROVE  NodeInv' /\ FeeInv'
<1>1. CASE Next
  BY <1>1, MineTypes, ReorgTypes, NodeTypes, SyncTypes, PayerTypes, SendTypes, EndTypes DEF Next, Step
<1>2. CASE UNCHANGED vars
  BY <1>2 DEF vars, node, db, task, lookup, NodeInv, FeeInv
<1> QED BY <1>1, <1>2

-----------------------------------------------------------------------------
(* Which steps change what. *)
Effects ==
    /\ Mine \/ Reorg \/ (conf' = conf /\ spent' = spent)
    /\ Mine \/ Reorg \/ SyncActivate \/ SyncActivateBlock \/ activate' = activate
    /\ SyncPayer \/ SyncPayerBlock \/ BumpPayers \/ SavePayer \/ payers' = payers
    /\ Mine \/ Reorg \/ SyncTx \/ SyncBlock \/ CheckInputs \/ CreatePackage \/ SaveRate \/ row' = row
    /\ SaveVersion \/ rbfTxids' = rbfTxids
    /\ kind' = kind
    /\ rbfTxids \subseteq rbfTxids' /\ stale \subseteq stale'
    /\ todo' \subseteq todo \/ todo' = UnfinalizedPayers
    /\ pc' \in Looking => \/ SyncTx
                          \/ SyncPayer
                          \/ SyncActivate
                          \/ pc' = pc /\ asked' = asked /\ (Mine \/ Reorg \/ block' = block)

LEMMA EffectsOfNext ==
    ASSUME [Next]_vars
    PROVE  Effects
<1>1. CASE Mine
  <2>1. PICK S \in SUBSET pool : MineBlock(S)
    BY <1>1 DEF Mine
  <2> QED BY <1>1, <2>1 DEF MineBlock, TipMoves, Effects, env
<1>2. CASE Reorg
  BY <1>2 DEF Reorg, TipMoves, Effects, env
<1>3. CASE Evict \/ FeeRises \/ BroadcastActivator \/ BroadcastConflict
  BY <1>3 DEF Evict, FeeRises, BroadcastActivator, BroadcastConflict, Effects, env, db, task, lookup, history
<1>4. CASE Begin \/ PayersSynced \/ Select
  BY <1>4 DEF Begin, PayersSynced, Select, Effects, Looking, env, node, db, lookup, history
<1>5. CASE SyncTx
  BY <1>5 DEF SyncTx, NameBlock, ListPayers, Effects, env, node, history
<1>6. CASE SyncPayer
  BY <1>6 DEF SyncPayer, Effects, env, node, history
<1>7. CASE SyncActivate
  BY <1>7 DEF SyncActivate, Effects, env, node, history
<1>8. CASE SyncBlock \/ SyncPayerBlock \/ SyncActivateBlock
  <2>1. stale \subseteq stale'
    BY <1>8 DEF SyncBlock, SyncPayerBlock, SyncActivateBlock, Answered
  <2>2. pc' \notin Looking
    BY <1>8 DEF SyncBlock, SyncPayerBlock, SyncActivateBlock, ListPayers, Looking
  <2> QED BY <1>8, <2>1, <2>2 DEF SyncBlock, SyncPayerBlock, SyncActivateBlock, ListPayers, Effects, env, node
<1>9. CASE BumpPayers \/ SavePayer \/ CheckInputs \/ CreatePayer
  <2>1. pc' \notin Looking
    BY <1>9 DEF BumpPayers, SavePayer, CheckInputs, CreatePayer, Looking
  <2> QED BY <1>9, <2>1 DEF BumpPayers, SavePayer, CheckInputs, CreatePayer, Effects, env, node, db, lookup, history
<1>10. CASE SendNoFunding \/ WaitForPayers \/ CreatePackage \/ SubmitPackage
  BY <1>10 DEF SendNoFunding, WaitForPayers, CreatePackage, SubmitPackage, Effects, Looking, env, node, db, lookup, history
<1>11. CASE LeaveVersion \/ BumpVersion \/ FirstVersion \/ SaveVersion \/ SaveRate
  <2>1. ASSUME NEW r, BroadcastVersion(r)
        PROVE  /\ pc' \in {"save_rbf", "finish"} /\ conf' = conf /\ spent' = spent /\ activate' = activate
               /\ payers' = payers /\ row' = row /\ rbfTxids' = rbfTxids /\ kind' = kind
               /\ stale' = stale /\ todo' = todo
    BY <2>1 DEF BroadcastVersion, env, db, lookup, history
  <2> QED BY <1>11, <2>1 DEF LeaveVersion, BumpVersion, FirstVersion, SaveVersion, SaveRate, Effects, Looking,
                            env, node, db, lookup, history
<1>12. CASE Finish \/ FailRun \/ FailRow \/ Crash
  BY <1>12 DEF Finish, FailRun, FailRow, Crash, Reset, Effects, Looking, env, node, db, lookup, history
<1>13. CASE UNCHANGED vars
  BY <1>13 DEF vars, env, node, db, task, lookup, history, Effects
<1> QED BY <1>1, <1>2, <1>3, <1>4, <1>5, <1>6, <1>7, <1>8, <1>9, <1>10, <1>11, <1>12, <1>13 DEF Next, Step

(* A transaction that is final stays final. *)
LEMMA DepthStays ==
    ASSUME NodeInv, FeeInv, [Next]_vars, NEW t \in Txids, conf[t] >= FinalityDepth
    PROVE  conf'[t] >= FinalityDepth
<1>1. CASE Mine
  <2>1. PICK S \in SUBSET pool : MineBlock(S)
    BY <1>1 DEF Mine
  <2>2. t \notin S /\ S \in SUBSET Txids
    BY Bounds DEF NodeInv
  <2>3. conf' = [x \in Txids |-> IF x \in S THEN 1
                                 ELSE IF Confirmed(x) THEN Min2(conf[x] + 1, MaxAge) ELSE 0]
    BY <2>1 DEF MineBlock
  <2> QED BY <2>2, <2>3, MinedTypes
<1>2. CASE Reorg
  <2>1. PICK d \in 1..(FinalityDepth - 1) :
           conf' = [x \in Txids |-> IF x \in {y \in Txids : conf[y] \in 1..d} \/ ~Confirmed(x) THEN 0
                                    ELSE Min2(conf[x] + 1, MaxAge)]
    BY <1>2 DEF Reorg
  <2>2. conf[t] \in Nat /\ t \notin {y \in Txids : conf[y] \in 1..d} /\ Confirmed(t)
    BY Bounds DEF NodeInv, Confirmed
  <2>3. conf'[t] = Min2(conf[t] + 1, MaxAge)
    BY <2>1, <2>2
  <2> QED BY <2>2, <2>3, Bounds DEF Min2
<1>3. CASE conf' = conf
  BY <1>3
<1> QED BY <1>1, <1>2, <1>3, EffectsOfNext DEF Effects

-----------------------------------------------------------------------------
(* The lookups. *)

(* The chain grows, or its end is replaced: the depths of the transaction  *)
(* and of the block that the first call named move together, until the     *)
(* block is stale.                                                         *)
LEMMA LookupChain ==
    ASSUME NodeInv, FeeInv, NEW t \in Txids, block < 0 \/ (block > 0 /\ conf[t] = block), Mine \/ Reorg
    PROVE  block' < 0 \/ (block' > 0 /\ conf'[t] = block')
<1>1. block \in Int /\ conf[t] \in Nat
  BY Bounds DEF FeeInv, NodeInv
<1>2. CASE Mine
  <2>1. PICK S \in SUBSET pool : MineBlock(S)
    BY <1>2 DEF Mine
  <2>2. /\ conf' = [x \in Txids |-> IF x \in S THEN 1
                                    ELSE IF Confirmed(x) THEN Min2(conf[x] + 1, MaxAge) ELSE 0]
        /\ block' = OlderBlock(block)
    BY <2>1 DEF MineBlock
  <2>3. CASE block < 0
    BY <1>1, <2>2, <2>3, AgeTypes
  <2>4. CASE block > 0 /\ conf[t] = block
    <3>1. t \notin S /\ Confirmed(t)
      BY <2>4 DEF NodeInv, Confirmed
    <3>2. conf'[t] = Min2(conf[t] + 1, MaxAge)
      BY <2>2, <3>1
    <3> QED BY <1>1, <2>2, <2>4, <3>2, AgeTypes
  <2> QED BY <2>3, <2>4
<1>3. CASE Reorg
  <2>1. PICK d \in 1..(FinalityDepth - 1) :
           /\ conf' = [x \in Txids |-> IF x \in {y \in Txids : conf[y] \in 1..d} \/ ~Confirmed(x) THEN 0
                                       ELSE Min2(conf[x] + 1, MaxAge)]
           /\ block' = IF block \in 1..d THEN -OlderBlock(block) ELSE OlderBlock(block)
    BY <1>3 DEF Reorg
  <2>2. CASE block < 0
    <3>1. block' = OlderBlock(block)
      BY <1>1, <2>1, <2>2
    <3> QED BY <1>1, <2>2, <3>1, AgeTypes
  <2>3. CASE block \in 1..d
    <3>1. block' = -OlderBlock(block)
      BY <2>1, <2>3
    <3>2. OlderBlock(block) \in Int /\ OlderBlock(block) > 0
      BY <1>1, <2>3, AgeTypes
    <3> QED BY <3>1, <3>2
  <2>4. CASE block > 0 /\ conf[t] = block /\ block \notin 1..d
    <3>1. conf'[t] = Min2(conf[t] + 1, MaxAge) /\ block' = OlderBlock(block)
      BY <1>1, <2>1, <2>4 DEF Confirmed
    <3> QED BY <1>1, <2>4, <3>1, AgeTypes
  <2> QED BY <2>2, <2>3, <2>4
<1> QED BY <1>2, <1>3

LEMMA LookupNext ==
    ASSUME NodeInv, FeeInv, LookupInv, [Next]_vars
    PROVE  LookupInv'
<1>1. todo' \subseteq Payers
  BY EffectsOfNext DEF Effects, UnfinalizedPayers, LookupInv
<1>2. SentTxids \subseteq Txids /\ SentTxids \subseteq SentTxids'
  BY Ids, EffectsOfNext DEF SentTxids, FeeInv, Effects
<1>3. CASE pc' \notin Looking
  BY <1>1, <1>3 DEF LookupInv, Looking
<1>4. CASE pc' \in Looking /\ pc' = pc /\ asked' = asked /\ (Mine \/ Reorg \/ block' = block)
  <2>1. asked \in Txids /\ (block < 0 \/ (block > 0 /\ conf[asked] = block))
    BY <1>2, <1>4, Ids DEF LookupInv, Looking
  <2>2. block' < 0 \/ (block' > 0 /\ conf'[asked] = block')
    <3>1. CASE Mine \/ Reorg
      BY <2>1, <3>1, LookupChain
    <3>2. CASE ~(Mine \/ Reorg)
      BY <1>4, <2>1, <3>2, EffectsOfNext DEF Effects
    <3> QED BY <3>1, <3>2
  <2> QED BY <1>1, <1>2, <1>4, <2>2 DEF LookupInv, Looking
<1>5. CASE pc' \in Looking /\ SyncTx
  <2> DEFINE x == CHOOSE t \in SentTxids : Confirmed(t)
  <2>1. pc' = "sync_block" /\ conf' = conf /\ asked' = x /\ block' = conf[x] /\ \E t \in SentTxids : Confirmed(t)
    BY <1>5 DEF SyncTx, NameBlock, ListPayers, Looking, node
  <2>2. x \in SentTxids /\ Confirmed(x)
    BY <2>1
  <2> HIDE DEF x
  <2> QED BY <1>1, <1>2, <2>1, <2>2 DEF LookupInv, Looking, Confirmed
<1>6. CASE pc' \in Looking /\ SyncPayer
  <2>1. PICK p \in todo : NameBlock(p, "sync_payer_block") /\ Confirmed(p)
    BY <1>6 DEF SyncPayer, Looking
  <2>2. p \in Payers /\ conf' = conf
    BY <1>6 DEF SyncPayer, LookupInv, node
  <2> QED BY <1>1, <2>1, <2>2 DEF LookupInv, Looking, Confirmed, NameBlock
<1>7. CASE pc' \in Looking /\ SyncActivate
  <2>1. NameBlock(A, "sync_activate_block") /\ Confirmed(A) /\ conf' = conf
    BY <1>7 DEF SyncActivate, Looking, node
  <2> QED BY <1>1, <2>1 DEF LookupInv, Looking, Confirmed, NameBlock
<1> QED BY <1>3, <1>4, <1>5, <1>6, <1>7, EffectsOfNext DEF Effects

(* What getblock is believed to say. *)
LEMMA AnswerIsDeep ==
    ASSUME FeeInv, LookupInv, pc \in Looking, Answered
    PROVE  IsFinal(Confirmations) => conf[asked] >= FinalityDepth \/ asked \in stale'
<1>1. CASE block < 0
  BY <1>1 DEF Answered
<1>2. CASE block > 0 /\ conf[asked] = block
  <2>1. block \in Nat /\ Confirmations = block
    BY <1>2 DEF FeeInv, Confirmations
  <2> QED BY <1>2, <2>1, FinalIsDeep
<1> QED BY <1>1, <1>2 DEF LookupInv

-----------------------------------------------------------------------------
(* A fee payer is looked up, or marked evicted. *)
LEMMA PayerLooked ==
    ASSUME NEW r, PayerShape(r)
    PROVE  /\ \A s, f \in BOOLEAN : /\ PayerShape([r EXCEPT !.seen = s, !.final = f])
                                   /\ [r EXCEPT !.seen = s, !.final = f].final = f
           /\ \A s \in BOOLEAN : PayerShape([r EXCEPT !.seen = s]) /\ [r EXCEPT !.seen = s].final = r.final
           /\ PayerShape([r EXCEPT !.evicted = TRUE]) /\ [r EXCEPT !.evicted = TRUE].final = r.final
<1>1. PICK N, P : r \in PayerType(N, P)
  BY DEF PayerShape
<1>2. ASSUME NEW s \in BOOLEAN, NEW f \in BOOLEAN
      PROVE  [r EXCEPT !.seen = s, !.final = f] \in PayerType(N, P) /\ [r EXCEPT !.seen = s, !.final = f].final = f
  BY <1>1 DEF PayerType
<1>3. [r EXCEPT !.evicted = TRUE] \in PayerType(N, P) /\ [r EXCEPT !.evicted = TRUE].final = r.final
  BY <1>1 DEF PayerType
<1>4. ASSUME NEW s \in BOOLEAN
      PROVE  [r EXCEPT !.seen = s] \in PayerType(N, P) /\ [r EXCEPT !.seen = s].final = r.final
  BY <1>1 DEF PayerType
<1> QED BY <1>2, <1>3, <1>4 DEF PayerShape

LEMMA PayersStep ==
    ASSUME NodeInv, FeeInv, LookupInv, SyncedInv, [Next]_vars
    PROVE  /\ payers' = [p \in Payers |-> payers'[p]]
           /\ \A p \in Payers : PayerShape(payers'[p])
           /\ \A p \in Payers : payers'[p].final => conf'[p] >= FinalityDepth \/ p \in stale'
<1>1. \A p \in Payers : conf[p] >= FinalityDepth \/ p \in stale => conf'[p] >= FinalityDepth \/ p \in stale'
  BY DepthStays, Ids, EffectsOfNext DEF Effects
<1>2. /\ payers = [p \in Payers |-> payers[p]] /\ \A p \in Payers : PayerShape(payers[p])
      /\ \A p \in Payers : payers[p].final => conf[p] >= FinalityDepth \/ p \in stale
  BY DEF SyncedInv
<1>3. CASE payers' = payers
  BY <1>1, <1>2, <1>3
<1>4. ASSUME NEW a \in Payers, NEW s \in BOOLEAN, NEW f \in BOOLEAN,
             f => conf'[a] >= FinalityDepth \/ a \in stale',
             \/ payers' = [payers EXCEPT ![a].seen = s, ![a].final = f]
             \/ payers' = [payers EXCEPT ![a].seen = s]
      PROVE  /\ payers' = [p \in Payers |-> payers'[p]]
             /\ \A p \in Payers : PayerShape(payers'[p])
             /\ \A p \in Payers : payers'[p].final => conf'[p] >= FinalityDepth \/ p \in stale'
  <2> DEFINE y == payers[a]
             x == [y EXCEPT !.seen = s, !.final = f]
             z == [y EXCEPT !.seen = s]
  <2>1. PayerShape(y)
    BY <1>2
  <2> HIDE DEF y
  <2>2. PayerShape(x) /\ x.final = f /\ PayerShape(z) /\ z.final = y.final
    <3>1. /\ \A t, g \in BOOLEAN : /\ PayerShape([y EXCEPT !.seen = t, !.final = g])
                                   /\ [y EXCEPT !.seen = t, !.final = g].final = g
          /\ \A t \in BOOLEAN : /\ PayerShape([y EXCEPT !.seen = t])
                                /\ [y EXCEPT !.seen = t].final = y.final
      BY <2>1, PayerLooked
    <3> QED BY <3>1
  <2> HIDE DEF x, z
  <2>3. CASE payers' = [payers EXCEPT ![a].seen = s, ![a].final = f]
    <3>1. payers' = [p \in Payers |-> IF p = a THEN x ELSE payers[p]]
      BY <1>2, <2>3 DEF x, y
    <3> QED BY <1>1, <1>2, <1>4, <2>2, <3>1
  <2>4. CASE payers' = [payers EXCEPT ![a].seen = s]
    <3>1. payers' = [p \in Payers |-> IF p = a THEN z ELSE payers[p]]
      BY <1>2, <2>4 DEF z, y
    <3> QED BY <1>1, <1>2, <2>2, <3>1 DEF y
  <2> QED BY <1>4, <2>3, <2>4
<1>7. CASE SyncPayer
  <2>1. PICK p \in todo : payers' = payers \/ payers' = [payers EXCEPT ![p].seen = FALSE]
    BY <1>7 DEF SyncPayer
  <2>2. p \in Payers
    BY DEF LookupInv
  <2> QED BY <1>3, <1>4, <2>1, <2>2
<1>8. CASE SyncPayerBlock
  <2> DEFINE f == IsFinal(Confirmations)
  <2>1. asked \in Payers /\ Answered /\ pc \in Looking /\ conf' = conf
    BY <1>8 DEF SyncPayerBlock, LookupInv, Looking, node
  <2>2. f \in BOOLEAN /\ (f => conf'[asked] >= FinalityDepth \/ asked \in stale')
    BY <2>1, AnswerIsDeep DEF IsFinal
  <2> HIDE DEF f
  <2>3. payers' = [payers EXCEPT ![asked].seen = TRUE, ![asked].final = f]
    BY <1>8 DEF SyncPayerBlock, f
  <2> QED BY <1>4, <2>1, <2>2, <2>3
<1>5. CASE BumpPayers
  <2> DEFINE x(p) == [payers[p] EXCEPT !.evicted = TRUE]
  <2>1. conf' = conf /\ \E gone : payers' = [p \in Payers |-> IF Saved(p) /\ ChainOf(p) \in gone THEN x(p) ELSE payers[p]]
    BY <1>5 DEF BumpPayers
  <2>2. ASSUME NEW p \in Payers
        PROVE  PayerShape(x(p)) /\ x(p).final = payers[p].final
    <3>1. PayerShape(payers[p])
      BY <1>2
    <3> QED BY <3>1, PayerLooked
  <2> HIDE DEF x
  <2> QED BY <1>1, <1>2, <2>1, <2>2
<1>6. CASE SavePayer
  <2>1. PICK u \in unsaved :
           payers' = [payers EXCEPT ![u[1]] = [amount |-> u[2], parent |-> u[3], seen |-> FALSE,
                                               final |-> FALSE, evicted |-> FALSE]]
    BY <1>6 DEF SavePayer
  <2> DEFINE x == [amount |-> u[2], parent |-> u[3], seen |-> FALSE, final |-> FALSE, evicted |-> FALSE]
  <2>2. PayerShape(x) /\ x.final = FALSE
    <3>1. x \in PayerType({u[2]}, {u[3]})
      BY DEF PayerType
    <3> QED BY <3>1 DEF PayerShape
  <2> HIDE DEF x
  <2>3. payers' = [p \in Payers |-> IF p = u[1] THEN x ELSE payers[p]] /\ conf' = conf
    BY <1>2, <1>6, <2>1 DEF x, SavePayer, node
  <2> QED BY <1>1, <1>2, <2>2, <2>3
<1> QED BY <1>3, <1>5, <1>6, <1>7, <1>8, EffectsOfNext DEF Effects

ActivateType == [seen : Nat \cup {None}, final : BOOLEAN, inMempool : BOOLEAN]

(* The tip moves: the activator is as far in the chain as it was. *)
LEMMA ActivateOlder ==
    ASSUME SyncedInv, activate' = [activate EXCEPT !.seen = Older(@, MaxAge)]
    PROVE  /\ activate' \in ActivateType /\ activate'.final = activate.final
           /\ activate'.inMempool = activate.inMempool
           /\ activate'.seen = None <=> activate.seen = None
<1>1. activate \in ActivateType
  BY DEF SyncedInv, ActivateType
<1> DEFINE s == Older(activate.seen, MaxAge)
<1>2. s \in Nat \cup {None} /\ (s = None <=> activate.seen = None)
  BY <1>1, Bounds DEF ActivateType, Older, Min2, None
<1> HIDE DEF s
<1>3. activate' = [activate EXCEPT !.seen = s]
  BY DEF s
<1> QED BY <1>1, <1>2, <1>3 DEF ActivateType

LEMMA ActivateStep ==
    ASSUME NodeInv, FeeInv, LookupInv, SyncedInv, [Next]_vars
    PROVE  activate' \in ActivateType /\ (activate'.final => conf'[A] >= FinalityDepth \/ A \in stale')
<1>1. conf[A] >= FinalityDepth \/ A \in stale => conf'[A] >= FinalityDepth \/ A \in stale'
  BY DepthStays, Ids, EffectsOfNext DEF Effects
<1>2. activate \in ActivateType /\ (activate.final => conf[A] >= FinalityDepth \/ A \in stale)
  BY DEF SyncedInv, ActivateType
<1>3. CASE activate' = activate
  BY <1>1, <1>2, <1>3
<1>4. CASE Mine \/ Reorg
  <2>1. activate' = [activate EXCEPT !.seen = Older(@, MaxAge)]
    BY <1>4 DEF Mine, MineBlock, Reorg, TipMoves
  <2> QED BY <1>1, <1>2, <2>1, ActivateOlder
<1>5. CASE SyncActivate
  <2> DEFINE i == activate.seen = None /\ A \in pool
  <2>1. activate' = activate \/ activate' = [seen |-> None, final |-> FALSE, inMempool |-> i]
    BY <1>5 DEF SyncActivate
  <2>2. i \in BOOLEAN
    OBVIOUS
  <2> HIDE DEF i
  <2>3. CASE activate' = [seen |-> None, final |-> FALSE, inMempool |-> i]
    BY <2>2, <2>3 DEF ActivateType
  <2> QED BY <1>3, <2>1, <2>3
<1>6. CASE SyncActivateBlock
  <2> DEFINE s == SeenAge
             f == IsFinal(Confirmations)
  <2>1. asked = A /\ Answered /\ pc \in Looking /\ conf' = conf
    BY <1>6 DEF SyncActivateBlock, LookupInv, Looking, node
  <2>2. s \in Nat
    BY DEF SeenAge, FeeInv
  <2>3. f \in BOOLEAN /\ (f => conf'[A] >= FinalityDepth \/ A \in stale')
    BY <2>1, AnswerIsDeep DEF IsFinal
  <2> HIDE DEF s, f
  <2>4. activate' = [seen |-> s, final |-> f, inMempool |-> FALSE]
    BY <1>6 DEF SyncActivateBlock, s, f
  <2> QED BY <2>2, <2>3, <2>4 DEF ActivateType
<1> QED BY <1>3, <1>4, <1>5, <1>6, EffectsOfNext DEF Effects

LEMMA SyncedStep ==
    ASSUME NodeInv, FeeInv, LookupInv, SyncedInv, [Next]_vars
    PROVE  SyncedInv'
  BY PayersStep, ActivateStep DEF SyncedInv, ActivateType

-----------------------------------------------------------------------------
(* What a write to the row leaves alone. *)
LEMMA RowFields ==
    ASSUME FeeInv
    PROVE  /\ [row EXCEPT !.seen = None].final = row.final
           /\ [row EXCEPT !.seen = None].fails = row.fails
           /\ [row EXCEPT !.seen = None].timedOut = row.timedOut
           /\ \A s, f : /\ [row EXCEPT !.seen = s, !.final = f].final = f
                        /\ [row EXCEPT !.seen = s, !.final = f].fails = row.fails
                        /\ [row EXCEPT !.seen = s, !.final = f].timedOut = row.timedOut
           /\ [row EXCEPT !.fails = 0].final = row.final
           /\ [row EXCEPT !.fails = 0].fails = 0
           /\ [row EXCEPT !.fails = 0].timedOut = row.timedOut
           /\ \A n, b : /\ [row EXCEPT !.fails = n, !.timedOut = b].final = row.final
                        /\ [row EXCEPT !.fails = n, !.timedOut = b].fails = n
                        /\ [row EXCEPT !.fails = n, !.timedOut = b].timedOut = b
<1>1. row \in RowType
  BY DEF FeeInv
<1> QED BY <1>1 DEF RowType

Window == {"select", "bump", "save_bump", "check"}

(* A step that checks nothing.  If it begins or continues the stretch from *)
(* the sync to the check, it is a fault, or the input is as available as   *)
(* it was.                                                                 *)
LEMMA RetryQuiet ==
    ASSUME NodeInv, FeeInv, RetryInv, spent' = spent, stale \subseteq stale', sendable' \in BOOLEAN,
           \A t \in Spenders : conf'[t] > 0 => conf[t] > 0,
           row'.fails = row.fails, row'.timedOut = row.timedOut,
           faults' \in {faults, faults + 1},
           pc' = "check" => sendable',
           pc' \in {"bump", "save_bump", "check"} /\ sendable' => Awake',
           ~spent /\ A \notin stale' /\ pc' \in Window /\ Awake' /\ ~InputAvailable' /\ faults' = faults
              => row.fails < faults
    PROVE  RetryInv'
<1>1. InputSpent' => spent'
  BY DEF RetryInv, InputSpent, Confirmed
<1>2. row.fails \in Nat /\ faults \in Nat
  BY Bounds DEF FeeInv, NodeInv, RowType
<1>3. ~spent' /\ A \notin stale' =>
                 /\ ~row'.timedOut /\ row'.fails <= faults'
                 /\ pc' \in Window /\ Awake' /\ ~InputAvailable' => row'.fails < faults'
  BY <1>2 DEF RetryInv
<1> QED BY <1>1, <1>3 DEF RetryInv, Window

(* Outside the stretch there is nothing else to show. *)
LEMMA RetryOutside ==
    ASSUME NodeInv, FeeInv, RetryInv, spent' = spent, stale \subseteq stale', conf' = conf, sendable' \in BOOLEAN,
           row'.fails = row.fails, row'.timedOut = row.timedOut,
           faults' \in {faults, faults + 1}, pc' \notin Window
    PROVE  RetryInv'
  BY RetryQuiet DEF Window

LEMMA RetryMine ==
    ASSUME NodeInv, FeeInv, SyncedInv, RetryInv, Mine
    PROVE  RetryInv'
<1>1. PICK S \in SUBSET pool : MineBlock(S)
  BY DEF Mine
<1>2. S \in SUBSET Txids
  BY DEF NodeInv
<1>3. /\ conf' = [t \in Txids |-> IF t \in S THEN 1
                                  ELSE IF Confirmed(t) THEN Min2(conf[t] + 1, MaxAge) ELSE 0]
      /\ pool' = pool \ S /\ faults' = faults /\ TipMoves
      /\ spent' = (spent \/ S \cap Spenders # {})
      /\ block' = OlderBlock(block)
  BY <1>1 DEF MineBlock
<1>4. block' \in Int
  BY <1>3, AgeTypes DEF FeeInv
<1>5. /\ pc' = pc /\ sendable' = sendable /\ row'.fails = row.fails /\ row'.timedOut = row.timedOut
      /\ stale' = stale
      /\ activate' = [activate EXCEPT !.seen = Older(@, MaxAge)]
  BY <1>3, <1>4, TipMovesFees
<1>6. Awake' <=> Awake
  BY <1>5, ActivateOlder DEF Awake
<1>7. InputSpent' => spent'
  <2>1. SUFFICES ASSUME NEW t \in Spenders, conf'[t] > 0
                 PROVE  spent'
    BY DEF InputSpent, Confirmed
  <2>2. CASE t \in S
    BY <1>3, <2>2
  <2>3. CASE t \notin S
    <3>1. Confirmed(t)
      BY <1>3, <2>1, <2>3, Ids
    <3> QED BY <1>3, <3>1 DEF RetryInv, InputSpent
  <2> QED BY <2>2, <2>3
<1>8. ~spent' /\ InputAvailable => InputAvailable'
  <2>1. CASE A \in S
    <3>1. conf'[A] = 1
      BY <1>3, <2>1, Ids
    <3> QED BY <1>7, <3>1 DEF InputAvailable, Confirmed
  <2>2. CASE A \notin S /\ A \in pool
    BY <1>3, <2>2 DEF InputAvailable
  <2>3. CASE A \notin S /\ Confirmed(A)
    <3>1. conf'[A] = Min2(conf[A] + 1, MaxAge) /\ conf[A] \in Nat
      BY <1>3, <2>3, Ids, Bounds DEF NodeInv
    <3>2. conf'[A] > 0
      BY <3>1, Bounds DEF Min2
    <3> QED BY <1>7, <3>2 DEF InputAvailable, Confirmed
  <2> QED BY <2>1, <2>2, <2>3 DEF InputAvailable
<1> QED BY <1>3, <1>5, <1>6, <1>7, <1>8 DEF RetryInv

LEMMA RetryReorg ==
    ASSUME NodeInv, FeeInv, SyncedInv, RetryInv, Reorg
    PROVE  RetryInv'
<1>1. PICK d \in 1..(FinalityDepth - 1) :
         /\ conf' = [t \in Txids |-> IF t \in {y \in Txids : conf[y] \in 1..d} \/ ~Confirmed(t) THEN 0
                                     ELSE Min2(conf[t] + 1, MaxAge)]
         /\ block' = IF block \in 1..d THEN -OlderBlock(block) ELSE OlderBlock(block)
  BY DEF Reorg
<1>2. block' \in Int /\ TipMoves /\ faults' = faults + 1 /\ spent' = spent /\ faults' # faults
  BY <1>1, AgeTypes, Bounds DEF FeeInv, Reorg, NodeInv
<1>3. /\ pc' = pc /\ sendable' = sendable /\ row'.fails = row.fails /\ row'.timedOut = row.timedOut
      /\ stale' = stale
      /\ activate' = [activate EXCEPT !.seen = Older(@, MaxAge)]
  BY <1>2, TipMovesFees
<1>4. Awake' <=> Awake
  BY <1>3, ActivateOlder DEF Awake
<1>5. \A t \in Spenders : conf'[t] > 0 => conf[t] > 0
  BY <1>1, Ids DEF Confirmed
<1>6. sendable' \in BOOLEAN /\ (pc' = "check" => sendable')
      /\ (pc' \in {"bump", "save_bump", "check"} /\ sendable' => Awake')
  BY <1>3, <1>4 DEF RetryInv
<1> QED BY <1>2, <1>3, <1>5, <1>6, RetryQuiet

(* The run is where it was, and what it needs is still there. *)
LEMMA RetryNode ==
    ASSUME NodeInv, FeeInv, RetryInv, Evict \/ FeeRises \/ BroadcastActivator \/ BroadcastConflict
    PROVE  RetryInv'
<1>1. /\ conf' = conf /\ spent' = spent /\ pc' = pc /\ sendable' = sendable /\ row' = row
      /\ activate' = activate /\ stale' = stale
  BY DEF Evict, FeeRises, BroadcastActivator, BroadcastConflict, db, task, history
<1>2. Awake' <=> Awake
  BY <1>1 DEF Awake
<1>3. sendable' \in BOOLEAN /\ (pc' = "check" => sendable')
      /\ (pc' \in {"bump", "save_bump", "check"} /\ sendable' => Awake')
  BY <1>1, <1>2 DEF RetryInv
<1>4. CASE Evict
  <2>1. faults' = faults + 1 /\ faults' # faults
    BY <1>4, Bounds DEF Evict, NodeInv
  <2> QED BY <1>1, <1>3, <2>1, RetryQuiet
<1>5. CASE FeeRises \/ BroadcastActivator \/ BroadcastConflict
  <2>1. faults' = faults /\ (A \in pool => A \in pool')
    <3>1. A \notin Versions
      BY Ids
    <3> QED BY <1>5, <3>1 DEF FeeRises, BroadcastActivator, BroadcastConflict
  <2>2. InputAvailable => InputAvailable'
    BY <1>1, <2>1 DEF InputAvailable, InputSpent, Confirmed
  <2>3. ~spent /\ A \notin stale' /\ pc' \in Window /\ Awake' /\ ~InputAvailable' => row.fails < faults
    BY <1>1, <1>2, <2>2 DEF RetryInv, Window
  <2> QED BY <1>1, <1>3, <2>1, <2>3, RetryQuiet
<1> QED BY <1>4, <1>5

(* The run looks for the activator: when it finds it, the input is there.  *)
LEMMA RetryActivate ==
    ASSUME NodeInv, FeeInv, LookupInv, SyncedInv, RetryInv, SyncActivate
    PROVE  RetryInv'
<1>1. /\ conf' = conf /\ pool' = pool /\ spent' = spent /\ stale' = stale /\ sendable' = sendable
      /\ row' = row /\ faults' = faults /\ sendable' \in BOOLEAN
  BY DEF SyncActivate, node, history, RetryInv
<1>2. CASE pc' = "sync_activate_block"
  BY <1>1, <1>2, RetryOutside DEF Window
<1>3. CASE pc' = "select"
  <2>1. ~spent /\ A \notin stale /\ Awake' => InputAvailable
    <3>1. CASE activate.final
      <4>1. A \notin stale => conf[A] > 0
        BY <3>1, Bounds, Ids DEF SyncedInv, NodeInv
      <4> QED BY <4>1 DEF RetryInv, InputAvailable, Confirmed
    <3>2. CASE ~activate.final
      <4>1. activate' = [seen |-> None, final |-> FALSE, inMempool |-> activate.seen = None /\ A \in pool]
        BY <1>3, <3>2 DEF SyncActivate, NameBlock
      <4> QED BY <4>1 DEF InputAvailable, Awake
    <3> QED BY <3>1, <3>2
  <2>2. InputAvailable' <=> InputAvailable
    BY <1>1 DEF InputAvailable, InputSpent, Confirmed
  <2> QED BY <1>1, <1>3, <2>1, <2>2, RetryQuiet
<1> QED BY <1>2, <1>3 DEF SyncActivate, NameBlock

LEMMA RetryActivateBlock ==
    ASSUME NodeInv, FeeInv, LookupInv, RetryInv, SyncActivateBlock
    PROVE  RetryInv'
<1>1. /\ conf' = conf /\ pool' = pool /\ spent' = spent /\ sendable' = sendable
      /\ row' = row /\ faults' = faults /\ sendable' \in BOOLEAN
      /\ pc = "sync_activate_block" /\ pc' = "select" /\ Answered
  BY DEF SyncActivateBlock, node, RetryInv
<1>2. asked = A /\ (block < 0 \/ (block > 0 /\ conf[A] = block)) /\ stale \subseteq stale'
  BY <1>1 DEF LookupInv, Looking, Answered
<1>3. ~spent /\ A \notin stale' => InputAvailable
  BY <1>1, <1>2 DEF Answered, RetryInv, InputAvailable, Confirmed
<1>4. InputAvailable' <=> InputAvailable
  BY <1>1 DEF InputAvailable, InputSpent, Confirmed
<1> QED BY <1>1, <1>2, <1>3, <1>4, RetryQuiet

(* From the sync to the check. *)
LEMMA RetryWindow ==
    ASSUME NodeInv, FeeInv, RetryInv, Select \/ BumpPayers \/ SavePayer
    PROVE  RetryInv'
<1>1. conf' = conf /\ spent' = spent /\ row' = row /\ activate' = activate /\ faults' = faults /\ stale' = stale
  BY DEF Select, BumpPayers, SavePayer, node, db, history
<1>2. Awake' <=> Awake
  BY <1>1 DEF Awake
<1>3. A \in pool => A \in pool'
  <2>1. CASE Select \/ SavePayer
    BY <2>1 DEF Select, SavePayer, node
  <2>2. CASE BumpPayers
    <3>1. pool' = pool \/ \E p \in Unconfirmed : pool' = (pool \ {p}) \cup {NextPayer}
      BY <2>2 DEF BumpPayers
    <3>2. A \notin Unconfirmed
      BY Ids DEF Unconfirmed
    <3> QED BY <3>1, <3>2
  <2> QED BY <2>1, <2>2
<1>4. InputAvailable => InputAvailable'
  BY <1>1, <1>3 DEF InputAvailable, InputSpent, Confirmed
<1>5. CASE Select
  <2>1. pc = "select" /\ pc' = "bump" /\ sendable' \in BOOLEAN /\ (sendable' => Active)
    BY <1>5 DEF Select
  <2>2. Active => Awake
    BY DEF Active, Awake
  <2>3. ~spent /\ A \notin stale' /\ pc' \in Window /\ Awake' /\ ~InputAvailable' => row.fails < faults
    BY <1>1, <1>2, <1>4, <2>1 DEF RetryInv
  <2> QED BY <1>1, <1>2, <2>1, <2>2, <2>3, RetryQuiet
<1>6. CASE BumpPayers \/ SavePayer
  <2>1. /\ sendable' = sendable
        /\ pc' \in Window => pc \in {"bump", "save_bump"}
        /\ pc' = "check" => sendable
    BY <1>6 DEF BumpPayers, SavePayer, Window
  <2>2. ~spent /\ A \notin stale' /\ pc' \in Window /\ Awake' /\ ~InputAvailable' => row.fails < faults
    BY <1>1, <1>2, <1>4, <2>1 DEF RetryInv
  <2>3. sendable' \in BOOLEAN /\ (pc' \in {"bump", "save_bump", "check"} /\ sendable' => Awake')
    BY <1>2, <2>1 DEF RetryInv, Window
  <2> QED BY <1>1, <2>1, <2>2, <2>3, RetryQuiet
<1> QED BY <1>5, <1>6

(* The check itself. *)
LEMMA RetryCheck ==
    ASSUME NodeInv, FeeInv, RetryInv, CheckInputs
    PROVE  RetryInv'
<1>1. /\ pc = "check" /\ pc' \in {"send", "finish"} /\ conf' = conf /\ spent' = spent
      /\ sendable' = sendable /\ faults' = faults /\ stale' = stale
  BY DEF CheckInputs, node, history
<1>2. row.fails \in Nat /\ faults \in 0..MaxFaults
  BY DEF FeeInv, NodeInv, RowType
<1>3. (InputSpent' => spent') /\ sendable' \in BOOLEAN /\ spent' \in BOOLEAN
  BY <1>1 DEF RetryInv, InputSpent, Confirmed
<1>4. ~spent' /\ A \notin stale' => ~row'.timedOut /\ row'.fails <= faults'
  <2>1. CASE InputAvailable
    <3>1. row' = [row EXCEPT !.fails = 0]
      BY <2>1 DEF CheckInputs
    <3>2. row'.fails = 0 /\ row'.timedOut = row.timedOut
      BY <3>1, RowFields
    <3> QED BY <1>1, <1>2, <3>2 DEF RetryInv
  <2>2. CASE ~InputAvailable
    <3> DEFINE n == row.fails + 1
               b == row.fails + 1 >= MaxRetries
    <3>1. row' = [row EXCEPT !.fails = n, !.timedOut = b]
      BY <2>2 DEF CheckInputs
    <3>2. ~spent /\ A \notin stale => n <= faults /\ ~b
      BY <1>1, <1>2, <2>2, Bounds DEF RetryInv
    <3> HIDE DEF n, b
    <3>3. row'.fails = n /\ row'.timedOut = b
      BY <3>1, RowFields
    <3> QED BY <1>1, <3>2, <3>3
  <2> QED BY <2>1, <2>2
<1> QED BY <1>1, <1>3, <1>4 DEF RetryInv

(* The rest of a run. *)
LEMMA RetryRest ==
    ASSUME NodeInv, FeeInv, RetryInv,
           \/ Begin \/ SyncTx \/ SyncBlock \/ SyncPayer \/ SyncPayerBlock \/ PayersSynced
           \/ SendNoFunding \/ WaitForPayers \/ CreatePayer \/ CreatePackage \/ SubmitPackage
           \/ LeaveVersion \/ BumpVersion \/ FirstVersion \/ SaveVersion \/ SaveRate \/ Finish
           \/ FailRun \/ FailRow \/ Crash
    PROVE  RetryInv'
<1>0. stale \subseteq stale'
  <2>1. [Next]_vars
    BY DEF Next, Step
  <2> QED BY <2>1, EffectsOfNext DEF Effects
<1>1. CASE Begin \/ PayersSynced
  BY <1>0, <1>1, RetryOutside DEF Begin, PayersSynced, node, db, history, RetryInv, Window
<1>2. CASE SyncTx
  <2>1. row'.fails = row.fails /\ row'.timedOut = row.timedOut
    BY <1>2, RowFields DEF SyncTx
  <2>2. pc' \notin Window
    BY <1>2 DEF SyncTx, NameBlock, ListPayers, Window
  <2> QED BY <1>0, <1>2, <2>1, <2>2, RetryOutside DEF SyncTx, node, history, RetryInv
<1>3. CASE SyncBlock
  <2>1. row'.fails = row.fails /\ row'.timedOut = row.timedOut
    BY <1>3, RowFields DEF SyncBlock
  <2>2. pc' \notin Window
    BY <1>3 DEF SyncBlock, ListPayers, Window
  <2> QED BY <1>0, <1>3, <2>1, <2>2, RetryOutside DEF SyncBlock, node, RetryInv
<1>4. CASE SyncPayer \/ SyncPayerBlock
  <2>1. pc' \notin Window
    BY <1>4 DEF SyncPayer, SyncPayerBlock, NameBlock, Window
  <2>2. conf' = conf /\ spent' = spent /\ row' = row /\ sendable' = sendable /\ faults' = faults
    BY <1>4 DEF SyncPayer, SyncPayerBlock, node, history
  <2> QED BY <1>0, <2>1, <2>2, RetryOutside DEF RetryInv
<1>5. CASE SendNoFunding \/ WaitForPayers \/ CreatePayer \/ SubmitPackage \/ LeaveVersion \/ SaveVersion
  <2>1. /\ conf' = conf /\ spent' = spent /\ row' = row /\ sendable' = sendable /\ faults' = faults
        /\ pc' \notin Window
    BY <1>5 DEF SendNoFunding, WaitForPayers, CreatePayer, SubmitPackage, LeaveVersion, SaveVersion,
                node, db, history, Window
  <2> QED BY <1>0, <2>1, RetryOutside DEF RetryInv
<1>6. CASE BumpVersion \/ FirstVersion
  <2>1. PICK r : BroadcastVersion(r)
    BY <1>6 DEF BumpVersion, FirstVersion
  <2>2. /\ conf' = conf /\ spent' = spent /\ row' = row /\ sendable' = sendable /\ faults' = faults
        /\ pc' \notin Window
    BY <2>1 DEF BroadcastVersion, db, history, Window
  <2> QED BY <1>0, <2>2, RetryOutside DEF RetryInv
<1>7. CASE CreatePackage
  <2>1. TargetFeeRate \in Nat \ {0}
    BY <1>7, TargetIsPositive DEF CreatePackage
  <2>2. row'.fails = row.fails /\ row'.timedOut = row.timedOut
    BY <1>7, <2>1, EffectiveTypes DEF CreatePackage
  <2> QED BY <1>0, <1>7, <2>2, RetryOutside DEF CreatePackage, node, history, RetryInv, Window
<1>8. CASE SaveRate
  <2>1. PICK u \in unsaved : row' = WithEffectiveRate(u[2])
    BY <1>8 DEF SaveRate
  <2>2. u[2] \in Nat \ {0}
    BY <1>8 DEF SaveRate, FeeInv
  <2>3. row'.fails = row.fails /\ row'.timedOut = row.timedOut
    BY <2>1, <2>2, EffectiveTypes
  <2> QED BY <1>0, <1>8, <2>3, RetryOutside DEF SaveRate, node, history, RetryInv, Window
<1>9. CASE Finish \/ FailRun \/ FailRow \/ Crash
  <2>1. /\ conf' = conf /\ spent' = spent /\ row' = row /\ sendable' \in {sendable, FALSE}
        /\ faults' \in {faults, faults + 1} /\ pc' \notin Window
    BY <1>9 DEF Finish, FailRun, FailRow, Crash, Reset, node, db, history, Window
  <2> QED BY <1>0, <2>1, RetryOutside DEF RetryInv
<1> QED BY <1>1, <1>2, <1>3, <1>4, <1>5, <1>6, <1>7, <1>8, <1>9

LEMMA RetryNext ==
    ASSUME NodeInv, FeeInv, LookupInv, SyncedInv, RetryInv, [Next]_vars
    PROVE  RetryInv'
<1>1. CASE Next
  BY <1>1, RetryMine, RetryReorg, RetryNode, RetryActivate, RetryActivateBlock,
     RetryWindow, RetryCheck, RetryRest DEF Next, Step
<1>2. CASE UNCHANGED vars
  BY <1>2 DEF vars, node, db, task, history, RetryInv, Awake, InputAvailable, InputSpent, Confirmed
<1> QED BY <1>1, <1>2

-----------------------------------------------------------------------------
LEMMA RowNext ==
    ASSUME NodeInv, FeeInv, LookupInv, RowInv, [Next]_vars
    PROVE  RowInv'
<1>1. SentTxids \subseteq Txids /\ SentTxids \subseteq SentTxids'
  BY Ids, EffectsOfNext DEF SentTxids, FeeInv, Effects
<1>2. ASSUME row'.final = row.final
      PROVE  RowInv'
  <2>1. \A t \in SentTxids : conf[t] >= FinalityDepth \/ t \in stale => conf'[t] >= FinalityDepth \/ t \in stale'
    BY <1>1, DepthStays, EffectsOfNext DEF Effects
  <2> QED BY <1>1, <1>2, <2>1 DEF RowInv
<1>3. CASE Mine \/ Reorg
  <2>1. block' \in Int /\ TipMoves
    BY <1>3, AgeTypes DEF Mine, MineBlock, Reorg, FeeInv
  <2> QED BY <1>2, <2>1, TipMovesFees
<1>4. CASE SyncTx
  BY <1>2, <1>4, RowFields DEF SyncTx
<1>5. CASE SyncBlock
  <2> DEFINE f == IsFinal(Confirmations)
             s == SeenAge
  <2>1. asked \in SentTxids /\ Answered /\ pc \in Looking /\ conf' = conf
    BY <1>5 DEF SyncBlock, LookupInv, Looking, node
  <2>2. f => conf'[asked] >= FinalityDepth \/ asked \in stale'
    BY <2>1, AnswerIsDeep
  <2> HIDE DEF f, s
  <2>3. row' = [row EXCEPT !.seen = s, !.final = f]
    BY <1>5 DEF SyncBlock, f, s
  <2>4. row'.final = f
    BY <2>3, RowFields
  <2> QED BY <1>1, <2>1, <2>2, <2>4 DEF RowInv
<1>6. CASE CheckInputs
  <2> DEFINE n == row.fails + 1
             b == row.fails + 1 >= MaxRetries
  <2>1. row' = [row EXCEPT !.fails = 0] \/ row' = [row EXCEPT !.fails = n, !.timedOut = b]
    BY <1>6 DEF CheckInputs
  <2> HIDE DEF n, b
  <2>2. CASE row' = [row EXCEPT !.fails = 0]
    BY <1>2, <2>2, RowFields
  <2>3. CASE row' = [row EXCEPT !.fails = n, !.timedOut = b]
    BY <1>2, <2>3, RowFields
  <2> QED BY <2>1, <2>2, <2>3
<1>7. CASE CreatePackage
  <2>1. TargetFeeRate \in Nat \ {0}
    BY <1>7, TargetIsPositive DEF CreatePackage
  <2> QED BY <1>2, <1>7, <2>1, EffectiveTypes DEF CreatePackage
<1>8. CASE SaveRate
  <2>1. PICK u \in unsaved : row' = WithEffectiveRate(u[2])
    BY <1>8 DEF SaveRate
  <2>2. u[2] \in Nat \ {0}
    BY <1>8 DEF SaveRate, FeeInv
  <2> QED BY <1>2, <2>1, <2>2, EffectiveTypes
<1>9. CASE row' = row
  BY <1>2, <1>9
<1> QED BY <1>3, <1>4, <1>5, <1>6, <1>7, <1>8, <1>9, EffectsOfNext DEF Effects

-----------------------------------------------------------------------------
LEMMA SyncedInit ==
    ASSUME Init
    PROVE  LookupInv /\ SyncedInv /\ RowInv /\ RetryInv
<1>1. \A p \in Payers : PayerShape(payers[p]) /\ payers[p].final = FALSE
  <2>1. SUFFICES ASSUME NEW p \in Payers
                 PROVE  PayerShape(payers[p]) /\ payers[p].final = FALSE
    OBVIOUS
  <2>2. payers[p] = [amount |-> 0, parent |-> None, seen |-> FALSE, final |-> FALSE, evicted |-> FALSE]
    BY DEF Init
  <2>3. payers[p] \in PayerType({0}, {None})
    BY <2>2 DEF PayerType
  <2> QED BY <2>2, <2>3 DEF PayerShape
<1>2. SyncedInv
  BY <1>1 DEF Init, SyncedInv
<1>3. RowInv
  BY DEF Init, RowInv
<1>4. ~InputSpent
  BY Ids DEF Init, InputSpent, Confirmed
<1>5. pc = "idle" /\ sendable = FALSE /\ spent = FALSE /\ faults = 0 /\ row.fails = 0 /\ row.timedOut = FALSE
  BY DEF Init
<1>6. RetryInv
  <2>1. row.fails <= faults /\ pc \notin Window /\ pc \notin {"bump", "save_bump", "check"} /\ pc # "check"
    BY <1>5 DEF Window
  <2>2. spent \in BOOLEAN /\ sendable \in BOOLEAN /\ ~row.timedOut
    BY <1>5
  <2> QED BY <1>4, <2>1, <2>2 DEF RetryInv, Window
<1>7. LookupInv
  BY DEF Init, LookupInv, Looking
<1> QED BY <1>2, <1>3, <1>6, <1>7

IInv == NodeInv /\ FeeInv /\ LookupInv /\ SyncedInv /\ RetryInv /\ RowInv

LEMMA Always ==
    Spec => []IInv
<1>1. Init => IInv
  BY TypesInit, SyncedInit DEF IInv
<1>2. IInv /\ [Next]_vars => IInv'
  BY TypesNext, LookupNext, SyncedStep, RetryNext, RowNext DEF IInv
<1> QED BY <1>1, <1>2, PTL DEF Spec

(* The sender gives a transaction up (timed out after too many failed      *)
(* checks of its inputs) only when the output was spent in a block, or the *)
(* activator was believed final in a block that was stale.                 *)
THEOREM GivesUpOnlyIfSpent ==
    Spec => []GivenUpOnlyIfSpent
<1>1. IInv => GivenUpOnlyIfSpent
  BY DEF IInv, RetryInv, GivenUpOnlyIfSpent
<1> QED BY <1>1, Always, PTL

(* The transaction, the fee payers and the activator that the database     *)
(* calls final are FinalityDepth deep in the chain, or a reorg replaced    *)
(* their block between getrawtransaction and getblock: that window of two  *)
(* calls is the only way to a wrong mark, and whatever else the node does  *)
(* between any two calls of a run, no transaction is marked too early.     *)
THEOREM FinalStaysFinal ==
    Spec => []FinalizedIsFinal
<1>1. IInv => FinalizedIsFinal
  BY DEF IInv, SyncedInv, RowInv, FinalizedIsFinal
<1> QED BY <1>1, Always, PTL
=============================================================================
