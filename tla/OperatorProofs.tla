--------------------------- MODULE OperatorProofs ---------------------------
(***************************************************************************)
(* No kickoff of the operator is refused and none of its rounds ends in a  *)
(* state that can be punished: for any number of withdrawals, rounds and   *)
(* connectors, with and without automation, whatever is mined, reorged and *)
(* finalized between the steps of the operator.                            *)
(***************************************************************************)
EXTENDS Operator, TLAPS

-----------------------------------------------------------------------------
Types == {"withdrawal", "payout", "other", "round", "kickoff", "timeout", "burn", "ready", "reimburse"}
Txs == [type : Types, round : Nat, ks : SUBSET Connectors, w : Int]

TypeInv ==
    /\ pool \subseteq Txs /\ mined \subseteq Txs /\ recent \in Seq(Txs)
    /\ final \in 0..Len(recent)
    /\ round \in Nat /\ asking \in Nat /\ mode \in {"automation", "manual"}
    /\ used \in [Slots -> Int] /\ witness \in [Slots -> Int] /\ reorgs \in Nat
    /\ payouts \in [Withdrawals -> Int] /\ paidIn \in [Withdrawals -> Int]

(* The transactions of the operator, wherever they are. *)
Sent == pool \cup mined \cup ToSet(recent)

(* Those in blocks that are not final, and those that no reorg takes back. *)
Open == ToSet(SubSeq(recent, final + 1, Len(recent)))
Settled == mined \ Open

(* A kickoff is for a payout that every verifier knows, and its connector  *)
(* is assigned to it.                                                      *)
KickoffInv ==
    /\ accused = {}
    /\ \A t \in Sent : t.type = "kickoff" => t.w \in Withdrawals /\ Paid(t.w) /\ t.ks # {}
    /\ \A t \in Sent : t.type = "kickoff" =>
          \A k \in t.ks : <<t.round, k>> \in Slots /\ used[<<t.round, k>>] = t.w

(* It commits to the block of that payout. *)
WitnessInv ==
    \A t \in Sent : t.type = "kickoff" => \A k \in t.ks : witness[<<t.round, k>>] = payouts[t.w]

(* A payout that is recorded is not handled a second time. *)
RecentInv ==
    /\ \A a, b \in 1..Len(recent) : recent[a] = recent[b] => a = b
    /\ ToSet(recent) \subseteq mined
    /\ \A t \in Sent : t.type = "payout" => t = PayoutTx(t.w)
    /\ \A w \in Withdrawals : Paid(w) => PayoutTx(w) \in mined \ ToSet(recent)

SpendsConnector(t, r, k) == t.type \in {"kickoff", "burn"} /\ t.round = r /\ k \in t.ks

(* No connector is spent twice. *)
SpendInv ==
    /\ pool \cap mined = {}
    /\ \A t, u \in mined : \A r \in Nat, k \in Connectors :
          SpendsConnector(t, r, k) /\ SpendsConnector(u, r, k) => t = u

Done(r) ==
    \A k \in Connectors : \E t \in Settled :
        SpendsConnector(t, r, k) /\ (t.type = "kickoff" => ChallengeTimeoutTx(<<r, k>>) \in Settled)

(* A round is ended when what it has to leave behind cannot be undone. *)
ReadyInv ==
    /\ \A r \in Nat : ReadyToReimburseTx(r) \in Sent => Done(r)
    /\ asking > 0 => \A k \in Connectors : \E t \in Settled : SpendsConnector(t, asking, k)

Inv == TypeInv /\ KickoffInv /\ WitnessInv /\ RecentInv /\ SpendInv /\ ReadyInv

-----------------------------------------------------------------------------
LEMMA Numbers ==
    /\ Withdrawals \subseteq Nat /\ Withdrawals \subseteq Int /\ NumRounds \in Nat
    /\ Unused \notin Withdrawals /\ NullPayout \notin Withdrawals
    /\ Unused \in Int /\ NullPayout \in Int /\ NoBlock \in Int
  BY OperatorAssumption DEF Unused, NullPayout, NoBlock

LEMMA SlotFacts ==
    ASSUME NEW s \in Slots
    PROVE  s[1] \in Nat /\ s[2] \in Connectors /\ <<s[1], s[2]>> = s
  BY Numbers DEF Slots

LEMMA TxFacts ==
    ASSUME NEW type \in Types, NEW r \in Nat, NEW ks \in SUBSET Connectors, NEW w \in Int
    PROVE  /\ Tx(type, r, ks, w) \in Txs
           /\ Tx(type, r, ks, w).type = type /\ Tx(type, r, ks, w).round = r
           /\ Tx(type, r, ks, w).ks = ks /\ Tx(type, r, ks, w).w = w
  BY DEF Tx, Txs

LEMMA ReadyType ==
    \A r : ReadyToReimburseTx(r).type = "ready"
  BY DEF ReadyToReimburseTx, Tx

LEMMA TypeNames ==
    /\ "withdrawal" \in Types /\ "payout" \in Types /\ "other" \in Types /\ "round" \in Types
    /\ "kickoff" \in Types /\ "timeout" \in Types /\ "burn" \in Types /\ "ready" \in Types
    /\ "reimburse" \in Types
  BY DEF Types

(* What a reorg may still take back. *)
LEMMA OpenIs ==
    ASSUME NEW q \in Seq(Txs), NEW f \in Nat
    PROVE  ToSet(SubSeq(q, f + 1, Len(q))) = {q[i] : i \in (f + 1)..Len(q)}
<1> DEFINE z == SubSeq(q, f + 1, Len(q))
           n == Len(q)
<1>1. n \in Nat
  OBVIOUS
<1>2. CASE f + 1 > n
  <2>1. z = <<>> /\ (f + 1)..n = {}
    BY <1>1, <1>2
  <2> QED BY <2>1 DEF ToSet
<1>3. CASE f + 1 <= n
  <2>1. DOMAIN z = 1..(n - f) /\ \A i \in 1..(n - f) : z[i] = q[i + f]
    BY <1>1, <1>3
  <2>2. \A i \in (f + 1)..n : i - f \in 1..(n - f) /\ z[i - f] = q[i]
    BY <1>1, <1>3, <2>1
  <2>3. \A i \in 1..(n - f) : i + f \in (f + 1)..n
    BY <1>1, <1>3
  <2> HIDE DEF z, n
  <2>4. ToSet(z) = {q[i] : i \in (f + 1)..n}
    BY <2>1, <2>2, <2>3 DEF ToSet
  <2> QED BY <2>4 DEF z, n
<1> QED BY <1>1, <1>2, <1>3

-----------------------------------------------------------------------------
(* A step of the chain: nothing new is sent, and what is settled stays. *)
LEMMA ChainStep ==
    ASSUME Inv, TypeInv', RecentInv', SpendInv', accused' = accused,
           \A w \in Withdrawals : Paid(w) => payouts'[w] = payouts[w],
           witness' = witness, used' = used, asking' = asking, Sent' \subseteq Sent, Settled \subseteq Settled'
    PROVE  Inv'
<1>1. \A r \in Nat : Done(r) => Done(r)'
  BY DEF Done, SpendsConnector, ChallengeTimeoutTx, Tx
<1>2. KickoffInv' /\ WitnessInv'
  BY DEF Inv, KickoffInv, WitnessInv, Paid
<1>3. \A r \in Nat : ReadyToReimburseTx(r) \in Sent' => Done(r)'
  BY <1>1 DEF Inv, ReadyInv
<1>4. asking' > 0 => \A k \in Connectors : \E t \in Settled' : SpendsConnector(t, asking', k)
  BY DEF Inv, ReadyInv
<1>5. ReadyInv'
  BY <1>3, <1>4 DEF ReadyInv, SpendsConnector, ReadyToReimburseTx, Tx
<1> QED BY <1>2, <1>5 DEF Inv

LEMMA MineStep ==
    ASSUME Inv, NEW t \in pool, Mine(t)
    PROVE  Inv'
<1>1. /\ mined' = mined \cup {t} /\ pool' = pool \ {t} /\ recent' = Append(recent, t) /\ final' = final
      /\ accused' = accused /\ payouts' = payouts /\ used' = used /\ asking' = asking /\ round' = round
      /\ mode' = mode /\ witness' = witness /\ reorgs' = reorgs /\ Spendable(t)
      /\ paidIn' = IF t.type = "payout" THEN [paidIn EXCEPT ![t.w] = reorgs] ELSE paidIn
  BY DEF Mine, synced
<1>2. t \in Txs /\ recent \in Seq(Txs) /\ final \in Nat /\ t \notin mined
  BY DEF Inv, TypeInv, SpendInv
<1>3. TypeInv'
  <2> DEFINE w0 == t.w
             b == reorgs
  <2>1. paidIn \in [Withdrawals -> Int] /\ b \in Int /\ paidIn' \in {[paidIn EXCEPT ![w0] = b], paidIn}
    BY <1>1 DEF Inv, TypeInv
  <2> HIDE DEF w0, b
  <2>2. paidIn' \in [Withdrawals -> Int]
    BY <2>1
  <2>3. recent' \in Seq(Txs) /\ Len(recent') = Len(recent) + 1 /\ Len(recent) \in Nat
    BY <1>1, <1>2
  <2>4. final' \in 0..Len(recent')
    BY <1>1, <2>3 DEF Inv, TypeInv
  <2>5. pool' \subseteq Txs /\ mined' \subseteq Txs
    BY <1>1, <1>2 DEF Inv, TypeInv
  <2> QED BY <1>1, <2>2, <2>3, <2>4, <2>5 DEF Inv, TypeInv
<1>4. ToSet(recent') \subseteq ToSet(recent) \cup {t}
  BY <1>1, <1>2 DEF ToSet
<1>5. Sent' \subseteq Sent
  BY <1>1, <1>4 DEF Sent
<1>6. Open' \subseteq Open \cup {t}
  <2>1. Open = {recent[i] : i \in (final + 1)..Len(recent)}
    BY <1>2, OpenIs DEF Open
  <2>2. Open' = {recent'[i] : i \in (final' + 1)..Len(recent')}
    <3>1. recent' \in Seq(Txs) /\ final' \in Nat
      BY <1>1, <1>2
    <3> QED BY <3>1, OpenIs DEF Open
  <2>3. /\ Len(recent') = Len(recent) + 1 /\ recent'[Len(recent) + 1] = t
        /\ \A i \in 1..Len(recent) : recent'[i] = recent[i]
    BY <1>1, <1>2
  <2>4. SUFFICES ASSUME NEW i \in (final + 1)..(Len(recent) + 1)
                 PROVE  recent'[i] \in Open \cup {t}
    BY <1>1, <2>2, <2>3
  <2>5. CASE i = Len(recent) + 1
    BY <2>3, <2>5
  <2>6. CASE i # Len(recent) + 1
    <3>1. i \in (final + 1)..Len(recent) /\ i \in 1..Len(recent)
      BY <1>2, <2>6
    <3> QED BY <2>1, <2>3, <3>1
  <2> QED BY <2>5, <2>6
<1>7. Settled \subseteq Settled'
  BY <1>1, <1>2, <1>6 DEF Settled
<1>8. ASSUME NEW u \in mined, NEW r \in Nat, NEW k \in Connectors, SpendsConnector(t, r, k)
      PROVE  ~SpendsConnector(u, r, k)
  <2>1. ~ConnectorSpent(<<t.round, k>>)
    BY <1>1, <1>8 DEF Spendable, SpendsConnector
  <2> QED BY <1>8, <2>1 DEF ConnectorSpent, SpendsConnector
<1>9. SpendInv'
  BY <1>1, <1>8 DEF Inv, SpendInv, SpendsConnector
<1>10. RecentInv'
  <2>1. /\ Len(recent') = Len(recent) + 1 /\ recent'[Len(recent) + 1] = t
        /\ \A i \in 1..Len(recent) : recent'[i] = recent[i]
    BY <1>1, <1>2
  <2>2. \A i \in 1..Len(recent) : recent[i] \in mined
    BY <1>2 DEF Inv, RecentInv, ToSet
  <2>3. \A a, b \in 1..Len(recent') : recent'[a] = recent'[b] => a = b
    <3>1. SUFFICES ASSUME NEW a \in 1..(Len(recent) + 1), NEW b \in 1..(Len(recent) + 1), recent'[a] = recent'[b]
                   PROVE  a = b
      BY <2>1
    <3>2. \A i \in 1..(Len(recent) + 1) : i \in 1..Len(recent) \/ i = Len(recent) + 1
      BY <1>2
    <3> QED BY <1>2, <2>1, <2>2, <3>1, <3>2 DEF Inv, RecentInv
  <2>4. \A w \in Withdrawals : Paid(w) => PayoutTx(w) \in mined' \ ToSet(recent')
    BY <1>1, <1>2, <1>4 DEF Inv, RecentInv
  <2> QED BY <1>1, <1>4, <1>5, <2>3, <2>4 DEF Inv, RecentInv, Paid, PayoutTx, Tx
<1> QED BY <1>1, <1>3, <1>5, <1>7, <1>9, <1>10, ChainStep

LEMMA FinalizeStep ==
    ASSUME Inv, Finalize
    PROVE  Inv'
<1>1. /\ mined' = mined /\ pool' = pool /\ recent' = recent /\ final' = final + 1
      /\ accused' = accused /\ payouts' = payouts /\ used' = used /\ asking' = asking /\ round' = round
      /\ mode' = mode /\ witness' = witness /\ reorgs' = reorgs /\ paidIn' = paidIn
  BY DEF Finalize, synced
<1>2. recent \in Seq(Txs) /\ final \in Nat
  BY DEF Inv, TypeInv
<1>3. TypeInv'
  BY <1>1, <1>2 DEF Inv, TypeInv, Finalize
<1>4. Open' \subseteq Open
  <2>1. Open = {recent[i] : i \in (final + 1)..Len(recent)}
    BY <1>2, OpenIs DEF Open
  <2>2. Open' = {recent'[i] : i \in (final' + 1)..Len(recent')}
    <3>1. recent' \in Seq(Txs) /\ final' \in Nat
      BY <1>1, <1>2
    <3> QED BY <3>1, OpenIs DEF Open
  <2> QED BY <1>1, <1>2, <2>1, <2>2
<1>5. Sent' = Sent /\ Settled \subseteq Settled' /\ SpendInv'
  BY <1>1, <1>4 DEF Sent, Settled, Inv, SpendInv, SpendsConnector
<1>6. RecentInv'
  BY <1>1, <1>5 DEF Inv, RecentInv, Paid, PayoutTx, Tx
<1> QED BY <1>1, <1>3, <1>5, <1>6, ChainStep

LEMMA ReorgStep ==
    ASSUME Inv, NEW n \in 1..Len(recent), Reorg(n)
    PROVE  Inv'
<1> DEFINE gone == ToSet(SubSeq(recent, Len(recent) - n + 1, Len(recent)))
           m == Len(recent) - n
<1>1. /\ mined' = mined \ gone /\ pool' = pool \cup gone /\ recent' = SubSeq(recent, 1, m) /\ final' = final
      /\ accused' = accused /\ payouts' = payouts /\ used' = used /\ asking' = asking /\ round' = round
      /\ mode' = mode /\ n <= Len(recent) - final /\ witness' = witness /\ reorgs' = reorgs + 1
      /\ paidIn' = [w \in Withdrawals |-> IF PayoutTx(w) \in gone THEN NoBlock ELSE paidIn[w]]
  BY DEF Reorg, synced
<1>2. recent \in Seq(Txs) /\ final \in Nat /\ Len(recent) \in Nat
  BY DEF Inv, TypeInv
<1>3. m \in Nat /\ m >= final /\ m <= Len(recent)
  BY <1>1, <1>2
<1>4. gone = {recent[i] : i \in (m + 1)..Len(recent)}
  BY <1>2, <1>3, OpenIs
<1>5. Open = {recent[i] : i \in (final + 1)..Len(recent)}
  BY <1>2, OpenIs DEF Open
<1> HIDE DEF gone, m
<1>6. recent' \in Seq(Txs) /\ Len(recent') = m /\ \A i \in 1..m : recent'[i] = recent[i]
  BY <1>1, <1>2, <1>3
<1>7. Open' = {recent'[i] : i \in (final + 1)..m}
  BY <1>1, <1>2, <1>6, OpenIs DEF Open
<1>8. gone \subseteq Open /\ Open' \subseteq Open
  BY <1>2, <1>3, <1>4, <1>5, <1>6, <1>7
<1>9. gone \subseteq ToSet(recent) /\ ToSet(recent') \subseteq ToSet(recent) /\ ToSet(recent) \subseteq Txs
  BY <1>2, <1>3, <1>4, <1>6 DEF ToSet
<1>10. TypeInv'
  <2>1. paidIn' \in [Withdrawals -> Int]
    BY <1>1, Numbers DEF Inv, TypeInv
  <2> QED BY <1>1, <1>2, <1>3, <1>6, <1>9, <2>1 DEF Inv, TypeInv
<1>11. Sent' \subseteq Sent /\ Settled \subseteq Settled' /\ SpendInv'
  BY <1>1, <1>8, <1>9 DEF Sent, Settled, Inv, SpendInv, SpendsConnector
<1>12. RecentInv'
  <2>1. \A a, b \in 1..m : recent'[a] = recent'[b] => a = b
    BY <1>2, <1>3, <1>6 DEF Inv, RecentInv
  <2>2. ToSet(recent') \cap gone = {}
    <3>1. SUFFICES ASSUME NEW a \in 1..m, NEW b \in (m + 1)..Len(recent), recent[a] = recent[b]
                   PROVE  FALSE
      BY <1>4, <1>6 DEF ToSet
    <3>2. a \in 1..Len(recent) /\ b \in 1..Len(recent) /\ a # b
      BY <1>2, <1>3
    <3> QED BY <3>1, <3>2 DEF Inv, RecentInv
  <2>3. ToSet(recent') \subseteq mined'
    BY <1>1, <1>9, <2>2 DEF Inv, RecentInv
  <2>4. \A w \in Withdrawals : Paid(w) => PayoutTx(w) \in mined' \ ToSet(recent')
    BY <1>1, <1>9 DEF Inv, RecentInv
  <2> QED BY <1>1, <1>6, <1>11, <2>1, <2>3, <2>4 DEF Inv, RecentInv, Paid, PayoutTx, Tx
<1> QED BY <1>1, <1>10, <1>11, <1>12, ChainStep

LEMMA HandleStep ==
    ASSUME Inv, HandleFinalizedBlock
    PROVE  Inv'
<1> DEFINE t == Head(recent)
<1>1. /\ mined' = mined /\ pool' = pool /\ recent' = Tail(recent) /\ final' = final - 1 /\ final > 0
      /\ payouts' = PayoutsWith(t) /\ used' = used /\ asking' = asking /\ round' = round
      /\ mode' = mode /\ witness' = witness /\ reorgs' = reorgs /\ paidIn' = paidIn
      /\ accused' = IF t.type = "kickoff" /\ IsKickoffMalicious(t) THEN accused \cup {t.w} ELSE accused
  BY DEF HandleFinalizedBlock
<1>2. recent \in Seq(Txs) /\ final \in Nat /\ Len(recent) \in Nat /\ recent # <<>> /\ final <= Len(recent)
  BY <1>1 DEF Inv, TypeInv
<1>3. t = recent[1] /\ 1 \in DOMAIN recent /\ t \in Txs
  BY <1>2
<1>4. /\ recent' \in Seq(Txs) /\ Len(recent') = Len(recent) - 1
      /\ \A i \in 1..Len(recent') : recent'[i] = recent[i + 1]
  BY <1>1, <1>2
<1>5. t \in Sent
  BY <1>3 DEF Sent, ToSet
<1> HIDE DEF t
<1>6. accused' = accused
  <2>1. SUFFICES ASSUME t.type = "kickoff"
                 PROVE  ~IsKickoffMalicious(t)
    BY <1>1
  <2>2. Paid(t.w) /\ t.ks # {} /\ \A k \in t.ks : witness[<<t.round, k>>] = payouts[t.w]
    BY <1>5, <2>1 DEF Inv, KickoffInv, WitnessInv
  <2>3. payouts[t.w] \in Committed(t)
    BY <2>2 DEF Committed, Paid
  <2> QED BY <2>2, <2>3 DEF IsKickoffMalicious
<1>7. /\ payouts' \in [Withdrawals -> Int]
      /\ \A w \in Withdrawals : Paid(w) => payouts'[w] = payouts[w]
      /\ \A w \in Withdrawals : payouts'[w] # payouts[w] => t = PayoutTx(w)
  <2>1. CASE payouts' = payouts
    BY <2>1 DEF Inv, TypeInv
  <2>2. CASE t.type = "payout" /\ payouts' = [payouts EXCEPT ![t.w] = paidIn[t.w]]
    <3>1. t = PayoutTx(t.w) /\ t \in ToSet(recent)
      BY <1>3, <1>5, <2>2 DEF Inv, RecentInv, ToSet
    <3>2. \A w \in Withdrawals : Paid(w) => w # t.w
      BY <3>1 DEF Inv, RecentInv
    <3>3. payouts \in [Withdrawals -> Int] /\ paidIn \in [Withdrawals -> Int]
      BY DEF Inv, TypeInv
    <3> DEFINE w0 == t.w
               b == paidIn[t.w]
    <3>4. w0 \in Withdrawals => b \in Int
      BY <3>3
    <3>5. payouts' = [payouts EXCEPT ![w0] = b]
      BY <2>2
    <3> HIDE DEF w0, b
    <3>6. payouts' \in [Withdrawals -> Int] /\ \A w \in Withdrawals : payouts'[w] = IF w = w0 THEN b ELSE payouts[w]
      BY <3>3, <3>4, <3>5
    <3> QED BY <3>1, <3>2, <3>6 DEF w0
  <2> QED BY <1>1, <2>1, <2>2 DEF PayoutsWith
<1>8. TypeInv'
  BY <1>1, <1>2, <1>4, <1>7 DEF Inv, TypeInv
<1>9. ToSet(recent') \subseteq ToSet(recent)
  BY <1>2, <1>4 DEF ToSet
<1>10. Open' \subseteq Open
  <2>1. Open = {recent[i] : i \in (final + 1)..Len(recent)}
    BY <1>2, OpenIs DEF Open
  <2>2. Open' = {recent'[i] : i \in (final' + 1)..Len(recent')}
    <3>1. recent' \in Seq(Txs) /\ final' \in Nat
      BY <1>1, <1>2, <1>4
    <3> QED BY <3>1, OpenIs DEF Open
  <2>3. SUFFICES ASSUME NEW i \in (final' + 1)..Len(recent')
                 PROVE  recent'[i] \in Open
    BY <2>2
  <2>4. recent'[i] = recent[i + 1] /\ i + 1 \in (final + 1)..Len(recent)
    BY <1>1, <1>2, <1>4
  <2> QED BY <2>1, <2>4
<1>11. Sent' \subseteq Sent /\ Settled \subseteq Settled' /\ SpendInv'
  BY <1>1, <1>9, <1>10 DEF Sent, Settled, Inv, SpendInv, SpendsConnector
<1>12. RecentInv'
  <2>1. \A a, b \in 1..Len(recent') : recent'[a] = recent'[b] => a = b
    <3>1. SUFFICES ASSUME NEW a \in 1..Len(recent'), NEW b \in 1..Len(recent'), recent'[a] = recent'[b]
                   PROVE  a = b
      OBVIOUS
    <3>2. a + 1 \in 1..Len(recent) /\ b + 1 \in 1..Len(recent) /\ recent[a + 1] = recent[b + 1]
      BY <1>2, <1>4, <3>1
    <3>3. a + 1 = b + 1
      BY <3>2 DEF Inv, RecentInv
    <3> QED BY <3>3
  <2>2. t \notin ToSet(recent') /\ t \in mined
    <3>1. SUFFICES ASSUME NEW a \in 1..Len(recent'), recent'[a] = t
                   PROVE  FALSE
      BY <1>3, <1>4 DEF ToSet, Inv, RecentInv
    <3>2. a + 1 \in 1..Len(recent) /\ 1 \in 1..Len(recent) /\ recent[a + 1] = recent[1]
      BY <1>2, <1>3, <1>4, <3>1
    <3>3. a + 1 = 1
      BY <3>2 DEF Inv, RecentInv
    <3> QED BY <3>3
  <2>3. ASSUME NEW w \in Withdrawals, payouts'[w] # NoBlock
        PROVE  PayoutTx(w) \in mined \ ToSet(recent')
    <3>1. CASE Paid(w)
      BY <1>9, <3>1 DEF Inv, RecentInv
    <3>2. CASE ~Paid(w)
      <4>1. t = PayoutTx(w)
        BY <1>7, <2>3, <3>2 DEF Paid
      <4> QED BY <2>2, <4>1
    <3> QED BY <3>1, <3>2
  <2> QED BY <1>1, <1>9, <1>11, <2>1, <2>3 DEF Inv, RecentInv, Paid, PayoutTx, Tx
<1> QED BY <1>1, <1>6, <1>7, <1>8, <1>11, <1>12, ChainStep

-----------------------------------------------------------------------------
(* What the operator may send. *)
Fits(t, table) ==
    /\ t \in Txs
    /\ t.type = "kickoff" => /\ t.w \in Withdrawals /\ Paid(t.w) /\ t.ks # {}
                             /\ \A k \in t.ks : <<t.round, k>> \in Slots /\ table[<<t.round, k>>] = t.w
    /\ t.type = "payout" => t = PayoutTx(t.w)
    /\ \A r \in Nat : t = ReadyToReimburseTx(r) => Done(r)

(* A step of the operator, or of somebody who sends a transaction. *)
LEMMA SendStep ==
    ASSUME Inv, mode' = mode, blocks' = blocks, accused' = accused, payouts' = payouts,
           round' \in Nat, asking' \in Nat, used' \in [Slots -> Int], witness' \in [Slots -> Int],
           \A s \in Slots : used[s] \in Withdrawals => used'[s] = used[s],
           \A t \in pool' : t \in pool \/ (t \notin mined /\ Fits(t, used')),
           \A s \in Slots : used[s] \in Withdrawals => witness'[s] \in {witness[s], payouts[used[s]]},
           \A t \in pool' : t \in pool \/ (t.type = "kickoff" => \A k \in t.ks : witness'[<<t.round, k>>] = payouts[t.w]),
           asking' > 0 => \A k \in Connectors : \E t \in Settled : SpendsConnector(t, asking', k)
    PROVE  Inv'
<1>0. /\ mined' = mined /\ recent' = recent /\ final' = final /\ reorgs' = reorgs /\ paidIn' = paidIn
  BY DEF blocks
<1>1. Open' = Open /\ Settled' = Settled
  BY <1>0 DEF Open, Settled
<1>2. \A r \in Nat : Done(r)' <=> Done(r)
  BY <1>1 DEF Done
<1>3. TypeInv'
  BY <1>0 DEF Inv, TypeInv, Fits
<1>4. \A t \in Sent' : t \in Sent \/ (t \in pool' /\ t \notin pool /\ Fits(t, used'))
  BY <1>0 DEF Sent
<1>5. KickoffInv'
  BY <1>4 DEF Inv, KickoffInv, Fits, Paid
<1>9. WitnessInv'
  <2>1. SUFFICES ASSUME NEW t \in Sent', t.type = "kickoff", NEW k \in t.ks
                 PROVE  witness'[<<t.round, k>>] = payouts[t.w]
    BY DEF WitnessInv
  <2>2. CASE t \in Sent
    <3>1. <<t.round, k>> \in Slots /\ used[<<t.round, k>>] = t.w /\ t.w \in Withdrawals
          /\ witness[<<t.round, k>>] = payouts[t.w]
      BY <2>1, <2>2 DEF Inv, KickoffInv, WitnessInv
    <3> QED BY <3>1
  <2>3. CASE t \notin Sent
    BY <1>4, <2>1, <2>3
  <2> QED BY <2>2, <2>3
<1>10. RecentInv'
  BY <1>0, <1>4 DEF Inv, RecentInv, Fits, Paid, PayoutTx, Tx
<1>6. \A r \in Nat : ReadyToReimburseTx(r) \in Sent' => Done(r)
  BY <1>4 DEF Inv, ReadyInv, Fits
<1>7. ReadyInv'
  BY <1>1, <1>2, <1>6 DEF ReadyInv
<1>8. SpendInv'
  BY <1>0 DEF Inv, SpendInv, SpendsConnector
<1> QED BY <1>3, <1>5, <1>7, <1>8, <1>9, <1>10 DEF Inv

(* Anything but a payout, a kickoff or the end of a round fits. *)
LEMMA PlainFits ==
    ASSUME NEW type \in Types, NEW r \in Nat, NEW ks \in SUBSET Connectors, NEW w \in Int, NEW table,
           type \notin {"payout", "kickoff", "ready"}
    PROVE  Fits(Tx(type, r, ks, w), table)
  BY TxFacts, ReadyType DEF Fits

LEMMA KickoffFits ==
    ASSUME NEW s \in Slots, NEW w \in Withdrawals, Paid(w), NEW table, table[s] = w
    PROVE  Fits(KickoffTx(s, w), table)
<1>1. s[1] \in Nat /\ s[2] \in Connectors /\ <<s[1], s[2]>> = s /\ w \in Int
  BY SlotFacts, Numbers
<1>2. /\ KickoffTx(s, w) \in Txs /\ KickoffTx(s, w).type = "kickoff" /\ KickoffTx(s, w).round = s[1]
      /\ KickoffTx(s, w).ks = {s[2]} /\ KickoffTx(s, w).w = w
  <2> DEFINE ks == {s[2]}
  <2>1. ks \in SUBSET Connectors /\ KickoffTx(s, w) = Tx("kickoff", s[1], ks, w) /\ "kickoff" \in Types
    BY <1>1 DEF KickoffTx, Types
  <2> HIDE DEF ks
  <2>2. /\ KickoffTx(s, w) \in Txs /\ KickoffTx(s, w).type = "kickoff" /\ KickoffTx(s, w).round = s[1]
        /\ KickoffTx(s, w).ks = ks /\ KickoffTx(s, w).w = w
    BY <1>1, <2>1, TxFacts
  <2> QED BY <2>2 DEF ks
<1>3. \A r \in Nat : KickoffTx(s, w) # ReadyToReimburseTx(r)
  BY <1>2, ReadyType
<1> HIDE DEF KickoffTx
<1> QED BY <1>1, <1>2, <1>3 DEF Fits

(* A plan keeps the assignments of the table, and what it sends fits. *)
PlanType == [round : Nat, used : [Slots -> Int], txs : SUBSET Txs]
GoodPlan(o) ==
    /\ o \in PlanType
    /\ \A s \in Slots : used[s] \in Withdrawals => o.used[s] = used[s]
    /\ \A t \in o.txs : Fits(t, o.used)

(* It may assign more connectors. *)
LEMMA FitsMore ==
    ASSUME NEW t, NEW table, NEW more, Fits(t, table),
           \A s \in Slots : table[s] \in Withdrawals => more[s] = table[s]
    PROVE  Fits(t, more)
  BY DEF Fits

LEMMA PlanIsGood ==
    ASSUME Inv
    PROVE  GoodPlan(Plan)
<1>1. Plan \in PlanType /\ Plan.used = used /\ Plan.txs = {}
  BY DEF Inv, TypeInv, Plan, PlanType
<1> QED BY <1>1 DEF GoodPlan

LEMMA GoodPlanIs ==
    ASSUME NEW r \in Nat, NEW table \in [Slots -> Int], NEW txs,
           \A s \in Slots : used[s] \in Withdrawals => table[s] = used[s],
           \A t \in txs : Fits(t, table)
    PROVE  GoodPlan([round |-> r, used |-> table, txs |-> txs])
<1>1. txs \in SUBSET Txs
  BY DEF Fits
<1>2. [round |-> r, used |-> table, txs |-> txs] \in PlanType
  BY <1>1 DEF PlanType
<1> QED BY <1>2 DEF GoodPlan

LEMMA EndRoundIsGood ==
    ASSUME Inv, NEW o, GoodPlan(o)
    PROVE  /\ GoodPlan(EndRound(o))
           /\ \A s \in Slots : o.used[s] \in Withdrawals => EndRound(o).used[s] = o.used[s]
<1>1. /\ o.round \in Nat /\ o.used \in [Slots -> Int] /\ o.txs \in SUBSET Txs /\ \A t \in o.txs : Fits(t, o.used)
      /\ o = [round |-> o.round, used |-> o.used, txs |-> o.txs]
  BY DEF GoodPlan, PlanType
<1>2. CASE o.round = 0
  <2> DEFINE txs == o.txs \cup {RoundTx(1)}
  <2>1. EndRound(o) = [o EXCEPT !.round = 1, !.txs = txs]
    BY <1>2 DEF EndRound, StartFirstRound
  <2>2. Fits(RoundTx(1), o.used)
    BY PlainFits, TypeNames DEF RoundTx
  <2>3. \A t \in txs : Fits(t, o.used)
    BY <1>1, <2>2
  <2> HIDE DEF txs
  <2>4. EndRound(o) = [round |-> 1, used |-> o.used, txs |-> txs]
    BY <1>1, <2>1
  <2>5. \A s \in Slots : used[s] \in Withdrawals => o.used[s] = used[s]
    BY DEF GoodPlan
  <2>6. GoodPlan([round |-> 1, used |-> o.used, txs |-> txs])
    BY <1>1, <2>3, <2>5, GoodPlanIs
  <2> QED BY <2>4, <2>6
<1>3. CASE o.round # 0
  <2> DEFINE unspent == Connectors \ Assigned(o.used, o.round)
             table == [s \in Slots |-> IF s[1] = o.round /\ s[2] \in unspent THEN NullPayout ELSE o.used[s]]
             txs == o.txs \cup {BurnTx(o.round, unspent), RoundTx(o.round + 1)}
  <2>1. EndRound(o) = [round |-> o.round + 1, used |-> table, txs |-> txs]
    BY <1>3 DEF EndRound
  <2>2. table \in [Slots -> Int]
    BY <1>1, Numbers
  <2>3. ASSUME NEW s \in Slots, o.used[s] \in Withdrawals
        PROVE  table[s] = o.used[s]
    <3>1. s[1] = o.round => s[2] \in Assigned(o.used, o.round)
      BY <2>3, SlotFacts DEF Assigned
    <3> QED BY <3>1
  <2>4. Fits(BurnTx(o.round, unspent), table) /\ Fits(RoundTx(o.round + 1), table)
    <3> HIDE DEF table
    <3>1. unspent \in SUBSET Connectors
      OBVIOUS
    <3> HIDE DEF unspent
    <3>2. Fits(Tx("burn", o.round, unspent, 0), table)
      BY <1>1, <3>1, PlainFits, TypeNames
    <3>3. Fits(Tx("round", o.round + 1, {}, 0), table)
      BY <1>1, PlainFits, TypeNames
    <3> QED BY <3>2, <3>3 DEF BurnTx, RoundTx
  <2> HIDE DEF table
  <2>5. \A t \in o.txs : Fits(t, table)
    BY <1>1, <2>3, FitsMore
  <2>6. \A t \in txs : Fits(t, table)
    BY <2>4, <2>5
  <2>7. \A s \in Slots : used[s] \in Withdrawals => table[s] = used[s]
    BY <2>3 DEF GoodPlan
  <2> DEFINE r == o.round + 1
  <2>8. r \in Nat
    BY <1>1
  <2> HIDE DEF txs, r
  <2>9. GoodPlan([round |-> r, used |-> table, txs |-> txs])
    BY <2>2, <2>6, <2>7, <2>8, GoodPlanIs
  <2> QED BY <2>1, <2>3, <2>9 DEF r
<1> QED BY <1>2, <1>3

(* The end of a round assigns no connector and sends no kickoff. *)
LEMMA EndRoundAssigns ==
    ASSUME NEW o, GoodPlan(o)
    PROVE  /\ \A s \in Slots : EndRound(o).used[s] \in Withdrawals => o.used[s] \in Withdrawals
           /\ \A t \in EndRound(o).txs : t \in o.txs \/ t.type # "kickoff"
<1>1. o \in PlanType
  BY DEF GoodPlan
<1>2. \A r, ks : RoundTx(r).type = "round" /\ BurnTx(r, ks).type = "burn"
  BY DEF RoundTx, BurnTx, Tx
<1>3. CASE o.round = 0
  <2>1. EndRound(o) = [o EXCEPT !.round = 1, !.txs = @ \cup {RoundTx(1)}]
    BY <1>3 DEF EndRound, StartFirstRound
  <2>2. EndRound(o).used = o.used /\ EndRound(o).txs = o.txs \cup {RoundTx(1)}
    BY <1>1, <2>1 DEF PlanType
  <2> QED BY <1>2, <2>2
<1>4. CASE o.round # 0
  <2> DEFINE unspent == Connectors \ Assigned(o.used, o.round)
             table == [s \in Slots |-> IF s[1] = o.round /\ s[2] \in unspent THEN NullPayout ELSE o.used[s]]
             txs == o.txs \cup {BurnTx(o.round, unspent), RoundTx(o.round + 1)}
  <2>1. EndRound(o) = [round |-> o.round + 1, used |-> table, txs |-> txs]
    BY <1>4 DEF EndRound
  <2>2. \A s \in Slots : table[s] \in Withdrawals => o.used[s] \in Withdrawals
    BY Numbers
  <2>3. \A t \in txs : t \in o.txs \/ t.type # "kickoff"
    BY <1>2
  <2> HIDE DEF table, txs
  <2> QED BY <2>1, <2>2, <2>3
<1> QED BY <1>3, <1>4

LEMMA AssignIsGood ==
    ASSUME Inv, NEW o, GoodPlan(o), NEW w \in Withdrawals, NEW s \in Slots, used[s] = Unused,
           o.used[s] \notin Withdrawals, NEW more, \A t \in more : Fits(t, [o.used EXCEPT ![s] = w])
    PROVE  GoodPlan([o EXCEPT !.used[s] = w, !.txs = @ \cup more])
<1>1. /\ o.round \in Nat /\ o.used \in [Slots -> Int] /\ o.txs \in SUBSET Txs /\ \A t \in o.txs : Fits(t, o.used)
      /\ o = [round |-> o.round, used |-> o.used, txs |-> o.txs]
  BY DEF GoodPlan, PlanType
<1> DEFINE table == [o.used EXCEPT ![s] = w]
           txs == o.txs \cup more
<1>2. table \in [Slots -> Int] /\ \A z \in Slots : table[z] = IF z = s THEN w ELSE o.used[z]
  BY <1>1, Numbers
<1>3. [o EXCEPT !.used[s] = w, !.txs = @ \cup more] = [o EXCEPT !.used = table, !.txs = txs]
  OBVIOUS
<1>4. \A t \in more : Fits(t, table)
  OBVIOUS
<1> HIDE DEF table
<1>5. \A t \in o.txs : Fits(t, table)
  BY <1>1, <1>2, FitsMore
<1>6. \A t \in txs : Fits(t, table)
  BY <1>4, <1>5
<1>7. \A z \in Slots : used[z] \in Withdrawals => table[z] = used[z]
  BY <1>2, Numbers DEF GoodPlan
<1>8. o \in PlanType /\ txs \in SUBSET Txs
  BY <1>6 DEF GoodPlan, Fits
<1> HIDE DEF txs
<1>9. /\ [o EXCEPT !.used = table, !.txs = txs] \in PlanType
      /\ [o EXCEPT !.used = table, !.txs = txs].used = table /\ [o EXCEPT !.used = table, !.txs = txs].txs = txs
  BY <1>2, <1>8 DEF PlanType
<1> QED BY <1>3, <1>6, <1>7, <1>9 DEF GoodPlan

LEMMA HandlePayoutIsGood ==
    ASSUME Inv, NEW o, GoodPlan(o), NEW w \in Withdrawals, Paid(w), NEW s \in Slots, used[s] = Unused,
           o.used[s] = Unused
    PROVE  GoodPlan(HandleFinalizedPayout(o, w, s))
<1>1. CASE mode = "manual"
  <2> DEFINE table == [o.used EXCEPT ![s] = w]
  <2>1. HandleFinalizedPayout(o, w, s) = [o EXCEPT !.used = table]
    BY <1>1 DEF HandleFinalizedPayout
  <2>2. o \in PlanType /\ o.used \in [Slots -> Int]
    BY DEF GoodPlan, PlanType
  <2>3. table \in [Slots -> Int] /\ \A z \in Slots : table[z] = IF z = s THEN w ELSE o.used[z]
    BY <2>2, Numbers
  <2> HIDE DEF table
  <2>4. [o EXCEPT !.used = table] \in PlanType /\ [o EXCEPT !.used = table].used = table
        /\ [o EXCEPT !.used = table].txs = o.txs
    BY <2>2, <2>3 DEF PlanType
  <2>5. \A t \in o.txs : Fits(t, table)
    BY <2>3, Numbers, FitsMore DEF GoodPlan
  <2>6. \A z \in Slots : used[z] \in Withdrawals => table[z] = used[z]
    BY <2>3, Numbers DEF GoodPlan
  <2> QED BY <2>1, <2>4, <2>5, <2>6 DEF GoodPlan
<1>2. CASE mode # "manual"
  <2> DEFINE current == IF s[1] = o.round THEN o ELSE EndRound(o)
             more == {KickoffTx(s, w), ChallengeTimeoutTx(s), ReimburseTx(s, w)}
             table == [current.used EXCEPT ![s] = w]
  <2>1. HandleFinalizedPayout(o, w, s) = [current EXCEPT !.used[s] = w, !.txs = @ \cup more]
    BY <1>2 DEF HandleFinalizedPayout
  <2>2. GoodPlan(current) /\ current.used[s] \notin Withdrawals
    BY EndRoundIsGood, EndRoundAssigns, Numbers
  <2> HIDE DEF current
  <2>3. table[s] = w
    BY <2>2 DEF GoodPlan, PlanType
  <2> HIDE DEF table
  <2>4. Fits(KickoffTx(s, w), table)
    BY <2>3, KickoffFits
  <2>5. Fits(ChallengeTimeoutTx(s), table) /\ Fits(ReimburseTx(s, w), table)
    <3> DEFINE ks == {s[2]}
               r == s[1]
    <3>1. ks \in SUBSET Connectors /\ r \in Nat /\ w \in Int
      BY SlotFacts, Numbers
    <3> HIDE DEF ks, r
    <3>2. Fits(Tx("timeout", r, ks, 0), table) /\ Fits(Tx("reimburse", r, ks, w), table)
      BY <3>1, PlainFits, TypeNames
    <3> QED BY <3>2 DEF ks, r, ChallengeTimeoutTx, ReimburseTx
  <2>6. \A t \in more : Fits(t, [current.used EXCEPT ![s] = w])
    BY <2>4, <2>5 DEF table
  <2> HIDE DEF more
  <2>7. GoodPlan([current EXCEPT !.used[s] = w, !.txs = @ \cup more])
    BY <2>2, <2>6, AssignIsGood
  <2> QED BY <2>1, <2>7
<1> QED BY <1>1, <1>2

(* The only kickoff that it sends. *)
LEMMA HandlePayoutSends ==
    ASSUME Inv, NEW o, GoodPlan(o), NEW w, NEW s
    PROVE  \A t \in HandleFinalizedPayout(o, w, s).txs :
              t \in o.txs \/ t.type # "kickoff" \/ (mode # "manual" /\ t = KickoffTx(s, w))
<1>2. CASE mode = "manual"
  <2>1. HandleFinalizedPayout(o, w, s) = [o EXCEPT !.used[s] = w]
    BY <1>2 DEF HandleFinalizedPayout
  <2>2. HandleFinalizedPayout(o, w, s).txs = o.txs
    BY <2>1 DEF GoodPlan, PlanType
  <2> QED BY <2>2
<1>3. CASE mode # "manual"
  <2> DEFINE current == IF s[1] = o.round THEN o ELSE EndRound(o)
             more == {KickoffTx(s, w), ChallengeTimeoutTx(s), ReimburseTx(s, w)}
  <2>1. HandleFinalizedPayout(o, w, s) = [current EXCEPT !.used[s] = w, !.txs = @ \cup more]
    BY <1>3 DEF HandleFinalizedPayout
  <2>2. \A t \in current.txs : t \in o.txs \/ t.type # "kickoff"
    BY EndRoundAssigns
  <2>3. \A t \in more : t = KickoffTx(s, w) \/ t.type # "kickoff"
    BY DEF ChallengeTimeoutTx, ReimburseTx, Tx
  <2>4. current \in PlanType
    <3>1. GoodPlan(current)
      BY EndRoundIsGood
    <3> QED BY <3>1 DEF GoodPlan
  <2> HIDE DEF current, more
  <2>5. HandleFinalizedPayout(o, w, s).txs = current.txs \cup more
    BY <2>1, <2>4 DEF PlanType
  <2> QED BY <1>3, <2>2, <2>3, <2>5
<1> QED BY <1>2, <1>3

LEMMA CheckPayoutsStep ==
    ASSUME Inv, NEW payout \in UnhandledPayouts, NEW s \in Slots, CheckPayouts(payout, s)
    PROVE  Inv'
<1> DEFINE w == payout[1]
           handled == HandleFinalizedPayout(Plan, w, s)
           done == IF mode = "automation" THEN EndRound(handled) ELSE handled
<1>1. w \in Withdrawals /\ Paid(w) /\ payout[2] = payouts[w] /\ used[s] = Unused
  BY DEF CheckPayouts, UnhandledPayouts, UnusedAndSigned
<1>2. GoodPlan(Plan) /\ Plan.used = used /\ Plan.txs = {}
  BY PlanIsGood DEF Plan
<1>3. GoodPlan(handled)
  BY <1>1, <1>2, HandlePayoutIsGood
<1>4. GoodPlan(done)
  BY <1>3, EndRoundIsGood
<1>5. \A t \in done.txs : t.type = "kickoff" => mode # "manual" /\ t = KickoffTx(s, w)
  BY <1>2, <1>3, HandlePayoutSends, EndRoundAssigns
<1>6. /\ round' = done.round /\ used' = done.used /\ pool' = pool \cup (done.txs \ mined)
      /\ mode' = mode /\ blocks' = blocks /\ accused' = accused /\ payouts' = payouts /\ asking' = asking
      /\ IF mode = "automation" THEN witness' = [witness EXCEPT ![s] = payouts[w]] ELSE witness' = witness
  BY <1>1 DEF CheckPayouts, Send, synced, Commit
<1>7. mode \in {"automation", "manual"}
  BY DEF Inv, TypeInv
<1> HIDE DEF done
<1>8. /\ round' \in Nat /\ used' \in [Slots -> Int] /\ \A t \in done.txs : Fits(t, used')
      /\ \A z \in Slots : used[z] \in Withdrawals => used'[z] = used[z]
  BY <1>4, <1>6 DEF GoodPlan, PlanType
<1>9. \A t \in pool' : t \in pool \/ (t \notin mined /\ t \in done.txs /\ Fits(t, used'))
  BY <1>6, <1>8
<1>10. /\ witness' \in [Slots -> Int]
       /\ \A z \in Slots : used[z] \in Withdrawals => witness'[z] = witness[z]
       /\ mode # "manual" => witness'[s] = payouts[w]
  <2>1. payouts[w] \in Int /\ witness \in [Slots -> Int] /\ used[s] \notin Withdrawals
    BY <1>1, Numbers DEF Inv, TypeInv
  <2> QED BY <1>6, <1>7, <2>1
<1>11. \A t \in pool' : t \in pool \/ (t.type = "kickoff" => \A k \in t.ks : witness'[<<t.round, k>>] = payouts[t.w])
  <2>1. KickoffTx(s, w).round = s[1] /\ KickoffTx(s, w).ks = {s[2]} /\ KickoffTx(s, w).w = w
    BY DEF KickoffTx, Tx
  <2>2. <<s[1], s[2]>> = s
    BY SlotFacts
  <2> QED BY <1>5, <1>9, <1>10, <2>1, <2>2
<1>12. asking' \in Nat /\ (asking' > 0 => \A k \in Connectors : \E t \in Settled : SpendsConnector(t, asking', k))
  BY <1>6 DEF Inv, TypeInv, ReadyInv
<1> QED BY <1>6, <1>8, <1>9, <1>10, <1>11, <1>12, SendStep

(* A step that sends at most one transaction. *)
LEMMA SendOne ==
    ASSUME Inv, mode' = mode, blocks' = blocks, accused' = accused, payouts' = payouts, witness' = witness,
           round' \in Nat, asking' \in {0, asking}, used' \in [Slots -> Int],
           \A s \in Slots : used[s] \in Withdrawals => used'[s] = used[s],
           NEW x, Fits(x, used'), x.type # "kickoff", pool' = pool \/ pool' = pool \cup ({x} \ mined)
    PROVE  Inv'
<1>1. \A t \in pool' : t \in pool \/ (t \notin mined /\ Fits(t, used'))
  OBVIOUS
<1>2. asking' \in Nat /\ (asking' > 0 => \A k \in Connectors : \E t \in Settled : SpendsConnector(t, asking', k))
  BY DEF Inv, TypeInv, ReadyInv
<1>3. witness' \in [Slots -> Int] /\ \A s \in Slots : witness'[s] = witness[s]
  BY DEF Inv, TypeInv
<1>4. \A t \in pool' : t \in pool \/ t = x
  OBVIOUS
<1> QED BY <1>1, <1>2, <1>3, <1>4, SendStep

LEMMA OthersStep ==
    ASSUME Inv, NEW w \in Withdrawals, RequestWithdrawal(w) \/ PayOtherwise(w) \/ Withdraw(w)
    PROVE  Inv'
<1>1. /\ mode' = mode /\ blocks' = blocks /\ accused' = accused /\ payouts' = payouts /\ witness' = witness
      /\ round' = round /\ used' = used /\ asking' = asking
      /\ \E x \in {WithdrawalTx(w), OtherPayoutTx(w), PayoutTx(w)} : pool' = pool \cup ({x} \ mined)
  BY DEF RequestWithdrawal, PayOtherwise, Withdraw, Send, synced
<1>2. \A x \in {WithdrawalTx(w), OtherPayoutTx(w), PayoutTx(w)} : Fits(x, used') /\ x.type # "kickoff"
  <2> DEFINE table == used'
  <2> HIDE DEF table
  <2>1. w \in Int
    BY Numbers
  <2>2. Fits(Tx("withdrawal", 0, {}, w), table) /\ Fits(Tx("other", 0, {}, w), table)
    BY <2>1, PlainFits, TypeNames
  <2>3. Fits(PayoutTx(w), table)
    <3>1. PayoutTx(w) \in Txs /\ PayoutTx(w).type = "payout" /\ PayoutTx(w).w = w
      BY <2>1, TxFacts, TypeNames DEF PayoutTx
    <3> QED BY <3>1, ReadyType DEF Fits
  <2>4. /\ WithdrawalTx(w).type = "withdrawal" /\ OtherPayoutTx(w).type = "other" /\ PayoutTx(w).type = "payout"
    BY DEF WithdrawalTx, OtherPayoutTx, PayoutTx, Tx
  <2> QED BY <2>2, <2>3, <2>4 DEF WithdrawalTx, OtherPayoutTx, table
<1>3. used' \in [Slots -> Int] /\ round' \in Nat
  BY <1>1 DEF Inv, TypeInv
<1> QED BY <1>1, <1>2, <1>3, SendOne

LEMMA MarkSpentKeeps ==
    ASSUME Inv, NEW r, MarkSpent(r)
    PROVE  used' \in [Slots -> Int] /\ \A s \in Slots : used[s] \in Withdrawals => used'[s] = used[s]
  BY Numbers DEF MarkSpent, Inv, TypeInv

(* The end of a round is sent. *)
LEMMA ReadyFits ==
    ASSUME NEW r \in Nat, Done(r), NEW table
    PROVE  Fits(ReadyToReimburseTx(r), table)
<1>1. /\ ReadyToReimburseTx(r) \in Txs /\ ReadyToReimburseTx(r).type = "ready"
      /\ ReadyToReimburseTx(r).round = r
  BY TxFacts, TypeNames DEF ReadyToReimburseTx
<1>2. \A q \in Nat : ReadyToReimburseTx(q).round = q
  BY DEF ReadyToReimburseTx, Tx
<1>3. \A q \in Nat : ReadyToReimburseTx(r) = ReadyToReimburseTx(q) => q = r
  BY <1>1, <1>2
<1> QED BY <1>1, <1>3 DEF Fits

LEMMA SendReadyStep ==
    ASSUME Inv, NEW r \in 1..NumRounds, SendReadyToReimburse(r)
    PROVE  Inv'
<1>1. /\ mode' = mode /\ blocks' = blocks /\ accused' = accused /\ payouts' = payouts /\ witness' = witness
      /\ round' = round /\ used' = used /\ asking' = asking
      /\ pool' = pool \cup ({ReadyToReimburseTx(r)} \ mined)
  BY DEF SendReadyToReimburse, Send, synced
<1>2. r \in Nat
  BY Numbers
<1>3. mined \ ToSet(recent) \subseteq Settled
  <2>1. recent \in Seq(Txs) /\ final \in Nat
    BY DEF Inv, TypeInv
  <2>2. Open = {recent[i] : i \in (final + 1)..Len(recent)}
    BY <2>1, OpenIs DEF Open
  <2>3. Open \subseteq ToSet(recent)
    BY <2>1, <2>2 DEF ToSet
  <2> QED BY <2>3 DEF Settled
<1>4. Done(r)
  BY <1>3 DEF SendReadyToReimburse, Done, SpendsConnector
<1>5. Fits(ReadyToReimburseTx(r), used')
  BY <1>2, <1>4, ReadyFits
<1>6. used' \in [Slots -> Int] /\ round' \in Nat
  BY <1>1 DEF Inv, TypeInv
<1> QED BY <1>1, <1>5, <1>6, ReadyType, SendOne

(* advance_round_manually. *)
LEMMA AdvanceStep ==
    ASSUME Inv, AdvanceRound(round), mode' = mode, blocks' = blocks, accused' = accused, payouts' = payouts,
           witness' = witness
    PROVE  Inv'
<1> DEFINE r == round
<1>1. r \in Nat /\ asking \in Nat /\ used \in [Slots -> Int]
  BY DEF Inv, TypeInv
<1>2. CASE SendNextRoundTx(r)
  <2>1. /\ used' = used /\ asking' = asking /\ round' \in {r, r + 1}
        /\ pool' = pool \/ pool' = pool \cup ({RoundTx(r + 1)} \ mined)
    BY <1>2 DEF SendNextRoundTx, Send
  <2>2. Fits(RoundTx(r + 1), used')
    <3> DEFINE table == used'
               n == r + 1
    <3>1. n \in Nat
      BY <1>1
    <3> HIDE DEF table, n
    <3>2. Fits(Tx("round", n, {}, 0), table)
      BY <3>1, PlainFits, TypeNames
    <3> QED BY <3>2 DEF RoundTx, table, n
  <2>3. round' \in Nat /\ RoundTx(r + 1).type # "kickoff"
    BY <1>1, <2>1 DEF RoundTx, Tx
  <2> QED BY <1>1, <2>1, <2>2, <2>3, SendOne
<1>3. CASE BurnUnused(r)
  <2>1. asking' = asking /\ round' = round /\ MarkSpent(r) /\ pool' = pool \cup ({BurnTx(r, Unspent(r))} \ mined)
    BY <1>3 DEF BurnUnused, Send
  <2>2. Fits(BurnTx(r, Unspent(r)), used')
    <3> DEFINE table == used'
               ks == Unspent(r)
    <3>1. ks \in SUBSET Connectors
      BY DEF Unspent
    <3> HIDE DEF table, ks
    <3>2. Fits(Tx("burn", r, ks, 0), table)
      BY <1>1, <3>1, PlainFits, TypeNames
    <3> QED BY <3>2 DEF BurnTx, table, ks
  <2>3. used' \in [Slots -> Int] /\ \A s \in Slots : used[s] \in Withdrawals => used'[s] = used[s]
    BY <2>1, MarkSpentKeeps
  <2>4. BurnTx(r, Unspent(r)).type # "kickoff"
    BY DEF BurnTx, Tx
  <2> QED BY <1>1, <2>1, <2>2, <2>3, <2>4, SendOne
<1>4. CASE asking' = r /\ round' = round /\ used' = used /\ pool' = pool /\ \A k \in Connectors : ConnectorFinal(<<r, k>>)
  <2>1. \A k \in Connectors : \E t \in Settled : SpendsConnector(t, asking', k)
    BY <1>4 DEF ConnectorFinal, IsFinal, Settled, Open, SpendsConnector
  <2>2. witness' \in [Slots -> Int] /\ \A s \in Slots : witness'[s] = witness[s]
    BY DEF Inv, TypeInv
  <2> QED BY <1>1, <1>4, <2>1, <2>2, SendStep
<1> QED BY <1>2, <1>3, <1>4 DEF AdvanceRound

LEMMA ReimburseStep ==
    ASSUME Inv, NEW w \in Withdrawals, GetReimbursementTxs(w)
    PROVE  Inv'
<1> DEFINE s == SlotOf(w)
<1>1. /\ mode' = mode /\ blocks' = blocks /\ accused' = accused /\ payouts' = payouts
      /\ Paid(w) /\ Handled(w) /\ NextTxsToSend(w, s)
  BY DEF GetReimbursementTxs, PayerIsOperator, synced
<1>2. s \in Slots /\ used[s] = w
  BY <1>1 DEF Handled, SlotOf
<1> HIDE DEF s
<1>3. used \in [Slots -> Int] /\ round \in Nat
  BY DEF Inv, TypeInv
<1>4. CASE AdvanceRound(round) /\ witness' = witness
  BY <1>1, <1>4, AdvanceStep
<1>5. ASSUME round' = round, used' = used, asking' = asking, witness' = witness,
             NEW x \in {ReimburseTx(s, w), ChallengeTimeoutTx(s)}, pool' = pool \cup ({x} \ mined)
      PROVE  Inv'
  <2>1. Fits(ChallengeTimeoutTx(s), used) /\ Fits(ReimburseTx(s, w), used)
    <3> DEFINE ks == {s[2]}
               r == s[1]
    <3>1. ks \in SUBSET Connectors /\ r \in Nat /\ w \in Int
      BY <1>2, SlotFacts, Numbers
    <3> HIDE DEF ks, r
    <3>2. Fits(Tx("timeout", r, ks, 0), used) /\ Fits(Tx("reimburse", r, ks, w), used)
      BY <3>1, PlainFits, TypeNames
    <3> QED BY <3>2 DEF ks, r, ChallengeTimeoutTx, ReimburseTx
  <2>2. Fits(x, used') /\ x.type # "kickoff"
    BY <1>5, <2>1 DEF ChallengeTimeoutTx, ReimburseTx, Tx
  <2> QED BY <1>1, <1>3, <1>5, <2>2, SendOne
<1>6. ASSUME round' = round, used' = used, asking' = asking, witness' = [witness EXCEPT ![s] = payouts[w]],
             pool' = pool \cup ({KickoffTx(s, w)} \ mined)
      PROVE  Inv'
  <2>1. Fits(KickoffTx(s, w), used')
    BY <1>1, <1>2, <1>6, KickoffFits
  <2>2. payouts[w] \in Int /\ witness \in [Slots -> Int]
    BY DEF Inv, TypeInv
  <2>3. /\ witness' \in [Slots -> Int] /\ witness'[s] = payouts[w]
        /\ \A z \in Slots : witness'[z] \in {witness[z], payouts[used[z]]}
    BY <1>2, <1>6, <2>2
  <2>4. KickoffTx(s, w).round = s[1] /\ KickoffTx(s, w).ks = {s[2]} /\ KickoffTx(s, w).w = w /\ <<s[1], s[2]>> = s
    BY <1>2, SlotFacts DEF KickoffTx, Tx
  <2>5. \A t \in pool' : t \in pool \/ (t.type = "kickoff" => \A k \in t.ks : witness'[<<t.round, k>>] = payouts[t.w])
    BY <1>6, <2>3, <2>4
  <2>6. asking' \in Nat /\ (asking' > 0 => \A k \in Connectors : \E t \in Settled : SpendsConnector(t, asking', k))
    BY <1>6 DEF Inv, TypeInv, ReadyInv
  <2> QED BY <1>1, <1>3, <1>6, <2>1, <2>3, <2>5, <2>6, SendStep
<1> QED BY <1>1, <1>4, <1>5, <1>6 DEF NextTxsToSend, Send, Commit

LEMMA ValidateStep ==
    ASSUME Inv, ValidateFinalizers
    PROVE  Inv'
<1> DEFINE r == asking
           done == \A k \in Assigned(used, r) : KickoffMined(<<r, k>>) /\ IsFinal(ChallengeTimeoutTx(<<r, k>>))
<1>1. /\ mode' = mode /\ blocks' = blocks /\ accused' = accused /\ payouts' = payouts /\ witness' = witness
      /\ round' = round /\ asking' = 0 /\ r > 0
      /\ IF done THEN pool' = pool \cup ({ReadyToReimburseTx(r)} \ mined) /\ MarkSpent(r)
                 ELSE pool' = pool /\ used' = used
  BY DEF ValidateFinalizers, Send, synced
<1>2. r \in Nat /\ used \in [Slots -> Int] /\ round \in Nat
  BY DEF Inv, TypeInv
<1>3. CASE done
  <2>1. Done(r)
    <3>1. SUFFICES ASSUME NEW k \in Connectors
                   PROVE  \E t \in Settled : SpendsConnector(t, r, k)
                              /\ (t.type = "kickoff" => ChallengeTimeoutTx(<<r, k>>) \in Settled)
      BY DEF Done
    <3>2. PICK t \in Settled : SpendsConnector(t, r, k)
      BY <1>1 DEF Inv, ReadyInv
    <3>3. t.type = "kickoff" => k \in Assigned(used, r)
      BY <3>2 DEF Inv, KickoffInv, Sent, Settled, SpendsConnector, Assigned
    <3>4. t.type = "kickoff" => ChallengeTimeoutTx(<<r, k>>) \in Settled
      BY <1>3, <3>3 DEF IsFinal, Settled, Open
    <3> QED BY <3>2, <3>4
  <2>2. Fits(ReadyToReimburseTx(r), used')
    BY <1>2, <2>1, ReadyFits
  <2>3. used' \in [Slots -> Int] /\ \A s \in Slots : used[s] \in Withdrawals => used'[s] = used[s]
    BY <1>1, <1>3, MarkSpentKeeps
  <2>4. pool' = pool \cup ({ReadyToReimburseTx(r)} \ mined)
    BY <1>1, <1>3
  <2> HIDE DEF done
  <2> QED BY <1>1, <1>2, <2>2, <2>3, <2>4, ReadyType, SendOne
<1>4. CASE ~done
  <2> HIDE DEF done
  <2>1. pool' = pool /\ used' = used
    BY <1>1, <1>4
  <2>2. witness' \in [Slots -> Int] /\ \A s \in Slots : witness'[s] = witness[s]
    BY <1>1 DEF Inv, TypeInv
  <2> QED BY <1>1, <1>2, <2>1, <2>2, SendStep
<1> QED BY <1>3, <1>4

-----------------------------------------------------------------------------
LEMMA InvInit ==
    ASSUME Init
    PROVE  Inv
<1>1. TypeInv
  BY Numbers, OperatorAssumption DEF Init, TypeInv
<1>2. Sent = {}
  BY DEF Init, Sent, ToSet
<1>3. KickoffInv /\ WitnessInv /\ SpendInv
  BY <1>2 DEF Init, KickoffInv, WitnessInv, SpendInv
<1>5. RecentInv
  BY <1>2 DEF Init, RecentInv, Paid, ToSet
<1>4. ReadyInv
  BY <1>2 DEF Init, ReadyInv
<1> QED BY <1>1, <1>3, <1>4, <1>5 DEF Inv

LEMMA InvNext ==
    ASSUME Inv, [Next]_vars
    PROVE  Inv'
<1>1. CASE Next
  BY <1>1, MineStep, FinalizeStep, ReorgStep, HandleStep, OthersStep, CheckPayoutsStep, ReimburseStep,
     SendReadyStep, ValidateStep DEF Next
<1>2. CASE UNCHANGED vars
  <2>1. /\ mode' = mode /\ blocks' = blocks /\ accused' = accused /\ payouts' = payouts /\ witness' = witness
        /\ round' = round /\ used' = used /\ asking' = asking /\ pool' = pool
    BY <1>2 DEF vars, chain, synced
  <2>2. round' \in Nat /\ asking' \in Nat /\ used' \in [Slots -> Int] /\ witness' \in [Slots -> Int]
        /\ (asking' > 0 => \A k \in Connectors : \E t \in Settled : SpendsConnector(t, asking', k))
    BY <2>1 DEF Inv, TypeInv, ReadyInv
  <2> QED BY <2>1, <2>2, SendStep
<1> QED BY <1>1, <1>2

LEMMA InvAlways == Spec => []Inv
  BY InvInit, InvNext, PTL DEF Spec

(* is_kickoff_malicious never refuses a kickoff of an operator that runs   *)
(* this code: the withdrawal it is for was paid in a block that every      *)
(* verifier had handled before the kickoff was sent, and its witness       *)
(* commits to that block, in whichever blocks the payout was before.       *)
THEOREM KickoffsAreAccepted ==
    Spec => []HonestKickoffAccepted
<1>1. Inv => HonestKickoffAccepted
  BY DEF Inv, KickoffInv, HonestKickoffAccepted
<1> QED BY <1>1, InvAlways, PTL

(* When the ready-to-reimburse transaction of a round is mined, every      *)
(* kickoff connector of the round is spent and every kickoff has its       *)
(* finalizer spent, with automation and without, whatever was reorged      *)
(* after the operator looked: its collateral cannot be slashed.            *)
THEOREM RoundsAreSafe ==
    Spec => []NeverPunishable
<1>1. Inv => NeverPunishable
  <2>1. SUFFICES ASSUME Inv, NEW r \in 1..NumRounds, ReadyToReimburseTx(r) \in mined, NEW k \in Connectors
                 PROVE  /\ ConnectorSpent(<<r, k>>)
                        /\ KickoffMined(<<r, k>>) => FinalizerSpent(<<r, k>>)
    BY DEF NeverPunishable
  <2>2. r \in Nat
    BY Numbers
  <2>3. Done(r)
    BY <2>1, <2>2 DEF Inv, ReadyInv, Sent
  <2>4. PICK t \in Settled : SpendsConnector(t, r, k)
                             /\ (t.type = "kickoff" => ChallengeTimeoutTx(<<r, k>>) \in Settled)
    BY <2>3 DEF Done
  <2>5. ConnectorSpent(<<r, k>>)
    BY <2>4 DEF ConnectorSpent, SpendsConnector, Settled
  <2>6. ASSUME KickoffMined(<<r, k>>)
        PROVE  FinalizerSpent(<<r, k>>)
    <3>1. PICK u \in mined : u.type = "kickoff" /\ u.round = r /\ u.ks = {k}
      BY <2>6 DEF KickoffMined
    <3>2. SpendsConnector(u, r, k)
      BY <3>1 DEF SpendsConnector
    <3>3. t \in mined /\ SpendsConnector(t, r, k)
      BY <2>4 DEF Settled
    <3>4. \A x, y \in mined : \A q \in Nat, c \in Connectors :
             SpendsConnector(x, q, c) /\ SpendsConnector(y, q, c) => x = y
      BY <2>1 DEF Inv, SpendInv
    <3>5. t = u
      BY <2>2, <3>2, <3>3, <3>4
    <3> QED BY <2>4, <3>1, <3>5 DEF FinalizerSpent, Settled
  <2> QED BY <2>5, <2>6
<1> QED BY <1>1, InvAlways, PTL
=============================================================================
