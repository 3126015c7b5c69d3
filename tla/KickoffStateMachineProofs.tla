---------------------- MODULE KickoffStateMachineProofs ----------------------
(***************************************************************************)
(* The kickoff machine records the chain and requests what is due: for     *)
(* every number of watchtowers and asserts, every finality depth, every    *)
(* order of the transactions, and any number of errors and restarts.       *)
(*                                                                         *)
(* Nearly every part of the invariant is about a machine m that may be the *)
(* one in memory or the one in the database.                               *)
(***************************************************************************)
EXTENDS KickoffStateMachine, TLAPS

(* The matchers and timers fit the state. *)
FitsState(m) ==
    /\ m.state = "challenged" => m.challenged
    /\ m.challenged => m.state # "kickoff_started"
    /\ Challenged \in m.matchers => m.state = "kickoff_started"
    /\ m.timers # {} => m.state = "challenged"
    /\ m.state = "closed" => m.matchers = {}
    /\ m.state # "closed" => KickoffFinalizerSpent \in m.matchers /\ BurnConnectorSpent \in m.matchers
    /\ \A s, t \in m.timers : s[1] = t[1] => s = t

(* What is recorded is on the chain. *)
Sound(m, oc, sp) ==
    /\ m.challenged => Reveal(Challenge) \in oc
    /\ m.latest_blockhash => Reveal(LatestBlockhash) \in oc
    /\ \A w \in m.watchtower_challenges :
          w \in m.spent_watchtower_utxos /\ Reveal(Watchtower(w)) \in oc
    /\ \A w \in m.spent_watchtower_utxos :
          /\ Watchtower(w) \in sp
          /\ Reveal(Watchtower(w)) \in oc => w \in m.watchtower_challenges
    /\ \A w \in m.operator_challenge_acks : Reveal(Ack(w)) \in oc
    /\ \A i \in m.operator_asserts : Reveal(AssertOutput(i)) \in oc

(* What is not recorded yet is watched for. *)
Watches(m) ==
    m.state # "closed" =>
        /\ m.challenged \/ Challenged \in m.matchers
        /\ m.latest_blockhash \/ LatestBlockHashSent \in m.matchers
        /\ \A w \in Watchtowers :
              /\ w \in m.watchtower_challenges \/ WatchtowerChallengeSent(w) \in m.matchers
              /\ w \in m.spent_watchtower_utxos \/ WatchtowerChallengeTimeoutSent(w) \in m.matchers
              /\ w \in m.operator_challenge_acks \/ OperatorChallengeAckSent(w) \in m.matchers
        /\ \A i \in Asserts : i \in m.operator_asserts \/ OperatorAssertSent(i) \in m.matchers

(* What is on the chain is recorded, or still in the block. *)
InBlock(tx, blk) == \E n \in DOMAIN blk : blk[n] = tx

Complete(m, oc, blk) ==
    m.state # "closed" =>
        /\ Reveal(Challenge) \in oc => m.challenged \/ InBlock(Reveal(Challenge), blk)
        /\ Reveal(LatestBlockhash) \in oc => m.latest_blockhash \/ InBlock(Reveal(LatestBlockhash), blk)
        /\ \A w \in Watchtowers :
              /\ Reveal(Watchtower(w)) \in oc =>
                    w \in m.watchtower_challenges \/ InBlock(Reveal(Watchtower(w)), blk)
              /\ Timeout(Watchtower(w)) \in oc =>
                    w \in m.spent_watchtower_utxos \/ InBlock(Timeout(Watchtower(w)), blk)
              /\ Reveal(Ack(w)) \in oc =>
                    w \in m.operator_challenge_acks \/ InBlock(Reveal(Ack(w)), blk)
        /\ \A i \in Asserts :
              Reveal(AssertOutput(i)) \in oc => i \in m.operator_asserts \/ InBlock(Reveal(AssertOutput(i)), blk)

(* The machine is closed when the kickoff has ended, at the latest after the block. *)
EndOutputs == {Finalizer, Collateral}
Closes(m, sp, blk) ==
    /\ m.state = "closed" => sp \cap EndOutputs # {}
    /\ sp \cap EndOutputs # {} =>
          m.state = "closed" \/ \E n \in DOMAIN blk : Inputs(blk[n]) \cap EndOutputs # {}

AllSpent(sp) == \A w \in Watchtowers : Watchtower(w) \in sp

(* A timer for the latest blockhash is late enough. *)
TimersLate(m, sp, lw) ==
    \A t \in m.timers : t[2] = TimeToSendLatestBlockhash => AllSpent(sp) /\ t[1] >= lw + FinalityDepth - 1

MachineInv(m) ==
    /\ FitsState(m)
    /\ Watches(m)
    /\ Sound(m, onChain, spent)
    /\ Complete(m, onChain, block)
    /\ Closes(m, spent, block)
    /\ TimersLate(m, spent, lastWatchtower)

(* Every transaction of the block is mined, and an output is spent once. *)
ChainInv ==
    /\ block \in Seq(onChain)
    /\ \A tx \in onChain : Inputs(tx) \subseteq spent
    /\ \A u \in spent : \E tx \in onChain : u \in Inputs(tx)
    /\ \A tx, ty \in onChain : tx # ty => Inputs(tx) \cap Inputs(ty) = {}

(* Saving: the two machines differ only while a block is processed. *)
SavedInv ==
    /\ pc = "processing" => height <= MaxHeight
    /\ row.dirty = TRUE
    /\ machine.dirty = FALSE => machine = [row EXCEPT !.dirty = FALSE]
    /\ pc = "mining" => pending = {}

(* What is requested is complete; see DutiesAreComplete. *)
DutyGood(d, oc, sp, lw) ==
    /\ d.duty \in {"WatchtowerChallenge", "SendLatestBlockhash", "SendOperatorAsserts", "VerifierDisprove"}
          => Reveal(Challenge) \in oc
    /\ d.duty \in {"SendLatestBlockhash", "SendOperatorAsserts", "VerifierDisprove"} => AllSpent(sp)
    /\ d.duty \in {"SendOperatorAsserts", "VerifierDisprove"} => Reveal(LatestBlockhash) \in oc
    /\ d.duty = "SendLatestBlockhash" => d.block >= lw + FinalityDepth - 1
    /\ d.duty = "SendOperatorAsserts" =>
          d.challenges = {w \in Watchtowers : Reveal(Watchtower(w)) \in oc}
    /\ d.duty = "VerifierDisprove" =>
          /\ d.asserts = Asserts
          /\ \A i \in Asserts : Reveal(AssertOutput(i)) \in oc
          /\ \A w \in Watchtowers : Reveal(Watchtower(w)) \in oc => w \in d.acks /\ Reveal(Ack(w)) \in oc

DutyInv == \A d \in duties \cup pending : DutyGood(d, onChain, spent, lastWatchtower)

(* The latest height of the timer for the latest blockhash. *)
LatestTimer == IF pc = "mining" THEN height + FinalityDepth - 2 ELSE height + FinalityDepth - 1

(* What is complete has been requested, or a timer will. *)
Requested(m, D, latest) ==
    m.state = "challenged" =>
        /\ AllWatchtowersSpent(m) /\ m.latest_blockhash => \E d \in D : d.duty = "SendOperatorAsserts"
        /\ (/\ AllWatchtowersSpent(m) /\ m.latest_blockhash
            /\ m.operator_asserts = Asserts
            /\ m.watchtower_challenges \subseteq m.operator_challenge_acks)
           => \E d \in D : d.duty = "VerifierDisprove"
        /\ \/ WatchtowerChallenge \in D
           \/ <<TimeToSend, TimeToSendWatchtowerChallenge>> \in m.timers
           \/ AllWatchtowersSpent(m)
        /\ AllWatchtowersSpent(m) =>
              \/ \E d \in D : d.duty = "SendLatestBlockhash"
              \/ \E t \in m.timers : t[2] = TimeToSendLatestBlockhash /\ t[1] <= latest

(* The watchtower's duty, once it is due and the block is saved. *)
ToldInTime(m, D, h) ==
    m.state = "challenged" /\ h > TimeToSend => WatchtowerChallenge \in D \/ AllWatchtowersSpent(m)

RequestInv ==
    /\ Requested(machine, duties \cup pending, LatestTimer)
    /\ ToldInTime(row, duties, height)
    /\ pc = "mining" => ToldInTime(machine, duties, height)
    /\ row.challenged /\ AllWatchtowersSpent(row) => lastWatchtower < height

Inv ==
    /\ TypeOK
    /\ ChainInv
    /\ SavedInv
    /\ MachineInv(machine)
    /\ MachineInv(row)
    /\ DutyInv
    /\ RequestInv

-----------------------------------------------------------------------------
(* Outputs and transactions. *)

(* The outputs of different names are different. *)
LEMMA OutputNames ==
    /\ Challenge[1] = "challenge" /\ LatestBlockhash[1] = "latest_blockhash"
    /\ Disprove[1] = "disprove" /\ Finalizer[1] = "finalizer" /\ Collateral[1] = "collateral"
    /\ \A w : /\ Watchtower(w)[1] = "watchtower" /\ Watchtower(w)[2] = w
              /\ Ack(w)[1] = "ack" /\ Ack(w)[2] = w
              /\ AssertOutput(w)[1] = "assert" /\ AssertOutput(w)[2] = w
  BY DEF Challenge, LatestBlockhash, Disprove, Finalizer, Collateral, Watchtower, Ack, AssertOutput

LEMMA TxFields ==
    \A u : /\ Reveal(u).type = "reveal" /\ Reveal(u).of = u
           /\ Timeout(u).type = "timeout" /\ Timeout(u).of = u
  BY DEF Reveal, Timeout

(* What each transaction spends. *)
LEMMA InputsOf ==
    /\ Inputs(Reveal(Disprove)) = {Disprove, Collateral}
    /\ \A u \in Outputs : u # Disprove => Inputs(Reveal(u)) = {u}
    /\ Inputs(Timeout(Challenge)) = {Challenge, Finalizer}
    /\ Inputs(Timeout(Disprove)) = {Disprove, Finalizer}
    /\ Inputs(Timeout(LatestBlockhash)) = {LatestBlockhash, Finalizer, Collateral}
    /\ \A w \in Watchtowers : /\ Inputs(Timeout(Watchtower(w))) = {Watchtower(w), Ack(w)}
                              /\ Inputs(Timeout(Ack(w))) = {Ack(w), Finalizer, Collateral}
    /\ \A i \in Asserts : Inputs(Timeout(AssertOutput(i))) = {AssertOutput(i), Finalizer, Collateral}
<1>1. \A u : Reveal(u) = Reveal(Disprove) <=> u = Disprove
  BY TxFields
<1>2. \A u, v : Timeout(u) # Reveal(v)
  BY TxFields
<1>3. Inputs(Reveal(Disprove)) = {Disprove, Collateral}
  BY TxFields DEF Inputs
<1>4. \A u : u # Disprove => Inputs(Reveal(u)) = {u}
  BY <1>1, TxFields DEF Inputs
<1>5. \A u \in {Challenge, Disprove} : Inputs(Timeout(u)) = {u, Finalizer}
  BY <1>2, TxFields, OutputNames DEF Inputs
<1>6. \A w : Inputs(Timeout(Watchtower(w))) = {Watchtower(w), Ack(w)}
  BY <1>2, TxFields, OutputNames DEF Inputs
<1>7. \A u : u[1] \in {"ack", "latest_blockhash", "assert"} => Inputs(Timeout(u)) = {u, Finalizer, Collateral}
  BY <1>2, TxFields, OutputNames DEF Inputs
<1> QED BY <1>3, <1>4, <1>5, <1>6, <1>7, OutputNames

(* A transaction is the reveal or the timeout of an output. *)
LEMMA TxCases ==
    ASSUME NEW tx \in Txs
    PROVE  /\ tx.of \in Outputs
           /\ \/ tx = Reveal(tx.of)
              \/ tx = Timeout(tx.of) /\ tx.of \notin {Finalizer, Collateral}
           /\ tx.of \in Inputs(tx)
<1>1. tx.of \in Inputs(tx)
  BY DEF Inputs
<1>2. \/ \E u \in Outputs : tx = Reveal(u)
      \/ \E u \in Outputs \ {Finalizer, Collateral} : tx = Timeout(u)
  BY DEF Txs
<1> QED BY <1>1, <1>2, TxFields

(* The transactions that spend an output. *)
LEMMA Spenders ==
    ASSUME NEW tx \in Txs
    PROVE  /\ Inputs(tx) \subseteq Outputs
           /\ Challenge \in Inputs(tx) => tx = Reveal(Challenge) \/ tx = Timeout(Challenge)
           /\ LatestBlockhash \in Inputs(tx) => tx = Reveal(LatestBlockhash) \/ tx = Timeout(LatestBlockhash)
           /\ \A w \in Watchtowers :
                 /\ Watchtower(w) \in Inputs(tx) => tx = Reveal(Watchtower(w)) \/ tx = Timeout(Watchtower(w))
                 /\ Ack(w) \in Inputs(tx) =>
                       tx = Reveal(Ack(w)) \/ tx = Timeout(Ack(w)) \/ tx = Timeout(Watchtower(w))
           /\ \A i \in Asserts :
                 AssertOutput(i) \in Inputs(tx) => tx = Reveal(AssertOutput(i)) \/ tx = Timeout(AssertOutput(i))
<1>1. PICK u \in Outputs : tx = Reveal(u) \/ (tx = Timeout(u) /\ u \notin {Finalizer, Collateral})
  BY TxCases, Zenon
<1>2. Disprove \in Outputs /\ Collateral \in Outputs /\ Finalizer \in Outputs
  BY DEF Outputs
<1>3. CASE tx = Reveal(u)
  <2>1. CASE u = Disprove
    BY <1>2, <1>3, <2>1, InputsOf, OutputNames
  <2>2. CASE u # Disprove
    BY <1>1, <1>3, <2>2, InputsOf
  <2> QED BY <2>1, <2>2
<1>4. CASE tx = Timeout(u) /\ u \notin {Finalizer, Collateral}
  <2>1. CASE u \in {Challenge, Disprove, LatestBlockhash}
    BY <1>1, <1>2, <1>4, <2>1, InputsOf, OutputNames
  <2>2. ASSUME NEW w \in Watchtowers, u = Watchtower(w)
        PROVE  Ack(w) \in Outputs
    BY DEF Outputs
  <2>3. CASE \E w \in Watchtowers : u = Watchtower(w)
    BY <1>1, <1>4, <2>2, <2>3, InputsOf, OutputNames
  <2>4. CASE \E w \in Watchtowers : u = Ack(w)
    BY <1>1, <1>2, <1>4, <2>4, InputsOf, OutputNames
  <2>5. CASE \E i \in Asserts : u = AssertOutput(i)
    BY <1>1, <1>2, <1>4, <2>5, InputsOf, OutputNames
  <2> QED BY <1>1, <1>4, <2>1, <2>3, <2>4, <2>5 DEF Outputs
<1> QED BY <1>1, <1>3, <1>4

(* The names of the events. *)
LEMMA EventNames ==
    /\ Challenged[1] = "Challenged" /\ LatestBlockHashSent[1] = "LatestBlockHashSent"
    /\ KickoffFinalizerSpent[1] = "KickoffFinalizerSpent"
    /\ BurnConnectorSpent[1] = "BurnConnectorSpent"
    /\ TimeToSendLatestBlockhash # TimeToSendWatchtowerChallenge
    /\ \A w : /\ WatchtowerChallengeSent(w)[1] = "WatchtowerChallengeSent"
              /\ WatchtowerChallengeSent(w)[2] = w
              /\ WatchtowerChallengeTimeoutSent(w)[1] = "WatchtowerChallengeTimeoutSent"
              /\ WatchtowerChallengeTimeoutSent(w)[2] = w
              /\ OperatorChallengeAckSent(w)[1] = "OperatorChallengeAckSent"
              /\ OperatorChallengeAckSent(w)[2] = w
              /\ OperatorAssertSent(w)[1] = "OperatorAssertSent"
              /\ OperatorAssertSent(w)[2] = w
  BY DEF Challenged, LatestBlockHashSent, KickoffFinalizerSpent, BurnConnectorSpent,
         WatchtowerChallengeSent, WatchtowerChallengeTimeoutSent, OperatorChallengeAckSent, OperatorAssertSent,
         TimeToSendLatestBlockhash, TimeToSendWatchtowerChallenge

(* The outputs that the matchers watch, and what must not spend them. *)
LEMMA WatchedBy ==
    /\ Watched(Challenged) = Challenge /\ ButNot(Challenged) = {Timeout(Challenge)}
    /\ Watched(LatestBlockHashSent) = LatestBlockhash
    /\ ButNot(LatestBlockHashSent) = {Timeout(LatestBlockhash)}
    /\ Watched(KickoffFinalizerSpent) = Finalizer /\ ButNot(KickoffFinalizerSpent) = {}
    /\ Watched(BurnConnectorSpent) = Collateral /\ ButNot(BurnConnectorSpent) = {}
    /\ \A w : /\ Watched(WatchtowerChallengeSent(w)) = Watchtower(w)
              /\ ButNot(WatchtowerChallengeSent(w)) = {Timeout(Watchtower(w))}
              /\ Watched(WatchtowerChallengeTimeoutSent(w)) = Watchtower(w)
              /\ Watched(OperatorChallengeAckSent(w)) = Ack(w)
              /\ ButNot(OperatorChallengeAckSent(w)) = {Timeout(Ack(w)), Timeout(Watchtower(w))}
              /\ Watched(OperatorAssertSent(w)) = AssertOutput(w)
              /\ ButNot(OperatorAssertSent(w)) = {Timeout(AssertOutput(w))}
<1>1. /\ Watched(Challenged) = Challenge /\ Watched(LatestBlockHashSent) = LatestBlockhash
      /\ Watched(KickoffFinalizerSpent) = Finalizer /\ Watched(BurnConnectorSpent) = Collateral
  BY EventNames DEF Watched
<1>2. \A w : /\ Watched(WatchtowerChallengeSent(w)) = Watchtower(w)
             /\ Watched(WatchtowerChallengeTimeoutSent(w)) = Watchtower(w)
             /\ Watched(OperatorChallengeAckSent(w)) = Ack(w)
             /\ Watched(OperatorAssertSent(w)) = AssertOutput(w)
  BY EventNames DEF Watched
<1>3. /\ ButNot(Challenged) = {Timeout(Challenge)} /\ ButNot(LatestBlockHashSent) = {Timeout(LatestBlockhash)}
      /\ ButNot(KickoffFinalizerSpent) = {} /\ ButNot(BurnConnectorSpent) = {}
  BY EventNames, <1>1 DEF ButNot
<1>4. \A w : /\ ButNot(WatchtowerChallengeSent(w)) = {Timeout(Watchtower(w))}
             /\ ButNot(OperatorChallengeAckSent(w)) = {Timeout(Ack(w)), Timeout(Watchtower(w))}
             /\ ButNot(OperatorAssertSent(w)) = {Timeout(AssertOutput(w))}
  BY EventNames, <1>2 DEF ButNot
<1> QED BY <1>1, <1>2, <1>3, <1>4

(* Only one of two transactions that spend one output is on the chain. *)
LEMMA SpentOnce ==
    ASSUME ChainInv
    PROVE  /\ \A u : Reveal(u) \in onChain => Timeout(u) \notin onChain
           /\ \A w \in Watchtowers : Reveal(Ack(w)) \in onChain => Timeout(Watchtower(w)) \notin onChain
<1>1. \A u : u \in Inputs(Reveal(u)) /\ u \in Inputs(Timeout(u)) /\ Reveal(u) # Timeout(u)
  BY TxFields DEF Inputs
<1>2. \A w \in Watchtowers : Ack(w) \in Inputs(Timeout(Watchtower(w))) /\ Reveal(Ack(w)) # Timeout(Watchtower(w))
  BY InputsOf, TxFields
<1> QED BY <1>1, <1>2 DEF ChainInv

(* A matcher matches only what it is for. *)
LEMMA MatchSound ==
    ASSUME TypeOK, ChainInv
    PROVE  /\ MatchesAt(Challenged) # {} => Reveal(Challenge) \in onChain
           /\ MatchesAt(LatestBlockHashSent) # {} => Reveal(LatestBlockhash) \in onChain
           /\ \A w \in Watchtowers :
                 /\ MatchesAt(WatchtowerChallengeSent(w)) # {} => Reveal(Watchtower(w)) \in onChain
                 /\ MatchesAt(WatchtowerChallengeTimeoutSent(w)) # {} => Timeout(Watchtower(w)) \in onChain
                 /\ MatchesAt(OperatorChallengeAckSent(w)) # {} => Reveal(Ack(w)) \in onChain
           /\ \A i \in Asserts :
                 MatchesAt(OperatorAssertSent(i)) # {} => Reveal(AssertOutput(i)) \in onChain
           /\ \A e \in {KickoffFinalizerSpent, BurnConnectorSpent} :
                 MatchesAt(e) # {} => spent \cap EndOutputs # {}
<1>1. \A n \in DOMAIN block : block[n] \in onChain /\ block[n] \in Txs /\ Inputs(block[n]) \subseteq spent
  BY DEF ChainInv, TypeOK
<1>2. \A e : e[1] # "WatchtowerChallengeTimeoutSent" /\ MatchesAt(e) # {} =>
                \E n \in DOMAIN block : Watched(e) \in Inputs(block[n]) /\ block[n] \notin ButNot(e)
  BY DEF MatchesAt
<1>3. MatchesAt(Challenged) # {} => Reveal(Challenge) \in onChain
  BY <1>1, <1>2, EventNames, WatchedBy, Spenders
<1>4. MatchesAt(LatestBlockHashSent) # {} => Reveal(LatestBlockhash) \in onChain
  BY <1>1, <1>2, EventNames, WatchedBy, Spenders
<1>5. \A w \in Watchtowers : MatchesAt(WatchtowerChallengeSent(w)) # {} => Reveal(Watchtower(w)) \in onChain
  BY <1>1, <1>2, EventNames, WatchedBy, Spenders
<1>6. \A w \in Watchtowers : MatchesAt(OperatorChallengeAckSent(w)) # {} => Reveal(Ack(w)) \in onChain
  BY <1>1, <1>2, EventNames, WatchedBy, Spenders
<1>7. \A i \in Asserts : MatchesAt(OperatorAssertSent(i)) # {} => Reveal(AssertOutput(i)) \in onChain
  BY <1>1, <1>2, EventNames, WatchedBy, Spenders
<1>8. \A e \in {KickoffFinalizerSpent, BurnConnectorSpent} : MatchesAt(e) # {} => spent \cap EndOutputs # {}
  BY <1>1, <1>2, EventNames, WatchedBy DEF EndOutputs
<1>9. \A w \in Watchtowers :
         MatchesAt(WatchtowerChallengeTimeoutSent(w)) # {} => Timeout(Watchtower(w)) \in onChain
  BY <1>1, EventNames, WatchedBy DEF MatchesAt
<1> QED BY <1>3, <1>4, <1>5, <1>6, <1>7, <1>8, <1>9

(* ... and it matches whenever that is in the block. *)
LEMMA MatchComplete ==
    ASSUME TypeOK, ChainInv, NEW n \in DOMAIN block
    PROVE  /\ block[n] = Reveal(Challenge) => MatchesAt(Challenged) # {}
           /\ block[n] = Reveal(LatestBlockhash) => MatchesAt(LatestBlockHashSent) # {}
           /\ \A w \in Watchtowers :
                 /\ block[n] = Reveal(Watchtower(w)) => MatchesAt(WatchtowerChallengeSent(w)) # {}
                 /\ block[n] = Timeout(Watchtower(w)) => MatchesAt(WatchtowerChallengeTimeoutSent(w)) # {}
                 /\ block[n] = Reveal(Ack(w)) => MatchesAt(OperatorChallengeAckSent(w)) # {}
           /\ \A i \in Asserts : block[n] = Reveal(AssertOutput(i)) => MatchesAt(OperatorAssertSent(i)) # {}
           /\ Inputs(block[n]) \cap EndOutputs # {} =>
                 MatchesAt(KickoffFinalizerSpent) # {} \/ MatchesAt(BurnConnectorSpent) # {}
<1>1. \A k \in DOMAIN block : block[k] \in onChain
  BY DEF ChainInv
<1>2. \A u : u \in Inputs(Reveal(u)) /\ u \in Inputs(Timeout(u))
  BY TxFields DEF Inputs
<1>3. \A e : /\ e[1] # "WatchtowerChallengeTimeoutSent"
             /\ Watched(e) \in Inputs(block[n])
             /\ \A tx \in ButNot(e) : tx \notin onChain
             => MatchesAt(e) # {}
  <2> SUFFICES ASSUME NEW e, e[1] # "WatchtowerChallengeTimeoutSent", Watched(e) \in Inputs(block[n]),
                      \A tx \in ButNot(e) : tx \notin onChain
               PROVE  n \in MatchesAt(e)
    OBVIOUS
  <2> QED BY <1>1 DEF MatchesAt
<1>4. block[n] = Reveal(Challenge) => MatchesAt(Challenged) # {}
  BY <1>1, <1>2, <1>3, EventNames, WatchedBy, SpentOnce
<1>5. block[n] = Reveal(LatestBlockhash) => MatchesAt(LatestBlockHashSent) # {}
  BY <1>1, <1>2, <1>3, EventNames, WatchedBy, SpentOnce
<1>6. \A w \in Watchtowers : block[n] = Reveal(Watchtower(w)) => MatchesAt(WatchtowerChallengeSent(w)) # {}
  BY <1>1, <1>2, <1>3, EventNames, WatchedBy, SpentOnce
<1>7. \A w \in Watchtowers : block[n] = Reveal(Ack(w)) => MatchesAt(OperatorChallengeAckSent(w)) # {}
  BY <1>1, <1>2, <1>3, EventNames, WatchedBy, SpentOnce
<1>8. \A i \in Asserts : block[n] = Reveal(AssertOutput(i)) => MatchesAt(OperatorAssertSent(i)) # {}
  BY <1>1, <1>2, <1>3, EventNames, WatchedBy, SpentOnce
<1>9. Inputs(block[n]) \cap EndOutputs # {} =>
         MatchesAt(KickoffFinalizerSpent) # {} \/ MatchesAt(BurnConnectorSpent) # {}
  BY <1>3, EventNames, WatchedBy DEF EndOutputs
<1>10. \A w \in Watchtowers :
          block[n] = Timeout(Watchtower(w)) => MatchesAt(WatchtowerChallengeTimeoutSent(w)) # {}
  <2> SUFFICES ASSUME NEW w \in Watchtowers, block[n] = Timeout(Watchtower(w))
               PROVE  n \in MatchesAt(WatchtowerChallengeTimeoutSent(w))
    OBVIOUS
  <2> QED BY EventNames, WatchedBy DEF MatchesAt
<1> QED BY <1>4, <1>5, <1>6, <1>7, <1>8, <1>9, <1>10

-----------------------------------------------------------------------------
(* Timers and duties. *)
TimerEvents == {TimeToSendLatestBlockhash, TimeToSendWatchtowerChallenge}
OneTimerPerHeight(T) == \A s, t \in T : s[1] = t[1] => s = t

LEMMA InsertTimerFacts ==
    ASSUME NEW T \in SUBSET (Int \X TimerEvents), NEW h \in Int, NEW e \in TimerEvents, OneTimerPerHeight(T)
    PROVE  /\ InsertTimer(T, h, e) \in SUBSET (Int \X TimerEvents)
           /\ OneTimerPerHeight(InsertTimer(T, h, e))
           /\ <<h, e>> \in InsertTimer(T, h, e)
           /\ \A t \in InsertTimer(T, h, e) : t = <<h, e>> \/ t \in T
           /\ \A t \in T : t[1] # h => t \in InsertTimer(T, h, e)
<1>1. <<h, e>>[1] = h /\ <<h, e>> \in Int \X TimerEvents
  OBVIOUS
<1>2. \A t : t \in InsertTimer(T, h, e) <=> (t \in T /\ t[1] # h) \/ t = <<h, e>>
  BY DEF InsertTimer
<1> QED BY <1>1, <1>2 DEF OneTimerPerHeight

(* create_matcher_for_latest_blockhash_if_ready changes the timers only. *)
LEMMA ScheduleFacts ==
    ASSUME NEW m \in MachineType, NEW h \in Int, OneTimerPerHeight(m.timers)
    PROVE  LET s == ScheduleLatestBlockhash(m, h)
               t == <<h + FinalityDepth - 1, TimeToSendLatestBlockhash>>
           IN  /\ s \in MachineType
               /\ s.state = m.state /\ s.matchers = m.matchers /\ s.challenged = m.challenged
               /\ s.latest_blockhash = m.latest_blockhash
               /\ s.spent_watchtower_utxos = m.spent_watchtower_utxos
               /\ s.watchtower_challenges = m.watchtower_challenges
               /\ s.operator_challenge_acks = m.operator_challenge_acks
               /\ s.operator_asserts = m.operator_asserts
               /\ s.dirty = m.dirty
               /\ OneTimerPerHeight(s.timers)
               /\ s.timers # m.timers => m.challenged /\ AllWatchtowersSpent(m)
               /\ m.challenged /\ AllWatchtowersSpent(m) => t \in s.timers
               /\ \A x \in s.timers : x \in m.timers \/ (x = t /\ m.challenged /\ AllWatchtowersSpent(m))
<1> DEFINE s == ScheduleLatestBlockhash(m, h)
           k == h + FinalityDepth - 1
           T == InsertTimer(m.timers, k, TimeToSendLatestBlockhash)
<1>1. k \in Int /\ TimeToSendLatestBlockhash \in TimerEvents
  BY KickoffAssumption DEF TimerEvents
<1>2. m.timers \in SUBSET (Int \X TimerEvents)
  BY DEF MachineType, TimerEvents
<1>3. /\ T \in SUBSET (Int \X TimerEvents)
      /\ OneTimerPerHeight(T)
      /\ <<k, TimeToSendLatestBlockhash>> \in T
      /\ \A t \in T : t = <<k, TimeToSendLatestBlockhash>> \/ t \in m.timers
  BY <1>1, <1>2, InsertTimerFacts
<1> HIDE DEF T, k
<1>4. CASE m.challenged /\ AllWatchtowersSpent(m)
  <2>1. s = [m EXCEPT !.timers = T]
    BY <1>4 DEF ScheduleLatestBlockhash, T, k
  <2>2. s \in MachineType /\ s.timers = T
    BY <2>1, <1>3 DEF MachineType, TimerEvents
  <2>3. /\ s.state = m.state /\ s.matchers = m.matchers /\ s.challenged = m.challenged
        /\ s.latest_blockhash = m.latest_blockhash
        /\ s.spent_watchtower_utxos = m.spent_watchtower_utxos
        /\ s.watchtower_challenges = m.watchtower_challenges
        /\ s.operator_challenge_acks = m.operator_challenge_acks
        /\ s.operator_asserts = m.operator_asserts
        /\ s.dirty = m.dirty
    BY <2>1 DEF MachineType
  <2> QED BY <1>3, <1>4, <2>2, <2>3 DEF k
<1>5. CASE ~ (m.challenged /\ AllWatchtowersSpent(m))
  BY <1>5 DEF ScheduleLatestBlockhash
<1> QED BY <1>4, <1>5

(* The requests of a machine that has only recorded what is on the chain. *)
LEMMA RequestsGood ==
    ASSUME NEW m \in MachineType, NEW oc, NEW sp, NEW lw, Sound(m, oc, sp)
    PROVE  \A d \in AssertsIfReady(m) \cup DisproveIfReady(m) : DutyGood(d, oc, sp, lw)
<1>1. AllWatchtowersSpent(m) =>
         /\ AllSpent(sp)
         /\ m.watchtower_challenges = {w \in Watchtowers : Reveal(Watchtower(w)) \in oc}
  BY DEF AllWatchtowersSpent, AllSpent, Sound, MachineType
<1>2. ASSUME NEW d \in AssertsIfReady(m) PROVE DutyGood(d, oc, sp, lw)
  <2>1. /\ m.challenged /\ AllWatchtowersSpent(m) /\ m.latest_blockhash
        /\ d = SendOperatorAsserts(m.watchtower_challenges)
    BY <1>2 DEF AssertsIfReady
  <2>2. d.duty = "SendOperatorAsserts" /\ d.challenges = m.watchtower_challenges
    BY <2>1 DEF SendOperatorAsserts
  <2>3. Reveal(Challenge) \in oc /\ Reveal(LatestBlockhash) \in oc
    BY <2>1 DEF Sound
  <2> QED BY <1>1, <2>1, <2>2, <2>3 DEF DutyGood
<1>3. ASSUME NEW d \in DisproveIfReady(m) PROVE DutyGood(d, oc, sp, lw)
  <2>1. /\ m.challenged /\ AllWatchtowersSpent(m) /\ m.latest_blockhash
        /\ m.operator_asserts = Asserts /\ m.watchtower_challenges \subseteq m.operator_challenge_acks
        /\ d = VerifierDisprove(m.operator_asserts, m.operator_challenge_acks)
    BY <1>3 DEF DisproveIfReady
  <2>2. d.duty = "VerifierDisprove" /\ d.asserts = m.operator_asserts /\ d.acks = m.operator_challenge_acks
    BY <2>1 DEF VerifierDisprove
  <2>3. /\ Reveal(Challenge) \in oc /\ Reveal(LatestBlockhash) \in oc
        /\ \A i \in Asserts : Reveal(AssertOutput(i)) \in oc
        /\ \A w \in m.operator_challenge_acks : Reveal(Ack(w)) \in oc
    BY <2>1 DEF Sound
  <2> QED BY <1>1, <2>1, <2>2, <2>3 DEF DutyGood
<1> QED BY <1>2, <1>3

(* ... and they are made as soon as they can be. *)
LEMMA RequestsMade ==
    ASSUME NEW m, m.challenged, AllWatchtowersSpent(m), m.latest_blockhash
    PROVE  /\ \E d \in AssertsIfReady(m) : d.duty = "SendOperatorAsserts"
           /\ m.operator_asserts = Asserts /\ m.watchtower_challenges \subseteq m.operator_challenge_acks
              => \E d \in DisproveIfReady(m) : d.duty = "VerifierDisprove"
  BY DEF AssertsIfReady, DisproveIfReady, SendOperatorAsserts, VerifierDisprove

-----------------------------------------------------------------------------
(* Events. *)

(* A dispatch changes the machine in memory and the open duties only. *)
LEMMA DispatchStep ==
    ASSUME Inv, pc = "processing",
           NEW m \in MachineType, NEW new, Dispatch(m, new),
           m.dirty = TRUE, MachineInv(m),
           Requested(m, duties \cup pending \cup new, LatestTimer),
           \A d \in new : DutyGood(d, onChain, spent, lastWatchtower)
    PROVE  Inv'
<1>1. /\ machine' = m /\ pending' = pending \cup new
      /\ onChain' = onChain /\ spent' = spent /\ lastWatchtower' = lastWatchtower /\ block' = block
      /\ height' = height /\ pc' = pc /\ row' = row /\ duties' = duties /\ faults' = faults
  BY DEF Dispatch, chainVars
<1>2. TypeOK'
  BY <1>1 DEF Inv, TypeOK
<1>3. ChainInv'
  BY <1>1 DEF Inv, ChainInv
<1>4. SavedInv'
  BY <1>1 DEF Inv, SavedInv
<1>5. MachineInv(machine)' /\ MachineInv(row)'
  <2>1. MachineInv(row) /\ MachineInv(m)
    BY DEF Inv
  <2> QED BY <2>1, <1>1 DEF MachineInv
<1>6. DutyInv'
  BY <1>1 DEF Inv, DutyInv
<1>7. RequestInv'
  <2>1. LatestTimer' = LatestTimer /\ duties' \cup pending' = duties \cup pending \cup new
    BY <1>1 DEF LatestTimer
  <2>2. Requested(machine', duties' \cup pending', LatestTimer')
    BY <2>1, <1>1
  <2>3. ToldInTime(row, duties, height) /\ (row.challenged /\ AllWatchtowersSpent(row) => lastWatchtower < height)
    BY DEF Inv, RequestInv
  <2> QED BY <2>2, <2>3, <1>1 DEF RequestInv
<1> QED BY <1>2, <1>3, <1>4, <1>5, <1>6, <1>7 DEF Inv

(* The events that only record: r is the machine with the event recorded,   *)
(* m the machine after the timer for the latest blockhash was set.          *)
LEMMA RecordStep ==
    ASSUME Inv, pc = "processing", machine.state # "closed",
           NEW e \in machine.matchers, e \notin {Challenged, KickoffFinalizerSpent, BurnConnectorSpent},
           NEW r \in MachineType,
           r.state = machine.state, r.challenged = machine.challenged, r.timers = machine.timers,
           r.matchers = machine.matchers \ {e}, r.dirty = TRUE,
           machine.latest_blockhash => r.latest_blockhash,
           machine.spent_watchtower_utxos \subseteq r.spent_watchtower_utxos,
           machine.watchtower_challenges \subseteq r.watchtower_challenges,
           machine.operator_challenge_acks \subseteq r.operator_challenge_acks,
           machine.operator_asserts \subseteq r.operator_asserts,
           Sound(r, onChain, spent),
           e = LatestBlockHashSent => r.latest_blockhash,
           \A w \in Watchtowers :
              /\ e = WatchtowerChallengeSent(w) => w \in r.watchtower_challenges
              /\ e = WatchtowerChallengeTimeoutSent(w) => w \in r.spent_watchtower_utxos
              /\ e = OperatorChallengeAckSent(w) => w \in r.operator_challenge_acks,
           \A i \in Asserts : e = OperatorAssertSent(i) => i \in r.operator_asserts,
           NEW m,
           \/ m = ScheduleLatestBlockhash(r, height)
           \/ m = r /\ r.spent_watchtower_utxos = machine.spent_watchtower_utxos,
           NEW new, Dispatch(m, new),
           \A d \in new : DutyGood(d, onChain, spent, lastWatchtower),
           \/ AssertsIfReady(m) \subseteq new
           \/ /\ r.spent_watchtower_utxos = machine.spent_watchtower_utxos
              /\ r.latest_blockhash = machine.latest_blockhash,
           DisproveIfReady(m) \subseteq new
    PROVE  Inv'
<1>1. /\ machine \in MachineType /\ height \in Int /\ lastWatchtower \in Int /\ lastWatchtower <= height
      /\ FitsState(machine) /\ Watches(machine) /\ Complete(machine, onChain, block)
      /\ Closes(machine, spent, block) /\ TimersLate(machine, spent, lastWatchtower)
      /\ FinalityDepth \in Int
  BY KickoffAssumption DEF Inv, TypeOK, MachineInv
<1>2. OneTimerPerHeight(r.timers)
  BY <1>1 DEF FitsState, OneTimerPerHeight
<1> DEFINE late == <<height + FinalityDepth - 1, TimeToSendLatestBlockhash>>
<1>3. /\ m \in MachineType
      /\ m.state = r.state /\ m.matchers = r.matchers /\ m.challenged = r.challenged
      /\ m.latest_blockhash = r.latest_blockhash
      /\ m.spent_watchtower_utxos = r.spent_watchtower_utxos
      /\ m.watchtower_challenges = r.watchtower_challenges
      /\ m.operator_challenge_acks = r.operator_challenge_acks
      /\ m.operator_asserts = r.operator_asserts
      /\ m.dirty = r.dirty
      /\ OneTimerPerHeight(m.timers)
      /\ m.timers # r.timers => r.challenged /\ AllWatchtowersSpent(r)
      /\ \A x \in m.timers : x \in r.timers \/ (x = late /\ r.challenged /\ AllWatchtowersSpent(r))
      /\ r.challenged /\ AllWatchtowersSpent(r) =>
            late \in m.timers \/ (m = r /\ r.spent_watchtower_utxos = machine.spent_watchtower_utxos)
  BY <1>1, <1>2, ScheduleFacts
<1>4. FitsState(m)
  <2>1. m.state \in {"kickoff_started", "challenged", "closed"} /\ m.state = machine.state
    BY <1>3 DEF MachineType
  <2>2. m.timers # {} => m.state = "challenged"
    BY <1>1, <1>3, <2>1 DEF FitsState
  <2>3. KickoffFinalizerSpent \in m.matchers /\ BurnConnectorSpent \in m.matchers
    BY <1>1, <1>3 DEF FitsState
  <2> QED BY <1>1, <1>3, <2>2, <2>3 DEF FitsState, OneTimerPerHeight
<1>5. Watches(m)
  BY <1>1, <1>3 DEF Watches
<1>6. Sound(m, onChain, spent)
  BY <1>3 DEF Sound
<1>7. Complete(m, onChain, block)
  BY <1>1, <1>3 DEF Complete
<1>8. Closes(m, spent, block)
  BY <1>1, <1>3 DEF Closes
<1>9. TimersLate(m, spent, lastWatchtower)
  <2>1. AllWatchtowersSpent(r) => AllSpent(spent)
    BY DEF AllWatchtowersSpent, AllSpent, Sound
  <2>2. late[1] >= lastWatchtower + FinalityDepth - 1
    BY <1>1
  <2> QED BY <1>1, <1>3, <2>1, <2>2 DEF TimersLate
<1>10. MachineInv(m)
  BY <1>4, <1>5, <1>6, <1>7, <1>8, <1>9 DEF MachineInv
<1>11. Requested(m, duties \cup pending \cup new, LatestTimer)
  <2> SUFFICES ASSUME m.state = "challenged"
               PROVE  Requested(m, duties \cup pending \cup new, LatestTimer)
    BY DEF Requested
  <2> DEFINE D == duties \cup pending
             E == D \cup new
  <2>1. Requested(machine, D, LatestTimer) /\ machine.state = "challenged" /\ m.challenged
    BY <1>3, <1>4 DEF Inv, RequestInv, FitsState
  <2>2. AllWatchtowersSpent(m) /\ m.latest_blockhash => \E d \in E : d.duty = "SendOperatorAsserts"
    <3>1. CASE AssertsIfReady(m) \subseteq new
      BY <2>1, <3>1, RequestsMade
    <3>2. CASE r.spent_watchtower_utxos = machine.spent_watchtower_utxos /\ r.latest_blockhash = machine.latest_blockhash
      BY <2>1, <3>2, <1>3 DEF Requested, AllWatchtowersSpent
    <3> QED BY <3>1, <3>2
  <2>3. (/\ AllWatchtowersSpent(m) /\ m.latest_blockhash
         /\ m.operator_asserts = Asserts
         /\ m.watchtower_challenges \subseteq m.operator_challenge_acks)
        => \E d \in E : d.duty = "VerifierDisprove"
    BY <2>1, RequestsMade
  <2>4. \/ WatchtowerChallenge \in E
        \/ <<TimeToSend, TimeToSendWatchtowerChallenge>> \in m.timers
        \/ AllWatchtowersSpent(m)
    <3>1. AllWatchtowersSpent(machine) => AllWatchtowersSpent(m)
      BY <1>3 DEF AllWatchtowersSpent, MachineType
    <3>2. AllWatchtowersSpent(r) => AllWatchtowersSpent(m)
      BY <1>3 DEF AllWatchtowersSpent
    <3> QED BY <2>1, <3>1, <3>2, <1>3 DEF Requested
  <2>5. AllWatchtowersSpent(m) =>
           \/ \E d \in E : d.duty = "SendLatestBlockhash"
           \/ \E t \in m.timers : t[2] = TimeToSendLatestBlockhash /\ t[1] <= LatestTimer
    <3> SUFFICES ASSUME AllWatchtowersSpent(m)
                 PROVE  \/ \E d \in E : d.duty = "SendLatestBlockhash"
                        \/ \E t \in m.timers : t[2] = TimeToSendLatestBlockhash /\ t[1] <= LatestTimer
      OBVIOUS
    <3>1. AllWatchtowersSpent(r) /\ r.challenged
      BY <2>1, <1>3 DEF AllWatchtowersSpent
    <3>2. late[2] = TimeToSendLatestBlockhash /\ late[1] <= LatestTimer
      BY <1>1 DEF LatestTimer
    <3>3. CASE late \in m.timers
      BY <3>2, <3>3
    <3>4. CASE m = r /\ r.spent_watchtower_utxos = machine.spent_watchtower_utxos
      <4>1. AllWatchtowersSpent(machine) /\ m.timers = machine.timers
        BY <3>1, <3>4 DEF AllWatchtowersSpent
      <4> QED BY <4>1, <2>1 DEF Requested
    <3> QED BY <3>1, <3>3, <3>4, <1>3
  <2> HIDE DEF D
  <2> QED BY <2>2, <2>3, <2>4, <2>5 DEF Requested, D
<1> QED BY <1>3, <1>10, <1>11, DispatchStep

LEMMA SpendsItself == ChainInv => \A u : Reveal(u) \in onChain \/ Timeout(u) \in onChain => u \in spent
  BY TxFields DEF ChainInv, Inputs

(* Setting the timer leaves the records and the context of the machine. *)
LEMMA SoundScheduled ==
    ASSUME Inv, NEW r \in MachineType, Sound(r, onChain, spent), r.timers = machine.timers
    PROVE  /\ ScheduleLatestBlockhash(r, height) \in MachineType
           /\ Sound(ScheduleLatestBlockhash(r, height), onChain, spent)
<1> DEFINE s == ScheduleLatestBlockhash(r, height)
<1>1. OneTimerPerHeight(r.timers) /\ height \in Int
  BY DEF Inv, TypeOK, MachineInv, FitsState, OneTimerPerHeight
<1>2. /\ s \in MachineType
      /\ s.challenged = r.challenged /\ s.latest_blockhash = r.latest_blockhash
      /\ s.spent_watchtower_utxos = r.spent_watchtower_utxos
      /\ s.watchtower_challenges = r.watchtower_challenges
      /\ s.operator_challenge_acks = r.operator_challenge_acks
      /\ s.operator_asserts = r.operator_asserts
  BY <1>1, ScheduleFacts
<1> HIDE DEF s
<1>3. Sound(s, onChain, spent)
  BY <1>2 DEF Sound
<1> QED BY <1>2, <1>3 DEF s

(* The duties that need nothing on the chain. *)
LEMMA HarmlessDuties ==
    \A oc, sp, lw : /\ DutyGood(AddNecessaryTxsForKickoff, oc, sp, lw)
                    /\ DutyGood(AddRelevantTxsIfChallenged, oc, sp, lw)
                    /\ \A w : DutyGood(WatchtowerChallengeDetected(w), oc, sp, lw)
<1>1. /\ AddNecessaryTxsForKickoff.duty = "AddNecessaryTxsForKickoff"
      /\ AddRelevantTxsIfChallenged.duty = "AddRelevantTxsToTxSenderIfChallenged"
      /\ \A w : WatchtowerChallengeDetected(w).duty = "WatchtowerChallengeDetected"
  BY DEF AddNecessaryTxsForKickoff, AddRelevantTxsIfChallenged, WatchtowerChallengeDetected
<1> QED BY <1>1 DEF DutyGood

(* A watchtower challenges. *)
LEMMA WatchtowerChallengeSentStep ==
    ASSUME Inv, NEW w \in Watchtowers, OnWatchtowerChallengeSent(w)
    PROVE  Inv'
<1> DEFINE e == WatchtowerChallengeSent(w)
           r == [Without(e) EXCEPT !.spent_watchtower_utxos = @ \cup {w}, !.watchtower_challenges = @ \cup {w}]
           m == ScheduleLatestBlockhash(r, height)
           new == {WatchtowerChallengeDetected(w)} \cup AssertsIfReady(m) \cup DisproveIfReady(m)
<1>1. /\ pc = "processing" /\ e \in machine.matchers /\ MatchesAt(e) # {}
      /\ machine.state # "closed" /\ Dispatch(m, new)
  BY DEF OnWatchtowerChallengeSent, First
<1>2. machine \in MachineType /\ Sound(machine, onChain, spent) /\ TypeOK /\ ChainInv
  BY DEF Inv, TypeOK, MachineInv
<1>3. Reveal(Watchtower(w)) \in onChain /\ Watchtower(w) \in spent
  BY <1>1, <1>2, MatchSound, SpentOnce, SpendsItself
<1>4. /\ r \in MachineType
      /\ r.state = machine.state /\ r.challenged = machine.challenged /\ r.timers = machine.timers
      /\ r.matchers = machine.matchers \ {e} /\ r.dirty = TRUE
      /\ r.latest_blockhash = machine.latest_blockhash
      /\ r.spent_watchtower_utxos = machine.spent_watchtower_utxos \cup {w}
      /\ r.watchtower_challenges = machine.watchtower_challenges \cup {w}
      /\ r.operator_challenge_acks = machine.operator_challenge_acks
      /\ r.operator_asserts = machine.operator_asserts
  BY <1>2 DEF MachineType, Without
<1> HIDE DEF r
<1>5. Sound(r, onChain, spent)
  BY <1>2, <1>3, <1>4 DEF Sound
<1>6. m \in MachineType /\ Sound(m, onChain, spent)
  BY <1>4, <1>5, SoundScheduled
<1>7. m = ScheduleLatestBlockhash(r, height)
  OBVIOUS
<1> HIDE DEF m
<1>8. \A d \in new : DutyGood(d, onChain, spent, lastWatchtower)
  <2>1. \A d \in AssertsIfReady(m) \cup DisproveIfReady(m) : DutyGood(d, onChain, spent, lastWatchtower)
    BY <1>6, RequestsGood
  <2>2. DutyGood(WatchtowerChallengeDetected(w), onChain, spent, lastWatchtower)
    BY HarmlessDuties, Zenon
  <2> QED BY <2>1, <2>2
<1>9. AssertsIfReady(m) \subseteq new /\ DisproveIfReady(m) \subseteq new
  OBVIOUS
<1> HIDE DEF new
<1>10. e \notin {Challenged, KickoffFinalizerSpent, BurnConnectorSpent}
  BY EventNames
<1>11. /\ e # LatestBlockHashSent
       /\ \A v \in Watchtowers : /\ e = WatchtowerChallengeSent(v) => v = w
                                 /\ e # WatchtowerChallengeTimeoutSent(v)
                                 /\ e # OperatorChallengeAckSent(v)
       /\ \A j \in Asserts : e # OperatorAssertSent(j)
  BY EventNames
<1> HIDE DEF e
<1>12. /\ e = LatestBlockHashSent => r.latest_blockhash
       /\ \A v \in Watchtowers :
             /\ e = WatchtowerChallengeSent(v) => v \in r.watchtower_challenges
             /\ e = WatchtowerChallengeTimeoutSent(v) => v \in r.spent_watchtower_utxos
             /\ e = OperatorChallengeAckSent(v) => v \in r.operator_challenge_acks
       /\ \A j \in Asserts : e = OperatorAssertSent(j) => j \in r.operator_asserts
  BY <1>4, <1>11
<1> QED BY <1>1, <1>4, <1>5, <1>7, <1>8, <1>9, <1>10, <1>12, RecordStep

(* A watchtower can no longer challenge. *)
LEMMA WatchtowerChallengeTimeoutSentStep ==
    ASSUME Inv, NEW w \in Watchtowers, OnWatchtowerChallengeTimeoutSent(w)
    PROVE  Inv'
<1> DEFINE e == WatchtowerChallengeTimeoutSent(w)
           r == [Without(e) EXCEPT !.spent_watchtower_utxos = @ \cup {w}]
           m == ScheduleLatestBlockhash(r, height)
           new == AssertsIfReady(m) \cup DisproveIfReady(m)
<1>1. /\ pc = "processing" /\ e \in machine.matchers /\ MatchesAt(e) # {}
      /\ machine.state # "closed" /\ Dispatch(m, new)
  BY DEF OnWatchtowerChallengeTimeoutSent, First
<1>2. machine \in MachineType /\ Sound(machine, onChain, spent) /\ TypeOK /\ ChainInv
  BY DEF Inv, TypeOK, MachineInv
<1>3. Reveal(Watchtower(w)) \notin onChain /\ Watchtower(w) \in spent
  BY <1>1, <1>2, MatchSound, SpentOnce, SpendsItself
<1>4. /\ r \in MachineType
      /\ r.state = machine.state /\ r.challenged = machine.challenged /\ r.timers = machine.timers
      /\ r.matchers = machine.matchers \ {e} /\ r.dirty = TRUE
      /\ r.latest_blockhash = machine.latest_blockhash
      /\ r.spent_watchtower_utxos = machine.spent_watchtower_utxos \cup {w}
      /\ r.watchtower_challenges = machine.watchtower_challenges
      /\ r.operator_challenge_acks = machine.operator_challenge_acks
      /\ r.operator_asserts = machine.operator_asserts
  BY <1>2 DEF MachineType, Without
<1> HIDE DEF r
<1>5. Sound(r, onChain, spent)
  BY <1>2, <1>3, <1>4 DEF Sound
<1>6. m \in MachineType /\ Sound(m, onChain, spent)
  BY <1>4, <1>5, SoundScheduled
<1>7. m = ScheduleLatestBlockhash(r, height)
  OBVIOUS
<1> HIDE DEF m
<1>8. \A d \in new : DutyGood(d, onChain, spent, lastWatchtower)
  <2>1. \A d \in AssertsIfReady(m) \cup DisproveIfReady(m) : DutyGood(d, onChain, spent, lastWatchtower)
    BY <1>6, RequestsGood
  <2> QED BY <2>1
<1>9. AssertsIfReady(m) \subseteq new /\ DisproveIfReady(m) \subseteq new
  OBVIOUS
<1> HIDE DEF new
<1>10. e \notin {Challenged, KickoffFinalizerSpent, BurnConnectorSpent}
  BY EventNames
<1>11. /\ e # LatestBlockHashSent
       /\ \A v \in Watchtowers : /\ e # WatchtowerChallengeSent(v)
                                 /\ e = WatchtowerChallengeTimeoutSent(v) => v = w
                                 /\ e # OperatorChallengeAckSent(v)
       /\ \A j \in Asserts : e # OperatorAssertSent(j)
  BY EventNames
<1> HIDE DEF e
<1>12. /\ e = LatestBlockHashSent => r.latest_blockhash
       /\ \A v \in Watchtowers :
             /\ e = WatchtowerChallengeSent(v) => v \in r.watchtower_challenges
             /\ e = WatchtowerChallengeTimeoutSent(v) => v \in r.spent_watchtower_utxos
             /\ e = OperatorChallengeAckSent(v) => v \in r.operator_challenge_acks
       /\ \A j \in Asserts : e = OperatorAssertSent(j) => j \in r.operator_asserts
  BY <1>4, <1>11
<1> QED BY <1>1, <1>4, <1>5, <1>7, <1>8, <1>9, <1>10, <1>12, RecordStep

(* The operator acknowledges a challenge. *)
LEMMA OperatorChallengeAckSentStep ==
    ASSUME Inv, NEW w \in Watchtowers, OnOperatorChallengeAckSent(w)
    PROVE  Inv'
<1> DEFINE e == OperatorChallengeAckSent(w)
           r == [Without(e) EXCEPT !.operator_challenge_acks = @ \cup {w}]
           m == r
           new == DisproveIfReady(m)
<1>1. /\ pc = "processing" /\ e \in machine.matchers /\ MatchesAt(e) # {}
      /\ machine.state # "closed" /\ Dispatch(m, new)
  BY DEF OnOperatorChallengeAckSent, First
<1>2. machine \in MachineType /\ Sound(machine, onChain, spent) /\ TypeOK /\ ChainInv
  BY DEF Inv, TypeOK, MachineInv
<1>3. Reveal(Ack(w)) \in onChain
  BY <1>1, <1>2, MatchSound, SpentOnce, SpendsItself
<1>4. /\ r \in MachineType
      /\ r.state = machine.state /\ r.challenged = machine.challenged /\ r.timers = machine.timers
      /\ r.matchers = machine.matchers \ {e} /\ r.dirty = TRUE
      /\ r.latest_blockhash = machine.latest_blockhash
      /\ r.spent_watchtower_utxos = machine.spent_watchtower_utxos
      /\ r.watchtower_challenges = machine.watchtower_challenges
      /\ r.operator_challenge_acks = machine.operator_challenge_acks \cup {w}
      /\ r.operator_asserts = machine.operator_asserts
  BY <1>2 DEF MachineType, Without
<1> HIDE DEF r
<1>5. Sound(r, onChain, spent)
  BY <1>2, <1>3, <1>4 DEF Sound
<1>6. m \in MachineType /\ Sound(m, onChain, spent)
  BY <1>4, <1>5
<1>7. m = r
  OBVIOUS
<1> HIDE DEF m
<1>8. \A d \in new : DutyGood(d, onChain, spent, lastWatchtower)
  <2>1. \A d \in AssertsIfReady(m) \cup DisproveIfReady(m) : DutyGood(d, onChain, spent, lastWatchtower)
    BY <1>6, RequestsGood
  <2> QED BY <2>1
<1>9. DisproveIfReady(m) \subseteq new
  OBVIOUS
<1> HIDE DEF new
<1>10. e \notin {Challenged, KickoffFinalizerSpent, BurnConnectorSpent}
  BY EventNames
<1>11. /\ e # LatestBlockHashSent
       /\ \A v \in Watchtowers : /\ e # WatchtowerChallengeSent(v)
                                 /\ e # WatchtowerChallengeTimeoutSent(v)
                                 /\ e = OperatorChallengeAckSent(v) => v = w
       /\ \A j \in Asserts : e # OperatorAssertSent(j)
  BY EventNames
<1> HIDE DEF e
<1>12. /\ e = LatestBlockHashSent => r.latest_blockhash
       /\ \A v \in Watchtowers :
             /\ e = WatchtowerChallengeSent(v) => v \in r.watchtower_challenges
             /\ e = WatchtowerChallengeTimeoutSent(v) => v \in r.spent_watchtower_utxos
             /\ e = OperatorChallengeAckSent(v) => v \in r.operator_challenge_acks
       /\ \A j \in Asserts : e = OperatorAssertSent(j) => j \in r.operator_asserts
  BY <1>4, <1>11
<1> QED BY <1>1, <1>4, <1>5, <1>7, <1>8, <1>9, <1>10, <1>12, RecordStep

(* The operator commits an assert. *)
LEMMA OperatorAssertSentStep ==
    ASSUME Inv, NEW i \in Asserts, OnOperatorAssertSent(i)
    PROVE  Inv'
<1> DEFINE e == OperatorAssertSent(i)
           r == [Without(e) EXCEPT !.operator_asserts = @ \cup {i}]
           m == r
           new == DisproveIfReady(m)
<1>1. /\ pc = "processing" /\ e \in machine.matchers /\ MatchesAt(e) # {}
      /\ machine.state # "closed" /\ Dispatch(m, new)
  BY DEF OnOperatorAssertSent, First
<1>2. machine \in MachineType /\ Sound(machine, onChain, spent) /\ TypeOK /\ ChainInv
  BY DEF Inv, TypeOK, MachineInv
<1>3. Reveal(AssertOutput(i)) \in onChain
  BY <1>1, <1>2, MatchSound, SpentOnce, SpendsItself
<1>4. /\ r \in MachineType
      /\ r.state = machine.state /\ r.challenged = machine.challenged /\ r.timers = machine.timers
      /\ r.matchers = machine.matchers \ {e} /\ r.dirty = TRUE
      /\ r.latest_blockhash = machine.latest_blockhash
      /\ r.spent_watchtower_utxos = machine.spent_watchtower_utxos
      /\ r.watchtower_challenges = machine.watchtower_challenges
      /\ r.operator_challenge_acks = machine.operator_challenge_acks
      /\ r.operator_asserts = machine.operator_asserts \cup {i}
  BY <1>2 DEF MachineType, Without
<1> HIDE DEF r
<1>5. Sound(r, onChain, spent)
  BY <1>2, <1>3, <1>4 DEF Sound
<1>6. m \in MachineType /\ Sound(m, onChain, spent)
  BY <1>4, <1>5
<1>7. m = r
  OBVIOUS
<1> HIDE DEF m
<1>8. \A d \in new : DutyGood(d, onChain, spent, lastWatchtower)
  <2>1. \A d \in AssertsIfReady(m) \cup DisproveIfReady(m) : DutyGood(d, onChain, spent, lastWatchtower)
    BY <1>6, RequestsGood
  <2> QED BY <2>1
<1>9. DisproveIfReady(m) \subseteq new
  OBVIOUS
<1> HIDE DEF new
<1>10. e \notin {Challenged, KickoffFinalizerSpent, BurnConnectorSpent}
  BY EventNames
<1>11. /\ e # LatestBlockHashSent
       /\ \A v \in Watchtowers : /\ e # WatchtowerChallengeSent(v)
                                 /\ e # WatchtowerChallengeTimeoutSent(v)
                                 /\ e # OperatorChallengeAckSent(v)
       /\ \A j \in Asserts : e = OperatorAssertSent(j) => j = i
  BY EventNames
<1> HIDE DEF e
<1>12. /\ e = LatestBlockHashSent => r.latest_blockhash
       /\ \A v \in Watchtowers :
             /\ e = WatchtowerChallengeSent(v) => v \in r.watchtower_challenges
             /\ e = WatchtowerChallengeTimeoutSent(v) => v \in r.spent_watchtower_utxos
             /\ e = OperatorChallengeAckSent(v) => v \in r.operator_challenge_acks
       /\ \A j \in Asserts : e = OperatorAssertSent(j) => j \in r.operator_asserts
  BY <1>4, <1>11
<1> QED BY <1>1, <1>4, <1>5, <1>7, <1>8, <1>9, <1>10, <1>12, RecordStep

(* The operator commits the latest blockhash. *)
LEMMA LatestBlockHashSentStep ==
    ASSUME Inv, OnLatestBlockHashSent
    PROVE  Inv'
<1> DEFINE e == LatestBlockHashSent
           r == [Without(e) EXCEPT !.latest_blockhash = TRUE]
           m == r
           new == AssertsIfReady(m) \cup DisproveIfReady(m)
<1>1. /\ pc = "processing" /\ e \in machine.matchers /\ MatchesAt(e) # {}
      /\ machine.state # "closed" /\ Dispatch(m, new)
  BY DEF OnLatestBlockHashSent, First
<1>2. machine \in MachineType /\ Sound(machine, onChain, spent) /\ TypeOK /\ ChainInv
  BY DEF Inv, TypeOK, MachineInv
<1>3. Reveal(LatestBlockhash) \in onChain
  BY <1>1, <1>2, MatchSound, SpentOnce, SpendsItself
<1>4. /\ r \in MachineType
      /\ r.state = machine.state /\ r.challenged = machine.challenged /\ r.timers = machine.timers
      /\ r.matchers = machine.matchers \ {e} /\ r.dirty = TRUE
      /\ r.latest_blockhash = TRUE
      /\ r.spent_watchtower_utxos = machine.spent_watchtower_utxos
      /\ r.watchtower_challenges = machine.watchtower_challenges
      /\ r.operator_challenge_acks = machine.operator_challenge_acks
      /\ r.operator_asserts = machine.operator_asserts
  BY <1>2 DEF MachineType, Without
<1> HIDE DEF r
<1>5. Sound(r, onChain, spent)
  BY <1>2, <1>3, <1>4 DEF Sound
<1>6. m \in MachineType /\ Sound(m, onChain, spent)
  BY <1>4, <1>5
<1>7. m = r
  OBVIOUS
<1> HIDE DEF m
<1>8. \A d \in new : DutyGood(d, onChain, spent, lastWatchtower)
  <2>1. \A d \in AssertsIfReady(m) \cup DisproveIfReady(m) : DutyGood(d, onChain, spent, lastWatchtower)
    BY <1>6, RequestsGood
  <2> QED BY <2>1
<1>9. AssertsIfReady(m) \subseteq new /\ DisproveIfReady(m) \subseteq new
  OBVIOUS
<1> HIDE DEF new
<1>10. e \notin {Challenged, KickoffFinalizerSpent, BurnConnectorSpent}
  BY EventNames
<1>11. /\ \A v \in Watchtowers : /\ e # WatchtowerChallengeSent(v)
                                 /\ e # WatchtowerChallengeTimeoutSent(v)
                                 /\ e # OperatorChallengeAckSent(v)
       /\ \A j \in Asserts : e # OperatorAssertSent(j)
  BY EventNames
<1> HIDE DEF e
<1>12. /\ e = LatestBlockHashSent => r.latest_blockhash
       /\ \A v \in Watchtowers :
             /\ e = WatchtowerChallengeSent(v) => v \in r.watchtower_challenges
             /\ e = WatchtowerChallengeTimeoutSent(v) => v \in r.spent_watchtower_utxos
             /\ e = OperatorChallengeAckSent(v) => v \in r.operator_challenge_acks
       /\ \A j \in Asserts : e = OperatorAssertSent(j) => j \in r.operator_asserts
  BY <1>4, <1>11
<1> QED BY <1>1, <1>4, <1>5, <1>7, <1>8, <1>9, <1>10, <1>12, RecordStep

(* What an entry to "challenged" makes of m: x, with the duties new. *)
EntryGood(m, x, new, D, latest, oc, sp, lw) ==
    /\ x \in MachineType
    /\ x.state = m.state /\ x.matchers = m.matchers /\ x.challenged = TRUE
    /\ x.latest_blockhash = m.latest_blockhash
    /\ x.spent_watchtower_utxos = m.spent_watchtower_utxos
    /\ x.watchtower_challenges = m.watchtower_challenges
    /\ x.operator_challenge_acks = m.operator_challenge_acks
    /\ x.operator_asserts = m.operator_asserts
    /\ x.dirty = m.dirty
    /\ FitsState(x) /\ Sound(x, oc, sp) /\ TimersLate(x, sp, lw)
    /\ Requested(x, D, latest)
    /\ \A d \in new : DutyGood(d, oc, sp, lw)

(* on_challenged_entry, in the context of a block h that is not before the  *)
(* last watchtower transaction once the watchtowers are done.               *)
LEMMA ChallengedEntryFacts ==
    ASSUME NEW m \in MachineType, NEW h \in Int, NEW oc, NEW sp, NEW lw \in Int, NEW latest \in Int, NEW D,
           m.state = "challenged", OneTimerPerHeight(m.timers),
           KickoffFinalizerSpent \in m.matchers, BurnConnectorSpent \in m.matchers, Challenged \notin m.matchers,
           Sound(m, oc, sp), Reveal(Challenge) \in oc, TimersLate(m, sp, lw),
           AllWatchtowersSpent(m) => lw <= h,
           h + FinalityDepth - 1 <= latest,
           ChallengedEntry(m, h).duties \subseteq D
    PROVE  EntryGood(m, ChallengedEntry(m, h).machine, ChallengedEntry(m, h).duties, D, latest, oc, sp, lw)
<1> DEFINE T == InsertTimer(m.timers, TimeToSend, TimeToSendWatchtowerChallenge)
           m1 == [m EXCEPT !.challenged = TRUE, !.timers = T]
           x == ScheduleLatestBlockhash(m1, h)
           told == <<TimeToSend, TimeToSendWatchtowerChallenge>>
           late == <<h + FinalityDepth - 1, TimeToSendLatestBlockhash>>
<1>1. /\ ChallengedEntry(m, h).machine = x
      /\ ChallengedEntry(m, h).duties = {AddRelevantTxsIfChallenged} \cup AssertsIfReady(x) \cup DisproveIfReady(x)
  BY DEF ChallengedEntry
<1>2. /\ T \in SUBSET (Int \X TimerEvents) /\ OneTimerPerHeight(T) /\ told \in T
      /\ \A t \in T : t = told \/ t \in m.timers
  <2>1. TimeToSend \in Int /\ FinalityDepth \in Int /\ m.timers \in SUBSET (Int \X TimerEvents)
    BY KickoffAssumption DEF MachineType, TimerEvents
  <2> QED BY <2>1, InsertTimerFacts DEF TimerEvents
<1> HIDE DEF T
<1>3. /\ m1 \in MachineType
      /\ m1.state = m.state /\ m1.matchers = m.matchers /\ m1.challenged = TRUE /\ m1.timers = T
      /\ m1.latest_blockhash = m.latest_blockhash
      /\ m1.spent_watchtower_utxos = m.spent_watchtower_utxos
      /\ m1.watchtower_challenges = m.watchtower_challenges
      /\ m1.operator_challenge_acks = m.operator_challenge_acks
      /\ m1.operator_asserts = m.operator_asserts
      /\ m1.dirty = m.dirty
  BY <1>2 DEF MachineType, TimerEvents
<1> HIDE DEF m1
<1>4. /\ x \in MachineType
      /\ x.state = m1.state /\ x.matchers = m1.matchers /\ x.challenged = m1.challenged
      /\ x.latest_blockhash = m1.latest_blockhash
      /\ x.spent_watchtower_utxos = m1.spent_watchtower_utxos
      /\ x.watchtower_challenges = m1.watchtower_challenges
      /\ x.operator_challenge_acks = m1.operator_challenge_acks
      /\ x.operator_asserts = m1.operator_asserts
      /\ x.dirty = m1.dirty
      /\ OneTimerPerHeight(x.timers)
      /\ x.timers # m1.timers => m1.challenged /\ AllWatchtowersSpent(m1)
      /\ m1.challenged /\ AllWatchtowersSpent(m1) => late \in x.timers
      /\ \A t \in x.timers : t \in m1.timers \/ (t = late /\ m1.challenged /\ AllWatchtowersSpent(m1))
  BY <1>2, <1>3, ScheduleFacts
<1> HIDE DEF x
<1>5. /\ x.state = m.state /\ x.matchers = m.matchers /\ x.challenged = TRUE
      /\ x.latest_blockhash = m.latest_blockhash
      /\ x.spent_watchtower_utxos = m.spent_watchtower_utxos
      /\ x.watchtower_challenges = m.watchtower_challenges
      /\ x.operator_challenge_acks = m.operator_challenge_acks
      /\ x.operator_asserts = m.operator_asserts
      /\ x.dirty = m.dirty
  BY <1>3, <1>4
<1>6. AllWatchtowersSpent(x) <=> AllWatchtowersSpent(m)
  BY <1>5 DEF AllWatchtowersSpent
<1>7. AllWatchtowersSpent(m1) <=> AllWatchtowersSpent(m)
  BY <1>3 DEF AllWatchtowersSpent
<1>8. FitsState(x)
  BY <1>4, <1>5 DEF FitsState, OneTimerPerHeight
<1>9. Sound(x, oc, sp)
  BY <1>5 DEF Sound
<1>10. TimersLate(x, sp, lw)
  <2>1. AllWatchtowersSpent(m) => AllSpent(sp) /\ late[1] >= lw + FinalityDepth - 1
    <3>1. AllWatchtowersSpent(m) => AllSpent(sp)
      BY DEF AllWatchtowersSpent, AllSpent, Sound
    <3>2. AllWatchtowersSpent(m) => late[1] >= lw + FinalityDepth - 1
      BY KickoffAssumption
    <3> QED BY <3>1, <3>2
  <2>2. told[2] # TimeToSendLatestBlockhash
    BY EventNames
  <2> HIDE DEF told, late
  <2>3. \A t \in x.timers : t \in m.timers \/ t = told \/ (t = late /\ AllWatchtowersSpent(m))
    BY <1>2, <1>3, <1>4, <1>7
  <2> QED BY <2>1, <2>2, <2>3 DEF TimersLate
<1>11. \A d \in ChallengedEntry(m, h).duties : DutyGood(d, oc, sp, lw)
  <2>1. \A d \in AssertsIfReady(x) \cup DisproveIfReady(x) : DutyGood(d, oc, sp, lw)
    BY <1>4, <1>9, RequestsGood
  <2>2. DutyGood(AddRelevantTxsIfChallenged, oc, sp, lw)
    BY HarmlessDuties, Zenon
  <2> QED BY <1>1, <2>1, <2>2
<1>12. Requested(x, D, latest)
  <2>1. AssertsIfReady(x) \subseteq D /\ DisproveIfReady(x) \subseteq D
    BY <1>1
  <2>2. AllWatchtowersSpent(x) /\ x.latest_blockhash => \E d \in D : d.duty = "SendOperatorAsserts"
    BY <2>1, <1>5, RequestsMade
  <2>3. (/\ AllWatchtowersSpent(x) /\ x.latest_blockhash
         /\ x.operator_asserts = Asserts
         /\ x.watchtower_challenges \subseteq x.operator_challenge_acks)
        => \E d \in D : d.duty = "VerifierDisprove"
    BY <2>1, <1>5, RequestsMade
  <2>4. told \in x.timers \/ AllWatchtowersSpent(x)
    BY <1>2, <1>3, <1>4, <1>6, <1>7
  <2>5. AllWatchtowersSpent(x) => \E t \in x.timers : t[2] = TimeToSendLatestBlockhash /\ t[1] <= latest
    <3>1. late[2] = TimeToSendLatestBlockhash /\ late[1] <= latest
      BY KickoffAssumption
    <3> HIDE DEF late
    <3> QED BY <3>1, <1>3, <1>4, <1>6, <1>7
  <2> QED BY <2>2, <2>3, <2>4, <2>5 DEF Requested
<1> QED BY <1>1, <1>4, <1>5, <1>8, <1>9, <1>10, <1>11, <1>12 DEF EntryGood

(* The kickoff is challenged. *)
LEMMA ChallengedStep ==
    ASSUME Inv, OnChallenged
    PROVE  Inv'
<1> DEFINE r == [Without(Challenged) EXCEPT !.state = "challenged"]
           m == ChallengedEntry(r, height).machine
           new == ChallengedEntry(r, height).duties
<1>1. /\ pc = "processing" /\ MatchesAt(Challenged) # {}
      /\ machine.state = "kickoff_started" /\ Dispatch(m, new)
  BY DEF OnChallenged, First
<1>2. /\ machine \in MachineType /\ TypeOK /\ ChainInv
      /\ FitsState(machine) /\ Watches(machine) /\ Sound(machine, onChain, spent)
      /\ Complete(machine, onChain, block) /\ Closes(machine, spent, block)
      /\ height \in Int /\ lastWatchtower \in Int /\ lastWatchtower <= height
  BY DEF Inv, TypeOK, MachineInv
<1>3. Reveal(Challenge) \in onChain
  BY <1>1, <1>2, MatchSound
<1>4. /\ r \in MachineType
      /\ r.state = "challenged" /\ r.matchers = machine.matchers \ {Challenged} /\ r.dirty = TRUE
      /\ r.challenged = machine.challenged /\ r.timers = machine.timers
      /\ r.latest_blockhash = machine.latest_blockhash
      /\ r.spent_watchtower_utxos = machine.spent_watchtower_utxos
      /\ r.watchtower_challenges = machine.watchtower_challenges
      /\ r.operator_challenge_acks = machine.operator_challenge_acks
      /\ r.operator_asserts = machine.operator_asserts
  BY <1>2 DEF MachineType, Without
<1> HIDE DEF r
<1>5. Sound(r, onChain, spent)
  BY <1>2, <1>4 DEF Sound
<1>6. machine.timers = {} /\ TimersLate(r, spent, lastWatchtower) /\ OneTimerPerHeight(r.timers)
  BY <1>1, <1>2, <1>4 DEF FitsState, TimersLate, OneTimerPerHeight
<1>7. KickoffFinalizerSpent \in r.matchers /\ BurnConnectorSpent \in r.matchers /\ Challenged \notin r.matchers
  BY <1>1, <1>2, <1>4, EventNames DEF FitsState
<1>8. LatestTimer \in Int /\ height + FinalityDepth - 1 <= LatestTimer
  BY <1>1, <1>2, KickoffAssumption DEF LatestTimer
<1>9. new \subseteq duties \cup pending \cup new /\ (AllWatchtowersSpent(r) => lastWatchtower <= height)
  BY <1>2
<1>10. EntryGood(r, m, new, duties \cup pending \cup new, LatestTimer, onChain, spent, lastWatchtower)
  BY <1>2, <1>3, <1>4, <1>5, <1>6, <1>7, <1>8, <1>9, ChallengedEntryFacts
<1> HIDE DEF m, new
<1>11. /\ m \in MachineType
       /\ m.state = "challenged" /\ m.matchers = machine.matchers \ {Challenged} /\ m.challenged = TRUE
       /\ m.latest_blockhash = machine.latest_blockhash
       /\ m.spent_watchtower_utxos = machine.spent_watchtower_utxos
       /\ m.watchtower_challenges = machine.watchtower_challenges
       /\ m.operator_challenge_acks = machine.operator_challenge_acks
       /\ m.operator_asserts = machine.operator_asserts
       /\ m.dirty = TRUE
       /\ FitsState(m) /\ Sound(m, onChain, spent) /\ TimersLate(m, spent, lastWatchtower)
       /\ Requested(m, duties \cup pending \cup new, LatestTimer)
       /\ \A d \in new : DutyGood(d, onChain, spent, lastWatchtower)
  BY <1>4, <1>10 DEF EntryGood
<1>12. Watches(m)
  <2>1. Challenged # LatestBlockHashSent /\ (\A i \in Asserts : Challenged # OperatorAssertSent(i))
    BY EventNames
  <2>2. \A w \in Watchtowers : /\ Challenged # WatchtowerChallengeSent(w)
                               /\ Challenged # WatchtowerChallengeTimeoutSent(w)
                               /\ Challenged # OperatorChallengeAckSent(w)
    BY EventNames
  <2> QED BY <2>1, <2>2, <1>1, <1>2, <1>11 DEF Watches
<1>13. Complete(m, onChain, block)
  BY <1>1, <1>2, <1>11 DEF Complete
<1>14. Closes(m, spent, block)
  BY <1>1, <1>2, <1>11 DEF Closes
<1>15. MachineInv(m)
  BY <1>11, <1>12, <1>13, <1>14 DEF MachineInv
<1> QED BY <1>1, <1>11, <1>15, DispatchStep

(* The kickoff ends. *)
LEMMA ClosedStep ==
    ASSUME Inv, OnClosed
    PROVE  Inv'
<1>1. PICK e \in {KickoffFinalizerSpent, BurnConnectorSpent} :
         LET entry == ClosedEntry([Without(e) EXCEPT !.state = "closed"])
         IN  /\ First(e)
             /\ machine.state # "closed"
             /\ Dispatch(entry.machine, entry.duties)
  BY DEF OnClosed
<1> DEFINE m == [[Without(e) EXCEPT !.state = "closed"] EXCEPT !.matchers = {}, !.timers = {}]
<1>2. pc = "processing" /\ MatchesAt(e) # {} /\ Dispatch(m, {})
  BY <1>1 DEF First, ClosedEntry
<1>3. /\ machine \in MachineType /\ TypeOK /\ ChainInv /\ Sound(machine, onChain, spent)
      /\ FitsState(machine)
  BY DEF Inv, TypeOK, MachineInv
<1>4. /\ m \in MachineType
      /\ m.state = "closed" /\ m.matchers = {} /\ m.timers = {} /\ m.dirty = TRUE
      /\ m.challenged = machine.challenged
      /\ m.latest_blockhash = machine.latest_blockhash
      /\ m.spent_watchtower_utxos = machine.spent_watchtower_utxos
      /\ m.watchtower_challenges = machine.watchtower_challenges
      /\ m.operator_challenge_acks = machine.operator_challenge_acks
      /\ m.operator_asserts = machine.operator_asserts
  BY <1>3 DEF MachineType, Without
<1> HIDE DEF m
<1>5. spent \cap EndOutputs # {}
  BY <1>2, <1>3, MatchSound
<1>6. MachineInv(m)
  BY <1>3, <1>4, <1>5 DEF MachineInv, FitsState, Watches, Sound, Complete, Closes, TimersLate
<1>7. Requested(m, duties \cup pending \cup {}, LatestTimer)
  BY <1>4 DEF Requested
<1> QED BY <1>2, <1>4, <1>6, <1>7, DispatchStep

(* A machine that lost a timer is the same in all other respects. *)
LEMMA TimerRemoved ==
    ASSUME Inv, NEW t \in machine.timers
    PROVE  LET m == [machine EXCEPT !.timers = @ \ {t}, !.dirty = TRUE]
           IN  /\ m \in MachineType /\ m.dirty = TRUE /\ MachineInv(m)
               /\ m.state = machine.state /\ m.timers = machine.timers \ {t}
               /\ m.latest_blockhash = machine.latest_blockhash
               /\ m.spent_watchtower_utxos = machine.spent_watchtower_utxos
               /\ m.watchtower_challenges = machine.watchtower_challenges
               /\ m.operator_challenge_acks = machine.operator_challenge_acks
               /\ m.operator_asserts = machine.operator_asserts
<1> DEFINE m == [machine EXCEPT !.timers = @ \ {t}, !.dirty = TRUE]
<1>1. machine \in MachineType /\ MachineInv(machine)
  BY DEF Inv, TypeOK
<1>2. /\ m \in MachineType /\ m.dirty = TRUE
      /\ m.state = machine.state /\ m.timers = machine.timers \ {t} /\ m.matchers = machine.matchers
      /\ m.challenged = machine.challenged
      /\ m.latest_blockhash = machine.latest_blockhash
      /\ m.spent_watchtower_utxos = machine.spent_watchtower_utxos
      /\ m.watchtower_challenges = machine.watchtower_challenges
      /\ m.operator_challenge_acks = machine.operator_challenge_acks
      /\ m.operator_asserts = machine.operator_asserts
  BY <1>1 DEF MachineType
<1> HIDE DEF m
<1>3. FitsState(m)
  BY <1>1, <1>2 DEF MachineInv, FitsState
<1>4. Watches(m)
  BY <1>1, <1>2 DEF MachineInv, Watches
<1>5. Sound(m, onChain, spent)
  BY <1>1, <1>2 DEF MachineInv, Sound
<1>6. Complete(m, onChain, block)
  BY <1>1, <1>2 DEF MachineInv, Complete
<1>7. Closes(m, spent, block)
  BY <1>1, <1>2 DEF MachineInv, Closes
<1>8. TimersLate(m, spent, lastWatchtower)
  BY <1>1, <1>2 DEF MachineInv, TimersLate
<1>9. MachineInv(m)
  BY <1>3, <1>4, <1>5, <1>6, <1>7, <1>8 DEF MachineInv
<1> QED BY <1>2, <1>9 DEF m

(* The timer for the latest blockhash. *)
LEMMA TimeToSendLatestBlockhashStep ==
    ASSUME Inv, OnTimeToSendLatestBlockhash
    PROVE  Inv'
<1> DEFINE new == {SendLatestBlockhash(height)}
<1>1. PICK t \in machine.timers :
         t[2] = TimeToSendLatestBlockhash /\ Dispatch([machine EXCEPT !.timers = @ \ {t}, !.dirty = TRUE], new)
  BY DEF OnTimeToSendLatestBlockhash, OnTimer
<1>2. PICK due \in machine.timers : due[1] <= height /\ due[2] = TimeToSendLatestBlockhash
  BY DEF OnTimeToSendLatestBlockhash, OnTimer, Due
<1>3. pc = "processing"
  BY DEF OnTimeToSendLatestBlockhash, OnTimer
<1> DEFINE m == [machine EXCEPT !.timers = @ \ {t}, !.dirty = TRUE]
<1>4. /\ m \in MachineType /\ m.dirty = TRUE /\ MachineInv(m)
      /\ m.state = machine.state /\ m.timers = machine.timers \ {t}
      /\ m.latest_blockhash = machine.latest_blockhash
      /\ m.spent_watchtower_utxos = machine.spent_watchtower_utxos
      /\ m.watchtower_challenges = machine.watchtower_challenges
      /\ m.operator_challenge_acks = machine.operator_challenge_acks
      /\ m.operator_asserts = machine.operator_asserts
  BY TimerRemoved, Zenon
<1>5. Dispatch(m, new)
  BY <1>1
<1> HIDE DEF m
<1>6. SendLatestBlockhash(height).duty = "SendLatestBlockhash" /\ SendLatestBlockhash(height).block = height
  BY DEF SendLatestBlockhash
<1>7. DutyGood(SendLatestBlockhash(height), onChain, spent, lastWatchtower)
  <2>1. /\ machine \in MachineType /\ height \in Int /\ lastWatchtower \in Int
        /\ FitsState(machine) /\ Sound(machine, onChain, spent) /\ TimersLate(machine, spent, lastWatchtower)
    BY DEF Inv, TypeOK, MachineInv
  <2>2. machine.challenged
    BY <1>2, <2>1 DEF FitsState
  <2>3. due[1] \in Int
    BY <2>1 DEF MachineType
  <2>4. AllSpent(spent) /\ height >= lastWatchtower + FinalityDepth - 1
    BY <1>2, <2>1, <2>3, KickoffAssumption DEF TimersLate
  <2>5. Reveal(Challenge) \in onChain
    BY <2>1, <2>2 DEF Sound
  <2> HIDE <1>6
  <2> QED BY <1>6, <2>4, <2>5 DEF DutyGood
<1>8. Requested(m, duties \cup pending \cup new, LatestTimer)
  <2>1. Requested(machine, duties \cup pending, LatestTimer)
    BY DEF Inv, RequestInv
  <2>2. AllWatchtowersSpent(m) <=> AllWatchtowersSpent(machine)
    BY <1>4 DEF AllWatchtowersSpent
  <2>3. <<TimeToSend, TimeToSendWatchtowerChallenge>> # t
    BY <1>1, EventNames
  <2>4. \E d \in duties \cup pending \cup new : d.duty = "SendLatestBlockhash"
    BY <1>6
  <2> HIDE DEF new
  <2> QED BY <1>4, <2>1, <2>2, <2>3, <2>4 DEF Requested
<1>9. \A d \in new : DutyGood(d, onChain, spent, lastWatchtower)
  BY <1>7
<1> HIDE DEF new
<1> QED BY <1>3, <1>4, <1>5, <1>8, <1>9, DispatchStep

(* The timer of the watchtower. *)
LEMMA TimeToSendWatchtowerChallengeStep ==
    ASSUME Inv, OnTimeToSendWatchtowerChallenge
    PROVE  Inv'
<1> DEFINE new == {WatchtowerChallenge}
<1>1. PICK t \in machine.timers :
         t[2] = TimeToSendWatchtowerChallenge /\ Dispatch([machine EXCEPT !.timers = @ \ {t}, !.dirty = TRUE], new)
  BY DEF OnTimeToSendWatchtowerChallenge, OnTimer
<1>2. pc = "processing" /\ machine.state = "challenged"
  BY DEF OnTimeToSendWatchtowerChallenge, OnTimer
<1> DEFINE m == [machine EXCEPT !.timers = @ \ {t}, !.dirty = TRUE]
<1>3. /\ m \in MachineType /\ m.dirty = TRUE /\ MachineInv(m)
      /\ m.state = machine.state /\ m.timers = machine.timers \ {t}
      /\ m.latest_blockhash = machine.latest_blockhash
      /\ m.spent_watchtower_utxos = machine.spent_watchtower_utxos
      /\ m.watchtower_challenges = machine.watchtower_challenges
      /\ m.operator_challenge_acks = machine.operator_challenge_acks
      /\ m.operator_asserts = machine.operator_asserts
  BY TimerRemoved, Zenon
<1>4. Dispatch(m, new)
  BY <1>1
<1> HIDE DEF m
<1>5. DutyGood(WatchtowerChallenge, onChain, spent, lastWatchtower)
  <2>1. Reveal(Challenge) \in onChain
    BY <1>2 DEF Inv, MachineInv, FitsState, Sound
  <2> QED BY <2>1 DEF DutyGood, WatchtowerChallenge
<1>6. Requested(m, duties \cup pending \cup new, LatestTimer)
  <2>1. Requested(machine, duties \cup pending, LatestTimer)
    BY DEF Inv, RequestInv
  <2>2. AllWatchtowersSpent(m) <=> AllWatchtowersSpent(machine)
    BY <1>3 DEF AllWatchtowersSpent
  <2>3. \A x \in machine.timers : x[2] = TimeToSendLatestBlockhash => x # t
    BY <1>1, EventNames
  <2>4. WatchtowerChallenge \in duties \cup pending \cup new
    OBVIOUS
  <2> HIDE DEF new
  <2> QED BY <1>3, <2>1, <2>2, <2>3, <2>4 DEF Requested
<1>7. \A d \in new : DutyGood(d, onChain, spent, lastWatchtower)
  BY <1>5
<1> HIDE DEF new
<1> QED BY <1>2, <1>3, <1>4, <1>6, <1>7, DispatchStep

-----------------------------------------------------------------------------
(* Blocks. *)

(* A transaction is mined once, and when every watchtower output is spent   *)
(* no transaction spends one.                                               *)
LEMMA MinedOnce ==
    ASSUME Inv, NEW tx \in Txs, Mine(tx)
    PROVE  /\ tx \notin onChain
           /\ \A u \in spent : tx # Reveal(u)
           /\ AllSpent(spent) => lastWatchtower' = lastWatchtower
<1>1. tx.of \in Inputs(tx) /\ tx.of \in Outputs
  BY TxCases
<1>2. Inputs(tx) \cap spent = {}
  BY DEF Mine
<1>3. tx \notin onChain
  BY <1>1, <1>2 DEF Inv, ChainInv
<1>4. \A u \in spent : tx # Reveal(u)
  BY <1>1, <1>2, TxFields
<1>5. tx.of[1] = "watchtower" => \E w \in Watchtowers : tx.of = Watchtower(w)
  BY <1>1, OutputNames DEF Outputs
<1>6. AllSpent(spent) => tx.of[1] # "watchtower"
  BY <1>1, <1>2, <1>5 DEF AllSpent
<1> QED BY <1>3, <1>4, <1>6 DEF Mine

(* A mined transaction does not disturb a machine: it is in the block.      *)
LEMMA MinedMachine ==
    ASSUME Inv, NEW tx \in Txs, Mine(tx), NEW m \in MachineType, MachineInv(m)
    PROVE  /\ Sound(m, onChain', spent')
           /\ Complete(m, onChain', block')
           /\ Closes(m, spent', block')
           /\ TimersLate(m, spent', lastWatchtower')
<1>1. /\ onChain' = onChain \cup {tx} /\ spent' = spent \cup Inputs(tx) /\ block' = Append(block, tx)
      /\ Inputs(tx) \cap spent = {} /\ block \in Seq(onChain)
  BY DEF Mine, Inv, ChainInv
<1>2. /\ \A n \in DOMAIN block : n \in DOMAIN block' /\ block'[n] = block[n]
      /\ Len(block) + 1 \in DOMAIN block' /\ block'[Len(block) + 1] = tx
  <2>1. block \in Seq(Txs)
    BY <1>1 DEF Inv, TypeOK
  <2> QED BY <1>1, <2>1
<1>3. \A y : y \in onChain' => y \in onChain \/ InBlock(y, block')
  BY <1>1, <1>2 DEF InBlock
<1>4. \A y : InBlock(y, block) => InBlock(y, block')
  BY <1>2 DEF InBlock
<1>5. Sound(m, onChain', spent')
  BY <1>1, MinedOnce DEF MachineInv, Sound
<1>6. Complete(m, onChain', block')
  BY <1>3, <1>4 DEF MachineInv, Complete
<1>7. Closes(m, spent', block')
  BY <1>1, <1>2 DEF MachineInv, Closes
<1>8. TimersLate(m, spent', lastWatchtower')
  BY <1>1, MinedOnce DEF MachineInv, TimersLate, AllSpent
<1> QED BY <1>5, <1>6, <1>7, <1>8

(* What was asked for stays complete: nothing can be added to it. *)
LEMMA MinedDuty ==
    ASSUME Inv, NEW tx \in Txs, Mine(tx), NEW d, DutyGood(d, onChain, spent, lastWatchtower)
    PROVE  DutyGood(d, onChain', spent', lastWatchtower')
<1>1. onChain' = onChain \cup {tx} /\ spent' = spent \cup Inputs(tx)
  BY DEF Mine
<1>2. AllSpent(spent) => AllSpent(spent')
  BY <1>1 DEF AllSpent
<1>3. AllSpent(spent) => \A w \in Watchtowers : Reveal(Watchtower(w)) \in onChain' <=> Reveal(Watchtower(w)) \in onChain
  BY <1>1, MinedOnce DEF AllSpent
<1>4. AllSpent(spent) => lastWatchtower' = lastWatchtower
  BY MinedOnce
<1>5. CASE d.duty \in {"SendLatestBlockhash", "SendOperatorAsserts", "VerifierDisprove"}
  <2>1. AllSpent(spent) /\ Reveal(Challenge) \in onChain
    BY <1>5 DEF DutyGood
  <2>2. {w \in Watchtowers : Reveal(Watchtower(w)) \in onChain'} = {w \in Watchtowers : Reveal(Watchtower(w)) \in onChain}
    BY <2>1, <1>3
  <2>3. CASE d.duty = "SendLatestBlockhash"
    BY <1>1, <1>2, <1>4, <2>1, <2>3 DEF DutyGood
  <2>4. CASE d.duty = "SendOperatorAsserts"
    BY <1>1, <1>2, <2>1, <2>2, <2>4 DEF DutyGood
  <2>5. CASE d.duty = "VerifierDisprove"
    BY <1>1, <1>2, <1>3, <2>1, <2>5 DEF DutyGood
  <2> QED BY <1>5, <2>3, <2>4, <2>5
<1>6. CASE d.duty \notin {"SendLatestBlockhash", "SendOperatorAsserts", "VerifierDisprove"}
  BY <1>1, <1>6 DEF DutyGood
<1> QED BY <1>5, <1>6

LEMMA MineStep ==
    ASSUME Inv, NEW tx \in Txs, Mine(tx)
    PROVE  Inv'
<1>1. /\ pc = "mining" /\ height <= MaxHeight /\ Inputs(tx) \cap spent = {}
      /\ onChain' = onChain \cup {tx} /\ spent' = spent \cup Inputs(tx) /\ block' = Append(block, tx)
      /\ lastWatchtower' = (IF tx.of[1] = "watchtower" THEN height ELSE lastWatchtower)
      /\ height' = height /\ pc' = pc /\ machine' = machine /\ pending' = pending
      /\ row' = row /\ duties' = duties
  BY DEF Mine
<1>2. TypeOK'
  <2>1. Inputs(tx) \subseteq Outputs
    BY Spenders
  <2>2. lastWatchtower' \in 0..height
    BY <1>1, KickoffAssumption DEF Inv, TypeOK
  <2> QED BY <1>1, <2>1, <2>2 DEF Inv, TypeOK
<1>3. ChainInv'
  <2>1. block' \in Seq(onChain')
    <3>1. block \in Seq(onChain \cup {tx})
      BY DEF Inv, ChainInv
    <3> QED BY <1>1, <3>1
  <2>2. \A ty \in onChain' : Inputs(ty) \subseteq spent'
    BY <1>1 DEF Inv, ChainInv
  <2>3. \A u \in spent' : \E ty \in onChain' : u \in Inputs(ty)
    BY <1>1 DEF Inv, ChainInv
  <2>4. \A ty, tz \in onChain' : ty # tz => Inputs(ty) \cap Inputs(tz) = {}
    BY <1>1 DEF Inv, ChainInv
  <2> QED BY <2>1, <2>2, <2>3, <2>4 DEF ChainInv
<1>4. SavedInv'
  BY <1>1 DEF Inv, SavedInv
<1>5. MachineInv(machine)' /\ MachineInv(row)'
  <2>1. /\ machine \in MachineType /\ MachineInv(machine) /\ row \in MachineType /\ MachineInv(row)
        /\ FitsState(machine) /\ Watches(machine) /\ FitsState(row) /\ Watches(row)
    BY DEF Inv, TypeOK, MachineInv
  <2>2. /\ Sound(machine, onChain', spent') /\ Complete(machine, onChain', block')
        /\ Closes(machine, spent', block') /\ TimersLate(machine, spent', lastWatchtower')
    BY <2>1, MinedMachine
  <2>3. /\ Sound(row, onChain', spent') /\ Complete(row, onChain', block')
        /\ Closes(row, spent', block') /\ TimersLate(row, spent', lastWatchtower')
    BY <2>1, MinedMachine
  <2> QED BY <1>1, <2>1, <2>2, <2>3 DEF MachineInv
<1>6. DutyInv'
  <2>1. \A d \in duties \cup pending : DutyGood(d, onChain', spent', lastWatchtower')
    BY MinedDuty DEF Inv, DutyInv
  <2> QED BY <1>1, <2>1 DEF DutyInv
<1>7. RequestInv'
  <2>1. /\ Requested(machine, duties \cup pending, LatestTimer) /\ ToldInTime(row, duties, height)
        /\ ToldInTime(machine, duties, height)
    BY <1>1 DEF Inv, RequestInv
  <2>2. LatestTimer' = LatestTimer
    BY <1>1 DEF LatestTimer
  <2>3. row.challenged /\ AllWatchtowersSpent(row) => lastWatchtower' < height
    <3>1. AllWatchtowersSpent(row) => AllSpent(spent)
      BY DEF Inv, MachineInv, Sound, AllWatchtowersSpent, AllSpent
    <3>2. row.challenged /\ AllWatchtowersSpent(row) => lastWatchtower < height
      BY DEF Inv, RequestInv
    <3> QED BY <3>1, <3>2, MinedOnce
  <2> QED BY <1>1, <2>1, <2>2, <2>3 DEF RequestInv
<1> QED BY <1>2, <1>3, <1>4, <1>5, <1>6, <1>7 DEF Inv

(* More duties, and a later timer, are as good. *)
LEMMA RequestedLater ==
    ASSUME NEW m \in MachineType, NEW D, NEW E, D \subseteq E,
           NEW l \in Int, NEW k \in Int, l <= k, Requested(m, D, l)
    PROVE  Requested(m, E, k)
<1>1. \A t \in m.timers : t[1] <= l => t[1] <= k
  BY DEF MachineType
<1> QED BY <1>1 DEF Requested

LEMMA CloseBlockStep ==
    ASSUME Inv, CloseBlock
    PROVE  Inv'
<1>1. /\ pc = "mining" /\ height <= MaxHeight /\ pc' = "processing"
      /\ onChain' = onChain /\ spent' = spent /\ lastWatchtower' = lastWatchtower /\ block' = block
      /\ height' = height /\ machine' = machine /\ pending' = pending /\ row' = row /\ duties' = duties
  BY DEF CloseBlock, chainVars
<1>2. TypeOK'
  BY <1>1 DEF Inv, TypeOK
<1>3. ChainInv'
  BY <1>1 DEF Inv, ChainInv
<1>4. SavedInv'
  BY <1>1 DEF Inv, SavedInv
<1>5. MachineInv(machine)' /\ MachineInv(row)'
  <2>1. MachineInv(machine) /\ MachineInv(row)
    BY DEF Inv
  <2> QED BY <2>1, <1>1 DEF MachineInv
<1>6. DutyInv'
  BY <1>1 DEF Inv, DutyInv
<1>7. RequestInv'
  <2>1. /\ Requested(machine, duties \cup pending, LatestTimer) /\ ToldInTime(row, duties, height)
        /\ (row.challenged /\ AllWatchtowersSpent(row) => lastWatchtower < height)
        /\ machine \in MachineType
    BY DEF Inv, RequestInv, TypeOK
  <2>2. LatestTimer \in Int /\ LatestTimer' \in Int /\ LatestTimer <= LatestTimer'
    BY <1>1, KickoffAssumption DEF Inv, TypeOK, LatestTimer
  <2>3. Requested(machine, duties \cup pending, LatestTimer')
    BY <2>1, <2>2, RequestedLater
  <2> QED BY <1>1, <2>1, <2>3 DEF RequestInv
<1> QED BY <1>2, <1>3, <1>4, <1>5, <1>6, <1>7 DEF Inv

(* A block without further matches has nothing that is not recorded.        *)
LEMMA SettledMachine ==
    ASSUME Inv, \A e \in machine.matchers : MatchesAt(e) = {},
           NEW m \in MachineType,
           m.state = machine.state, m.matchers = machine.matchers, m.timers = machine.timers,
           m.challenged = machine.challenged, m.latest_blockhash = machine.latest_blockhash,
           m.spent_watchtower_utxos = machine.spent_watchtower_utxos,
           m.watchtower_challenges = machine.watchtower_challenges,
           m.operator_challenge_acks = machine.operator_challenge_acks,
           m.operator_asserts = machine.operator_asserts
    PROVE  /\ FitsState(m) /\ Watches(m) /\ Sound(m, onChain, spent)
           /\ Complete(m, onChain, << >>) /\ Closes(m, spent, << >>)
           /\ TimersLate(m, spent, lastWatchtower)
<1>1. /\ FitsState(machine) /\ Watches(machine) /\ Sound(machine, onChain, spent)
      /\ Complete(machine, onChain, block) /\ Closes(machine, spent, block)
      /\ TimersLate(machine, spent, lastWatchtower) /\ TypeOK /\ ChainInv
  BY DEF Inv, MachineInv
<1>2. FitsState(m)
  BY <1>1 DEF FitsState
<1>3. Watches(m)
  BY <1>1 DEF Watches
<1>4. Sound(m, onChain, spent)
  BY <1>1 DEF Sound
<1>5. TimersLate(m, spent, lastWatchtower)
  BY <1>1 DEF TimersLate
<1>6. Complete(m, onChain, << >>)
  <2> SUFFICES ASSUME machine.state # "closed" PROVE Complete(m, onChain, << >>)
    BY DEF Complete
  <2>1. Reveal(Challenge) \in onChain => m.challenged
    BY <1>1, MatchComplete DEF Complete, Watches, InBlock
  <2>2. Reveal(LatestBlockhash) \in onChain => m.latest_blockhash
    BY <1>1, MatchComplete DEF Complete, Watches, InBlock
  <2>3. ASSUME NEW w \in Watchtowers
        PROVE  /\ Reveal(Watchtower(w)) \in onChain => w \in m.watchtower_challenges
               /\ Timeout(Watchtower(w)) \in onChain => w \in m.spent_watchtower_utxos
               /\ Reveal(Ack(w)) \in onChain => w \in m.operator_challenge_acks
    BY <1>1, MatchComplete DEF Complete, Watches, InBlock
  <2>4. ASSUME NEW i \in Asserts
        PROVE  Reveal(AssertOutput(i)) \in onChain => i \in m.operator_asserts
    BY <1>1, MatchComplete DEF Complete, Watches, InBlock
  <2> QED BY <2>1, <2>2, <2>3, <2>4 DEF Complete
<1>7. Closes(m, spent, << >>)
  <2>1. spent \cap EndOutputs # {} => machine.state = "closed"
    BY <1>1, MatchComplete DEF Closes, FitsState
  <2> QED BY <1>1, <2>1 DEF Closes
<1> QED BY <1>2, <1>3, <1>4, <1>5, <1>6, <1>7

LEMMA SaveBlockStep ==
    ASSUME Inv, SaveBlock
    PROVE  Inv'
<1>1. /\ pc = "processing" /\ Due = {} /\ \A e \in machine.matchers : MatchesAt(e) = {}
      /\ row' = (IF machine.dirty THEN machine ELSE row)
      /\ machine' = [machine EXCEPT !.dirty = FALSE]
      /\ duties' = duties \cup pending /\ pending' = {} /\ block' = << >> /\ height' = height + 1
      /\ pc' = "mining"
      /\ onChain' = onChain /\ spent' = spent /\ lastWatchtower' = lastWatchtower
  BY DEF SaveBlock
<1>2. machine \in MachineType /\ row \in MachineType /\ SavedInv /\ TypeOK
  BY DEF Inv, TypeOK
<1>3. /\ machine' \in MachineType /\ machine'.dirty = FALSE
      /\ machine'.state = machine.state /\ machine'.matchers = machine.matchers
      /\ machine'.timers = machine.timers /\ machine'.challenged = machine.challenged
      /\ machine'.latest_blockhash = machine.latest_blockhash
      /\ machine'.spent_watchtower_utxos = machine.spent_watchtower_utxos
      /\ machine'.watchtower_challenges = machine.watchtower_challenges
      /\ machine'.operator_challenge_acks = machine.operator_challenge_acks
      /\ machine'.operator_asserts = machine.operator_asserts
  BY <1>1, <1>2 DEF MachineType
<1>4. /\ row' \in MachineType /\ row'.dirty = TRUE
      /\ row'.state = machine.state /\ row'.matchers = machine.matchers
      /\ row'.timers = machine.timers /\ row'.challenged = machine.challenged
      /\ row'.latest_blockhash = machine.latest_blockhash
      /\ row'.spent_watchtower_utxos = machine.spent_watchtower_utxos
      /\ row'.watchtower_challenges = machine.watchtower_challenges
      /\ row'.operator_challenge_acks = machine.operator_challenge_acks
      /\ row'.operator_asserts = machine.operator_asserts
  <2>1. machine.dirty \in BOOLEAN
    BY <1>2 DEF MachineType
  <2>2. CASE machine.dirty
    BY <1>1, <1>2, <2>1, <2>2
  <2>3. CASE machine.dirty = FALSE
    BY <1>1, <1>2, <2>3 DEF SavedInv, MachineType
  <2> QED BY <2>1, <2>2, <2>3
<1>5. machine' = [row' EXCEPT !.dirty = FALSE]
  <2>1. machine.dirty \in BOOLEAN
    BY <1>2 DEF MachineType
  <2>2. CASE machine.dirty
    BY <1>1, <2>2
  <2>3. CASE machine.dirty = FALSE
    BY <1>1, <1>2, <2>3 DEF SavedInv, MachineType
  <2> QED BY <2>1, <2>2, <2>3
<1>6. height <= MaxHeight /\ height \in Int /\ lastWatchtower <= height /\ lastWatchtower \in Int
  BY <1>1, <1>2 DEF SavedInv, TypeOK
<1>7. TypeOK'
  <2>1. height' \in 0..MaxHeight + 1 /\ lastWatchtower' \in 0..height'
    BY <1>1, <1>2, <1>6, KickoffAssumption DEF TypeOK
  <2> QED BY <1>1, <1>2, <1>3, <1>4, <2>1 DEF TypeOK
<1>8. ChainInv'
  <2>1. << >> \in Seq(onChain)
    OBVIOUS
  <2> QED BY <1>1, <2>1 DEF Inv, ChainInv
<1>9. SavedInv'
  BY <1>1, <1>4, <1>5 DEF SavedInv
<1>10. MachineInv(machine)'
  <2>1. /\ FitsState(machine') /\ Watches(machine') /\ Sound(machine', onChain, spent)
        /\ Complete(machine', onChain, << >>) /\ Closes(machine', spent, << >>)
        /\ TimersLate(machine', spent, lastWatchtower)
    BY <1>1, <1>3, SettledMachine
  <2> QED BY <1>1, <2>1 DEF MachineInv
<1>11. MachineInv(row)'
  <2>1. /\ FitsState(row') /\ Watches(row') /\ Sound(row', onChain, spent)
        /\ Complete(row', onChain, << >>) /\ Closes(row', spent, << >>)
        /\ TimersLate(row', spent, lastWatchtower)
    BY <1>1, <1>4, SettledMachine
  <2> QED BY <1>1, <2>1 DEF MachineInv
<1>12. DutyInv'
  BY <1>1 DEF Inv, DutyInv
<1>13. RequestInv'
  <2>1. Requested(machine, duties \cup pending, LatestTimer)
    BY DEF Inv, RequestInv
  <2>2. LatestTimer' = LatestTimer /\ duties' \cup pending' = duties \cup pending
    BY <1>1, <1>6, KickoffAssumption DEF LatestTimer
  <2>3. /\ AllWatchtowersSpent(machine') <=> AllWatchtowersSpent(machine)
        /\ AllWatchtowersSpent(row') <=> AllWatchtowersSpent(machine)
    BY <1>3, <1>4 DEF AllWatchtowersSpent
  <2>4. Requested(machine', duties' \cup pending', LatestTimer')
    BY <1>3, <2>1, <2>2, <2>3 DEF Requested
  <2>5. height' > TimeToSend => <<TimeToSend, TimeToSendWatchtowerChallenge>> \notin machine.timers
    BY <1>1, <1>6, KickoffAssumption DEF Due
  <2>6. ToldInTime(machine', duties', height') /\ ToldInTime(row', duties', height')
    BY <1>1, <1>3, <1>4, <2>1, <2>3, <2>5 DEF Requested, ToldInTime
  <2>7. lastWatchtower' < height'
    BY <1>1, <1>6
  <2> QED BY <2>4, <2>6, <2>7 DEF RequestInv
<1> QED BY <1>7, <1>8, <1>9, <1>10, <1>11, <1>12, <1>13 DEF Inv

-----------------------------------------------------------------------------
(* Restarts. *)

(* m is what the entry action makes of the machine that is loaded. *)
LEMMA LoadedStep ==
    ASSUME Inv, Reload,
           NEW m \in MachineType, NEW new, machine' = m, duties' = duties \cup new,
           m.dirty = TRUE, m.state = row.state, m.spent_watchtower_utxos = row.spent_watchtower_utxos,
           MachineInv(m), Requested(m, duties \cup new, LatestTimer),
           \A d \in new : DutyGood(d, onChain, spent, lastWatchtower)
    PROVE  Inv'
<1>1. /\ pending' = {} /\ row' = row /\ pc' = pc
      /\ onChain' = onChain /\ spent' = spent /\ lastWatchtower' = lastWatchtower /\ block' = block
      /\ height' = height
  BY DEF Reload, chainVars
<1>2. TypeOK'
  BY <1>1 DEF Inv, TypeOK
<1>3. ChainInv'
  BY <1>1 DEF Inv, ChainInv
<1>4. SavedInv'
  BY <1>1 DEF Inv, SavedInv
<1>5. MachineInv(machine)' /\ MachineInv(row)'
  <2>1. MachineInv(row) /\ MachineInv(m)
    BY DEF Inv
  <2> QED BY <2>1, <1>1 DEF MachineInv
<1>6. DutyInv'
  BY <1>1 DEF Inv, DutyInv
<1>7. RequestInv'
  <2>1. LatestTimer' = LatestTimer /\ duties' \cup pending' = duties \cup new
    BY <1>1 DEF LatestTimer
  <2>2. Requested(machine', duties' \cup pending', LatestTimer')
    BY <2>1
  <2>3. ToldInTime(row, duties, height) /\ (row.challenged /\ AllWatchtowersSpent(row) => lastWatchtower < height)
    BY DEF Inv, RequestInv
  <2>4. AllWatchtowersSpent(m) <=> AllWatchtowersSpent(row)
    BY DEF AllWatchtowersSpent
  <2>5. ToldInTime(row', duties', height') /\ ToldInTime(machine', duties', height')
    BY <1>1, <2>3, <2>4 DEF ToldInTime
  <2> QED BY <2>2, <2>3, <2>5, <1>1 DEF RequestInv
<1> QED BY <1>2, <1>3, <1>4, <1>5, <1>6, <1>7 DEF Inv

LEMMA ReloadStep ==
    ASSUME Inv, Reload
    PROVE  Inv'
<1>1. /\ machine' = Entry(row, height - 1).machine
      /\ duties' = duties \cup Entry(row, height - 1).duties
  BY DEF Reload
<1>2. /\ row \in MachineType /\ row.dirty = TRUE
      /\ FitsState(row) /\ Watches(row) /\ Sound(row, onChain, spent)
      /\ Complete(row, onChain, block) /\ Closes(row, spent, block)
      /\ TimersLate(row, spent, lastWatchtower)
      /\ height \in Int /\ lastWatchtower \in Int
  BY DEF Inv, TypeOK, MachineInv, SavedInv
<1>3. row.state \in {"kickoff_started", "challenged", "closed"}
  BY <1>2 DEF MachineType
<1>4. CASE row.state = "kickoff_started"
  <2> DEFINE m == [row EXCEPT !.matchers = @ \cup DefaultMatchers]
             new == {AddNecessaryTxsForKickoff}
  <2>1. machine' = m /\ duties' = duties \cup new
    BY <1>1, <1>4 DEF Entry, StartedEntry
  <2>2. /\ m \in MachineType /\ m.dirty = TRUE
        /\ m.state = row.state /\ m.matchers = DefaultMatchers /\ m.timers = row.timers
        /\ m.challenged = row.challenged
        /\ m.latest_blockhash = row.latest_blockhash
        /\ m.spent_watchtower_utxos = row.spent_watchtower_utxos
        /\ m.watchtower_challenges = row.watchtower_challenges
        /\ m.operator_challenge_acks = row.operator_challenge_acks
        /\ m.operator_asserts = row.operator_asserts
    BY <1>2 DEF MachineType
  <2> HIDE DEF m
  <2>3. FitsState(m)
    BY <1>2, <1>4, <2>2 DEF FitsState, DefaultMatchers
  <2>4. Watches(m)
    BY <2>2 DEF Watches, DefaultMatchers
  <2>5. Sound(m, onChain, spent)
    BY <1>2, <2>2 DEF Sound
  <2>6. Complete(m, onChain, block)
    BY <1>2, <2>2 DEF Complete
  <2>7. Closes(m, spent, block)
    BY <1>2, <2>2 DEF Closes
  <2>8. TimersLate(m, spent, lastWatchtower)
    BY <1>2, <2>2 DEF TimersLate
  <2>9. MachineInv(m)
    BY <2>3, <2>4, <2>5, <2>6, <2>7, <2>8 DEF MachineInv
  <2>10. Requested(m, duties \cup new, LatestTimer)
    BY <1>4, <2>2 DEF Requested
  <2>11. \A d \in new : DutyGood(d, onChain, spent, lastWatchtower)
    BY DEF AddNecessaryTxsForKickoff, DutyGood
  <2> HIDE DEF new
  <2> QED BY <2>1, <2>2, <2>9, <2>10, <2>11, LoadedStep
<1>5. CASE row.state = "challenged"
  <2> DEFINE m == ChallengedEntry(row, height - 1).machine
             new == ChallengedEntry(row, height - 1).duties
  <2>1. machine' = m /\ duties' = duties \cup new
    BY <1>1, <1>5 DEF Entry
  <2>2. /\ row.challenged /\ OneTimerPerHeight(row.timers)
        /\ KickoffFinalizerSpent \in row.matchers /\ BurnConnectorSpent \in row.matchers
        /\ Challenged \notin row.matchers
    BY <1>2, <1>5 DEF FitsState, OneTimerPerHeight
  <2>3. Reveal(Challenge) \in onChain
    BY <1>2, <2>2 DEF Sound
  <2>4. AllWatchtowersSpent(row) => lastWatchtower <= height - 1
    BY <1>2, <2>2 DEF Inv, RequestInv
  <2>5. height - 1 \in Int /\ LatestTimer \in Int /\ height - 1 + FinalityDepth - 1 <= LatestTimer
    BY <1>2, KickoffAssumption DEF LatestTimer
  <2>6. EntryGood(row, m, new, duties \cup new, LatestTimer, onChain, spent, lastWatchtower)
    BY <1>2, <1>5, <2>2, <2>3, <2>4, <2>5, ChallengedEntryFacts
  <2> HIDE DEF m, new
  <2>7. /\ m \in MachineType /\ m.dirty = TRUE
        /\ m.state = row.state /\ m.matchers = row.matchers /\ m.challenged = TRUE
        /\ m.latest_blockhash = row.latest_blockhash
        /\ m.spent_watchtower_utxos = row.spent_watchtower_utxos
        /\ m.watchtower_challenges = row.watchtower_challenges
        /\ m.operator_challenge_acks = row.operator_challenge_acks
        /\ m.operator_asserts = row.operator_asserts
        /\ FitsState(m) /\ Sound(m, onChain, spent) /\ TimersLate(m, spent, lastWatchtower)
        /\ Requested(m, duties \cup new, LatestTimer)
        /\ \A d \in new : DutyGood(d, onChain, spent, lastWatchtower)
    BY <1>2, <2>6 DEF EntryGood
  <2>8. Watches(m)
    BY <1>2, <2>2, <2>7 DEF Watches
  <2>9. Complete(m, onChain, block)
    BY <1>2, <2>7 DEF Complete
  <2>10. Closes(m, spent, block)
    BY <1>2, <2>7 DEF Closes
  <2>11. MachineInv(m)
    BY <2>7, <2>8, <2>9, <2>10 DEF MachineInv
  <2> QED BY <2>1, <2>7, <2>11, LoadedStep
<1>6. CASE row.state = "closed"
  <2> DEFINE m == [row EXCEPT !.matchers = {}, !.timers = {}]
  <2>1. machine' = m /\ duties' = duties \cup {}
    BY <1>1, <1>6 DEF Entry, ClosedEntry
  <2>2. /\ m \in MachineType /\ m.dirty = TRUE
        /\ m.state = row.state /\ m.matchers = {} /\ m.timers = {}
        /\ m.challenged = row.challenged
        /\ m.latest_blockhash = row.latest_blockhash
        /\ m.spent_watchtower_utxos = row.spent_watchtower_utxos
        /\ m.watchtower_challenges = row.watchtower_challenges
        /\ m.operator_challenge_acks = row.operator_challenge_acks
        /\ m.operator_asserts = row.operator_asserts
    BY <1>2 DEF MachineType
  <2> HIDE DEF m
  <2>3. FitsState(m)
    BY <1>2, <1>6, <2>2 DEF FitsState
  <2>4. Watches(m) /\ Complete(m, onChain, block) /\ TimersLate(m, spent, lastWatchtower)
    BY <1>6, <2>2 DEF Watches, Complete, TimersLate
  <2>5. Sound(m, onChain, spent)
    BY <1>2, <2>2 DEF Sound
  <2>6. Closes(m, spent, block)
    BY <1>2, <2>2 DEF Closes
  <2>7. MachineInv(m)
    BY <2>3, <2>4, <2>5, <2>6 DEF MachineInv
  <2>8. Requested(m, duties \cup {}, LatestTimer)
    BY <1>6, <2>2 DEF Requested
  <2> QED BY <2>1, <2>2, <2>7, <2>8, LoadedStep
<1> QED BY <1>3, <1>4, <1>5, <1>6

-----------------------------------------------------------------------------
(* The invariant. *)
LEMMA InvInit == Init => Inv
<1> SUFFICES ASSUME Init PROVE Inv
  OBVIOUS
<1>1. /\ onChain = {} /\ spent = {} /\ lastWatchtower = 0 /\ block = << >> /\ height = 0
      /\ pc = "mining" /\ row = NewMachine /\ machine = [NewMachine EXCEPT !.dirty = FALSE]
      /\ pending = {} /\ duties = {AddNecessaryTxsForKickoff}
  BY DEF Init
<1>2. /\ row \in MachineType /\ row.dirty = TRUE
      /\ row.state = "kickoff_started" /\ row.matchers = DefaultMatchers /\ row.timers = {}
      /\ row.challenged = FALSE /\ row.latest_blockhash = FALSE
      /\ row.spent_watchtower_utxos = {} /\ row.watchtower_challenges = {}
      /\ row.operator_challenge_acks = {} /\ row.operator_asserts = {}
  BY <1>1 DEF NewMachine, MachineType
<1>3. /\ machine \in MachineType
      /\ machine.state = "kickoff_started" /\ machine.matchers = DefaultMatchers /\ machine.timers = {}
      /\ machine.challenged = FALSE /\ machine.latest_blockhash = FALSE
      /\ machine.spent_watchtower_utxos = {} /\ machine.watchtower_challenges = {}
      /\ machine.operator_challenge_acks = {} /\ machine.operator_asserts = {}
  BY <1>1 DEF NewMachine, MachineType
<1>4. TypeOK
  BY <1>1, <1>2, <1>3, KickoffAssumption DEF TypeOK
<1>5. ChainInv
  BY <1>1 DEF ChainInv
<1>6. SavedInv
  BY <1>1, <1>2 DEF SavedInv
<1>7. ASSUME NEW m, m \in {machine, row} PROVE MachineInv(m)
  <2>1. /\ m.state = "kickoff_started" /\ m.matchers = DefaultMatchers /\ m.timers = {}
        /\ m.challenged = FALSE /\ m.latest_blockhash = FALSE
        /\ m.spent_watchtower_utxos = {} /\ m.watchtower_challenges = {}
        /\ m.operator_challenge_acks = {} /\ m.operator_asserts = {}
    BY <1>2, <1>3, <1>7
  <2>2. FitsState(m)
    BY <2>1 DEF FitsState, DefaultMatchers
  <2>3. Watches(m)
    BY <2>1 DEF Watches, DefaultMatchers
  <2>4. Sound(m, onChain, spent)
    BY <2>1 DEF Sound
  <2>5. Complete(m, onChain, block) /\ Closes(m, spent, block) /\ TimersLate(m, spent, lastWatchtower)
    BY <1>1, <2>1 DEF Complete, Closes, TimersLate
  <2> QED BY <2>2, <2>3, <2>4, <2>5 DEF MachineInv
<1>8. DutyInv
  BY <1>1 DEF DutyInv, DutyGood, AddNecessaryTxsForKickoff
<1>9. RequestInv
  BY <1>1, <1>2, <1>3 DEF RequestInv, Requested, ToldInTime
<1> QED BY <1>4, <1>5, <1>6, <1>7, <1>8, <1>9 DEF Inv

LEMMA InvNext == Inv /\ [Next]_vars => Inv'
<1> SUFFICES ASSUME Inv, [Next]_vars PROVE Inv'
  OBVIOUS
<1>1. CASE \E tx \in Txs : Mine(tx)
  BY <1>1, MineStep
<1>2. CASE CloseBlock
  BY <1>2, CloseBlockStep
<1>3. CASE OnChallenged
  BY <1>3, ChallengedStep
<1>4. CASE \E w \in Watchtowers : OnWatchtowerChallengeSent(w)
  BY <1>4, WatchtowerChallengeSentStep
<1>5. CASE \E w \in Watchtowers : OnWatchtowerChallengeTimeoutSent(w)
  BY <1>5, WatchtowerChallengeTimeoutSentStep
<1>6. CASE \E w \in Watchtowers : OnOperatorChallengeAckSent(w)
  BY <1>6, OperatorChallengeAckSentStep
<1>7. CASE \E i \in Asserts : OnOperatorAssertSent(i)
  BY <1>7, OperatorAssertSentStep
<1>8. CASE OnLatestBlockHashSent
  BY <1>8, LatestBlockHashSentStep
<1>9. CASE OnClosed
  BY <1>9, ClosedStep
<1>10. CASE OnTimeToSendLatestBlockhash
  BY <1>10, TimeToSendLatestBlockhashStep
<1>11. CASE OnTimeToSendWatchtowerChallenge
  BY <1>11, TimeToSendWatchtowerChallengeStep
<1>12. CASE SaveBlock
  BY <1>12, SaveBlockStep
<1>13. CASE Reload
  BY <1>13, ReloadStep
<1>14. CASE UNCHANGED vars
  <2>1. /\ onChain' = onChain /\ spent' = spent /\ lastWatchtower' = lastWatchtower /\ block' = block
        /\ height' = height /\ pc' = pc /\ machine' = machine /\ pending' = pending /\ row' = row
        /\ duties' = duties
    BY <1>14 DEF vars, chainVars
  <2>2. TypeOK' /\ ChainInv' /\ SavedInv' /\ DutyInv'
    BY <2>1 DEF Inv, TypeOK, ChainInv, SavedInv, DutyInv
  <2>3. MachineInv(machine)' /\ MachineInv(row)'
    BY <2>1 DEF Inv, MachineInv
  <2>4. RequestInv'
    BY <2>1 DEF Inv, RequestInv, LatestTimer
  <2> QED BY <2>2, <2>3, <2>4 DEF Inv
<1> QED BY <1>1, <1>2, <1>3, <1>4, <1>5, <1>6, <1>7, <1>8, <1>9, <1>10, <1>11, <1>12, <1>13, <1>14
        DEF Next, Process, Done

LEMMA InvAlways == Spec => []Inv
  BY InvInit, InvNext, PTL DEF Spec

(* The type invariant, for every number of watchtowers and asserts. *)
THEOREM TypeCorrect == Spec => []TypeOK
<1>1. Inv => TypeOK
  BY DEF Inv
<1> QED BY <1>1, InvAlways, PTL

(* No event comes to a state that does not handle it: a kickoff machine     *)
(* never fails on a block for that reason, whatever the chain and whenever  *)
(* the process is restarted.                                                *)
THEOREM HandlesEveryEvent == Spec => []EventsAreHandled
<1>1. Inv => EventsAreHandled
  BY DEF Inv, MachineInv, FitsState, EventsAreHandled
<1> QED BY <1>1, InvAlways, PTL

(* After every block the machine has recorded what the chain says of the    *)
(* kickoff, and it is closed exactly when the kickoff has ended.            *)
THEOREM ChainIsRecorded == Spec => []RecordsTheChain
<1>1. ASSUME Inv PROVE RecordsTheChain
  <2> SUFFICES ASSUME AtRest
               PROVE  /\ machine.state = "closed" <=> Ended
                      /\ ~Ended =>
                          /\ (machine.state = "challenged") = Revealed(Challenge)
                          /\ machine.challenged = Revealed(Challenge)
                          /\ machine.latest_blockhash = Revealed(LatestBlockhash)
                          /\ machine.spent_watchtower_utxos = {w \in Watchtowers : Watchtower(w) \in spent}
                          /\ machine.watchtower_challenges = {w \in Watchtowers : Revealed(Watchtower(w))}
                          /\ machine.operator_challenge_acks = {w \in Watchtowers : Revealed(Ack(w))}
                          /\ machine.operator_asserts = {i \in Asserts : Revealed(AssertOutput(i))}
    BY DEF RecordsTheChain
  <2>1. /\ FitsState(machine) /\ Sound(machine, onChain, spent) /\ Complete(machine, onChain, block)
        /\ Closes(machine, spent, block) /\ machine \in MachineType /\ TypeOK /\ ChainInv
    BY <1>1 DEF Inv, MachineInv, TypeOK
  <2>2. block = << >> /\ \A tx : ~InBlock(tx, block)
    BY DEF AtRest, InBlock
  <2>3. machine.state = "closed" <=> Ended
    BY <2>1, <2>2 DEF Closes, Ended, EndOutputs
  <2> SUFFICES ASSUME ~Ended
               PROVE  /\ (machine.state = "challenged") = Revealed(Challenge)
                      /\ machine.challenged = Revealed(Challenge)
                      /\ machine.latest_blockhash = Revealed(LatestBlockhash)
                      /\ machine.spent_watchtower_utxos = {w \in Watchtowers : Watchtower(w) \in spent}
                      /\ machine.watchtower_challenges = {w \in Watchtowers : Revealed(Watchtower(w))}
                      /\ machine.operator_challenge_acks = {w \in Watchtowers : Revealed(Ack(w))}
                      /\ machine.operator_asserts = {i \in Asserts : Revealed(AssertOutput(i))}
    BY <2>3
  <2>4. machine.challenged \in BOOLEAN /\ machine.latest_blockhash \in BOOLEAN
    BY <2>1 DEF MachineType
  <2>5. /\ machine.challenged <=> Revealed(Challenge)
        /\ machine.latest_blockhash <=> Revealed(LatestBlockhash)
    BY <2>1, <2>2, <2>3, <2>4 DEF Sound, Complete, Revealed
  <2>6. machine.state = "challenged" <=> Revealed(Challenge)
    BY <2>1, <2>3, <2>5 DEF FitsState, MachineType
  <2>7. \A w \in Watchtowers :
           /\ w \in machine.watchtower_challenges <=> Revealed(Watchtower(w))
           /\ w \in machine.operator_challenge_acks <=> Revealed(Ack(w))
    BY <2>1, <2>2, <2>3 DEF Sound, Complete, Revealed
  <2>8. \A i \in Asserts : i \in machine.operator_asserts <=> Revealed(AssertOutput(i))
    BY <2>1, <2>2, <2>3 DEF Sound, Complete, Revealed
  <2>9. \A w \in Watchtowers : Watchtower(w) \in spent <=> w \in machine.spent_watchtower_utxos
    <3> SUFFICES ASSUME NEW w \in Watchtowers, Watchtower(w) \in spent
                 PROVE  w \in machine.spent_watchtower_utxos
      BY <2>1 DEF Sound
    <3>1. PICK tx \in onChain : Watchtower(w) \in Inputs(tx)
      BY <2>1 DEF ChainInv
    <3>2. tx = Reveal(Watchtower(w)) \/ tx = Timeout(Watchtower(w))
      BY <2>1, <3>1, Spenders DEF TypeOK
    <3> QED BY <2>1, <2>2, <2>3, <3>2 DEF Complete, Sound
  <2>10. /\ machine.watchtower_challenges \subseteq Watchtowers
         /\ machine.spent_watchtower_utxos \subseteq Watchtowers
         /\ machine.operator_challenge_acks \subseteq Watchtowers
         /\ machine.operator_asserts \subseteq Asserts
    BY <2>1 DEF MachineType
  <2>11. /\ machine.spent_watchtower_utxos = {w \in Watchtowers : Watchtower(w) \in spent}
         /\ machine.watchtower_challenges = {w \in Watchtowers : Revealed(Watchtower(w))}
    BY <2>7, <2>9, <2>10
  <2>12. /\ machine.operator_challenge_acks = {w \in Watchtowers : Revealed(Ack(w))}
         /\ machine.operator_asserts = {i \in Asserts : Revealed(AssertOutput(i))}
    BY <2>7, <2>8, <2>10
  <2>13. /\ machine.challenged = Revealed(Challenge)
         /\ machine.latest_blockhash = Revealed(LatestBlockhash)
         /\ (machine.state = "challenged") = Revealed(Challenge)
    BY <2>4, <2>5, <2>6 DEF Revealed
  <2> QED BY <2>11, <2>12, <2>13
<1> QED BY <1>1, InvAlways, PTL

(* A duty that costs the owner something follows a challenge, and has all   *)
(* that has to go into it; nothing that is mined later adds to it.          *)
THEOREM RequestsAreComplete == Spec => []DutiesAreComplete
<1>1. ASSUME Inv PROVE DutiesAreComplete
  <2>1. \A d \in duties \cup pending : DutyGood(d, onChain, spent, lastWatchtower)
    BY <1>1 DEF Inv, DutyInv
  <2>2. DutiesOnlyIfChallenged
    BY <2>1 DEF DutiesOnlyIfChallenged, DutyGood, Revealed
  <2>3. AssertsHaveEveryChallenge
    BY <2>1 DEF AssertsHaveEveryChallenge, DutyGood, Revealed, AllSpent
  <2>4. DisproveIsComplete
    BY <2>1 DEF DisproveIsComplete, DutyGood, Revealed, AllSpent
  <2> QED BY <2>2, <2>3, <2>4 DEF DutiesAreComplete
<1> QED BY <1>1, InvAlways, PTL

(* What an open machine knows after a block. *)
LEMMA OpenMachine ==
    ASSUME Inv, Open
    PROVE  /\ pending = {} /\ LatestTimer = height + FinalityDepth - 2
           /\ Requested(machine, duties, LatestTimer) /\ ToldInTime(machine, duties, height)
           /\ Revealed(Challenge) => machine.state = "challenged"
           /\ Revealed(LatestBlockhash) => machine.latest_blockhash
           /\ (\A w \in Watchtowers : Watchtower(w) \in spent) <=> AllWatchtowersSpent(machine)
           /\ (\A i \in Asserts : Revealed(AssertOutput(i))) => machine.operator_asserts = Asserts
           /\ (\A w \in Watchtowers : Revealed(Watchtower(w)) => Revealed(Ack(w)))
              => machine.watchtower_challenges \subseteq machine.operator_challenge_acks
<1>1. AtRest /\ machine.state # "closed" /\ pc = "mining"
  BY DEF Open, AtRest
<1>2. /\ pending = {} /\ LatestTimer = height + FinalityDepth - 2
      /\ Requested(machine, duties, LatestTimer) /\ ToldInTime(machine, duties, height)
  <2>1. pending = {}
    BY <1>1 DEF Inv, SavedInv
  <2>2. duties \cup pending = duties
    BY <2>1
  <2> QED BY <1>1, <2>1, <2>2 DEF Inv, RequestInv, LatestTimer
<1>3. /\ FitsState(machine) /\ Sound(machine, onChain, spent) /\ Complete(machine, onChain, block)
      /\ machine \in MachineType /\ TypeOK /\ ChainInv
  BY DEF Inv, MachineInv, TypeOK
<1>4. \A tx : ~InBlock(tx, block)
  BY <1>1 DEF AtRest, InBlock
<1>5. Revealed(Challenge) => machine.state = "challenged"
  BY <1>1, <1>3, <1>4 DEF Complete, Revealed, FitsState, MachineType
<1>6. Revealed(LatestBlockhash) => machine.latest_blockhash
  BY <1>1, <1>3, <1>4 DEF Complete, Revealed
<1>7. \A w \in Watchtowers : Watchtower(w) \in spent <=> w \in machine.spent_watchtower_utxos
  <2> SUFFICES ASSUME NEW w \in Watchtowers, Watchtower(w) \in spent
               PROVE  w \in machine.spent_watchtower_utxos
    BY <1>3 DEF Sound
  <2>1. PICK tx \in onChain : Watchtower(w) \in Inputs(tx)
    BY <1>3 DEF ChainInv
  <2>2. tx = Reveal(Watchtower(w)) \/ tx = Timeout(Watchtower(w))
    BY <1>3, <2>1, Spenders DEF TypeOK
  <2> QED BY <1>1, <1>3, <1>4, <2>2 DEF Complete, Sound
<1>8. (\A w \in Watchtowers : Watchtower(w) \in spent) <=> AllWatchtowersSpent(machine)
  BY <1>3, <1>7 DEF AllWatchtowersSpent, MachineType
<1>9. (\A i \in Asserts : Revealed(AssertOutput(i))) => machine.operator_asserts = Asserts
  BY <1>1, <1>3, <1>4 DEF Complete, Revealed, MachineType
<1>10. (\A w \in Watchtowers : Revealed(Watchtower(w)) => Revealed(Ack(w)))
       => machine.watchtower_challenges \subseteq machine.operator_challenge_acks
  BY <1>1, <1>3, <1>4 DEF Complete, Sound, Revealed, MachineType
<1> QED BY <1>2, <1>5, <1>6, <1>8, <1>9, <1>10

(* What is complete was requested, whatever the order in which it became    *)
(* so: the asserts, the disproof, and the watchtower's own challenge.       *)
THEOREM RequestsAreMade == Spec => []DutiesAreRequested
<1>1. ASSUME Inv PROVE DutiesAreRequested
  <2>1. AssertsAreRequested
    BY <1>1, OpenMachine DEF AssertsAreRequested, Requested
  <2>2. DisproveIsRequested
    BY <1>1, OpenMachine DEF DisproveIsRequested, Requested
  <2>3. WatchtowerChallengeRequested
    BY <1>1, OpenMachine DEF WatchtowerChallengeRequested, ToldInTime
  <2> QED BY <2>1, <2>2, <2>3 DEF DutiesAreRequested
<1> QED BY <1>1, InvAlways, PTL

(* The latest blockhash is of a block after the last watchtower challenge   *)
(* is final, and its request is not lost to another timer or a restart.     *)
THEOREM BlockhashInTime == Spec => []BlockhashAfterChallenges
<1>1. ASSUME Inv PROVE BlockhashAfterChallenges
  <2>1. \A d \in duties \cup pending : DutyGood(d, onChain, spent, lastWatchtower)
    BY <1>1 DEF Inv, DutyInv
  <2>2. \A d \in duties \cup pending : d.duty = "SendLatestBlockhash" =>
           /\ \A w \in Watchtowers : Watchtower(w) \in spent
           /\ d.block >= lastWatchtower + FinalityDepth - 1
    BY <2>1 DEF DutyGood, AllSpent
  <2>3. Open /\ Revealed(Challenge) /\ (\A w \in Watchtowers : Watchtower(w) \in spent) =>
           \/ \E d \in duties : d.duty = "SendLatestBlockhash"
           \/ \E t \in machine.timers :
                 t[2] = TimeToSendLatestBlockhash /\ t[1] <= height + FinalityDepth - 2
    BY <1>1, OpenMachine DEF Requested
  <2> QED BY <2>2, <2>3 DEF BlockhashAfterChallenges
<1> QED BY <1>1, InvAlways, PTL
=============================================================================
