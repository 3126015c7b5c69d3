----------------------- MODULE RoundStateMachineProofs -----------------------
(***************************************************************************)
(* The round machine follows the collateral and reports the kickoffs of a  *)
(* round in the order of the chain: for every number of rounds and         *)
(* kickoffs, every division of the transactions into blocks, and any       *)
(* number of errors and restarts.                                          *)
(*                                                                         *)
(* The machine is behind the chain while it processes a block.  The        *)
(* invariant says that what it has not seen yet is in the block, and for   *)
(* the end of a round that it is there in the right order.                 *)
(***************************************************************************)
EXTENDS RoundStateMachine, TLAPS

-----------------------------------------------------------------------------
(* The places of the collateral, in the order in which it visits them. *)
Places == {Funding, Gone} \cup {InRound(r) : r \in Rounds} \cup {InReady(r) : r \in 0..NumRounds - 1}
At(p) ==
    CASE p.at = "funding" -> 0
      [] p.at = "round" -> 2 * p.round + 1
      [] p.at = "ready_to_reimburse" -> 2 * p.round + 2
      [] p.at = "gone" -> 2 * NumRounds + 3

(* The transactions of a block. *)
BlockTxs ==
    {RoundTx(r) : r \in Rounds} \cup {ReadyToReimburseTx(r) : r \in 0..NumRounds - 1}
    \cup {Tx("exit", p, Gone, S) : p \in Places \ {Gone}, S \in SUBSET Kickoffs}
    \cup {KickoffTx(k) : k \in Kickoffs} \cup {LookalikeTx(k) : k \in Kickoffs}
    \cup {BurnTx(S) : S \in SUBSET Kickoffs} \cup {FinalizerTx(k) : k \in Kickoffs}

Moves(tx) == tx.type \in {"round", "ready_to_reimburse", "exit"}
Uses(tx, k) == k \in tx.kickoffs /\ tx.type # "finalizer"

ChainInv ==
    /\ collateral \in Places /\ mined \in 0..NumRounds + 1
    /\ collateral = Funding => mined = 0
    /\ collateral.at \in {"round", "ready_to_reimburse"} => mined = collateral.round + 1
    /\ spent \subseteq {k \in Kickoffs : k[1] < mined}
    /\ finalized \subseteq finalizers /\ finalizers \subseteq spent
    /\ spentInRound \in [0..NumRounds - 1 -> SUBSET Kickoffs]
    /\ \A r \in 0..NumRounds - 1 : \A k \in spentInRound[r] : k \in spent /\ k[1] = r
    /\ faults \in Nat

(* The block follows the collateral. *)
BlockMoves(co, blk) ==
    \A n \in DOMAIN blk : Moves(blk[n]) =>
        /\ At(blk[n].from) < At(co)
        /\ blk[n].to = co \/ \E j \in DOMAIN blk : Moves(blk[j]) /\ blk[j].from = blk[n].to
        /\ \A j \in DOMAIN blk : Moves(blk[j]) /\ blk[j].from = blk[n].from => j = n

(* What is spent in the block. *)
BlockSpends(sp, fz, fd, blk) ==
    \A n \in DOMAIN blk : \A k \in blk[n].kickoffs :
        IF blk[n].type = "finalizer" THEN k \in fd
        ELSE k \in sp /\ (k \in fz <=> blk[n].type \in {"kickoff", "lookalike"})

(* What happened in a round that begins in the block is in the block. *)
BlockBegins(sp, fd, blk) ==
    \A n \in DOMAIN blk : blk[n].type = "round" =>
        /\ \A k \in sp : k[1] = blk[n].to.round => \E j \in DOMAIN blk : Uses(blk[j], k)
        /\ \A k \in fd : k[1] = blk[n].to.round => \E j \in DOMAIN blk : blk[j] = FinalizerTx(k)

(* The end of a round. *)
Ends(tx, r) == Moves(tx) /\ tx.from = InRound(r)

BlockEnds(sir, blk) ==
    \A r \in 0..NumRounds - 1 : \A n \in DOMAIN blk : Ends(blk[n], r) =>
        /\ \A p \in DOMAIN blk : \A k \in blk[p].kickoffs :
              p <= n /\ k[1] = r /\ blk[p].type # "finalizer" => k \in sir[r]
        /\ (\E q \in DOMAIN blk : blk[q] = RoundTx(r)) =>
              \A k \in sir[r] : \E p \in DOMAIN blk : p <= n /\ Uses(blk[p], k)

BlockInv ==
    /\ block \in Seq(BlockTxs)
    /\ BlockMoves(collateral, block)
    /\ BlockSpends(spent, finalizers, finalized, block)
    /\ BlockBegins(spent, finalized, block)
    /\ BlockEnds(spentInRound, block)

(* In a round with kickoffs. *)
InKickoffs(m) == m.state = "round_tx" /\ m.round < NumRounds
OfRound(m, i) == <<m.round, i>>

Fits(m) ==
    /\ m.state \in {"initial_collateral", "operator_exit"} => m.round = 0
    /\ m.state = "ready_to_reimburse" => m.round < NumRounds
    /\ ~InKickoffs(m) => m.matchers = EntryMatchers(m.state, m.round)
    /\ InKickoffs(m) =>
          /\ ReadyToReimburseSent(m.round) \in m.matchers /\ OperatorExit(m.round) \in m.matchers
          /\ \A i \in KickoffIdx : i \in m.used_kickoffs \/ KickoffUtxoUsed(m.round, i) \in m.matchers
          /\ m.matchers \subseteq EntryMatchers("round_tx", m.round)
                                  \cup {KickoffFinalizerSpent(m.round, i) : i \in KickoffIdx}

(* The machine is where the collateral was, and the block says where it went. *)
Follows(m, co, blk) ==
    /\ At(Place(m)) <= At(co)
    /\ \/ Place(m) = co
       \/ m.state = "round_tx" /\ m.round = NumRounds
       \/ \E n \in DOMAIN blk : Moves(blk[n]) /\ blk[n].from = Place(m)

UsedSound(m, sp, fz, fd) ==
    InKickoffs(m) =>
        /\ m.possible_kickoffs \subseteq m.used_kickoffs
        /\ \A i \in m.used_kickoffs : OfRound(m, i) \in sp /\ (OfRound(m, i) \in fz <=> i \in m.possible_kickoffs)
        /\ \A i \in m.kickoff_finalizers_spent : OfRound(m, i) \in fd

(* Everything used in the round is recorded, or still in the block. *)
UsedComplete(m, sp, blk) ==
    InKickoffs(m) =>
        \A i \in KickoffIdx : OfRound(m, i) \in sp =>
            i \in m.used_kickoffs \/ \E n \in DOMAIN blk : Uses(blk[n], OfRound(m, i))

(* When the round ends, what was used is what was spent in it. *)
UsedAtEnd(m, sir, blk) ==
    InKickoffs(m) =>
        \A n \in DOMAIN blk : Ends(blk[n], m.round) =>
            \A i \in KickoffIdx :
                /\ i \in m.used_kickoffs => OfRound(m, i) \in sir[m.round]
                /\ OfRound(m, i) \in sir[m.round] =>
                      i \in m.used_kickoffs \/ \E p \in DOMAIN blk : p <= n /\ Uses(blk[p], OfRound(m, i))

(* What the machine has reported. *)
Reports(m, D) ==
    InKickoffs(m) =>
        /\ \A i \in m.used_kickoffs : CheckIfKickoff(m.round, i) \in D
        /\ m.used_kickoffs = KickoffIdx /\ m.possible_kickoffs \subseteq m.kickoff_finalizers_spent
              => QueueReadyToReimburse(m.round) \in D

(* ... and nothing of a round that it is not in yet. *)
ReportsNoMore(m, D) ==
    /\ \A r \in 0..NumRounds - 1 : \A i \in KickoffIdx : CheckIfKickoff(r, i) \in D =>
          /\ At(InRound(r)) <= At(Place(m))
          /\ Place(m) = InRound(r) => i \in m.used_kickoffs
    /\ \A d \in D : d.duty = "NewReadyToReimburse" => At(InRound(d.round)) < At(Place(m))

Duties(D) ==
    \A d \in D :
        /\ d.duty \in {"NewReadyToReimburse", "CheckIfKickoff", "QueueReadyToReimburse"}
        /\ d.round \in 0..NumRounds - 1
        /\ d.kickoffs \subseteq KickoffIdx

EndsReported(D, sir) ==
    \A d \in D : d.duty = "NewReadyToReimburse" =>
        /\ {<<d.round, i>> : i \in d.kickoffs} = sir[d.round]
        /\ \A i \in KickoffIdx : CheckIfKickoff(d.round, i) \in D <=> i \in d.kickoffs

QueueGood(D, sp, fz, fd) ==
    \A r \in 0..NumRounds - 1 : QueueReadyToReimburse(r) \in D =>
        /\ \A i \in KickoffIdx : <<r, i>> \in sp
        /\ {k \in fz : k[1] = r} \subseteq fd

MachineInv(m, D) ==
    /\ m \in MachineType
    /\ Fits(m)
    /\ Follows(m, collateral, block)
    /\ UsedSound(m, spent, finalizers, finalized)
    /\ UsedComplete(m, spent, block)
    /\ UsedAtEnd(m, spentInRound, block)
    /\ Reports(m, D)
    /\ ReportsNoMore(m, D)
    /\ Duties(D)
    /\ EndsReported(D, spentInRound)
    /\ QueueGood(D, spent, finalizers, finalized)

(* Without a reload the finalizers of all possible kickoffs are followed. *)
FinalizersFollowed(m, fd, blk) ==
    InKickoffs(m) =>
        /\ \A i \in m.possible_kickoffs :
              i \in m.kickoff_finalizers_spent \/ KickoffFinalizerSpent(m.round, i) \in m.matchers
        /\ \A i \in KickoffIdx : OfRound(m, i) \in fd =>
              i \in m.kickoff_finalizers_spent \/ \E n \in DOMAIN blk : blk[n] = FinalizerTx(OfRound(m, i))

SavedInv ==
    /\ pc \in {"mining", "processing"}
    /\ row.dirty = TRUE
    /\ machine.dirty = FALSE => machine = [row EXCEPT !.dirty = FALSE]
    /\ pc = "mining" => pending = {}
    /\ faults = 0 => FinalizersFollowed(machine, finalized, block)

Inv ==
    /\ ChainInv
    /\ BlockInv
    /\ SavedInv
    /\ MachineInv(machine, duties \cup pending)
    /\ MachineInv(row, duties)

-----------------------------------------------------------------------------
(* Places and transactions. *)
LEMMA PlaceFields ==
    /\ Funding.at = "funding" /\ Funding.round = 0 /\ Gone.at = "gone" /\ Gone.round = 0
    /\ \A r : /\ InRound(r).at = "round" /\ InRound(r).round = r
              /\ InReady(r).at = "ready_to_reimburse" /\ InReady(r).round = r
  BY DEF Funding, Gone, InRound, InReady

LEMMA AtPlaces ==
    /\ At(Funding) = 0 /\ At(Gone) = 2 * NumRounds + 3
    /\ \A r : At(InRound(r)) = 2 * r + 1 /\ At(InReady(r)) = 2 * r + 2
  BY PlaceFields DEF At

(* No place is visited twice. *)
LEMMA AtInjective ==
    ASSUME NEW p \in Places, NEW q \in Places
    PROVE  /\ At(p) \in Int /\ At(p) <= At(Gone)
           /\ At(p) = At(q) => p = q
<1>1. NumRounds \in Nat
  BY RoundAssumption
<1>2. ASSUME NEW s \in Places
      PROVE  /\ \/ s = Funding \/ s = Gone
                \/ \E r \in 0..NumRounds : s = InRound(r)
                \/ \E r \in 0..NumRounds - 1 : s = InReady(r)
             /\ At(s) \in Int /\ At(s) <= At(Gone)
  <2>1. \/ s = Funding \/ s = Gone
        \/ \E r \in 0..NumRounds : s = InRound(r)
        \/ \E r \in 0..NumRounds - 1 : s = InReady(r)
    BY DEF Places, Rounds
  <2>2. At(s) \in Int /\ At(s) <= At(Gone)
    BY <1>1, <2>1, AtPlaces
  <2> QED BY <2>1, <2>2
<1>3. At(p) = At(q) => p = q
  <2>1. \/ p = Funding \/ p = Gone
        \/ \E r \in 0..NumRounds : p = InRound(r)
        \/ \E r \in 0..NumRounds - 1 : p = InReady(r)
    BY <1>2
  <2>2. \/ q = Funding \/ q = Gone
        \/ \E r \in 0..NumRounds : q = InRound(r)
        \/ \E r \in 0..NumRounds - 1 : q = InReady(r)
    BY <1>2
  <2> QED BY <1>1, <2>1, <2>2, AtPlaces
<1> QED BY <1>2, <1>3

LEMMA TxFields ==
    /\ \A r : /\ RoundTx(r).type = "round" /\ RoundTx(r).to = InRound(r) /\ RoundTx(r).kickoffs = {}
              /\ RoundTx(r).from = IF r = 0 THEN Funding ELSE InReady(r - 1)
              /\ ReadyToReimburseTx(r).type = "ready_to_reimburse"
              /\ ReadyToReimburseTx(r).from = InRound(r) /\ ReadyToReimburseTx(r).to = InReady(r)
              /\ ReadyToReimburseTx(r).kickoffs = {}
    /\ \A p, S : /\ Tx("exit", p, Gone, S).type = "exit" /\ Tx("exit", p, Gone, S).from = p
                 /\ Tx("exit", p, Gone, S).to = Gone /\ Tx("exit", p, Gone, S).kickoffs = S
    /\ \A k : /\ KickoffTx(k).type = "kickoff" /\ KickoffTx(k).kickoffs = {k}
              /\ LookalikeTx(k).type = "lookalike" /\ LookalikeTx(k).kickoffs = {k}
              /\ FinalizerTx(k).type = "finalizer" /\ FinalizerTx(k).kickoffs = {k}
    /\ \A S : BurnTx(S).type = "burn" /\ BurnTx(S).kickoffs = S
  BY DEF RoundTx, ReadyToReimburseTx, KickoffTx, LookalikeTx, FinalizerTx, BurnTx, Tx

(* A transaction that moves the collateral moves it forward. *)
LEMMA TxCases ==
    ASSUME NEW tx \in BlockTxs
    PROVE  /\ tx.kickoffs \subseteq Kickoffs
           /\ tx.type \in {"round", "ready_to_reimburse", "exit", "kickoff", "lookalike", "burn", "finalizer"}
           /\ Moves(tx) => /\ tx.from \in Places /\ tx.to \in Places
                           /\ At(tx.from) < At(tx.to)
           /\ tx.type = "round" => \E r \in Rounds : tx = RoundTx(r)
           /\ tx.type = "ready_to_reimburse" => \E r \in 0..NumRounds - 1 : tx = ReadyToReimburseTx(r)
           /\ tx.type = "exit" => tx.to = Gone /\ tx.from # Gone
           /\ tx.type = "finalizer" => \E k \in Kickoffs : tx = FinalizerTx(k)
<1>1. NumRounds \in Nat \ {0}
  BY RoundAssumption
<1>2. /\ Funding \in Places /\ Gone \in Places
      /\ \A r \in Rounds : InRound(r) \in Places
      /\ \A r \in 0..NumRounds - 1 : InReady(r) \in Places
  BY DEF Places
<1>3. CASE \E r \in Rounds : tx = RoundTx(r)
  <2>1. PICK r \in Rounds : tx = RoundTx(r)
    BY <1>3
  <2>2. r \in Int /\ r >= 0 /\ (r # 0 => r - 1 \in 0..NumRounds - 1)
    BY <1>1 DEF Rounds
  <2>3. tx.to = InRound(r) /\ tx.from = IF r = 0 THEN Funding ELSE InReady(r - 1)
    BY <2>1, TxFields
  <2>4. tx.from \in Places /\ tx.to \in Places
    BY <1>2, <2>2, <2>3
  <2>5. CASE r = 0
    BY <2>1, <2>3, <2>4, <2>5, TxFields, AtPlaces
  <2>6. CASE r # 0
    <3>1. At(InReady(r - 1)) = 2 * (r - 1) + 2 /\ At(InRound(r)) = 2 * r + 1
      BY AtPlaces
    <3>2. At(tx.from) < At(tx.to)
      BY <2>2, <2>3, <2>6, <3>1
    <3> QED BY <2>1, <2>4, <3>2, TxFields
  <2> QED BY <2>5, <2>6
<1>4. CASE \E r \in 0..NumRounds - 1 : tx = ReadyToReimburseTx(r)
  <2>1. PICK r \in 0..NumRounds - 1 : tx = ReadyToReimburseTx(r)
    BY <1>4
  <2>2. r \in Int /\ r \in Rounds
    BY <1>1 DEF Rounds
  <2>3. tx.from \in Places /\ tx.to \in Places /\ At(tx.from) < At(tx.to)
    BY <1>2, <2>1, <2>2, TxFields, AtPlaces
  <2> QED BY <2>1, <2>3, TxFields
<1>5. CASE \E p \in Places \ {Gone}, S \in SUBSET Kickoffs : tx = Tx("exit", p, Gone, S)
  <2>1. PICK p \in Places \ {Gone}, S \in SUBSET Kickoffs : tx = Tx("exit", p, Gone, S)
    BY <1>5
  <2>2. At(p) < At(Gone)
    <3>1. At(p) \in Int /\ At(p) <= At(Gone) /\ At(p) # At(Gone)
      BY <1>2, AtInjective
    <3> QED BY <1>1, <3>1, AtPlaces
  <2> QED BY <1>2, <2>1, <2>2, TxFields
<1>6. CASE \/ \E k \in Kickoffs : tx \in {KickoffTx(k), LookalikeTx(k), FinalizerTx(k)}
           \/ \E S \in SUBSET Kickoffs : tx = BurnTx(S)
  BY <1>6, TxFields DEF Moves
<1> QED BY <1>3, <1>4, <1>5, <1>6 DEF BlockTxs

LEMMA EventFields ==
    \A r, i : /\ KickoffUtxoUsed(r, i).event = "KickoffUtxoUsed"
              /\ KickoffUtxoUsed(r, i).round = r /\ KickoffUtxoUsed(r, i).kickoff = i
              /\ KickoffFinalizerSpent(r, i).event = "KickoffFinalizerSpent"
              /\ KickoffFinalizerSpent(r, i).round = r /\ KickoffFinalizerSpent(r, i).kickoff = i
              /\ ReadyToReimburseSent(r).event = "ReadyToReimburseSent" /\ ReadyToReimburseSent(r).round = r
              /\ RoundSent(r).event = "RoundSent" /\ RoundSent(r).round = r
              /\ OperatorExit(r).event = "OperatorExit" /\ OperatorExit(r).round = r
  BY DEF KickoffUtxoUsed, KickoffFinalizerSpent, ReadyToReimburseSent, RoundSent, OperatorExit, Event

LEMMA DutyFields ==
    /\ \A r, i : /\ CheckIfKickoff(r, i).duty = "CheckIfKickoff"
                 /\ CheckIfKickoff(r, i).round = r /\ CheckIfKickoff(r, i).kickoffs = {i}
    /\ \A r : /\ QueueReadyToReimburse(r).duty = "QueueReadyToReimburse"
              /\ QueueReadyToReimburse(r).round = r /\ QueueReadyToReimburse(r).kickoffs = {}
    /\ \A r, S : /\ NewReadyToReimburse(r, S).duty = "NewReadyToReimburse"
                 /\ NewReadyToReimburse(r, S).round = r /\ NewReadyToReimburse(r, S).kickoffs = S
  BY DEF CheckIfKickoff, QueueReadyToReimburse, NewReadyToReimburse, Duty

(* The matchers that a state starts with. *)
LEMMA EntryFacts ==
    \A r : /\ EntryMatchers("initial_collateral", r) = {RoundSent(0), OperatorExit(0)}
           /\ EntryMatchers("ready_to_reimburse", r) = {RoundSent(r + 1), OperatorExit(r)}
           /\ EntryMatchers("operator_exit", r) = {}
           /\ EntryMatchers("round_tx", NumRounds) = {}
           /\ r # NumRounds => EntryMatchers("round_tx", r) =
                 {ReadyToReimburseSent(r), OperatorExit(r)} \cup {KickoffUtxoUsed(r, i) : i \in KickoffIdx}
  BY DEF EntryMatchers

(* Where the machine is. *)
LEMMA PlaceOf ==
    ASSUME NEW m \in MachineType, Fits(m)
    PROVE  /\ Place(m) \in Places
           /\ m.state = "initial_collateral" => Place(m) = Funding
           /\ m.state = "round_tx" => Place(m) = InRound(m.round)
           /\ m.state = "ready_to_reimburse" => Place(m) = InReady(m.round)
           /\ m.state = "operator_exit" => Place(m) = Gone
           /\ \A r : Place(m) = InRound(r) <=> m.state = "round_tx" /\ m.round = r
<1>1. m.state \in States /\ m.round \in Rounds
  BY DEF MachineType
<1>2. /\ m.state = "initial_collateral" => Place(m) = Funding
      /\ m.state = "round_tx" => Place(m) = InRound(m.round)
      /\ m.state = "ready_to_reimburse" => Place(m) = InReady(m.round)
      /\ m.state = "operator_exit" => Place(m) = Gone
  BY DEF Place
<1>3. m.state = "ready_to_reimburse" => m.round \in 0..NumRounds - 1
  BY <1>1, RoundAssumption DEF Fits, Rounds
<1>4. Place(m) \in Places
  BY <1>1, <1>2, <1>3 DEF Places, States
<1>5. \A r : Place(m) = InRound(r) <=> m.state = "round_tx" /\ m.round = r
  BY <1>1, <1>2, PlaceFields DEF States
<1> QED BY <1>2, <1>4, <1>5

(* What the matchers match. *)
LEMMA MatchFacts ==
    ASSUME BlockInv, NEW r, NEW i
    PROVE  /\ MatchesAt(KickoffUtxoUsed(r, i)) = {n \in DOMAIN block : Uses(block[n], <<r, i>>)}
           /\ MatchesAt(ReadyToReimburseSent(r)) = {n \in DOMAIN block : block[n] = ReadyToReimburseTx(r)}
           /\ MatchesAt(RoundSent(r)) = {n \in DOMAIN block : block[n] = RoundTx(r)}
           /\ MatchesAt(OperatorExit(r)) =
                 {n \in DOMAIN block : block[n].type = "exit" /\ block[n].from = Place(machine)}
           /\ MatchesAt(KickoffFinalizerSpent(r, i)) = {n \in DOMAIN block : block[n] = FinalizerTx(<<r, i>>)}
<1>1. 1..Len(block) = DOMAIN block
  BY DEF BlockInv
<1> DEFINE c == KickoffUtxoUsed(r, i)
           a == ReadyToReimburseSent(r)
           b == RoundSent(r)
           x == OperatorExit(r)
           f == KickoffFinalizerSpent(r, i)
<1>2. /\ c.event = "KickoffUtxoUsed" /\ c.round = r /\ c.kickoff = i
      /\ a.event = "ReadyToReimburseSent" /\ a.round = r
      /\ b.event = "RoundSent" /\ b.round = r
      /\ x.event = "OperatorExit"
      /\ f.event = "KickoffFinalizerSpent" /\ f.round = r /\ f.kickoff = i
  BY EventFields
<1> HIDE DEF c, a, b, x, f
<1>3. MatchesAt(c) = {n \in DOMAIN block : Uses(block[n], <<r, i>>)}
  BY <1>1, <1>2 DEF MatchesAt, Uses
<1>4. MatchesAt(a) = {n \in DOMAIN block : block[n] = ReadyToReimburseTx(r)}
  BY <1>1, <1>2 DEF MatchesAt
<1>5. MatchesAt(b) = {n \in DOMAIN block : block[n] = RoundTx(r)}
  BY <1>1, <1>2 DEF MatchesAt
<1>6. MatchesAt(x) = {n \in DOMAIN block : block[n].type = "exit" /\ block[n].from = Place(machine)}
  BY <1>1, <1>2 DEF MatchesAt
<1>7. MatchesAt(f) = {n \in DOMAIN block : block[n] = FinalizerTx(<<r, i>>)}
  BY <1>1, <1>2 DEF MatchesAt
<1> QED BY <1>3, <1>4, <1>5, <1>6, <1>7 DEF c, a, b, x, f

-----------------------------------------------------------------------------
(* Mining. *)

(* The block b is blk with the transaction tx at its end l. *)
Appended(blk, b, l, tx) ==
    /\ \A n \in DOMAIN blk : n \in DOMAIN b /\ b[n] = blk[n] /\ n < l
    /\ l \in DOMAIN b /\ b[l] = tx
    /\ \A n \in DOMAIN b : n \in DOMAIN blk \/ n = l
    /\ \A n \in DOMAIN b : n \in Int
    /\ \A n \in DOMAIN b : b[n] \in BlockTxs

LEMMA AppendBlock ==
    ASSUME BlockInv, NEW tx \in BlockTxs, block' = Append(block, tx)
    PROVE  Appended(block, block', Len(block) + 1, tx) /\ block' \in Seq(BlockTxs)
<1>1. block \in Seq(BlockTxs)
  BY DEF BlockInv
<1>2. block' \in Seq(BlockTxs) /\ Len(block') = Len(block) + 1 /\ Len(block) \in Nat
  BY <1>1
<1>3. \A n \in DOMAIN block : n \in DOMAIN block' /\ block'[n] = block[n] /\ n < Len(block) + 1
  BY <1>1
<1>4. Len(block) + 1 \in DOMAIN block' /\ block'[Len(block) + 1] = tx
  BY <1>1
<1>5. \A n \in DOMAIN block' : n \in DOMAIN block \/ n = Len(block) + 1
  BY <1>1
<1>6. \A n \in DOMAIN block' : n \in Int /\ block'[n] \in BlockTxs
  BY <1>2
<1> QED BY <1>2, <1>3, <1>4, <1>5, <1>6 DEF Appended

(* A transaction that leaves the collateral alone. *)
LEMMA MovesStay ==
    ASSUME NEW blk, NEW b, NEW l, NEW tx, Appended(blk, b, l, tx), ~Moves(tx),
           NEW co, BlockMoves(co, blk)
    PROVE  BlockMoves(co, b)
  BY DEF Appended, BlockMoves

(* One that moves it. *)
LEMMA MovesOn ==
    ASSUME NEW blk, NEW b, NEW l, NEW tx \in BlockTxs, Appended(blk, b, l, tx), Moves(tx),
           BlockMoves(tx.from, blk)
    PROVE  BlockMoves(tx.to, b)
<1>1. /\ tx.from \in Places /\ tx.to \in Places /\ At(tx.from) < At(tx.to)
      /\ At(tx.from) \in Int /\ At(tx.to) \in Int
  BY TxCases, AtInjective
<1>2. \A n \in DOMAIN blk : Moves(blk[n]) => At(blk[n].from) \in Int /\ At(blk[n].from) < At(tx.from)
  <2>1. \A n \in DOMAIN blk : blk[n] \in BlockTxs
    BY DEF Appended
  <2>2. \A n \in DOMAIN blk : Moves(blk[n]) => At(blk[n].from) \in Int
    BY <2>1, TxCases, AtInjective
  <2> QED BY <2>2 DEF BlockMoves
<1>3. ASSUME NEW n \in DOMAIN b, Moves(b[n])
      PROVE  At(b[n].from) < At(tx.to)
  <2>1. CASE n = l
    BY <2>1, <1>1 DEF Appended
  <2>2. CASE n \in DOMAIN blk
    <3>1. b[n] = blk[n]
      BY <2>2 DEF Appended
    <3> QED BY <3>1, <2>2, <1>1, <1>2, <1>3
  <2> QED BY <2>1, <2>2 DEF Appended
<1>4. ASSUME NEW n \in DOMAIN b, Moves(b[n])
      PROVE  b[n].to = tx.to \/ \E j \in DOMAIN b : Moves(b[j]) /\ b[j].from = b[n].to
  <2>1. CASE n = l
    BY <2>1 DEF Appended
  <2>2. CASE n \in DOMAIN blk
    <3>1. b[n] = blk[n] /\ l \in DOMAIN b /\ b[l] = tx /\ (\A j \in DOMAIN blk : j \in DOMAIN b /\ b[j] = blk[j])
      BY <2>2 DEF Appended
    <3>2. blk[n].to = tx.from \/ \E j \in DOMAIN blk : Moves(blk[j]) /\ blk[j].from = blk[n].to
      BY <1>4, <2>2, <3>1 DEF BlockMoves
    <3> QED BY <3>1, <3>2
  <2> QED BY <2>1, <2>2 DEF Appended
<1>5. ASSUME NEW n \in DOMAIN b, Moves(b[n]), NEW j \in DOMAIN b, Moves(b[j]), b[j].from = b[n].from
      PROVE  j = n
  <2>1. CASE n \in DOMAIN blk /\ j \in DOMAIN blk
    BY <1>5, <2>1 DEF Appended, BlockMoves
  <2>2. ASSUME NEW x \in DOMAIN blk, Moves(b[x]) PROVE b[x].from # b[l].from
    <3>1. b[x] = blk[x] /\ b[l] = tx
      BY DEF Appended
    <3> QED BY <3>1, <2>2, <1>1, <1>2
  <2> QED BY <1>5, <2>1, <2>2 DEF Appended
<1> QED BY <1>3, <1>4, <1>5 DEF BlockMoves

(* The kickoff outputs that a transaction spends. *)
UsedBy(tx) == IF tx.type = "finalizer" THEN {} ELSE tx.kickoffs

(* What the three kinds of mining have in common. *)
Mines(tx) ==
    /\ pc = "mining"
    /\ tx \in BlockTxs
    /\ block' = Append(block, tx)
    /\ Moves(tx) => collateral = tx.from /\ collateral' = tx.to
    /\ ~Moves(tx) => collateral' = collateral
    /\ mined' = IF tx.type = "round" THEN tx.to.round + 1 ELSE mined
    /\ UsedBy(tx) \subseteq Unspent
    /\ spent' = spent \cup UsedBy(tx)
    /\ finalizers' = IF tx.type \in {"kickoff", "lookalike"} THEN finalizers \cup tx.kickoffs ELSE finalizers
    /\ tx.type = "finalizer" => tx.kickoffs \subseteq finalizers
    /\ finalized' = IF tx.type = "finalizer" THEN finalized \cup tx.kickoffs ELSE finalized
    /\ spentInRound' \in [0..NumRounds - 1 -> SUBSET Kickoffs]
    /\ \A r \in 0..NumRounds - 1 :
          spentInRound'[r] = IF Ends(tx, r) THEN {k \in spent' : k[1] = r} ELSE spentInRound[r]
    /\ pc' = pc /\ machine' = machine /\ pending' = pending /\ row' = row /\ duties' = duties /\ faults' = faults

LEMMA MineCollateralMines ==
    ASSUME ChainInv, NEW tx \in BlockTxs, Moves(tx), MineCollateral(tx)
    PROVE  Mines(tx)
<1>1. tx.type \in {"round", "ready_to_reimburse", "exit"} /\ tx.from \in Places
  BY TxCases DEF Moves
<1>2. UsedBy(tx) = tx.kickoffs
  BY <1>1 DEF UsedBy
<1>3. spentInRound \in [0..NumRounds - 1 -> SUBSET Kickoffs] /\ spent \subseteq Kickoffs /\ tx.kickoffs \subseteq Kickoffs
  BY TxCases DEF ChainInv
<1>4. spent' = spent \cup tx.kickoffs
  BY DEF MineCollateral
<1>5. \A r : tx.from = InRound(r) <=> tx.from.at = "round" /\ tx.from.round = r
  BY <1>1, PlaceFields DEF Places
<1>6. tx.from.at = "round" => tx.from.round \in Rounds
  BY <1>1, PlaceFields DEF Places
<1>7. /\ spentInRound' \in [0..NumRounds - 1 -> SUBSET Kickoffs]
      /\ \A r \in 0..NumRounds - 1 :
            spentInRound'[r] = IF Ends(tx, r) THEN {k \in spent' : k[1] = r} ELSE spentInRound[r]
  <2>1. CASE tx.from.at = "round" /\ tx.from.round < NumRounds
    <3> DEFINE s == tx.from.round
               S == {k \in spent \cup tx.kickoffs : k[1] = s}
    <3>1. s \in 0..NumRounds - 1
      BY <2>1, <1>6, RoundAssumption DEF Rounds
    <3>2. spentInRound' = [spentInRound EXCEPT ![s] = S]
      BY <2>1 DEF MineCollateral
    <3>3. S \in SUBSET Kickoffs
      BY <1>3
    <3>4. \A r \in 0..NumRounds - 1 : Ends(tx, r) <=> r = s
      BY <2>1, <1>5 DEF Ends
    <3>5. S = {k \in spent' : k[1] = s}
      BY <1>4
    <3> HIDE DEF S
    <3>6. /\ spentInRound' \in [0..NumRounds - 1 -> SUBSET Kickoffs]
          /\ \A r \in 0..NumRounds - 1 : spentInRound'[r] = IF r = s THEN S ELSE spentInRound[r]
      BY <1>3, <3>1, <3>2, <3>3
    <3> HIDE DEF s
    <3> QED BY <3>4, <3>5, <3>6
  <2>2. CASE ~(tx.from.at = "round" /\ tx.from.round < NumRounds)
    <3>1. spentInRound' = spentInRound
      BY <2>2 DEF MineCollateral
    <3>2. \A r \in 0..NumRounds - 1 : ~Ends(tx, r)
      BY <2>2, <1>5, RoundAssumption DEF Ends
    <3> QED BY <1>3, <3>1, <3>2
  <2> QED BY <2>1, <2>2
<1>8. /\ pc = "mining" /\ block' = Append(block, tx)
      /\ pc' = pc /\ machine' = machine /\ pending' = pending /\ row' = row /\ duties' = duties /\ faults' = faults
  BY DEF MineCollateral, Mine
<1>9. /\ collateral = tx.from /\ collateral' = tx.to /\ tx.kickoffs \subseteq Unspent
      /\ mined' = (IF tx.type = "round" THEN tx.to.round + 1 ELSE mined)
      /\ finalizers' = finalizers /\ finalized' = finalized
  BY DEF MineCollateral
<1> QED BY <1>1, <1>2, <1>4, <1>7, <1>8, <1>9 DEF Mines

LEMMA MineKickoffsMines ==
    ASSUME ChainInv, NEW tx \in BlockTxs, tx.type \in {"burn", "kickoff", "lookalike"}, MineKickoffs(tx)
    PROVE  Mines(tx)
<1>1. ~Moves(tx) /\ UsedBy(tx) = tx.kickoffs /\ \A r : ~Ends(tx, r)
  BY DEF Moves, UsedBy, Ends
<1>2. /\ pc = "mining" /\ block' = Append(block, tx)
      /\ pc' = pc /\ machine' = machine /\ pending' = pending /\ row' = row /\ duties' = duties /\ faults' = faults
  BY DEF MineKickoffs, Mine
<1>3. /\ tx.kickoffs \subseteq Unspent /\ spent' = spent \cup tx.kickoffs
      /\ finalizers' = (IF tx.type = "burn" THEN finalizers ELSE finalizers \cup tx.kickoffs)
      /\ collateral' = collateral /\ mined' = mined /\ finalized' = finalized /\ spentInRound' = spentInRound
  BY DEF MineKickoffs
<1>4. spentInRound \in [0..NumRounds - 1 -> SUBSET Kickoffs]
  BY DEF ChainInv
<1> QED BY <1>1, <1>2, <1>3, <1>4 DEF Mines

LEMMA MineFinalizerMines ==
    ASSUME ChainInv, NEW k \in finalizers, MineFinalizer(k)
    PROVE  Mines(FinalizerTx(k))
<1> DEFINE tx == FinalizerTx(k)
<1>1. tx.type = "finalizer" /\ tx.kickoffs = {k}
  BY TxFields
<1>2. tx \in BlockTxs
  BY DEF ChainInv, BlockTxs
<1>3. /\ pc = "mining" /\ block' = Append(block, tx)
      /\ pc' = pc /\ machine' = machine /\ pending' = pending /\ row' = row /\ duties' = duties /\ faults' = faults
  BY DEF MineFinalizer, Mine
<1>4. /\ finalized' = finalized \cup {k} /\ spent' = spent /\ finalizers' = finalizers
      /\ collateral' = collateral /\ mined' = mined /\ spentInRound' = spentInRound
  BY DEF MineFinalizer
<1> HIDE DEF tx
<1>5. ~Moves(tx) /\ UsedBy(tx) = {} /\ \A r : ~Ends(tx, r)
  BY <1>1 DEF Moves, UsedBy, Ends
<1>6. spentInRound \in [0..NumRounds - 1 -> SUBSET Kickoffs]
  BY DEF ChainInv
<1>7. Mines(tx)
  BY <1>1, <1>2, <1>3, <1>4, <1>5, <1>6 DEF Mines
<1> QED BY <1>7 DEF tx

(* The chain stays in order. *)
LEMMA MinesChain ==
    ASSUME Inv, NEW tx, Mines(tx)
    PROVE  /\ ChainInv'
           /\ tx.type = "round" => \A k \in spent' : k[1] # tx.to.round
<1>1. ChainInv /\ tx \in BlockTxs /\ NumRounds \in Nat
  BY RoundAssumption DEF Inv, Mines
<1>2. /\ tx.type = "round" => \E r \in Rounds : tx = RoundTx(r)
      /\ tx.type = "ready_to_reimburse" => \E r \in 0..NumRounds - 1 : tx = ReadyToReimburseTx(r)
      /\ tx.type = "exit" => tx.to = Gone
      /\ Moves(tx) => tx.to \in Places
  BY <1>1, TxCases
<1>3. CASE tx.type = "round"
  <2>1. PICK r \in Rounds : tx = RoundTx(r)
    BY <1>2, <1>3
  <2>2. /\ tx.to = InRound(r) /\ tx.from = (IF r = 0 THEN Funding ELSE InReady(r - 1)) /\ tx.kickoffs = {}
        /\ Moves(tx)
    BY <2>1, TxFields DEF Moves
  <2>3. r \in Int /\ r >= 0 /\ r <= NumRounds
    BY <1>1 DEF Rounds
  <2>4. mined = r
    <3>1. collateral = tx.from
      BY <2>2 DEF Mines
    <3>2. CASE r = 0
      BY <1>1, <2>2, <3>1, <3>2 DEF ChainInv
    <3>3. CASE r # 0
      <4>1. collateral.at = "ready_to_reimburse" /\ collateral.round = r - 1
        BY <2>2, <3>1, <3>3, PlaceFields
      <4>2. mined = (r - 1) + 1
        BY <1>1, <4>1 DEF ChainInv
      <4> QED BY <2>3, <4>2
    <3> QED BY <3>2, <3>3
  <2>5. /\ collateral' = InRound(r) /\ mined' = r + 1 /\ spent' = spent
        /\ collateral'.at = "round" /\ collateral'.round = r
    BY <1>3, <2>2, PlaceFields DEF Mines, UsedBy
  <2>6. \A k \in spent : k[1] \in Int /\ k[1] < r
    BY <1>1, <2>3, <2>4 DEF ChainInv, Kickoffs
  <2>7. \A k \in spent' : k[1] # tx.to.round
    BY <2>2, <2>3, <2>5, <2>6, PlaceFields
  <2>8. spent' \subseteq {k \in Kickoffs : k[1] < mined'}
    BY <1>1, <2>3, <2>5, <2>6 DEF ChainInv
  <2>9. \A s \in 0..NumRounds - 1 : ~Ends(tx, s)
    BY <2>2, PlaceFields DEF Ends
  <2>10. \A s \in 0..NumRounds - 1 : \A k \in spentInRound'[s] : k \in spent' /\ k[1] = s
    BY <1>1, <2>5, <2>9 DEF Mines, ChainInv
  <2>11. /\ collateral' \in Places /\ mined' \in 0..NumRounds + 1 /\ collateral' # Funding
         /\ mined' = collateral'.round + 1
    BY <1>1, <1>2, <2>2, <2>3, <2>5, PlaceFields
  <2>12. finalized' = finalized /\ finalizers' = finalizers /\ faults' = faults
    BY <1>3 DEF Mines
  <2> QED BY <1>1, <2>5, <2>7, <2>8, <2>10, <2>11, <2>12 DEF ChainInv, Mines
<1>4. CASE tx.type # "round"
  <2>1. mined' = mined /\ faults' = faults
    BY <1>4 DEF Mines
  <2>2. UsedBy(tx) \subseteq {k \in Kickoffs : k[1] < mined}
    BY DEF Mines, Unspent
  <2>3. spent' \subseteq {k \in Kickoffs : k[1] < mined'}
    BY <1>1, <2>1, <2>2 DEF Mines, ChainInv
  <2>4. finalized' \subseteq finalizers' /\ finalizers' \subseteq spent'
    BY <1>1 DEF Mines, ChainInv, UsedBy
  <2>5. \A s \in 0..NumRounds - 1 : \A k \in spentInRound'[s] : k \in spent' /\ k[1] = s
    BY <1>1 DEF Mines, ChainInv
  <2>6. /\ collateral' \in Places
        /\ collateral' = Funding => mined = 0
        /\ collateral'.at \in {"round", "ready_to_reimburse"} => mined = collateral'.round + 1
    <3>1. CASE ~Moves(tx)
      BY <1>1, <3>1 DEF Mines, ChainInv
    <3>2. CASE tx.type = "exit"
      BY <1>2, <3>2, PlaceFields DEF Mines, Moves
    <3>3. CASE tx.type = "ready_to_reimburse"
      <4>1. PICK r \in 0..NumRounds - 1 : tx = ReadyToReimburseTx(r)
        BY <1>2, <3>3
      <4>2. collateral = InRound(r) /\ collateral' = InReady(r) /\ collateral' \in Places
        BY <1>2, <3>3, <4>1, TxFields DEF Mines, Moves
      <4> QED BY <1>1, <4>2, PlaceFields DEF ChainInv
    <3> QED BY <1>4, <3>1, <3>2, <3>3 DEF Moves
  <2> QED BY <1>1, <1>4, <2>1, <2>3, <2>4, <2>5, <2>6 DEF ChainInv, Mines
<1> QED BY <1>3, <1>4

LEMMA MinesBlock ==
    ASSUME Inv, NEW tx, Mines(tx)
    PROVE  BlockInv'
<1> DEFINE l == Len(block) + 1
<1>1. tx \in BlockTxs /\ BlockInv /\ ChainInv
  BY DEF Inv, Mines
<1>2. Appended(block, block', l, tx) /\ block' \in Seq(BlockTxs)
  BY <1>1, AppendBlock DEF Mines
<1> HIDE DEF l
<1>3. /\ \A n \in DOMAIN block : n \in DOMAIN block' /\ block'[n] = block[n] /\ n < l
      /\ l \in DOMAIN block' /\ block'[l] = tx
      /\ \A n \in DOMAIN block' : n \in DOMAIN block \/ n = l
      /\ \A n \in DOMAIN block' : n \in Int
  BY <1>2 DEF Appended
<1>4. BlockMoves(collateral', block')
  <2>1. BlockMoves(collateral, block)
    BY <1>1 DEF BlockInv
  <2>2. CASE Moves(tx)
    BY <1>1, <1>2, <2>1, <2>2, MovesOn DEF Mines
  <2>3. CASE ~Moves(tx)
    BY <1>2, <2>1, <2>3, MovesStay DEF Mines
  <2> QED BY <2>2, <2>3
<1>5. BlockSpends(spent', finalizers', finalized', block')
  <2>1. ASSUME NEW n \in DOMAIN block', NEW k \in block'[n].kickoffs
        PROVE  IF block'[n].type = "finalizer" THEN k \in finalized'
               ELSE k \in spent' /\ (k \in finalizers' <=> block'[n].type \in {"kickoff", "lookalike"})
    <3>1. CASE n = l
      <4>1. k \in tx.kickoffs /\ block'[n] = tx
        BY <1>3, <2>1, <3>1
      <4>2. CASE tx.type = "finalizer"
        BY <4>1, <4>2 DEF Mines
      <4>3. CASE tx.type # "finalizer"
        <5>1. k \in spent' /\ k \notin spent
          BY <4>1, <4>3 DEF Mines, UsedBy, Unspent
        <5>2. k \notin finalizers
          BY <1>1, <5>1 DEF ChainInv
        <5> QED BY <4>1, <4>3, <5>1, <5>2 DEF Mines
      <4> QED BY <4>2, <4>3
    <3>2. CASE n \in DOMAIN block
      <4>1. /\ block'[n] = block[n]
            /\ IF block[n].type = "finalizer" THEN k \in finalized
               ELSE k \in spent /\ (k \in finalizers <=> block[n].type \in {"kickoff", "lookalike"})
        BY <1>1, <1>3, <2>1, <3>2 DEF BlockInv, BlockSpends
      <4>2. k \in spent => (k \in finalizers' <=> k \in finalizers)
        BY DEF Mines, UsedBy, Unspent
      <4> QED BY <4>1, <4>2 DEF Mines
    <3> QED BY <1>3, <3>1, <3>2
  <2> QED BY <2>1 DEF BlockSpends
<1>6. BlockBegins(spent', finalized', block')
  <2>1. ASSUME NEW n \in DOMAIN block', block'[n].type = "round", NEW k \in spent', k[1] = block'[n].to.round
        PROVE  \E j \in DOMAIN block' : Uses(block'[j], k)
    <3>1. n # l
      BY <1>3, <2>1, MinesChain
    <3>2. block'[n] = block[n] /\ n \in DOMAIN block
      BY <1>3, <3>1
    <3>3. CASE k \in spent
      BY <1>1, <1>3, <2>1, <3>2, <3>3 DEF BlockInv, BlockBegins
    <3>4. CASE k \notin spent
      BY <1>3, <3>4 DEF Mines, UsedBy, Uses
    <3> QED BY <3>3, <3>4
  <2>2. ASSUME NEW n \in DOMAIN block', block'[n].type = "round", NEW k \in finalized', k[1] = block'[n].to.round
        PROVE  \E j \in DOMAIN block' : block'[j] = FinalizerTx(k)
    <3>1. CASE k \notin finalized
      <4>1. tx.type = "finalizer" /\ k \in tx.kickoffs
        BY <3>1 DEF Mines
      <4>2. tx = FinalizerTx(k)
        BY <1>1, <4>1, TxCases, TxFields
      <4> QED BY <1>3, <4>2
    <3>2. CASE k \in finalized
      <4>1. k \in spent'
        BY <1>1, <3>2 DEF ChainInv, Mines
      <4>2. n # l
        BY <1>3, <2>2, <4>1, MinesChain
      <4>3. block'[n] = block[n] /\ n \in DOMAIN block
        BY <1>3, <4>2
      <4> QED BY <1>1, <1>3, <2>2, <3>2, <4>3 DEF BlockInv, BlockBegins
    <3> QED BY <3>1, <3>2
  <2> QED BY <2>1, <2>2 DEF BlockBegins
<1>7. BlockEnds(spentInRound', block')
  <2>1. \A r \in 0..NumRounds - 1 :
           spentInRound'[r] = IF Ends(tx, r) THEN {k \in spent' : k[1] = r} ELSE spentInRound[r]
    BY DEF Mines
  <2>2. ASSUME NEW r \in 0..NumRounds - 1, NEW n \in DOMAIN block', Ends(block'[n], r),
               NEW p \in DOMAIN block', NEW k \in block'[p].kickoffs,
               p <= n, k[1] = r, block'[p].type # "finalizer"
        PROVE  k \in spentInRound'[r]
    <3>1. CASE n = l
      <4>1. k \in spent'
        BY <1>5, <2>2 DEF BlockSpends
      <4> QED BY <1>3, <2>1, <2>2, <3>1, <4>1
    <3>2. CASE n # l
      <4>1. /\ n \in DOMAIN block /\ block'[n] = block[n] /\ n < l
            /\ p \in DOMAIN block /\ block'[p] = block[p]
        <5>1. n \in DOMAIN block /\ block'[n] = block[n] /\ n < l /\ n \in Int /\ l \in Int /\ p \in Int
          BY <1>3, <3>2
        <5>2. p # l
          BY <5>1, <2>2
        <5> QED BY <1>3, <5>1, <5>2
      <4>2. k \in spentInRound[r]
        BY <1>1, <2>2, <4>1 DEF BlockInv, BlockEnds
      <4>3. ~Ends(tx, r)
        <5>1. Ends(block'[l], r) => l = n
          BY <1>3, <1>4, <2>2 DEF BlockMoves, Ends
        <5> QED BY <1>3, <3>2, <5>1
      <4> QED BY <2>1, <4>2, <4>3
    <3> QED BY <3>1, <3>2
  <2>3. ASSUME NEW r \in 0..NumRounds - 1, NEW n \in DOMAIN block', Ends(block'[n], r),
               NEW q \in DOMAIN block', block'[q] = RoundTx(r), NEW k \in spentInRound'[r]
        PROVE  \E p \in DOMAIN block' : p <= n /\ Uses(block'[p], k)
    <3>1. CASE n = l
      <4>1. k \in spent' /\ k[1] = r
        <5>1. Ends(tx, r)
          BY <1>3, <2>3, <3>1
        <5>2. spentInRound'[r] = {j \in spent' : j[1] = r}
          BY <2>1, <5>1
        <5> QED BY <2>3, <5>2
      <4>2. block'[q].type = "round" /\ block'[q].to.round = r
        BY <2>3, TxFields, PlaceFields
      <4>3. PICK j \in DOMAIN block' : Uses(block'[j], k)
        BY <1>6, <4>1, <4>2 DEF BlockBegins
      <4>4. j <= l
        BY <1>3
      <4> QED BY <3>1, <4>3, <4>4
    <3>2. CASE n # l
      <4>1. ~Ends(tx, r)
        <5>1. Ends(block'[l], r) => l = n
          BY <1>3, <1>4, <2>3 DEF BlockMoves, Ends
        <5> QED BY <1>3, <3>2, <5>1
      <4>2. k \in spentInRound[r] /\ n \in DOMAIN block /\ block'[n] = block[n]
        BY <1>3, <2>1, <2>3, <3>2, <4>1
      <4>3. q # l
        <5>1. tx \in BlockTxs /\ spent' = spent \cup UsedBy(tx)
          BY DEF Mines
        <5>2. k \in spent' /\ k[1] = r
          BY <1>1, <2>3, <4>2 DEF ChainInv, Mines
        <5>3. block'[q].type = "round" /\ block'[q].to.round = r
          BY <2>3, TxFields, PlaceFields
        <5> QED BY <1>3, <5>2, <5>3, MinesChain
      <4>4. q \in DOMAIN block /\ block[q] = RoundTx(r)
        BY <1>3, <2>3, <4>3
      <4>5. PICK p \in DOMAIN block : p <= n /\ Uses(block[p], k)
        BY <1>1, <2>3, <4>2, <4>4 DEF BlockInv, BlockEnds
      <4> QED BY <1>3, <4>5
    <3> QED BY <3>1, <3>2
  <2> QED BY <2>2, <2>3 DEF BlockEnds
<1> QED BY <1>2, <1>4, <1>5, <1>6, <1>7 DEF BlockInv

(* A machine, which is not involved, stays behind the chain in the same way. *)
LEMMA MinesMachine ==
    ASSUME Inv, NEW tx, Mines(tx), NEW m, NEW D, MachineInv(m, D)
    PROVE  /\ Follows(m, collateral', block')
           /\ UsedSound(m, spent', finalizers', finalized')
           /\ UsedComplete(m, spent', block')
           /\ UsedAtEnd(m, spentInRound', block')
           /\ EndsReported(D, spentInRound')
           /\ QueueGood(D, spent', finalizers', finalized')
           /\ FinalizersFollowed(m, finalized, block) => FinalizersFollowed(m, finalized', block')
<1> DEFINE l == Len(block) + 1
<1>1. tx \in BlockTxs /\ BlockInv /\ ChainInv /\ ChainInv' /\ BlockInv' /\ NumRounds \in Nat
  BY MinesBlock, MinesChain, RoundAssumption DEF Inv, Mines
<1>2. Appended(block, block', l, tx)
  BY <1>1, AppendBlock DEF Mines
<1> HIDE DEF l
<1>3. /\ \A n \in DOMAIN block : n \in DOMAIN block' /\ block'[n] = block[n] /\ n < l
      /\ l \in DOMAIN block' /\ block'[l] = tx
      /\ \A n \in DOMAIN block' : n \in DOMAIN block \/ n = l
      /\ \A n \in DOMAIN block' : n \in Int
  BY <1>2 DEF Appended
<1>4. m \in MachineType /\ Fits(m) /\ Place(m) \in Places /\ At(Place(m)) \in Int
  BY PlaceOf, AtInjective DEF MachineInv
<1>5. /\ collateral \in Places /\ collateral' \in Places /\ At(collateral) \in Int /\ At(collateral') \in Int
      /\ At(collateral) <= At(collateral')
  <2>1. collateral \in Places /\ collateral' \in Places
    BY <1>1 DEF ChainInv
  <2>2. At(collateral) \in Int /\ At(collateral') \in Int
    BY <2>1, AtInjective
  <2>3. At(collateral) <= At(collateral')
    BY <1>1, <2>2, TxCases DEF Mines
  <2> QED BY <2>1, <2>2, <2>3
<1>6. Follows(m, collateral', block')
  <2>1. At(Place(m)) <= At(collateral')
    BY <1>4, <1>5 DEF MachineInv, Follows
  <2>2. \/ Place(m) = collateral
        \/ m.state = "round_tx" /\ m.round = NumRounds
        \/ \E n \in DOMAIN block : Moves(block[n]) /\ block[n].from = Place(m)
    BY DEF MachineInv, Follows
  <2>3. collateral' = collateral \/ (Moves(tx) /\ tx.from = collateral)
    BY DEF Mines
  <2> QED BY <1>3, <2>1, <2>2, <2>3 DEF Follows
<1>7. \A k \in spent : k \in finalizers' <=> k \in finalizers
  BY DEF Mines, UsedBy, Unspent
<1>8. spent \subseteq spent' /\ finalized \subseteq finalized'
  BY DEF Mines
<1>9. UsedSound(m, spent', finalizers', finalized')
  BY <1>7, <1>8 DEF MachineInv, UsedSound
<1>10. UsedComplete(m, spent', block')
  <2>1. \A k \in spent' : k \in spent \/ Uses(block'[l], k)
    BY <1>3 DEF Mines, UsedBy, Uses
  <2> QED BY <1>3, <2>1 DEF MachineInv, UsedComplete
<1>11. \A r \in 0..NumRounds - 1 :
          spentInRound'[r] = IF Ends(tx, r) THEN {k \in spent' : k[1] = r} ELSE spentInRound[r]
  BY DEF Mines
<1>12. UsedAtEnd(m, spentInRound', block')
  <2> SUFFICES ASSUME InKickoffs(m), NEW n \in DOMAIN block', Ends(block'[n], m.round), NEW i \in KickoffIdx
               PROVE  /\ i \in m.used_kickoffs => OfRound(m, i) \in spentInRound'[m.round]
                      /\ OfRound(m, i) \in spentInRound'[m.round] =>
                            i \in m.used_kickoffs \/ \E p \in DOMAIN block' : p <= n /\ Uses(block'[p], OfRound(m, i))
    BY DEF UsedAtEnd
  <2>1. m.round \in 0..NumRounds - 1 /\ OfRound(m, i)[1] = m.round
    BY <1>1, <1>4 DEF InKickoffs, MachineType, Rounds, OfRound
  <2>2. CASE n = l
    <3>1. spentInRound'[m.round] = {k \in spent' : k[1] = m.round}
      BY <1>3, <1>11, <2>1, <2>2
    <3>2. i \in m.used_kickoffs => OfRound(m, i) \in spent'
      BY <1>9 DEF UsedSound
    <3>3. \A p \in DOMAIN block' : p <= l
      BY <1>3
    <3> QED BY <1>10, <2>1, <2>2, <3>1, <3>2, <3>3 DEF UsedComplete
  <2>3. CASE n # l
    <3>1. ~Ends(tx, m.round)
      <4>1. Ends(block'[l], m.round) => l = n
        BY <1>1, <1>3 DEF BlockInv, BlockMoves, Ends
      <4> QED BY <1>3, <2>3, <4>1
    <3>2. n \in DOMAIN block /\ block'[n] = block[n]
      BY <1>3, <2>3
    <3>3. spentInRound'[m.round] = spentInRound[m.round]
      BY <1>11, <2>1, <3>1
    <3>4. /\ i \in m.used_kickoffs => OfRound(m, i) \in spentInRound[m.round]
          /\ OfRound(m, i) \in spentInRound[m.round] =>
                i \in m.used_kickoffs \/ \E p \in DOMAIN block : p <= n /\ Uses(block[p], OfRound(m, i))
      BY <3>2 DEF MachineInv, UsedAtEnd
    <3> QED BY <1>3, <3>3, <3>4
  <2> QED BY <2>2, <2>3
<1>13. EndsReported(D, spentInRound')
  <2> SUFFICES ASSUME NEW d \in D, d.duty = "NewReadyToReimburse"
               PROVE  spentInRound'[d.round] = spentInRound[d.round]
    BY DEF MachineInv, EndsReported
  <2>1. d.round \in 0..NumRounds - 1 /\ At(InRound(d.round)) < At(Place(m))
    BY DEF MachineInv, Duties, ReportsNoMore
  <2>2. At(Place(m)) <= At(collateral)
    BY DEF MachineInv, Follows
  <2>3. At(InRound(d.round)) \in Int
    BY <1>1, <2>1, AtPlaces
  <2>4. collateral # InRound(d.round)
    BY <1>4, <1>5, <2>1, <2>2, <2>3
  <2>5. ~Ends(tx, d.round)
    BY <2>4 DEF Ends, Mines
  <2> QED BY <1>11, <2>1, <2>5
<1>14. QueueGood(D, spent', finalizers', finalized')
  <2> SUFFICES ASSUME NEW r \in 0..NumRounds - 1, QueueReadyToReimburse(r) \in D
               PROVE  /\ \A i \in KickoffIdx : <<r, i>> \in spent'
                      /\ \A k \in finalizers' : k[1] = r => k \in finalized'
    BY DEF QueueGood
  <2>1. (\A i \in KickoffIdx : <<r, i>> \in spent) /\ (\A k \in finalizers : k[1] = r => k \in finalized)
    BY DEF MachineInv, QueueGood
  <2>2. \A k \in finalizers' : k \in Kickoffs
    BY <1>1 DEF ChainInv
  <2>3. \A k \in finalizers' : k[1] = r => k \in spent
    BY <2>1, <2>2 DEF Kickoffs
  <2> QED BY <1>7, <1>8, <2>1, <2>3
<1>15. FinalizersFollowed(m, finalized, block) => FinalizersFollowed(m, finalized', block')
  <2>1. \A k \in finalized' : k \in finalized \/ block'[l] = FinalizerTx(k)
    <3>1. tx.type = "finalizer" => \A k \in tx.kickoffs : tx = FinalizerTx(k)
      BY <1>1, TxCases, TxFields
    <3> QED BY <1>3, <3>1 DEF Mines
  <2> QED BY <1>3, <2>1 DEF FinalizersFollowed
<1> QED BY <1>6, <1>9, <1>10, <1>12, <1>13, <1>14, <1>15

LEMMA MinesStep ==
    ASSUME Inv, NEW tx, Mines(tx)
    PROVE  Inv'
<1>1. ChainInv' /\ BlockInv'
  BY MinesBlock, MinesChain
<1>2. pc' = pc /\ machine' = machine /\ pending' = pending /\ row' = row /\ duties' = duties /\ faults' = faults
  BY DEF Mines
<1>3. SavedInv /\ MachineInv(machine, duties \cup pending) /\ MachineInv(row, duties)
  BY DEF Inv
<1>4. SavedInv'
  <2>1. FinalizersFollowed(machine, finalized, block) => FinalizersFollowed(machine, finalized', block')
    BY <1>3, MinesMachine
  <2> QED BY <1>2, <1>3, <2>1 DEF SavedInv
<1>5. MachineInv(machine, duties \cup pending)'
  <2> DEFINE D == duties \cup pending
  <2>1. MachineInv(machine, D)
    BY <1>3
  <2> HIDE DEF D
  <2>2. /\ Follows(machine, collateral', block')
        /\ UsedSound(machine, spent', finalizers', finalized')
        /\ UsedComplete(machine, spent', block')
        /\ UsedAtEnd(machine, spentInRound', block')
        /\ EndsReported(D, spentInRound')
        /\ QueueGood(D, spent', finalizers', finalized')
    BY <2>1, MinesMachine
  <2>3. D' = D
    BY <1>2 DEF D
  <2>4. MachineInv(machine, D)'
    BY <1>2, <2>1, <2>2, <2>3 DEF MachineInv
  <2> QED BY <2>4 DEF D
<1>6. MachineInv(row, duties)'
  <2>1. /\ Follows(row, collateral', block')
        /\ UsedSound(row, spent', finalizers', finalized')
        /\ UsedComplete(row, spent', block')
        /\ UsedAtEnd(row, spentInRound', block')
        /\ EndsReported(duties, spentInRound')
        /\ QueueGood(duties, spent', finalizers', finalized')
    BY <1>3, MinesMachine
  <2> QED BY <1>2, <1>3, <2>1 DEF MachineInv
<1> QED BY <1>1, <1>4, <1>5, <1>6 DEF Inv

-----------------------------------------------------------------------------
(* Events. *)

(* A dispatch changes the machine in memory and the open duties only. *)
LEMMA DispatchStep ==
    ASSUME Inv, pc = "processing", NEW e, NEW m, NEW new, Dispatch(e, m, new),
           m.dirty = TRUE, MachineInv(m, duties \cup pending \cup new),
           faults = 0 => FinalizersFollowed(m, finalized, block)
    PROVE  Inv'
<1>1. /\ machine' = m /\ pending' = pending \cup new
      /\ collateral' = collateral /\ mined' = mined /\ spent' = spent /\ finalizers' = finalizers
      /\ finalized' = finalized /\ spentInRound' = spentInRound /\ block' = block /\ blocks' = blocks
      /\ pc' = pc /\ row' = row /\ duties' = duties /\ faults' = faults
  BY DEF Dispatch, chainVars
<1>2. ChainInv'
  BY <1>1 DEF Inv, ChainInv
<1>3. BlockInv'
  BY <1>1 DEF Inv, BlockInv
<1>4. SavedInv'
  BY <1>1 DEF Inv, SavedInv
<1>5. MachineInv(row, duties)'
  <2>1. MachineInv(row, duties)
    BY DEF Inv
  <2> QED BY <2>1, <1>1 DEF MachineInv
<1>6. MachineInv(machine, duties \cup pending)'
  <2> DEFINE D == duties \cup pending
             E == duties \cup pending \cup new
  <2>1. D' = E
    BY <1>1
  <2>2. MachineInv(m, E)
    OBVIOUS
  <2> HIDE DEF D, E
  <2>3. MachineInv(machine, D)'
    BY <1>1, <2>1, <2>2 DEF MachineInv
  <2> QED BY <2>3 DEF D
<1> QED BY <1>2, <1>3, <1>4, <1>5, <1>6 DEF Inv

(* The events that the matchers of a machine are for. *)
LEMMA EventsFit ==
    ASSUME NEW m \in MachineType, Fits(m), NEW e \in m.matchers
    PROVE  /\ e.event = "RoundSent" =>
                 \/ m.state = "initial_collateral" /\ e = RoundSent(0)
                 \/ m.state = "ready_to_reimburse" /\ e = RoundSent(m.round + 1)
           /\ e.event = "OperatorExit" =>
                 /\ e = OperatorExit(m.round) /\ m.state # "operator_exit"
                 /\ m.state = "round_tx" => InKickoffs(m)
           /\ e.event = "ReadyToReimburseSent" => InKickoffs(m) /\ e = ReadyToReimburseSent(m.round)
           /\ e.event = "KickoffUtxoUsed" =>
                 InKickoffs(m) /\ \E i \in KickoffIdx : e = KickoffUtxoUsed(m.round, i)
           /\ e.event = "KickoffFinalizerSpent" =>
                 InKickoffs(m) /\ \E i \in KickoffIdx : e = KickoffFinalizerSpent(m.round, i)
           /\ e.event \in {"RoundSent", "OperatorExit", "ReadyToReimburseSent", "KickoffUtxoUsed",
                           "KickoffFinalizerSpent"}
<1>1. m.state \in States /\ m.round \in 0..NumRounds /\ NumRounds \in Nat
  BY RoundAssumption DEF MachineType, Rounds
<1>2. CASE InKickoffs(m)
  <2>1. m.round # NumRounds /\ m.state = "round_tx"
    BY <1>1, <1>2 DEF InKickoffs
  <2>2. \/ e \in {ReadyToReimburseSent(m.round), OperatorExit(m.round)}
        \/ \E i \in KickoffIdx : e = KickoffUtxoUsed(m.round, i)
        \/ \E i \in KickoffIdx : e = KickoffFinalizerSpent(m.round, i)
    BY <1>2, <2>1, EntryFacts DEF Fits
  <2> QED BY <1>2, <2>1, <2>2, EventFields
<1>3. CASE ~InKickoffs(m)
  <2>1. e \in EntryMatchers(m.state, m.round)
    BY <1>3 DEF Fits
  <2>2. CASE m.state = "initial_collateral"
    BY <2>1, <2>2, EntryFacts, EventFields DEF Fits
  <2>3. CASE m.state = "ready_to_reimburse"
    BY <2>1, <2>3, EntryFacts, EventFields
  <2>4. CASE m.state = "operator_exit"
    BY <2>1, <2>4, EntryFacts
  <2>5. CASE m.state = "round_tx"
    <3>1. m.round = NumRounds
      BY <1>1, <1>3, <2>5 DEF InKickoffs
    <3> QED BY <2>1, <2>5, <3>1, EntryFacts
  <2> QED BY <1>1, <2>2, <2>3, <2>4, <2>5 DEF States
<1> QED BY <1>2, <1>3

(* The transactions that end the round of the machine are matched. *)
LEMMA EndIsMatched ==
    ASSUME Inv, InKickoffs(machine), NEW n \in DOMAIN block
    PROVE  Ends(block[n], machine.round) <=>
              \/ n \in MatchesAt(ReadyToReimburseSent(machine.round))
              \/ n \in MatchesAt(OperatorExit(machine.round))
<1>1. BlockInv /\ machine \in MachineType /\ Fits(machine)
  BY DEF Inv, MachineInv
<1>2. block[n] \in BlockTxs /\ Place(machine) = InRound(machine.round)
  BY <1>1, PlaceOf DEF BlockInv, InKickoffs
<1>3. /\ n \in MatchesAt(ReadyToReimburseSent(machine.round)) <=> block[n] = ReadyToReimburseTx(machine.round)
      /\ n \in MatchesAt(OperatorExit(machine.round)) <=>
            block[n].type = "exit" /\ block[n].from = InRound(machine.round)
  BY <1>1, <1>2, MatchFacts
<1>4. block[n] = ReadyToReimburseTx(machine.round) => Ends(block[n], machine.round)
  BY TxFields DEF Ends, Moves
<1>5. block[n].type = "exit" /\ block[n].from = InRound(machine.round) => Ends(block[n], machine.round)
  BY DEF Ends, Moves
<1>6. ASSUME Ends(block[n], machine.round)
      PROVE  \/ block[n] = ReadyToReimburseTx(machine.round)
             \/ block[n].type = "exit" /\ block[n].from = InRound(machine.round)
  <2>1. block[n].from = InRound(machine.round) /\ block[n].type \in {"round", "ready_to_reimburse", "exit"}
    BY <1>6 DEF Ends, Moves
  <2>2. CASE block[n].type = "round"
    BY <1>2, <2>1, <2>2, TxCases, TxFields, PlaceFields
  <2>3. CASE block[n].type = "ready_to_reimburse"
    <3>1. PICK r \in 0..NumRounds - 1 : block[n] = ReadyToReimburseTx(r)
      BY <1>2, <2>3, TxCases
    <3>2. InRound(r).round = InRound(machine.round).round
      BY <2>1, <3>1, TxFields
    <3> QED BY <3>1, <3>2, PlaceFields
  <2> QED BY <2>1, <2>2, <2>3
<1> QED BY <1>3, <1>4, <1>5, <1>6

LEMMA Ranks ==
    \A r, i : /\ Rank(KickoffUtxoUsed(r, i)) = 0 /\ Rank(ReadyToReimburseSent(r)) = 1
              /\ Rank(OperatorExit(r)) = 3
<1> TAKE r, i
<1>1. Rank(KickoffUtxoUsed(r, i)) = 0
  BY EventFields DEF Rank
<1>2. Rank(ReadyToReimburseSent(r)) = 1
  BY EventFields DEF Rank
<1>3. Rank(OperatorExit(r)) = 3
  BY EventFields DEF Rank
<1> QED BY <1>1, <1>2, <1>3

(* When the end of the round is the first event, the machine has seen every *)
(* kickoff output that was spent in the round, and no other.                *)
LEMMA EndOfRound ==
    ASSUME Inv, InKickoffs(machine), NEW e, e \in {ReadyToReimburseSent(machine.round), OperatorExit(machine.round)},
           First(e)
    PROVE  {<<machine.round, i>> : i \in machine.used_kickoffs} = spentInRound[machine.round]
<1> DEFINE r == machine.round
<1>1. /\ BlockInv /\ ChainInv /\ machine \in MachineType /\ Fits(machine)
      /\ UsedAtEnd(machine, spentInRound, block)
  BY DEF Inv, MachineInv
<1>2. PICK n \in MatchesAt(e) : \A f \in machine.matchers : \A j \in MatchesAt(f) :
         \/ n < j
         \/ n = j /\ Rank(e) < Rank(f)
         \/ n = j /\ Rank(e) = Rank(f) /\ e.kickoff <= f.kickoff
  BY DEF First
<1>3. n \in DOMAIN block /\ Ends(block[n], r) /\ n \in Int
  <2>1. n \in 1..Len(block)
    BY DEF MatchesAt
  <2>2. n \in DOMAIN block /\ n \in Int
    BY <1>1, <2>1 DEF BlockInv
  <2> QED BY <2>2, <1>2, EndIsMatched
<1>4. \A i \in KickoffIdx :
         /\ i \in machine.used_kickoffs => <<r, i>> \in spentInRound[r]
         /\ <<r, i>> \in spentInRound[r] =>
               i \in machine.used_kickoffs \/ \E p \in DOMAIN block : p <= n /\ Uses(block[p], <<r, i>>)
  BY <1>1, <1>3 DEF UsedAtEnd, OfRound
<1>5. ASSUME NEW i \in KickoffIdx, <<r, i>> \in spentInRound[r], i \notin machine.used_kickoffs
      PROVE  FALSE
  <2>1. PICK p \in DOMAIN block : p <= n /\ Uses(block[p], <<r, i>>)
    BY <1>4, <1>5
  <2>2. KickoffUtxoUsed(r, i) \in machine.matchers
    BY <1>1, <1>5 DEF Fits
  <2>3. p \in MatchesAt(KickoffUtxoUsed(r, i)) /\ p \in Int
    BY <1>1, <2>1, MatchFacts DEF BlockInv
  <2>4. \/ n < p
        \/ Rank(e) < Rank(KickoffUtxoUsed(r, i))
        \/ Rank(e) = Rank(KickoffUtxoUsed(r, i))
    BY <1>2, <2>2, <2>3
  <2>5. Rank(KickoffUtxoUsed(r, i)) = 0 /\ Rank(e) \in {1, 3}
    BY Ranks
  <2> QED BY <1>3, <2>1, <2>3, <2>4, <2>5
<1>6. r \in 0..NumRounds - 1 /\ machine.used_kickoffs \subseteq KickoffIdx
  BY <1>1, RoundAssumption DEF MachineType, InKickoffs, Rounds
<1>7. \A k \in spentInRound[r] : k \in Kickoffs /\ k[1] = r
  BY <1>1, <1>6 DEF ChainInv
<1>8. \A k \in spentInRound[r] : k[2] \in KickoffIdx /\ k = <<r, k[2]>>
  BY <1>7 DEF Kickoffs
<1> HIDE DEF r
<1>9. {<<r, i>> : i \in machine.used_kickoffs} = spentInRound[r]
  BY <1>4, <1>5, <1>6, <1>8
<1> QED BY <1>9 DEF r

(* A new state, at the place to which the transaction n moved the collateral. *)
LEMMA TransitionStep ==
    ASSUME Inv, pc = "processing",
           NEW n \in DOMAIN block, Moves(block[n]), block[n].from = Place(machine),
           NEW m \in MachineType, m.dirty = TRUE, Place(m) = block[n].to,
           m.used_kickoffs = {}, m.possible_kickoffs = {}, m.kickoff_finalizers_spent = {},
           m.matchers = EntryMatchers(m.state, m.round),
           m.state \in {"initial_collateral", "operator_exit"} => m.round = 0,
           m.state = "ready_to_reimburse" => m.round < NumRounds,
           m.state = "round_tx" => block[n] = RoundTx(m.round),
           NEW e, NEW new, Dispatch(e, m, new),
           new = IF InKickoffs(machine) THEN {NewReadyToReimburse(machine.round, machine.used_kickoffs)} ELSE {},
           InKickoffs(machine) =>
              {<<machine.round, i>> : i \in machine.used_kickoffs} = spentInRound[machine.round]
    PROVE  Inv'
<1> DEFINE D == duties \cup pending
           E == duties \cup pending \cup new
<1>1. BlockInv /\ ChainInv /\ MachineInv(machine, D) /\ machine \in MachineType /\ Fits(machine)
  BY DEF Inv, MachineInv
<1>2. NumRounds \in Nat /\ 0 \in KickoffIdx
  BY RoundAssumption DEF KickoffIdx
<1>3. Fits(m)
  <2>1. InKickoffs(m) => m.state = "round_tx" /\ m.round # NumRounds
    BY <1>2 DEF InKickoffs, MachineType, Rounds
  <2>2. m.state = "round_tx" /\ m.round # NumRounds =>
           m.matchers = {ReadyToReimburseSent(m.round), OperatorExit(m.round)}
                        \cup {KickoffUtxoUsed(m.round, i) : i \in KickoffIdx}
    BY EntryFacts
  <2> QED BY <2>1, <2>2 DEF Fits
<1>4. /\ Place(m) \in Places /\ Place(machine) \in Places
      /\ At(Place(m)) \in Int /\ At(Place(machine)) \in Int /\ At(Place(machine)) < At(Place(m))
  <2>1. block[n] \in BlockTxs
    BY <1>1 DEF BlockInv
  <2>2. At(block[n].from) < At(block[n].to)
    BY <2>1, TxCases
  <2>3. Place(m) \in Places /\ Place(machine) \in Places
    BY <1>1, <1>3, PlaceOf
  <2> QED BY <2>2, <2>3, AtInjective
<1>5. Follows(m, collateral, block)
  <2>1. BlockMoves(collateral, block)
    BY <1>1 DEF BlockInv
  <2>2. \/ Place(m) = collateral
        \/ \E j \in DOMAIN block : Moves(block[j]) /\ block[j].from = Place(m)
    BY <2>1 DEF BlockMoves
  <2>3. \A j \in DOMAIN block : Moves(block[j]) => At(block[j].from) < At(collateral)
    BY <2>1 DEF BlockMoves
  <2>4. At(collateral) \in Int
    BY <1>1, AtInjective DEF ChainInv
  <2>5. At(Place(m)) <= At(collateral)
    BY <1>4, <2>2, <2>3, <2>4
  <2> QED BY <2>2, <2>5 DEF Follows
<1>6. UsedSound(m, spent, finalizers, finalized)
  BY DEF UsedSound
<1>7. InKickoffs(m) => /\ block[n] = RoundTx(m.round) /\ block[n].type = "round" /\ block[n].to.round = m.round
                       /\ m.round \in 0..NumRounds - 1
  BY <1>2, TxFields, PlaceFields DEF InKickoffs, MachineType, Rounds
<1>8. UsedComplete(m, spent, block)
  <2>1. BlockBegins(spent, finalized, block)
    BY <1>1 DEF BlockInv
  <2>2. \A i : OfRound(m, i)[1] = m.round
    BY DEF OfRound
  <2> QED BY <1>7, <2>1, <2>2 DEF BlockBegins, UsedComplete
<1>9. UsedAtEnd(m, spentInRound, block)
  <2>1. BlockEnds(spentInRound, block)
    BY <1>1 DEF BlockInv
  <2> QED BY <1>7, <2>1 DEF BlockEnds, UsedAtEnd
<1>10. Reports(m, E)
  BY <1>2 DEF Reports
<1>11. \A d \in new : /\ d.duty = "NewReadyToReimburse" /\ d.round = machine.round
                      /\ d.kickoffs = machine.used_kickoffs /\ InKickoffs(machine)
  BY DutyFields
<1>12. \A r, i : CheckIfKickoff(r, i) \in E <=> CheckIfKickoff(r, i) \in D
  BY <1>11, DutyFields
<1>13. \A r : QueueReadyToReimburse(r) \in E <=> QueueReadyToReimburse(r) \in D
  BY <1>11, DutyFields
<1>14. InKickoffs(machine) => /\ Place(machine) = InRound(machine.round)
                              /\ machine.round \in 0..NumRounds - 1 /\ machine.used_kickoffs \subseteq KickoffIdx
  BY <1>1, <1>2, PlaceOf DEF InKickoffs, MachineType, Rounds
<1>15. \A d \in E : d \in D \/ d \in new
  OBVIOUS
<1> HIDE DEF D, E
<1>16. ReportsNoMore(m, E)
  <2>1. \A r \in 0..NumRounds - 1 : At(InRound(r)) \in Int
    BY AtPlaces
  <2>2. ASSUME NEW r \in 0..NumRounds - 1, NEW i \in KickoffIdx, CheckIfKickoff(r, i) \in E
        PROVE  At(InRound(r)) < At(Place(m))
    <3>1. At(InRound(r)) <= At(Place(machine))
      BY <1>1, <1>12, <2>2 DEF MachineInv, ReportsNoMore
    <3> QED BY <1>4, <2>1, <3>1
  <2>3. ASSUME NEW d \in E, d.duty = "NewReadyToReimburse"
        PROVE  At(InRound(d.round)) < At(Place(m))
    <3>1. CASE d \in D
      <4>1. At(InRound(d.round)) < At(Place(machine)) /\ d.round \in 0..NumRounds - 1
        BY <1>1, <2>3, <3>1 DEF MachineInv, ReportsNoMore, Duties
      <4>2. At(InRound(d.round)) \in Int
        BY <2>1, <4>1
      <4> QED BY <1>4, <4>1, <4>2
    <3>2. CASE d \in new
      BY <1>4, <1>11, <1>14, <3>2
    <3> QED BY <1>15, <3>1, <3>2
  <2>4. ASSUME NEW r \in 0..NumRounds - 1, NEW i \in KickoffIdx, CheckIfKickoff(r, i) \in E
        PROVE  At(InRound(r)) <= At(Place(m)) /\ Place(m) # InRound(r)
    <3>1. At(InRound(r)) < At(Place(m)) /\ At(InRound(r)) \in Int
      BY <2>1, <2>2, <2>4
    <3> QED BY <1>4, <3>1
  <2> QED BY <2>3, <2>4 DEF ReportsNoMore
<1>17. Duties(E)
  BY <1>1, <1>11, <1>14, <1>15 DEF MachineInv, Duties
<1>18. EndsReported(E, spentInRound)
  <2>1. ASSUME NEW d \in D, d.duty = "NewReadyToReimburse"
        PROVE  /\ {<<d.round, i>> : i \in d.kickoffs} = spentInRound[d.round]
               /\ \A i \in KickoffIdx : CheckIfKickoff(d.round, i) \in E <=> i \in d.kickoffs
    BY <1>1, <1>12, <2>1 DEF MachineInv, EndsReported
  <2>2. ASSUME NEW d \in new
        PROVE  /\ {<<d.round, i>> : i \in d.kickoffs} = spentInRound[d.round]
               /\ \A i \in KickoffIdx : CheckIfKickoff(d.round, i) \in E <=> i \in d.kickoffs
    <3>1. InKickoffs(machine) /\ d.round = machine.round /\ d.kickoffs = machine.used_kickoffs
      BY <1>11
    <3>2. \A i \in machine.used_kickoffs : CheckIfKickoff(machine.round, i) \in D
      BY <1>1, <3>1 DEF MachineInv, Reports
    <3>3. \A i \in KickoffIdx : CheckIfKickoff(machine.round, i) \in D => i \in machine.used_kickoffs
      BY <1>1, <1>14, <3>1 DEF MachineInv, ReportsNoMore
    <3> QED BY <1>12, <3>1, <3>2, <3>3
  <2> QED BY <1>15, <2>1, <2>2 DEF EndsReported
<1>19. QueueGood(E, spent, finalizers, finalized)
  BY <1>1, <1>13 DEF MachineInv, QueueGood
<1>20. FinalizersFollowed(m, finalized, block)
  <2>1. BlockBegins(spent, finalized, block)
    BY <1>1 DEF BlockInv
  <2>2. \A i : OfRound(m, i)[1] = m.round
    BY DEF OfRound
  <2> QED BY <1>7, <2>1, <2>2 DEF BlockBegins, FinalizersFollowed
<1>21. MachineInv(m, E)
  BY <1>3, <1>5, <1>6, <1>8, <1>9, <1>10, <1>16, <1>17, <1>18, <1>19 DEF MachineInv
<1>22. MachineInv(m, duties \cup pending \cup new)
  BY <1>21 DEF E
<1> QED BY <1>20, <1>22, DispatchStep

(* An event inside a round: m is the machine with the event recorded. *)
LEMMA RecordStep ==
    ASSUME Inv, pc = "processing", InKickoffs(machine),
           NEW m \in MachineType, m.state = machine.state, m.round = machine.round, m.dirty = TRUE,
           machine.used_kickoffs \subseteq m.used_kickoffs,
           Fits(m),
           UsedSound(m, spent, finalizers, finalized),
           UsedComplete(m, spent, block),
           UsedAtEnd(m, spentInRound, block),
           faults = 0 => FinalizersFollowed(m, finalized, block),
           NEW C, C \subseteq {CheckIfKickoff(m.round, i) : i \in m.used_kickoffs},
           \A i \in m.used_kickoffs : i \in machine.used_kickoffs \/ CheckIfKickoff(m.round, i) \in C,
           NEW e, Dispatch(e, m, C \cup QueueDuty(m))
    PROVE  Inv'
<1> DEFINE r == m.round
           new == C \cup QueueDuty(m)
           D == duties \cup pending
           E == duties \cup pending \cup new
<1>1. BlockInv /\ ChainInv /\ MachineInv(machine, D) /\ machine \in MachineType /\ Fits(machine)
  BY DEF Inv, MachineInv
<1>2. /\ Place(machine) = InRound(r) /\ Place(m) = InRound(r) /\ InKickoffs(m) /\ r \in 0..NumRounds - 1
      /\ m.used_kickoffs \subseteq KickoffIdx
  BY <1>1, PlaceOf, RoundAssumption DEF InKickoffs, MachineType, Rounds
<1>3. QueueDuty(m) \subseteq {QueueReadyToReimburse(r)}
  BY DEF QueueDuty
<1>4. \A d \in new : d \in {CheckIfKickoff(r, i) : i \in m.used_kickoffs} \/ d = QueueReadyToReimburse(r)
  BY <1>3
<1>5. m.used_kickoffs = KickoffIdx /\ m.possible_kickoffs \subseteq m.kickoff_finalizers_spent
         => QueueReadyToReimburse(r) \in new
  BY DEF QueueDuty
<1>6. QueueReadyToReimburse(r) \in new =>
         m.used_kickoffs = KickoffIdx /\ m.possible_kickoffs \subseteq m.kickoff_finalizers_spent
  <2>1. QueueReadyToReimburse(r) \notin C
    BY DutyFields
  <2> QED BY <2>1 DEF QueueDuty
<1>7. D \subseteq E /\ new \subseteq E /\ \A d \in E : d \in D \/ d \in new
  OBVIOUS
<1>8. \A i \in m.used_kickoffs : i \in machine.used_kickoffs \/ CheckIfKickoff(r, i) \in new
  OBVIOUS
<1> HIDE DEF D, E, new
<1>9. \A s, i : CheckIfKickoff(s, i) \in new => s = r /\ i \in m.used_kickoffs
  <2> SUFFICES ASSUME NEW s, NEW i, CheckIfKickoff(s, i) \in new PROVE s = r /\ i \in m.used_kickoffs
    OBVIOUS
  <2>1. CheckIfKickoff(s, i) # QueueReadyToReimburse(r)
    BY DutyFields
  <2>2. PICK j \in m.used_kickoffs : CheckIfKickoff(s, i) = CheckIfKickoff(r, j)
    BY <1>4, <2>1
  <2>3. CheckIfKickoff(s, i).round = CheckIfKickoff(r, j).round /\ CheckIfKickoff(s, i).kickoffs = CheckIfKickoff(r, j).kickoffs
    BY <2>2
  <2>4. s = r /\ {i} = {j}
    BY <2>3, DutyFields
  <2> QED BY <2>4
<1>10. \A s : QueueReadyToReimburse(s) \in new => s = r
  <2> SUFFICES ASSUME NEW s, QueueReadyToReimburse(s) \in new PROVE s = r
    OBVIOUS
  <2>1. \A i : QueueReadyToReimburse(s) # CheckIfKickoff(r, i)
    BY DutyFields
  <2>2. QueueReadyToReimburse(s) = QueueReadyToReimburse(r)
    BY <1>4, <2>1
  <2>3. QueueReadyToReimburse(s).round = QueueReadyToReimburse(r).round
    BY <2>2
  <2> QED BY <2>3, DutyFields
<1>11. \A d \in new : /\ d.duty \in {"CheckIfKickoff", "QueueReadyToReimburse"} /\ d.round = r
                      /\ d.kickoffs \subseteq KickoffIdx
  BY <1>2, <1>4, DutyFields
<1> HIDE DEF r
<1>12. Follows(m, collateral, block)
  <2>1. m.state = machine.state /\ m.round = machine.round
    OBVIOUS
  <2>2. Follows(machine, collateral, block)
    BY <1>1 DEF MachineInv
  <2> QED BY <1>2, <2>1, <2>2 DEF Follows
<1>13. Reports(m, E)
  <2>1. \A i \in machine.used_kickoffs : CheckIfKickoff(r, i) \in D
    BY <1>1 DEF MachineInv, Reports, r
  <2> QED BY <1>5, <1>7, <1>8, <2>1 DEF Reports, r
<1>14. ReportsNoMore(m, E)
  <2>1. At(InRound(r)) \in Int
    BY <1>2, AtPlaces
  <2>2. ASSUME NEW s \in 0..NumRounds - 1, NEW i \in KickoffIdx, CheckIfKickoff(s, i) \in E
        PROVE  /\ At(InRound(s)) <= At(Place(m))
               /\ Place(m) = InRound(s) => i \in m.used_kickoffs
    <3>1. CASE CheckIfKickoff(s, i) \in new
      BY <1>2, <1>9, <2>1, <3>1
    <3>2. CASE CheckIfKickoff(s, i) \in D
      BY <1>1, <1>2, <3>2 DEF MachineInv, ReportsNoMore
    <3> QED BY <1>7, <2>2, <3>1, <3>2
  <2>3. ASSUME NEW d \in E, d.duty = "NewReadyToReimburse"
        PROVE  At(InRound(d.round)) < At(Place(m))
    BY <1>1, <1>2, <1>7, <1>11, <2>3 DEF MachineInv, ReportsNoMore
  <2> QED BY <2>2, <2>3 DEF ReportsNoMore
<1>15. Duties(E)
  BY <1>1, <1>2, <1>7, <1>11 DEF MachineInv, Duties
<1>16. EndsReported(E, spentInRound)
  <2> SUFFICES ASSUME NEW d \in E, d.duty = "NewReadyToReimburse"
               PROVE  /\ {<<d.round, i>> : i \in d.kickoffs} = spentInRound[d.round]
                      /\ \A i \in KickoffIdx : CheckIfKickoff(d.round, i) \in E <=> i \in d.kickoffs
    BY DEF EndsReported
  <2>1. d \in D
    BY <1>7, <1>11
  <2>2. At(InRound(d.round)) < At(InRound(r)) /\ d.round \in 0..NumRounds - 1
    BY <1>1, <1>2, <2>1 DEF MachineInv, ReportsNoMore, Duties
  <2>3. d.round # r
    <3>1. At(InRound(r)) \in Int
      BY <1>2, AtPlaces
    <3> QED BY <2>2, <3>1
  <2>4. \A i : CheckIfKickoff(d.round, i) \in E <=> CheckIfKickoff(d.round, i) \in D
    BY <1>7, <1>9, <2>3
  <2> QED BY <1>1, <2>1, <2>4 DEF MachineInv, EndsReported
<1>17. QueueGood(E, spent, finalizers, finalized)
  <2> SUFFICES ASSUME NEW s \in 0..NumRounds - 1, QueueReadyToReimburse(s) \in E
               PROVE  /\ \A i \in KickoffIdx : <<s, i>> \in spent
                      /\ \A k \in finalizers : k[1] = s => k \in finalized
    BY DEF QueueGood
  <2>1. CASE QueueReadyToReimburse(s) \in D
    BY <1>1, <2>1 DEF MachineInv, QueueGood
  <2>2. CASE QueueReadyToReimburse(s) \in new
    <3>1. s = r /\ m.used_kickoffs = KickoffIdx /\ m.possible_kickoffs \subseteq m.kickoff_finalizers_spent
      BY <1>6, <1>10, <2>2
    <3>2. \A i \in KickoffIdx : /\ <<r, i>> \in spent
                                /\ <<r, i>> \in finalizers => <<r, i>> \in finalized
      BY <1>2, <3>1 DEF UsedSound, OfRound, r
    <3>3. \A k \in finalizers : k[1] = r => k[2] \in KickoffIdx /\ k = <<r, k[2]>>
      BY <1>1 DEF ChainInv, Kickoffs
    <3> QED BY <3>1, <3>2, <3>3
  <2> QED BY <1>7, <2>1, <2>2
<1>18. MachineInv(m, E)
  BY <1>12, <1>13, <1>14, <1>15, <1>16, <1>17 DEF MachineInv
<1>19. MachineInv(m, duties \cup pending \cup new) /\ Dispatch(e, m, new)
  BY <1>18 DEF E, new
<1> QED BY <1>19, DispatchStep

(* The matchers are of the right type. *)
MatcherType ==
    [event : {"KickoffUtxoUsed", "ReadyToReimburseSent", "RoundSent", "OperatorExit", "KickoffFinalizerSpent"},
     round : Rounds, kickoff : KickoffIdx]

LEMMA EntryType ==
    ASSUME NEW state \in States, NEW r \in Rounds, state = "ready_to_reimburse" => r < NumRounds
    PROVE  EntryMatchers(state, r) \subseteq MatcherType
<1>1. NumRounds \in Nat /\ 0 \in KickoffIdx /\ 0 \in Rounds /\ r \in 0..NumRounds
  BY RoundAssumption DEF KickoffIdx, Rounds
<1>2. \A s \in Rounds : /\ RoundSent(s) \in MatcherType /\ OperatorExit(s) \in MatcherType
                        /\ ReadyToReimburseSent(s) \in MatcherType
                        /\ \A i \in KickoffIdx : KickoffUtxoUsed(s, i) \in MatcherType
  BY <1>1 DEF MatcherType, RoundSent, OperatorExit, ReadyToReimburseSent, KickoffUtxoUsed, Event
<1>3. CASE state = "initial_collateral"
  BY <1>1, <1>2, <1>3, EntryFacts
<1>4. CASE state = "ready_to_reimburse"
  <2>1. r + 1 \in Rounds
    BY <1>1, <1>4 DEF Rounds
  <2> QED BY <1>2, <1>4, <2>1, EntryFacts
<1>5. CASE state = "operator_exit"
  BY <1>5, EntryFacts
<1>6. CASE state = "round_tx" /\ r = NumRounds
  BY <1>6, EntryFacts
<1>7. CASE state = "round_tx" /\ r # NumRounds
  BY <1>2, <1>7, EntryFacts
<1> QED BY <1>3, <1>4, <1>5, <1>6, <1>7 DEF States

(* A machine that has just entered a state. *)
Entered(m, state, r) ==
    /\ m \in MachineType /\ m.dirty = TRUE /\ m.state = state /\ m.round = r
    /\ m.used_kickoffs = {} /\ m.possible_kickoffs = {} /\ m.kickoff_finalizers_spent = {}
    /\ m.matchers = EntryMatchers(state, r)

LEMMA TransitionFacts ==
    ASSUME NEW m \in MachineType, NEW state \in States, NEW r \in Rounds,
           state = "ready_to_reimburse" => r < NumRounds
    PROVE  Entered(Transition(m, state, r), state, r)
<1> DEFINE M == EntryMatchers(state, r)
<1>1. M \subseteq MatcherType
  BY EntryType
<1>2. Transition(m, state, r) =
         [m EXCEPT !.state = state, !.round = r, !.used_kickoffs = {}, !.possible_kickoffs = {},
                   !.kickoff_finalizers_spent = {}, !.matchers = M, !.dirty = TRUE]
  BY DEF Transition
<1> HIDE DEF M
<1>3. /\ Transition(m, state, r).dirty = TRUE /\ Transition(m, state, r).state = state
      /\ Transition(m, state, r).round = r
      /\ Transition(m, state, r).used_kickoffs = {} /\ Transition(m, state, r).possible_kickoffs = {}
      /\ Transition(m, state, r).kickoff_finalizers_spent = {} /\ Transition(m, state, r).matchers = M
  BY <1>2 DEF MachineType
<1>4. Transition(m, state, r) \in MachineType
  BY <1>1, <1>2 DEF MachineType, MatcherType
<1> QED BY <1>3, <1>4 DEF M, Entered

(* The collateral moves to a round. *)
LEMMA RoundSentStep ==
    ASSUME Inv, NEW e \in machine.matchers, OnRoundSent(e)
    PROVE  Inv'
<1> DEFINE s == e.round
           m == Transition(machine, "round_tx", s)
<1>1. /\ BlockInv /\ machine \in MachineType /\ Fits(machine) /\ NumRounds \in Nat
      /\ machine.round \in 0..NumRounds /\ pc = "processing" /\ e.event = "RoundSent" /\ Dispatch(e, m, {})
  BY RoundAssumption DEF Inv, MachineInv, OnRoundSent, MachineType, Rounds
<1>2. \/ machine.state = "initial_collateral" /\ e = RoundSent(0)
      \/ machine.state = "ready_to_reimburse" /\ e = RoundSent(machine.round + 1)
  BY <1>1, EventsFit
<1>3. /\ e = RoundSent(s) /\ s \in Rounds /\ ~InKickoffs(machine)
      /\ Place(machine) = IF s = 0 THEN Funding ELSE InReady(s - 1)
  <2>1. CASE machine.state = "initial_collateral" /\ e = RoundSent(0)
    <3>1. s = 0 /\ Place(machine) = Funding
      BY <1>1, <2>1, EventFields, PlaceOf
    <3> QED BY <1>1, <2>1, <3>1 DEF Rounds, InKickoffs
  <2>2. CASE machine.state = "ready_to_reimburse" /\ e = RoundSent(machine.round + 1)
    <3>1. s = machine.round + 1 /\ Place(machine) = InReady(machine.round) /\ machine.round < NumRounds
      BY <1>1, <2>2, EventFields, PlaceOf DEF Fits
    <3>2. s \in Rounds /\ s # 0 /\ machine.round = s - 1
      BY <1>1, <3>1 DEF Rounds
    <3> QED BY <2>2, <3>1, <3>2 DEF InKickoffs
  <2> QED BY <1>2, <2>1, <2>2
<1> HIDE DEF s
<1>4. PICK n \in DOMAIN block : block[n] = RoundTx(s)
  <2>1. PICK n \in MatchesAt(RoundSent(s)) : TRUE
    BY <1>1, <1>3 DEF Dispatch, First
  <2> QED BY <1>1, <2>1, MatchFacts
<1>5. Moves(block[n]) /\ block[n].from = Place(machine) /\ block[n].to = InRound(s)
  BY <1>3, <1>4, TxFields DEF Moves
<1>entered. Entered(m, "round_tx", s)
  <2>1. "round_tx" \in States /\ s \in Rounds
    BY <1>1, <1>3 DEF States
  <2> QED BY <1>1, <1>3, <2>1, TransitionFacts
<1> HIDE DEF m
<1>6. /\ m \in MachineType /\ m.dirty = TRUE /\ m.state = "round_tx" /\ m.round = s
      /\ m.used_kickoffs = {} /\ m.possible_kickoffs = {} /\ m.kickoff_finalizers_spent = {}
      /\ m.matchers = EntryMatchers(m.state, m.round)
  BY <1>entered DEF Entered
<1>7. Place(m) = block[n].to
  BY <1>5, <1>6 DEF Place
<1>8. {} = IF InKickoffs(machine) THEN {NewReadyToReimburse(machine.round, machine.used_kickoffs)} ELSE {}
  BY <1>3
<1> QED BY <1>1, <1>3, <1>4, <1>5, <1>6, <1>7, <1>8, TransitionStep

(* It leaves the round, with the ready-to-reimburse transaction. *)
LEMMA ReadyToReimburseSentStep ==
    ASSUME Inv, NEW e \in machine.matchers, OnReadyToReimburseSent(e)
    PROVE  Inv'
<1> DEFINE s == e.round
           m == Transition(machine, "ready_to_reimburse", s)
           new == {NewReadyToReimburse(machine.round, machine.used_kickoffs)}
<1>1. /\ BlockInv /\ machine \in MachineType /\ Fits(machine) /\ NumRounds \in Nat
      /\ machine.round \in Rounds /\ pc = "processing" /\ e.event = "ReadyToReimburseSent" /\ Dispatch(e, m, new)
  BY RoundAssumption DEF Inv, MachineInv, OnReadyToReimburseSent, MachineType
<1>2. InKickoffs(machine) /\ e = ReadyToReimburseSent(machine.round)
  BY <1>1, EventsFit
<1>3. s = machine.round /\ s < NumRounds
  BY <1>2, EventFields DEF InKickoffs
<1> HIDE DEF s
<1>4. PICK n \in DOMAIN block : block[n] = ReadyToReimburseTx(s)
  <2>1. PICK n \in MatchesAt(ReadyToReimburseSent(s)) : TRUE
    BY <1>1, <1>2, <1>3 DEF Dispatch, First
  <2> QED BY <1>1, <2>1, MatchFacts
<1>5. Moves(block[n]) /\ block[n].from = Place(machine) /\ block[n].to = InReady(s)
  <2>1. Place(machine) = InRound(s)
    BY <1>1, <1>2, <1>3, PlaceOf DEF InKickoffs
  <2> QED BY <1>4, <2>1, TxFields DEF Moves
<1>entered. Entered(m, "ready_to_reimburse", s)
  <2>1. "ready_to_reimburse" \in States /\ s \in Rounds
    BY <1>1, <1>3 DEF States
  <2> QED BY <1>1, <1>3, <2>1, TransitionFacts
<1> HIDE DEF m
<1>6. /\ m \in MachineType /\ m.dirty = TRUE /\ m.state = "ready_to_reimburse" /\ m.round = s
      /\ m.used_kickoffs = {} /\ m.possible_kickoffs = {} /\ m.kickoff_finalizers_spent = {}
      /\ m.matchers = EntryMatchers(m.state, m.round)
  BY <1>entered DEF Entered
<1>7. Place(m) = block[n].to
  BY <1>5, <1>6 DEF Place
<1>8. new = IF InKickoffs(machine) THEN {NewReadyToReimburse(machine.round, machine.used_kickoffs)} ELSE {}
  BY <1>2
<1>9. {<<machine.round, i>> : i \in machine.used_kickoffs} = spentInRound[machine.round]
  BY <1>1, <1>2, EndOfRound DEF Dispatch
<1> HIDE DEF new
<1> QED BY <1>1, <1>3, <1>5, <1>6, <1>7, <1>8, <1>9, TransitionStep

(* It leaves the protocol. *)
LEMMA OperatorExitStep ==
    ASSUME Inv, NEW e \in machine.matchers, OnOperatorExit(e)
    PROVE  Inv'
<1> DEFINE m == Transition(machine, "operator_exit", 0)
           new == IF machine.state = "round_tx"
                  THEN {NewReadyToReimburse(machine.round, machine.used_kickoffs)} ELSE {}
<1>1. /\ BlockInv /\ machine \in MachineType /\ Fits(machine) /\ NumRounds \in Nat
      /\ pc = "processing" /\ e.event = "OperatorExit" /\ Dispatch(e, m, new)
  BY RoundAssumption DEF Inv, MachineInv, OnOperatorExit
<1>2. /\ e = OperatorExit(machine.round) /\ machine.state # "operator_exit"
      /\ machine.state = "round_tx" <=> InKickoffs(machine)
  BY <1>1, EventsFit DEF InKickoffs
<1>3. PICK n \in DOMAIN block : block[n].type = "exit" /\ block[n].from = Place(machine)
  <2>1. PICK n \in MatchesAt(OperatorExit(machine.round)) : TRUE
    BY <1>1, <1>2 DEF Dispatch, First
  <2> QED BY <1>1, <2>1, MatchFacts
<1>4. Moves(block[n]) /\ block[n].to = Gone
  BY <1>1, <1>3, TxCases DEF Moves, BlockInv
<1>5. 0 \in Rounds /\ "operator_exit" \in States
  BY <1>1 DEF Rounds, States
<1>entered. Entered(m, "operator_exit", 0)
  <2>1. "operator_exit" \in States /\ 0 \in Rounds
    BY <1>1, <1>3, <1>5 DEF States
  <2> QED BY <1>1, <1>3, <2>1, TransitionFacts
<1> HIDE DEF m
<1>6. /\ m \in MachineType /\ m.dirty = TRUE /\ m.state = "operator_exit" /\ m.round = 0
      /\ m.used_kickoffs = {} /\ m.possible_kickoffs = {} /\ m.kickoff_finalizers_spent = {}
      /\ m.matchers = EntryMatchers(m.state, m.round)
  BY <1>entered DEF Entered
<1>7. Place(m) = block[n].to
  BY <1>4, <1>6 DEF Place
<1>8. new = IF InKickoffs(machine) THEN {NewReadyToReimburse(machine.round, machine.used_kickoffs)} ELSE {}
  BY <1>2
<1>9. InKickoffs(machine) => {<<machine.round, i>> : i \in machine.used_kickoffs} = spentInRound[machine.round]
  BY <1>1, <1>2, EndOfRound DEF Dispatch
<1> HIDE DEF new
<1> QED BY <1>1, <1>3, <1>4, <1>6, <1>7, <1>8, <1>9, TransitionStep

(* The machine with the use i of a kickoff output recorded, perhaps by a kickoff. *)
Recorded(e, n) ==
    LET used == [Without(e) EXCEPT !.used_kickoffs = @ \cup {e.kickoff}]
    IN  IF block[n].type \in {"kickoff", "lookalike"}
        THEN [used EXCEPT !.possible_kickoffs = @ \cup {e.kickoff},
                          !.matchers = @ \cup {KickoffFinalizerSpent(e.round, e.kickoff)}]
        ELSE used

Records(m, e, possible) ==
    /\ m \in MachineType /\ m.state = machine.state /\ m.round = machine.round /\ m.dirty = TRUE
    /\ m.used_kickoffs = machine.used_kickoffs \cup {e.kickoff}
    /\ m.possible_kickoffs = IF possible THEN machine.possible_kickoffs \cup {e.kickoff}
                             ELSE machine.possible_kickoffs
    /\ m.kickoff_finalizers_spent = machine.kickoff_finalizers_spent
    /\ m.matchers = IF possible THEN (machine.matchers \ {e}) \cup {KickoffFinalizerSpent(e.round, e.kickoff)}
                    ELSE machine.matchers \ {e}

LEMMA RecordedFields ==
    ASSUME machine \in MachineType, NEW e, e.kickoff \in KickoffIdx, e.round \in Rounds, NEW n
    PROVE  Records(Recorded(e, n), e, block[n].type \in {"kickoff", "lookalike"})
<1>1. KickoffFinalizerSpent(e.round, e.kickoff) \in MatcherType
  BY DEF KickoffFinalizerSpent, Event, MatcherType
<1> DEFINE f == KickoffFinalizerSpent(e.round, e.kickoff)
           u == [machine EXCEPT !.matchers = @ \ {e}, !.dirty = TRUE, !.used_kickoffs = @ \cup {e.kickoff}]
<1>2. [Without(e) EXCEPT !.used_kickoffs = @ \cup {e.kickoff}] = u
  BY DEF Without, MachineType
<1>3. /\ u \in MachineType /\ u.state = machine.state /\ u.round = machine.round /\ u.dirty = TRUE
      /\ u.used_kickoffs = machine.used_kickoffs \cup {e.kickoff}
      /\ u.possible_kickoffs = machine.possible_kickoffs
      /\ u.kickoff_finalizers_spent = machine.kickoff_finalizers_spent
      /\ u.matchers = machine.matchers \ {e}
  BY DEF MachineType
<1> HIDE DEF u
<1>4. CASE block[n].type \in {"kickoff", "lookalike"}
  <2> DEFINE v == [u EXCEPT !.possible_kickoffs = @ \cup {e.kickoff}, !.matchers = @ \cup {f}]
  <2>1. Recorded(e, n) = v
    BY <1>2, <1>4 DEF Recorded
  <2> HIDE DEF f
  <2>2. f \in MatcherType
    BY <1>1 DEF f
  <2>3. /\ v \in MachineType /\ v.state = u.state /\ v.round = u.round /\ v.dirty = u.dirty
        /\ v.used_kickoffs = u.used_kickoffs
        /\ v.possible_kickoffs = u.possible_kickoffs \cup {e.kickoff}
        /\ v.kickoff_finalizers_spent = u.kickoff_finalizers_spent
        /\ v.matchers = u.matchers \cup {f}
    BY <1>3, <2>2 DEF MachineType, MatcherType
  <2> HIDE DEF v
  <2> QED BY <1>3, <1>4, <2>1, <2>3 DEF Records, f
<1>5. CASE block[n].type \notin {"kickoff", "lookalike"}
  <2>1. Recorded(e, n) = u
    BY <1>2, <1>5 DEF Recorded
  <2> QED BY <1>3, <1>5, <2>1 DEF Records
<1> QED BY <1>4, <1>5

(* A kickoff output is spent. *)
LEMMA KickoffUtxoUsedStep ==
    ASSUME Inv, NEW e \in machine.matchers, OnKickoffUtxoUsed(e)
    PROVE  Inv'
<1>1. /\ BlockInv /\ machine \in MachineType /\ Fits(machine) /\ NumRounds \in Nat
      /\ machine.round \in Rounds /\ pc = "processing" /\ e.event = "KickoffUtxoUsed"
      /\ UsedSound(machine, spent, finalizers, finalized) /\ UsedComplete(machine, spent, block)
      /\ UsedAtEnd(machine, spentInRound, block) /\ SavedInv
  BY RoundAssumption DEF Inv, MachineInv, OnKickoffUtxoUsed, MachineType
<1>2. InKickoffs(machine) /\ \E i \in KickoffIdx : e = KickoffUtxoUsed(machine.round, i)
  BY <1>1, EventsFit
<1>3. PICK i \in KickoffIdx : e = KickoffUtxoUsed(machine.round, i)
  BY <1>2
<1>4. e.round = machine.round /\ e.kickoff = i
  BY <1>3, EventFields
<1>5. PICK n \in MatchesAt(e) :
         Dispatch(e, Recorded(e, n), {CheckIfKickoff(e.round, e.kickoff)} \cup QueueDuty(Recorded(e, n)))
  BY DEF OnKickoffUtxoUsed, Recorded
<1> DEFINE m == Recorded(e, n)
           k == OfRound(machine, i)
           possible == block[n].type \in {"kickoff", "lookalike"}
<1>6. Records(m, e, possible)
  BY <1>1, <1>4, RecordedFields
<1>7. Dispatch(e, m, {CheckIfKickoff(machine.round, i)} \cup QueueDuty(m))
  BY <1>4, <1>5
<1> HIDE DEF m
<1>8. n \in DOMAIN block /\ Uses(block[n], k)
  BY <1>1, <1>3, <1>5, MatchFacts DEF OfRound
<1>9. k \in spent /\ (k \in finalizers <=> possible)
  BY <1>1, <1>8 DEF BlockInv, BlockSpends, Uses
<1> HIDE DEF possible
<1>10. /\ m \in MachineType /\ m.state = machine.state /\ m.round = machine.round /\ m.dirty = TRUE
       /\ m.used_kickoffs = machine.used_kickoffs \cup {i}
       /\ m.possible_kickoffs = IF possible THEN machine.possible_kickoffs \cup {i} ELSE machine.possible_kickoffs
       /\ m.kickoff_finalizers_spent = machine.kickoff_finalizers_spent
       /\ m.matchers = IF possible THEN (machine.matchers \ {e}) \cup {KickoffFinalizerSpent(machine.round, i)}
                       ELSE machine.matchers \ {e}
  BY <1>4, <1>6 DEF Records
<1>11. InKickoffs(m) /\ \A j : OfRound(m, j) = OfRound(machine, j)
  BY <1>2, <1>10 DEF InKickoffs, OfRound
<1>12. Fits(m)
  <2>1. /\ ReadyToReimburseSent(m.round) # e /\ OperatorExit(m.round) # e
        /\ \A j \in KickoffIdx : KickoffUtxoUsed(m.round, j) = e => j = i
    BY <1>3, <1>4, EventFields
  <2>2. ReadyToReimburseSent(m.round) \in m.matchers /\ OperatorExit(m.round) \in m.matchers
    BY <1>1, <1>2, <1>10, <2>1 DEF Fits
  <2>3. \A j \in KickoffIdx : j \in m.used_kickoffs \/ KickoffUtxoUsed(m.round, j) \in m.matchers
    BY <1>1, <1>2, <1>10, <2>1 DEF Fits
  <2>4. m.matchers \subseteq EntryMatchers("round_tx", m.round)
                             \cup {KickoffFinalizerSpent(m.round, j) : j \in KickoffIdx}
    BY <1>1, <1>2, <1>10 DEF Fits
  <2>5. m.state = "round_tx"
    BY <1>11 DEF InKickoffs
  <2> QED BY <1>11, <2>2, <2>3, <2>4, <2>5 DEF Fits
<1>13. UsedSound(m, spent, finalizers, finalized)
  <2>1. /\ machine.possible_kickoffs \subseteq machine.used_kickoffs
        /\ \A j \in machine.used_kickoffs :
              /\ OfRound(machine, j) \in spent
              /\ OfRound(machine, j) \in finalizers <=> j \in machine.possible_kickoffs
        /\ \A j \in machine.kickoff_finalizers_spent : OfRound(machine, j) \in finalized
    BY <1>1, <1>2 DEF UsedSound
  <2>2. m.possible_kickoffs \subseteq m.used_kickoffs
    BY <1>10, <2>1
  <2>3. \A j \in m.used_kickoffs :
           OfRound(machine, j) \in spent /\ (OfRound(machine, j) \in finalizers <=> j \in m.possible_kickoffs)
    BY <1>9, <1>10, <2>1
  <2> QED BY <1>10, <1>11, <2>1, <2>2, <2>3 DEF UsedSound
<1>14. UsedComplete(m, spent, block)
  BY <1>1, <1>2, <1>10, <1>11 DEF UsedComplete
<1>15. UsedAtEnd(m, spentInRound, block)
  <2>1. PICK p \in MatchesAt(e) : \A f \in machine.matchers : \A j \in MatchesAt(f) :
           \/ p < j
           \/ p = j /\ Rank(e) < Rank(f)
           \/ p = j /\ Rank(e) = Rank(f) /\ e.kickoff <= f.kickoff
    BY <1>7 DEF Dispatch, First
  <2>2. p \in DOMAIN block /\ Uses(block[p], k)
    BY <1>1, <1>3, <2>1, MatchFacts DEF OfRound
  <2>3. ASSUME NEW q \in DOMAIN block, Ends(block[q], machine.round)
        PROVE  k \in spentInRound[machine.round]
    <3>1. \/ q \in MatchesAt(ReadyToReimburseSent(machine.round))
          \/ q \in MatchesAt(OperatorExit(machine.round))
      BY <1>2, <2>3, EndIsMatched
    <3>2. ReadyToReimburseSent(machine.round) \in machine.matchers /\ OperatorExit(machine.round) \in machine.matchers
      BY <1>1, <1>2 DEF Fits
    <3>3. p < q \/ p = q
      BY <2>1, <3>1, <3>2
    <3>4. p \in Int /\ q \in Int
      BY <1>1, <2>2 DEF BlockInv
    <3>5. p <= q /\ machine.round \in 0..NumRounds - 1
      BY <1>1, <1>2, <3>3, <3>4 DEF InKickoffs, Rounds
    <3>6. k \in block[p].kickoffs /\ block[p].type # "finalizer" /\ k[1] = machine.round
      BY <2>2 DEF Uses, OfRound
    <3>7. BlockEnds(spentInRound, block)
      BY <1>1 DEF BlockInv
    <3> HIDE DEF k
    <3> QED BY <2>2, <2>3, <3>5, <3>6, <3>7 DEF BlockEnds
  <2> QED BY <1>1, <1>2, <1>10, <1>11, <2>3 DEF UsedAtEnd
<1>16. faults = 0 => FinalizersFollowed(m, finalized, block)
  <2> SUFFICES ASSUME faults = 0 PROVE FinalizersFollowed(m, finalized, block)
    OBVIOUS
  <2>1. FinalizersFollowed(machine, finalized, block)
    BY <1>1 DEF SavedInv
  <2>2. \A j : KickoffFinalizerSpent(machine.round, j) # e
    BY <1>3, EventFields
  <2> QED BY <1>2, <1>10, <1>11, <2>1, <2>2 DEF FinalizersFollowed
<1> DEFINE C == {CheckIfKickoff(machine.round, i)}
<1>17. /\ C \subseteq {CheckIfKickoff(m.round, j) : j \in m.used_kickoffs}
       /\ \A j \in m.used_kickoffs : j \in machine.used_kickoffs \/ CheckIfKickoff(m.round, j) \in C
       /\ machine.used_kickoffs \subseteq m.used_kickoffs
       /\ Dispatch(e, m, C \cup QueueDuty(m))
  BY <1>7, <1>10
<1> HIDE DEF C
<1> QED BY <1>1, <1>2, <1>10, <1>12, <1>13, <1>14, <1>15, <1>16, <1>17, RecordStep

(* The finalizer of a kickoff is spent. *)
LEMMA KickoffFinalizerSpentStep ==
    ASSUME Inv, NEW e \in machine.matchers, OnKickoffFinalizerSpent(e)
    PROVE  Inv'
<1>1. /\ BlockInv /\ machine \in MachineType /\ Fits(machine) /\ NumRounds \in Nat
      /\ machine.round \in Rounds /\ pc = "processing" /\ e.event = "KickoffFinalizerSpent"
      /\ UsedSound(machine, spent, finalizers, finalized) /\ UsedComplete(machine, spent, block)
      /\ UsedAtEnd(machine, spentInRound, block) /\ SavedInv
  BY RoundAssumption DEF Inv, MachineInv, OnKickoffFinalizerSpent, MachineType
<1>2. InKickoffs(machine) /\ \E i \in KickoffIdx : e = KickoffFinalizerSpent(machine.round, i)
  BY <1>1, EventsFit
<1>3. PICK i \in KickoffIdx : e = KickoffFinalizerSpent(machine.round, i)
  BY <1>2
<1>4. e.round = machine.round /\ e.kickoff = i
  BY <1>3, EventFields
<1> DEFINE m == [Without(e) EXCEPT !.kickoff_finalizers_spent = @ \cup {e.kickoff}]
           k == OfRound(machine, i)
           C == {}
<1>5. Dispatch(e, m, QueueDuty(m))
  BY DEF OnKickoffFinalizerSpent
<1>6. /\ m \in MachineType /\ m.state = machine.state /\ m.round = machine.round /\ m.dirty = TRUE
      /\ m.used_kickoffs = machine.used_kickoffs /\ m.possible_kickoffs = machine.possible_kickoffs
      /\ m.kickoff_finalizers_spent = machine.kickoff_finalizers_spent \cup {i}
      /\ m.matchers = machine.matchers \ {e}
  BY <1>1, <1>4 DEF MachineType, Without
<1> HIDE DEF m
<1>7. InKickoffs(m) /\ \A j : OfRound(m, j) = OfRound(machine, j)
  BY <1>2, <1>6 DEF InKickoffs, OfRound
<1>8. k \in finalized
  <2>1. PICK n \in MatchesAt(e) : TRUE
    BY <1>5 DEF Dispatch, First
  <2>2. n \in DOMAIN block /\ block[n] = FinalizerTx(k)
    BY <1>1, <1>3, <2>1, MatchFacts DEF OfRound
  <2>3. k \in block[n].kickoffs /\ block[n].type = "finalizer"
    BY <2>2, TxFields
  <2> QED BY <1>1, <2>2, <2>3 DEF BlockInv, BlockSpends
<1>9. Fits(m)
  <2>1. /\ ReadyToReimburseSent(m.round) # e /\ OperatorExit(m.round) # e
        /\ \A j \in KickoffIdx : KickoffUtxoUsed(m.round, j) # e
    BY <1>3, EventFields
  <2>2. m.state = "round_tx"
    BY <1>7 DEF InKickoffs
  <2>3. /\ ReadyToReimburseSent(m.round) \in m.matchers /\ OperatorExit(m.round) \in m.matchers
        /\ \A j \in KickoffIdx : j \in m.used_kickoffs \/ KickoffUtxoUsed(m.round, j) \in m.matchers
        /\ m.matchers \subseteq EntryMatchers("round_tx", m.round)
                                \cup {KickoffFinalizerSpent(m.round, j) : j \in KickoffIdx}
    BY <1>1, <1>2, <1>6, <2>1 DEF Fits
  <2> QED BY <1>7, <2>2, <2>3 DEF Fits
<1>10. UsedSound(m, spent, finalizers, finalized)
  BY <1>1, <1>2, <1>6, <1>7, <1>8 DEF UsedSound
<1>11. UsedComplete(m, spent, block)
  BY <1>1, <1>2, <1>6, <1>7 DEF UsedComplete
<1>12. UsedAtEnd(m, spentInRound, block)
  BY <1>1, <1>2, <1>6, <1>7 DEF UsedAtEnd
<1>13. faults = 0 => FinalizersFollowed(m, finalized, block)
  <2> SUFFICES ASSUME faults = 0 PROVE FinalizersFollowed(m, finalized, block)
    OBVIOUS
  <2>1. FinalizersFollowed(machine, finalized, block)
    BY <1>1 DEF SavedInv
  <2>2. \A j : KickoffFinalizerSpent(machine.round, j) = e => j = i
    BY <1>4, EventFields
  <2> QED BY <1>2, <1>6, <1>7, <2>1, <2>2 DEF FinalizersFollowed
<1>14. /\ C \subseteq {CheckIfKickoff(m.round, j) : j \in m.used_kickoffs}
       /\ \A j \in m.used_kickoffs : j \in machine.used_kickoffs \/ CheckIfKickoff(m.round, j) \in C
       /\ machine.used_kickoffs \subseteq m.used_kickoffs
       /\ Dispatch(e, m, C \cup QueueDuty(m))
  <2>1. C \cup QueueDuty(m) = QueueDuty(m)
    OBVIOUS
  <2> QED BY <1>5, <1>6, <2>1
<1> HIDE DEF C
<1> QED BY <1>1, <1>2, <1>6, <1>9, <1>10, <1>11, <1>12, <1>13, <1>14, RecordStep

-----------------------------------------------------------------------------
(* Machines that are at the same point, whatever was saved of them. *)
Same(x, m) ==
    /\ x \in MachineType /\ x.state = m.state /\ x.round = m.round /\ x.used_kickoffs = m.used_kickoffs
    /\ x.possible_kickoffs = m.possible_kickoffs
    /\ x.kickoff_finalizers_spent = m.kickoff_finalizers_spent

(* A block whose transactions match no matcher moved the collateral only   *)
(* if the machine follows it no more.                                      *)
LEMMA SeenMoves ==
    ASSUME Inv, \A e \in machine.matchers : MatchesAt(e) = {}
    PROVE  Follows(machine, collateral, << >>)
<1>1. /\ BlockInv /\ machine \in MachineType /\ Fits(machine) /\ NumRounds \in Nat
      /\ machine.round \in 0..NumRounds /\ machine.state \in States /\ Follows(machine, collateral, block)
  BY RoundAssumption DEF Inv, MachineInv, MachineType, Rounds
<1>2. SUFFICES ASSUME NEW n \in DOMAIN block, Moves(block[n]), block[n].from = Place(machine)
               PROVE  machine.state = "round_tx" /\ machine.round = NumRounds
  BY <1>1 DEF Follows
<1>3. block[n] \in BlockTxs
  BY <1>1 DEF BlockInv
<1>4. \A r : /\ RoundSent(r) \in machine.matchers => block[n] # RoundTx(r)
             /\ ReadyToReimburseSent(r) \in machine.matchers => block[n] # ReadyToReimburseTx(r)
             /\ OperatorExit(r) \in machine.matchers => block[n].type # "exit"
  <2> TAKE r
  <2>1. RoundSent(r) \in machine.matchers => n \notin MatchesAt(RoundSent(r))
    OBVIOUS
  <2>2. ReadyToReimburseSent(r) \in machine.matchers => n \notin MatchesAt(ReadyToReimburseSent(r))
    OBVIOUS
  <2>3. OperatorExit(r) \in machine.matchers => n \notin MatchesAt(OperatorExit(r))
    OBVIOUS
  <2>4. /\ MatchesAt(ReadyToReimburseSent(r)) = {j \in DOMAIN block : block[j] = ReadyToReimburseTx(r)}
        /\ MatchesAt(RoundSent(r)) = {j \in DOMAIN block : block[j] = RoundTx(r)}
        /\ MatchesAt(OperatorExit(r)) =
              {j \in DOMAIN block : block[j].type = "exit" /\ block[j].from = Place(machine)}
    BY <1>1, MatchFacts
  <2> QED BY <1>2, <2>1, <2>2, <2>3, <2>4
<1>5. /\ machine.state = "initial_collateral" =>
            /\ Place(machine) = Funding
            /\ RoundSent(0) \in machine.matchers /\ OperatorExit(0) \in machine.matchers
      /\ machine.state = "ready_to_reimburse" =>
            /\ Place(machine) = InReady(machine.round)
            /\ RoundSent(machine.round + 1) \in machine.matchers /\ OperatorExit(machine.round) \in machine.matchers
      /\ machine.state = "round_tx" => Place(machine) = InRound(machine.round)
      /\ machine.state = "operator_exit" => Place(machine) = Gone
      /\ InKickoffs(machine) => /\ ReadyToReimburseSent(machine.round) \in machine.matchers
                                /\ OperatorExit(machine.round) \in machine.matchers
  <2>1. /\ machine.state = "initial_collateral" => machine.matchers = {RoundSent(0), OperatorExit(0)}
        /\ machine.state = "ready_to_reimburse" =>
              machine.matchers = {RoundSent(machine.round + 1), OperatorExit(machine.round)}
    BY <1>1, EntryFacts DEF Fits, InKickoffs
  <2>2. InKickoffs(machine) => /\ ReadyToReimburseSent(machine.round) \in machine.matchers
                               /\ OperatorExit(machine.round) \in machine.matchers
    BY <1>1 DEF Fits
  <2> QED BY <1>1, <2>1, <2>2, PlaceOf
<1>6. CASE block[n].type = "exit"
  <2>1. Place(machine) # Gone
    BY <1>2, <1>3, <1>6, TxCases
  <2>2. ~InKickoffs(machine)
    BY <1>4, <1>5, <1>6
  <2>3. machine.state = "round_tx"
    BY <1>1, <1>4, <1>5, <1>6, <2>1 DEF States
  <2> QED BY <1>1, <2>2, <2>3 DEF InKickoffs
<1>7. CASE block[n].type = "ready_to_reimburse"
  <2>1. PICK r \in 0..NumRounds - 1 : block[n] = ReadyToReimburseTx(r)
    BY <1>3, <1>7, TxCases
  <2>2. Place(machine) = InRound(r)
    BY <1>2, <2>1, TxFields
  <2>3. machine.state = "round_tx" /\ machine.round = r
    BY <1>1, <2>2, PlaceOf
  <2>4. InKickoffs(machine)
    BY <1>1, <2>3 DEF InKickoffs
  <2> QED BY <1>4, <1>5, <2>1, <2>3, <2>4
<1>8. CASE block[n].type = "round"
  <2>1. PICK r \in Rounds : block[n] = RoundTx(r)
    BY <1>3, <1>8, TxCases
  <2>2. Place(machine) = IF r = 0 THEN Funding ELSE InReady(r - 1)
    BY <1>2, <2>1, TxFields
  <2>3. CASE r = 0
    <3>1. machine.state = "initial_collateral"
      BY <1>1, <1>5, <2>2, <2>3, PlaceFields DEF States
    <3> QED BY <1>4, <1>5, <2>1, <2>3, <3>1
  <2>4. CASE r # 0
    <3>1. machine.state = "ready_to_reimburse" /\ InReady(machine.round).round = InReady(r - 1).round
      <4>1. Place(machine).at = "ready_to_reimburse"
        BY <2>2, <2>4, PlaceFields
      <4>2. machine.state = "ready_to_reimburse"
        BY <1>1, <1>5, <4>1, PlaceFields DEF States
      <4> QED BY <1>5, <2>2, <2>4, <4>2
    <3>2. machine.round = r - 1
      BY <3>1, PlaceFields
    <3>3. machine.round + 1 = r
      BY <3>2 DEF Rounds
    <3> QED BY <1>4, <1>5, <2>1, <3>1, <3>3
  <2> QED BY <2>3, <2>4
<1> QED BY <1>2, <1>6, <1>7, <1>8 DEF Moves

(* ... and everything of the round that is in it is recorded. *)
LEMMA SeenKickoffs ==
    ASSUME Inv, \A e \in machine.matchers : MatchesAt(e) = {}
    PROVE  /\ UsedComplete(machine, spent, << >>)
           /\ faults = 0 => FinalizersFollowed(machine, finalized, << >>)
<1>1. /\ BlockInv /\ ChainInv /\ machine \in MachineType /\ Fits(machine) /\ SavedInv
      /\ UsedComplete(machine, spent, block) /\ UsedSound(machine, spent, finalizers, finalized)
  BY DEF Inv, MachineInv
<1>2. ASSUME InKickoffs(machine), NEW i \in KickoffIdx, OfRound(machine, i) \in spent
      PROVE  i \in machine.used_kickoffs
  <2>1. SUFFICES ASSUME i \notin machine.used_kickoffs PROVE FALSE
    OBVIOUS
  <2>2. PICK n \in DOMAIN block : Uses(block[n], OfRound(machine, i))
    BY <1>1, <1>2, <2>1 DEF UsedComplete
  <2>3. KickoffUtxoUsed(machine.round, i) \in machine.matchers
    BY <1>1, <1>2, <2>1 DEF Fits
  <2>4. n \in MatchesAt(KickoffUtxoUsed(machine.round, i))
    BY <1>1, <2>2, MatchFacts DEF OfRound
  <2> QED BY <2>3, <2>4
<1>3. UsedComplete(machine, spent, << >>)
  BY <1>2 DEF UsedComplete
<1>4. ASSUME faults = 0 PROVE FinalizersFollowed(machine, finalized, << >>)
  <2>1. FinalizersFollowed(machine, finalized, block)
    BY <1>1, <1>4 DEF SavedInv
  <2>2. ASSUME InKickoffs(machine), NEW i \in KickoffIdx, OfRound(machine, i) \in finalized
        PROVE  i \in machine.kickoff_finalizers_spent
    <3>1. SUFFICES ASSUME i \notin machine.kickoff_finalizers_spent PROVE FALSE
      OBVIOUS
    <3>2. PICK n \in DOMAIN block : block[n] = FinalizerTx(OfRound(machine, i))
      BY <2>1, <2>2, <3>1 DEF FinalizersFollowed
    <3>3. OfRound(machine, i) \in finalizers /\ OfRound(machine, i) \in spent
      BY <1>1, <2>2 DEF ChainInv
    <3>4. i \in machine.possible_kickoffs
      BY <1>1, <1>2, <2>2, <3>3 DEF UsedSound
    <3>5. KickoffFinalizerSpent(machine.round, i) \in machine.matchers
      BY <2>1, <2>2, <3>1, <3>4 DEF FinalizersFollowed
    <3>6. n \in MatchesAt(KickoffFinalizerSpent(machine.round, i))
      BY <1>1, <3>2, MatchFacts DEF OfRound
    <3> QED BY <3>5, <3>6
  <2> QED BY <2>1, <2>2 DEF FinalizersFollowed
<1> QED BY <1>3, <1>4

(* A machine at the same point, with the same matchers or those of the     *)
(* state, has the same invariant.                                          *)
LEMMA SameMachine ==
    ASSUME NEW m \in MachineType, NEW x, Same(x, m), Fits(m),
           x.matchers = m.matchers \/ x.matchers = EntryMatchers(m.state, m.round),
           NEW co, NEW blk, NEW sp, NEW fz, NEW fd, NEW sir, NEW D
    PROVE  /\ Fits(x)
           /\ Follows(m, co, blk) => Follows(x, co, blk)
           /\ UsedSound(m, sp, fz, fd) => UsedSound(x, sp, fz, fd)
           /\ UsedComplete(m, sp, blk) => UsedComplete(x, sp, blk)
           /\ UsedAtEnd(m, sir, blk) => UsedAtEnd(x, sir, blk)
           /\ Reports(m, D) => Reports(x, D)
           /\ ReportsNoMore(m, D) => ReportsNoMore(x, D)
           /\ x.matchers = m.matchers /\ FinalizersFollowed(m, fd, blk) => FinalizersFollowed(x, fd, blk)
<1>1. /\ x \in MachineType /\ x.state = m.state /\ x.round = m.round /\ x.used_kickoffs = m.used_kickoffs
      /\ x.possible_kickoffs = m.possible_kickoffs
      /\ x.kickoff_finalizers_spent = m.kickoff_finalizers_spent
  BY DEF Same
<1>2. InKickoffs(x) <=> InKickoffs(m)
  BY <1>1 DEF InKickoffs
<1>3. \A i : OfRound(x, i) = OfRound(m, i)
  BY <1>1 DEF OfRound
<1>4. Place(x) = Place(m)
  BY <1>1 DEF Place
<1>5. Fits(x)
  <2>1. InKickoffs(m) => m.state = "round_tx" /\ m.round # NumRounds
    BY RoundAssumption DEF InKickoffs, MachineType, Rounds
  <2>2. m.state = "round_tx" /\ m.round # NumRounds =>
           EntryMatchers("round_tx", m.round) = {ReadyToReimburseSent(m.round), OperatorExit(m.round)}
                        \cup {KickoffUtxoUsed(m.round, i) : i \in KickoffIdx}
    BY EntryFacts
  <2> QED BY <1>1, <1>2, <2>1, <2>2 DEF Fits
<1>6. Follows(m, co, blk) => Follows(x, co, blk)
  BY <1>1, <1>4 DEF Follows
<1>7. UsedSound(m, sp, fz, fd) => UsedSound(x, sp, fz, fd)
  BY <1>1, <1>2, <1>3 DEF UsedSound
<1>8. UsedComplete(m, sp, blk) => UsedComplete(x, sp, blk)
  BY <1>1, <1>2, <1>3 DEF UsedComplete
<1>9. UsedAtEnd(m, sir, blk) => UsedAtEnd(x, sir, blk)
  BY <1>1, <1>2, <1>3 DEF UsedAtEnd
<1>10. Reports(m, D) => Reports(x, D)
  BY <1>1, <1>2 DEF Reports
<1>11. ReportsNoMore(m, D) => ReportsNoMore(x, D)
  BY <1>1, <1>4 DEF ReportsNoMore
<1>12. x.matchers = m.matchers /\ FinalizersFollowed(m, fd, blk) => FinalizersFollowed(x, fd, blk)
  BY <1>1, <1>2, <1>3 DEF FinalizersFollowed
<1> QED BY <1>5, <1>6, <1>7, <1>8, <1>9, <1>10, <1>11, <1>12

(* The block is closed, or nothing happens. *)
LEMMA CloseStep ==
    ASSUME Inv, pc' \in {pc, "processing"}, UNCHANGED <<chainVars, machine, pending, row, duties, faults>>
    PROVE  Inv'
<1>1. /\ machine' = machine /\ pending' = pending /\ collateral' = collateral /\ mined' = mined
      /\ spent' = spent /\ finalizers' = finalizers /\ finalized' = finalized
      /\ spentInRound' = spentInRound /\ block' = block /\ row' = row /\ duties' = duties /\ faults' = faults
  BY DEF chainVars
<1>2. ChainInv'
  BY <1>1 DEF Inv, ChainInv
<1>3. BlockInv'
  BY <1>1 DEF Inv, BlockInv
<1>4. SavedInv'
  BY <1>1 DEF Inv, SavedInv
<1>5. MachineInv(row, duties)'
  <2>1. MachineInv(row, duties)
    BY DEF Inv
  <2> QED BY <1>1, <2>1 DEF MachineInv
<1>6. MachineInv(machine, duties \cup pending)'
  <2>1. MachineInv(machine, duties \cup pending)
    BY DEF Inv
  <2> QED BY <1>1, <2>1 DEF MachineInv
<1> QED BY <1>2, <1>3, <1>4, <1>5, <1>6 DEF Inv

(* The block is done: the machine is saved, and its duties with it. *)
LEMMA SaveBlockStep ==
    ASSUME Inv, SaveBlock
    PROVE  Inv'
<1> DEFINE D == duties \cup pending
<1>1. /\ ChainInv /\ SavedInv /\ MachineInv(machine, D) /\ row \in MachineType
      /\ machine \in MachineType /\ Fits(machine)
  BY DEF Inv, MachineInv
<1>2. /\ row' = (IF machine.dirty THEN machine ELSE row) /\ machine' = [machine EXCEPT !.dirty = FALSE]
      /\ duties' = D /\ pending' = {} /\ block' = << >> /\ pc' = "mining"
      /\ collateral' = collateral /\ mined' = mined /\ spent' = spent /\ finalizers' = finalizers
      /\ finalized' = finalized /\ spentInRound' = spentInRound /\ faults' = faults
      /\ \A e \in machine.matchers : MatchesAt(e) = {}
  BY DEF SaveBlock
<1> HIDE DEF D
<1>3. /\ Follows(machine, collateral, << >>) /\ UsedComplete(machine, spent, << >>)
      /\ faults = 0 => FinalizersFollowed(machine, finalized, << >>)
  BY <1>2, SeenMoves, SeenKickoffs
<1>4. UsedAtEnd(machine, spentInRound, << >>)
  BY DEF UsedAtEnd
<1>5. /\ machine' \in MachineType /\ machine'.dirty = FALSE /\ Same(machine', machine)
      /\ machine'.matchers = machine.matchers
  BY <1>1, <1>2 DEF Same, MachineType
<1>6. Same(row', machine) /\ row'.matchers = machine.matchers /\ row'.dirty = TRUE
      /\ machine' = [row' EXCEPT !.dirty = FALSE]
  <2>1. machine.dirty \in BOOLEAN
    BY <1>1 DEF MachineType
  <2>2. CASE machine.dirty = TRUE
    BY <1>1, <1>2, <2>2 DEF Same
  <2>3. CASE machine.dirty = FALSE
    <3>1. row' = row /\ machine = [row EXCEPT !.dirty = FALSE] /\ row.dirty = TRUE
      BY <1>1, <1>2, <2>3 DEF SavedInv
    <3>2. /\ machine.state = row.state /\ machine.round = row.round /\ machine.used_kickoffs = row.used_kickoffs
          /\ machine.possible_kickoffs = row.possible_kickoffs /\ machine.matchers = row.matchers
          /\ machine.kickoff_finalizers_spent = row.kickoff_finalizers_spent
      BY <1>1, <3>1 DEF MachineType
    <3>3. machine' = [row EXCEPT !.dirty = FALSE]
      BY <1>1, <1>2, <3>1 DEF MachineType
    <3> QED BY <1>1, <3>1, <3>2, <3>3 DEF Same
  <2> QED BY <2>1, <2>2, <2>3
<1>7. ASSUME NEW x, Same(x, machine), x.matchers = machine.matchers
      PROVE  /\ x \in MachineType /\ Fits(x) /\ Follows(x, collateral, << >>)
             /\ UsedSound(x, spent, finalizers, finalized)
             /\ UsedComplete(x, spent, << >>) /\ UsedAtEnd(x, spentInRound, << >>)
             /\ Reports(x, D) /\ ReportsNoMore(x, D)
             /\ faults = 0 => FinalizersFollowed(x, finalized, << >>)
  <2>1. /\ UsedSound(machine, spent, finalizers, finalized) /\ Reports(machine, D) /\ ReportsNoMore(machine, D)
    BY <1>1 DEF MachineInv
  <2>2. x \in MachineType
    BY <1>7 DEF Same
  <2> QED BY <1>1, <1>3, <1>4, <1>7, <2>1, <2>2, SameMachine
<1>8. Duties(D) /\ EndsReported(D, spentInRound) /\ QueueGood(D, spent, finalizers, finalized)
  BY <1>1 DEF MachineInv
<1>9. MachineInv(row, duties)'
  <2>1. /\ row' \in MachineType /\ Fits(row') /\ Follows(row', collateral, << >>)
        /\ UsedSound(row', spent, finalizers, finalized)
        /\ UsedComplete(row', spent, << >>) /\ UsedAtEnd(row', spentInRound, << >>)
        /\ Reports(row', D) /\ ReportsNoMore(row', D)
    BY <1>6, <1>7
  <2> QED BY <1>2, <1>8, <2>1 DEF MachineInv
<1>10. /\ machine' \in MachineType /\ Fits(machine') /\ Follows(machine', collateral, << >>)
       /\ UsedSound(machine', spent, finalizers, finalized)
       /\ UsedComplete(machine', spent, << >>) /\ UsedAtEnd(machine', spentInRound, << >>)
       /\ Reports(machine', D) /\ ReportsNoMore(machine', D)
       /\ faults = 0 => FinalizersFollowed(machine', finalized, << >>)
  BY <1>5, <1>7
<1>11. MachineInv(machine, duties \cup pending)'
  <2>1. (duties \cup pending)' = D
    BY <1>2
  <2> QED BY <1>2, <1>8, <1>10, <2>1 DEF MachineInv
<1>12. ChainInv'
  BY <1>1, <1>2 DEF ChainInv
<1>13. BlockInv'
  BY <1>2 DEF BlockInv, BlockMoves, BlockSpends, BlockBegins, BlockEnds
<1>14. SavedInv'
  BY <1>2, <1>6, <1>10 DEF SavedInv
<1> QED BY <1>9, <1>11, <1>12, <1>13, <1>14 DEF Inv

(* The machine is loaded from its row. *)
LEMMA ReloadStep ==
    ASSUME Inv, Reload
    PROVE  Inv'
<1> DEFINE M == EntryMatchers(row.state, row.round)
<1>1. ChainInv /\ SavedInv /\ BlockInv /\ MachineInv(row, duties) /\ row \in MachineType /\ Fits(row)
  BY DEF Inv, MachineInv
<1>2. /\ machine' = [row EXCEPT !.matchers = M] /\ pending' = {} /\ faults' = faults + 1
      /\ collateral' = collateral /\ mined' = mined /\ spent' = spent /\ finalizers' = finalizers
      /\ finalized' = finalized /\ spentInRound' = spentInRound /\ block' = block
      /\ pc' = pc /\ row' = row /\ duties' = duties
  BY DEF Reload, chainVars
<1>3. M \subseteq MatcherType
  <2>1. row.state \in States /\ row.round \in Rounds /\ (row.state = "ready_to_reimburse" => row.round < NumRounds)
    BY <1>1 DEF MachineType, Fits
  <2> QED BY <2>1, EntryType
<1> HIDE DEF M
<1>4. machine' \in MachineType /\ machine'.dirty = row.dirty /\ Same(machine', row) /\ machine'.matchers = M
  BY <1>1, <1>2, <1>3 DEF Same, MachineType, MatcherType
<1>5. machine'.matchers = EntryMatchers(row.state, row.round)
  BY <1>4 DEF M
<1>6. /\ Follows(row, collateral, block) /\ UsedSound(row, spent, finalizers, finalized)
      /\ UsedComplete(row, spent, block) /\ UsedAtEnd(row, spentInRound, block)
      /\ Reports(row, duties) /\ ReportsNoMore(row, duties)
      /\ Duties(duties) /\ EndsReported(duties, spentInRound) /\ QueueGood(duties, spent, finalizers, finalized)
  BY <1>1 DEF MachineInv
<1>7. /\ Fits(machine') /\ Follows(machine', collateral, block)
      /\ UsedSound(machine', spent, finalizers, finalized)
      /\ UsedComplete(machine', spent, block) /\ UsedAtEnd(machine', spentInRound, block)
      /\ Reports(machine', duties) /\ ReportsNoMore(machine', duties)
  BY <1>1, <1>4, <1>5, <1>6, SameMachine
<1>8. MachineInv(machine, duties \cup pending)'
  <2>1. (duties \cup pending)' = duties
    BY <1>2
  <2> QED BY <1>2, <1>4, <1>6, <1>7, <2>1 DEF MachineInv
<1>9. MachineInv(row, duties)'
  BY <1>1, <1>2 DEF MachineInv
<1>10. ChainInv'
  BY <1>1, <1>2 DEF ChainInv
<1>11. BlockInv'
  BY <1>1, <1>2 DEF BlockInv
<1>12. SavedInv'
  BY <1>1, <1>2, <1>4 DEF SavedInv, ChainInv
<1> QED BY <1>8, <1>9, <1>10, <1>11, <1>12 DEF Inv

-----------------------------------------------------------------------------
LEMMA InvInit ==
    ASSUME Init
    PROVE  Inv
<1>1. NumRounds \in Nat /\ 0 \in Rounds /\ 0 \in 0..NumRounds + 1
  BY RoundAssumption DEF Rounds
<1>2. EntryMatchers("initial_collateral", 0) \subseteq MatcherType
  BY <1>1, EntryType DEF States
<1> DEFINE M == EntryMatchers("initial_collateral", 0)
<1> HIDE DEF M
<1>3. ASSUME NEW x, x \in {NewMachine, [NewMachine EXCEPT !.dirty = FALSE]}
      PROVE  MachineInv(x, {})
  <2>1. /\ x \in MachineType /\ x.state = "initial_collateral" /\ x.round = 0
        /\ x.matchers = EntryMatchers(x.state, x.round)
    <3>1. NewMachine = [state |-> "initial_collateral", round |-> 0, used_kickoffs |-> {},
                        possible_kickoffs |-> {}, kickoff_finalizers_spent |-> {},
                        matchers |-> M, dirty |-> TRUE]
      BY DEF NewMachine, M
    <3>2. M \subseteq MatcherType
      BY <1>2 DEF M
    <3>3. NewMachine \in MachineType
      BY <1>1, <3>1, <3>2 DEF MachineType, States, MatcherType
    <3>4. /\ NewMachine.state = "initial_collateral" /\ NewMachine.round = 0 /\ NewMachine.matchers = M
      BY <3>1
    <3>5. CASE x = NewMachine
      BY <3>3, <3>4, <3>5 DEF M
    <3>6. CASE x = [NewMachine EXCEPT !.dirty = FALSE]
      <4> DEFINE N == NewMachine
      <4> HIDE DEF N
      <4>1. N \in MachineType /\ N.state = "initial_collateral" /\ N.round = 0 /\ N.matchers = M
            /\ x = [N EXCEPT !.dirty = FALSE]
        BY <3>3, <3>4, <3>6 DEF N
      <4>2. x \in MachineType /\ x.state = "initial_collateral" /\ x.round = 0 /\ x.matchers = M
        BY <4>1 DEF MachineType
      <4> QED BY <4>2 DEF M
    <3> QED BY <1>3, <3>5, <3>6
  <2>2. ~InKickoffs(x)
    BY <2>1 DEF InKickoffs
  <2>3. Fits(x)
    BY <2>1, <2>2 DEF Fits
  <2>4. Place(x) = Funding
    BY <2>1, <2>3, PlaceOf
  <2>5. Follows(x, collateral, block)
    BY <2>4, AtPlaces DEF Follows, Init
  <2>6. /\ UsedSound(x, spent, finalizers, finalized) /\ UsedComplete(x, spent, block)
        /\ UsedAtEnd(x, spentInRound, block) /\ Reports(x, {}) /\ ReportsNoMore(x, {})
    BY <2>2 DEF UsedSound, UsedComplete, UsedAtEnd, Reports, ReportsNoMore
  <2>7. /\ Duties({}) /\ EndsReported({}, spentInRound) /\ QueueGood({}, spent, finalizers, finalized)
    BY DEF Duties, EndsReported, QueueGood
  <2> QED BY <2>1, <2>3, <2>5, <2>6, <2>7 DEF MachineInv
<1>4. ChainInv
  BY <1>1, PlaceFields DEF Init, ChainInv, Places
<1>5. BlockInv
  BY DEF Init, BlockInv, BlockMoves, BlockSpends, BlockBegins, BlockEnds
<1>6. SavedInv
  <2>1. row.dirty = TRUE /\ machine = [row EXCEPT !.dirty = FALSE]
    BY DEF Init, NewMachine
  <2>2. ~InKickoffs(machine)
    BY DEF Init, NewMachine, InKickoffs
  <2>3. FinalizersFollowed(machine, finalized, block)
    BY <2>2 DEF FinalizersFollowed
  <2> QED BY <2>1, <2>3 DEF Init, SavedInv
<1>7. duties \cup pending = {} /\ duties = {}
  BY DEF Init
<1>8. MachineInv(machine, duties \cup pending) /\ MachineInv(row, duties)
  BY <1>3, <1>7 DEF Init
<1> QED BY <1>4, <1>5, <1>6, <1>8 DEF Inv

LEMMA InvNext ==
    ASSUME Inv, [Next]_vars
    PROVE  Inv'
<1>1. ChainInv
  BY DEF Inv
<1>2. CASE Operate
  <2>1. ASSUME NEW r \in Rounds, MineCollateral(RoundTx(r)) PROVE Inv'
    <3>1. RoundTx(r) \in BlockTxs /\ Moves(RoundTx(r))
      BY TxFields DEF BlockTxs, Moves
    <3> QED BY <1>1, <2>1, <3>1, MineCollateralMines, MinesStep
  <2>2. ASSUME NEW r \in 0..NumRounds - 1, MineCollateral(ReadyToReimburseTx(r)) PROVE Inv'
    <3>1. ReadyToReimburseTx(r) \in BlockTxs /\ Moves(ReadyToReimburseTx(r))
      BY TxFields DEF BlockTxs, Moves
    <3> QED BY <1>1, <2>2, <3>1, MineCollateralMines, MinesStep
  <2>3. ASSUME NEW S \in SUBSET Unspent, MineCollateral(ExitTx(S)) PROVE Inv'
    <3>1. S \in SUBSET Kickoffs /\ collateral \in Places \ {Gone}
      BY <1>1, <2>3 DEF Unspent, MineCollateral, ChainInv
    <3>2. ExitTx(S) \in BlockTxs /\ Moves(ExitTx(S))
      BY <3>1, TxFields DEF BlockTxs, Moves, ExitTx
    <3> QED BY <1>1, <2>3, <3>2, MineCollateralMines, MinesStep
  <2>4. ASSUME NEW S \in SUBSET Unspent, MineKickoffs(BurnTx(S)) PROVE Inv'
    <3>1. BurnTx(S) \in BlockTxs /\ BurnTx(S).type = "burn"
      BY TxFields DEF BlockTxs, Unspent
    <3> QED BY <1>1, <2>4, <3>1, MineKickoffsMines, MinesStep
  <2>5. ASSUME NEW k \in Unspent, MineKickoffs(KickoffTx(k)) PROVE Inv'
    <3>1. KickoffTx(k) \in BlockTxs /\ KickoffTx(k).type = "kickoff"
      BY TxFields DEF BlockTxs, Unspent
    <3> QED BY <1>1, <2>5, <3>1, MineKickoffsMines, MinesStep
  <2>6. ASSUME NEW k \in Unspent, MineKickoffs(LookalikeTx(k)) PROVE Inv'
    <3>1. LookalikeTx(k) \in BlockTxs /\ LookalikeTx(k).type = "lookalike"
      BY TxFields DEF BlockTxs, Unspent
    <3> QED BY <1>1, <2>6, <3>1, MineKickoffsMines, MinesStep
  <2>7. ASSUME NEW k \in finalizers, MineFinalizer(k) PROVE Inv'
    BY <1>1, <2>7, MineFinalizerMines, MinesStep
  <2> QED BY <1>2, <2>1, <2>2, <2>3, <2>4, <2>5, <2>6, <2>7 DEF Operate
<1>3. CASE CloseBlock
  BY <1>3, CloseStep DEF CloseBlock
<1>4. ASSUME NEW e \in machine.matchers,
             \/ OnRoundSent(e) \/ OnKickoffUtxoUsed(e) \/ OnKickoffFinalizerSpent(e)
             \/ OnReadyToReimburseSent(e) \/ OnOperatorExit(e)
      PROVE  Inv'
  BY <1>4, RoundSentStep, KickoffUtxoUsedStep, KickoffFinalizerSpentStep, ReadyToReimburseSentStep,
     OperatorExitStep
<1>5. CASE SaveBlock
  BY <1>5, SaveBlockStep
<1>6. CASE Reload
  BY <1>6, ReloadStep
<1>7. CASE UNCHANGED vars
  BY <1>7, CloseStep DEF vars
<1> QED BY <1>2, <1>3, <1>4, <1>5, <1>6, <1>7 DEF Next, Process

LEMMA InvAlways == Spec => []Inv
<1>1. Init => Inv
  BY InvInit
<1>2. Inv /\ [Next]_vars => Inv'
  BY InvNext
<1> QED BY <1>1, <1>2, PTL DEF Spec

-----------------------------------------------------------------------------
(* The machine, its row and the duties have their types. *)
THEOREM TypeCorrect == Spec => []TypeOK
<1>1. Inv => TypeOK
  <2> SUFFICES ASSUME Inv PROVE TypeOK
    OBVIOUS
  <2>1. MachineInv(machine, duties \cup pending) /\ row \in MachineType /\ pc \in {"mining", "processing"}
    BY DEF Inv, MachineInv, SavedInv
  <2>2. Duties(duties \cup pending) /\ machine \in MachineType
    BY <2>1 DEF MachineInv
  <2> QED BY <2>1, <2>2 DEF TypeOK, Duties
<1> QED BY <1>1, InvAlways, PTL

(* No block can fail on an unhandled event: the matchers that a state, a   *)
(* recorded event or a reload leaves are those of the state and its round. *)
THEOREM HandlesEveryEvent == Spec => []EventsAreHandled
<1>1. Inv => EventsAreHandled
  <2> SUFFICES ASSUME Inv, NEW e \in machine.matchers
               PROVE  CASE e.event = "RoundSent" ->
                              \/ machine.state = "initial_collateral" /\ e.round = 0
                              \/ machine.state = "ready_to_reimburse" /\ e.round = machine.round + 1
                        [] e.event = "OperatorExit" -> machine.state # "operator_exit"
                        [] OTHER -> machine.state = "round_tx" /\ e.round = machine.round
    BY DEF EventsAreHandled
  <2>1. machine \in MachineType /\ Fits(machine)
    BY DEF Inv, MachineInv
  <2>2. /\ e.event = "RoundSent" => \/ machine.state = "initial_collateral" /\ e.round = 0
                                    \/ machine.state = "ready_to_reimburse" /\ e.round = machine.round + 1
        /\ e.event = "OperatorExit" => machine.state # "operator_exit"
        /\ e.event \notin {"RoundSent", "OperatorExit"} => machine.state = "round_tx" /\ e.round = machine.round
    BY <2>1, EventsFit, EventFields DEF InKickoffs
  <2> QED BY <2>2
<1> QED BY <1>1, InvAlways, PTL

(* After every block, the machine is where the collateral is. *)
THEOREM CollateralIsFollowed == Spec => []FollowsCollateral
<1>1. Inv => FollowsCollateral
  <2> SUFFICES ASSUME Inv, AtRest
               PROVE  \/ Place(machine) = collateral
                      \/ machine.state = "round_tx" /\ machine.round = NumRounds
    BY DEF FollowsCollateral
  <2> QED BY DEF AtRest, Inv, MachineInv, Follows
<1> QED BY <1>1, InvAlways, PTL

(* Every use of a kickoff output is reported, and the end of a round with  *)
(* exactly the uses that came before it in the chain.                      *)
THEOREM ReportsTheKickoffs == Spec => []UsedKickoffsAreReported
<1>1. Inv => UsedKickoffsAreReported
  <2> SUFFICES ASSUME Inv PROVE UsedKickoffsAreReported
    OBVIOUS
  <2>1. /\ MachineInv(machine, duties \cup pending) /\ MachineInv(row, duties) /\ SavedInv /\ ChainInv
        /\ machine \in MachineType /\ NumRounds \in Nat
    BY RoundAssumption DEF Inv, MachineInv
  <2>2. ASSUME AtRest, machine.state = "round_tx", NEW i \in KickoffIdx, <<machine.round, i>> \in spent
        PROVE  CheckIfKickoff(machine.round, i) \in duties /\ i \in machine.used_kickoffs
    <3>1. machine.round < NumRounds
      BY <2>1, <2>2 DEF ChainInv, Kickoffs
    <3>2. InKickoffs(machine) /\ block = << >> /\ pending = {}
      BY <2>1, <2>2, <3>1 DEF InKickoffs, AtRest, SavedInv
    <3>3. i \in machine.used_kickoffs
      BY <2>1, <2>2, <3>2 DEF MachineInv, UsedComplete, OfRound
    <3>4. CheckIfKickoff(machine.round, i) \in duties \cup pending
      BY <2>1, <3>2, <3>3 DEF MachineInv, Reports
    <3> QED BY <3>2, <3>3, <3>4
  <2>3. EndsReported(duties, spentInRound)
    BY <2>1 DEF MachineInv
  <2> QED BY <2>2, <2>3 DEF UsedKickoffsAreReported, EndsReported
<1> QED BY <1>1, InvAlways, PTL

(* The operator is told to end a round only when it is finished, and       *)
(* without a reload as soon as it is.                                      *)
THEOREM QueuesInTime == Spec => []QueuedExactlyWhenFinished
<1>1. Inv => QueuedExactlyWhenFinished
  <2> SUFFICES ASSUME Inv PROVE QueuedExactlyWhenFinished
    OBVIOUS
  <2>1. /\ MachineInv(machine, duties \cup pending) /\ MachineInv(row, duties) /\ SavedInv
        /\ machine \in MachineType
    BY DEF Inv, MachineInv
  <2>2. QueuedOnlyWhenFinished
    BY <2>1 DEF MachineInv, QueueGood, QueuedOnlyWhenFinished
  <2>3. ASSUME faults = 0 PROVE QueuedWhenFinished
    <3> SUFFICES ASSUME AtRest, machine.state = "round_tx", machine.round < NumRounds,
                        \A i \in KickoffIdx : <<machine.round, i>> \in spent,
                        \A k \in finalizers : k[1] = machine.round => k \in finalized
                 PROVE  QueueReadyToReimburse(machine.round) \in duties
      BY DEF QueuedWhenFinished
    <3>1. InKickoffs(machine) /\ block = << >> /\ pending = {} /\ machine.used_kickoffs \subseteq KickoffIdx
      BY <2>1 DEF InKickoffs, AtRest, SavedInv, MachineType
    <3>2. machine.used_kickoffs = KickoffIdx
      <4>1. \A i \in KickoffIdx : i \in machine.used_kickoffs
        <5>1. UsedComplete(machine, spent, << >>)
          BY <2>1, <3>1 DEF MachineInv
        <5>2. \A i \in KickoffIdx : OfRound(machine, i) \in spent
          BY DEF OfRound
        <5> QED BY <3>1, <5>1, <5>2 DEF UsedComplete
      <4> QED BY <3>1, <4>1
    <3>3. \A i \in machine.possible_kickoffs : i \in KickoffIdx /\ OfRound(machine, i) \in finalizers
      BY <2>1, <3>1, <3>2 DEF MachineInv, UsedSound
    <3>4. \A i \in machine.possible_kickoffs : OfRound(machine, i) \in finalized
      BY <3>3 DEF OfRound
    <3>5. \A i \in machine.possible_kickoffs : i \in machine.kickoff_finalizers_spent
      BY <2>1, <2>3, <3>1, <3>3, <3>4 DEF SavedInv, FinalizersFollowed
    <3>6. QueueReadyToReimburse(machine.round) \in duties \cup pending
      BY <2>1, <3>1, <3>2, <3>5 DEF MachineInv, Reports
    <3> QED BY <3>1, <3>6
  <2> QED BY <2>2, <2>3 DEF QueuedExactlyWhenFinished
<1> QED BY <1>1, InvAlways, PTL
=============================================================================
