-------------------------- MODULE RoundStateMachine -------------------------
(***************************************************************************)
(* The state machine that follows one operator's collateral: from the      *)
(* funding output through the round and ready-to-reimburse transactions,   *)
(* or out of the protocol; and, in a round, its kickoff outputs.           *)
(*                                                                         *)
(* Blocks are sequences of the transactions that concern the operator.     *)
(* A block is processed event by event: the matcher whose transaction is   *)
(* first in the block is removed and its event dispatched, until no        *)
(* matcher matches.  Then the machine is saved and the duties it           *)
(* dispatched to its owner take effect, in one database transaction.       *)
(***************************************************************************)
EXTENDS Integers, Sequences, FiniteSets

CONSTANTS
    NumRounds,      \* ProtocolParamset::num_round_txs
    NumKickoffs,    \* ProtocolParamset::num_kickoffs_per_round
    MaxBlockLen,    \* bound: transactions in a block
    MaxBlocks,      \* bound: blocks with a transaction of the operator
    MaxFaults       \* bound: errors and restarts

ASSUME RoundAssumption ==
    /\ NumRounds \in Nat \ {0} /\ NumKickoffs \in Nat \ {0}
    /\ MaxBlockLen \in Nat /\ MaxBlocks \in Nat /\ MaxFaults \in Nat

Rounds == 0..NumRounds              \* the last one only reimburses the one before
KickoffIdx == 0..NumKickoffs - 1
Kickoffs == (0..NumRounds - 1) \X KickoffIdx

VARIABLES
    (* the chain *)
    collateral,     \* where the operator's collateral is
    mined,          \* how many round transactions are mined
    spent,          \* the kickoff outputs that are spent
    finalizers,     \* the finalizer outputs: of kickoffs and look-alikes, unspent
    finalized,      \* the finalizer outputs that are spent
    spentInRound,   \* spentInRound[r]: spent outputs of round r when its collateral moved
    block,          \* the block
    blocks,         \* blocks so far with one of these transactions
    (* the machine *)
    pc,             \* "mining" or "processing" the block
    machine,        \* the state machine in memory
    pending,        \* the duties dispatched by the open database transaction
    row,            \* the machine in the database
    duties,         \* the duties that were committed
    faults

chainVars == <<collateral, mined, spent, finalizers, finalized, spentInRound, block, blocks>>
vars == <<chainVars, pc, machine, pending, row, duties, faults>>

-----------------------------------------------------------------------------
(* Where the collateral is. *)
Funding == [at |-> "funding", round |-> 0]
InRound(r) == [at |-> "round", round |-> r]
InReady(r) == [at |-> "ready_to_reimburse", round |-> r]
Gone == [at |-> "gone", round |-> 0]

(* Transactions: the output of the collateral that a transaction spends    *)
(* and the one it creates, and the kickoffs whose outputs it spends.       *)
Tx(type, from, to, S) == [type |-> type, from |-> from, to |-> to, kickoffs |-> S]
RoundTx(r) ==
    Tx("round", IF r = 0 THEN Funding ELSE InReady(r - 1), InRound(r), {})
ReadyToReimburseTx(r) == Tx("ready_to_reimburse", InRound(r), InReady(r), {})
(* The collateral is spent in another way, perhaps with kickoff outputs. *)
ExitTx(S) == Tx("exit", collateral, Gone, S)
(* A kickoff that the owner's database knows; one that it does not know    *)
(* but that looks like one; a transaction that burns kickoff outputs; and  *)
(* one that spends the finalizer output of a kickoff or look-alike.        *)
KickoffTx(k) == Tx("kickoff", Gone, Gone, {k})
LookalikeTx(k) == Tx("lookalike", Gone, Gone, {k})
BurnTx(S) == Tx("burn", Gone, Gone, S)
FinalizerTx(k) == Tx("finalizer", Gone, Gone, {k})

Mine(tx) ==
    /\ pc = "mining"
    /\ Len(block) < MaxBlockLen
    /\ blocks < MaxBlocks
    /\ block' = Append(block, tx)
    /\ UNCHANGED <<blocks, pc, machine, pending, row, duties, faults>>

(* The kickoff outputs that can be spent. *)
Unspent == {k \in Kickoffs : k[1] < mined} \ spent

(* The collateral moves on, or leaves the protocol. *)
MineCollateral(tx) ==
    /\ collateral = tx.from
    /\ collateral # Gone
    /\ tx.kickoffs \subseteq Unspent
    /\ collateral' = tx.to
    /\ mined' = IF tx.type = "round" THEN tx.to.round + 1 ELSE mined
    /\ spent' = spent \cup tx.kickoffs
    /\ spentInRound' = IF tx.from.at = "round" /\ tx.from.round < NumRounds
                       THEN [spentInRound EXCEPT ![tx.from.round] =
                               {k \in spent \cup tx.kickoffs : k[1] = tx.from.round}]
                       ELSE spentInRound
    /\ UNCHANGED <<finalizers, finalized>>
    /\ Mine(tx)

(* Kickoff outputs are spent. *)
MineKickoffs(tx) ==
    /\ tx.kickoffs # {}
    /\ tx.kickoffs \subseteq Unspent
    /\ spent' = spent \cup tx.kickoffs
    /\ finalizers' = IF tx.type = "burn" THEN finalizers ELSE finalizers \cup tx.kickoffs
    /\ UNCHANGED <<collateral, mined, finalized, spentInRound>>
    /\ Mine(tx)

MineFinalizer(k) ==
    /\ k \in finalizers \ finalized
    /\ finalized' = finalized \cup {k}
    /\ UNCHANGED <<collateral, mined, spent, finalizers, spentInRound>>
    /\ Mine(FinalizerTx(k))

(* The block is final and reaches the state manager; perhaps it has no     *)
(* transaction of the operator.                                            *)
CloseBlock ==
    /\ pc = "mining"
    /\ pc' = "processing"
    /\ UNCHANGED <<chainVars, machine, pending, row, duties, faults>>

-----------------------------------------------------------------------------
(* RoundEvent; each event stands also for the matcher that dispatches it. *)
Event(name, r, i) == [event |-> name, round |-> r, kickoff |-> i]
KickoffUtxoUsed(r, i) == Event("KickoffUtxoUsed", r, i)
ReadyToReimburseSent(r) == Event("ReadyToReimburseSent", r, 0)
RoundSent(r) == Event("RoundSent", r, 0)
OperatorExit(r) == Event("OperatorExit", r, 0)
KickoffFinalizerSpent(r, i) == Event("KickoffFinalizerSpent", r, i)

(* The order of the variants of RoundEvent. *)
Rank(e) ==
    CASE e.event = "KickoffUtxoUsed" -> 0
      [] e.event = "ReadyToReimburseSent" -> 1
      [] e.event = "RoundSent" -> 2
      [] e.event = "OperatorExit" -> 3
      [] e.event = "KickoffFinalizerSpent" -> 6

(* The output that holds the collateral in a state of the machine. *)
Place(m) ==
    CASE m.state = "initial_collateral" -> Funding
      [] m.state = "round_tx" -> InRound(m.round)
      [] m.state = "ready_to_reimburse" -> InReady(m.round)
      [] m.state = "operator_exit" -> Gone

(* Matcher::matches: the places in the block of the transaction that the   *)
(* matcher of an event waits for.  SpentUtxoButNotTxid: the collateral is  *)
(* spent by another transaction than the next of the protocol.             *)
MatchesAt(e) ==
    {i \in 1..Len(block) :
        CASE e.event = "KickoffUtxoUsed" ->
                /\ <<e.round, e.kickoff>> \in block[i].kickoffs
                /\ block[i].type # "finalizer"
          [] e.event = "ReadyToReimburseSent" -> block[i] = ReadyToReimburseTx(e.round)
          [] e.event = "RoundSent" -> block[i] = RoundTx(e.round)
          [] e.event = "OperatorExit" ->
                block[i].type = "exit" /\ block[i].from = Place(machine)
          [] e.event = "KickoffFinalizerSpent" ->
                block[i] = FinalizerTx(<<e.round, e.kickoff>>)}

(* Mutant of First: by the kind of the event before the place in the block. *)
FirstByEvent(e) ==
    /\ MatchesAt(e) # {}
    /\ \A f \in machine.matchers : MatchesAt(f) # {} =>
        \/ Rank(e) < Rank(f)
        \/ Rank(e) = Rank(f) /\ e.kickoff <= f.kickoff

(* match_block: the least pair of a place in the block and an event. *)
First(e) ==
    \E i \in MatchesAt(e) : \A f \in machine.matchers : \A j \in MatchesAt(f) :
        \/ i < j
        \/ i = j /\ Rank(e) < Rank(f)
        \/ i = j /\ Rank(e) = Rank(f) /\ e.kickoff <= f.kickoff

-----------------------------------------------------------------------------
(* Mutant of EntryMatchers: no exit after the ready-to-reimburse transaction. *)
EntryMatchersNoExit(state, r) ==
    CASE state = "initial_collateral" -> {RoundSent(0), OperatorExit(0)}
      [] state = "round_tx" ->
            IF r = NumRounds THEN {}
            ELSE {ReadyToReimburseSent(r), OperatorExit(r)}
                 \cup {KickoffUtxoUsed(r, i) : i \in KickoffIdx}
      [] state = "ready_to_reimburse" -> {RoundSent(r + 1)}
      [] state = "operator_exit" -> {}

(* The entry actions: the matchers of a state. *)
EntryMatchers(state, r) ==
    CASE state = "initial_collateral" -> {RoundSent(0), OperatorExit(0)}
      [] state = "round_tx" ->
            IF r = NumRounds THEN {}
            ELSE {ReadyToReimburseSent(r), OperatorExit(r)}
                 \cup {KickoffUtxoUsed(r, i) : i \in KickoffIdx}
      [] state = "ready_to_reimburse" -> {RoundSent(r + 1), OperatorExit(r)}
      [] state = "operator_exit" -> {}

(* Mutant of Transition: the matchers of the old state are kept. *)
TransitionKeepsMatchers(m, state, r) ==
    [m EXCEPT !.state = state, !.round = r, !.used_kickoffs = {}, !.possible_kickoffs = {},
              !.kickoff_finalizers_spent = {},
              !.matchers = @ \cup EntryMatchers(state, r)]

(* A transition into a state, with on_transition and the entry action. *)
Transition(m, state, r) ==
    [m EXCEPT !.state = state, !.round = r, !.used_kickoffs = {}, !.possible_kickoffs = {},
              !.kickoff_finalizers_spent = {},
              !.matchers = EntryMatchers(state, r), !.dirty = TRUE]

Duty(name, r, S) == [duty |-> name, round |-> r, kickoffs |-> S]
NewReadyToReimburse(r, used) == Duty("NewReadyToReimburse", r, used)
CheckIfKickoff(r, i) == Duty("CheckIfKickoff", r, {i})
QueueReadyToReimburse(r) == Duty("QueueReadyToReimburse", r, {})

(* Mutant of QueueDuty: the finalizers are not waited for. *)
QueueDutyAllUsed(m) ==
    IF m.used_kickoffs = KickoffIdx THEN {QueueReadyToReimburse(m.round)} ELSE {}

(* check_and_dispatch_queue_ready_to_reimburse. *)
QueueDuty(m) ==
    IF m.used_kickoffs = KickoffIdx /\ m.possible_kickoffs \subseteq m.kickoff_finalizers_spent
    THEN {QueueReadyToReimburse(m.round)} ELSE {}

(* process_with_ctx and on_dispatch: the first event is dispatched, its    *)
(* matcher removed; what the state makes of it is `result`.                *)
Dispatch(e, result, new) ==
    /\ First(e)
    /\ machine' = result
    /\ pending' = pending \cup new
    /\ UNCHANGED <<chainVars, pc, row, duties, faults>>

Without(e) == [machine EXCEPT !.matchers = @ \ {e}, !.dirty = TRUE]

OnRoundSent(e) ==
    /\ pc = "processing"
    /\ e.event = "RoundSent"
    /\ machine.state \in {"initial_collateral", "ready_to_reimburse"}
    /\ Dispatch(e, Transition(machine, "round_tx", e.round), {})

OnKickoffUtxoUsed(e) ==
    /\ pc = "processing"
    /\ e.event = "KickoffUtxoUsed"
    /\ machine.state = "round_tx"
    /\ \E n \in MatchesAt(e) :
          LET is_possible_kickoff == block[n].type \in {"kickoff", "lookalike"}
              used == [Without(e) EXCEPT !.used_kickoffs = @ \cup {e.kickoff}]
              m == IF is_possible_kickoff
                   THEN [used EXCEPT
                           !.possible_kickoffs = @ \cup {e.kickoff},
                           !.matchers = @ \cup {KickoffFinalizerSpent(e.round, e.kickoff)}]
                   ELSE used
          IN  Dispatch(e, m, {CheckIfKickoff(e.round, e.kickoff)} \cup QueueDuty(m))

OnKickoffFinalizerSpent(e) ==
    /\ pc = "processing"
    /\ e.event = "KickoffFinalizerSpent"
    /\ machine.state = "round_tx"
    /\ LET m == [Without(e) EXCEPT !.kickoff_finalizers_spent = @ \cup {e.kickoff}]
       IN  Dispatch(e, m, QueueDuty(m))

(* The state is left: on_round_tx_exit. *)
OnReadyToReimburseSent(e) ==
    /\ pc = "processing"
    /\ e.event = "ReadyToReimburseSent"
    /\ machine.state = "round_tx"
    /\ Dispatch(e, Transition(machine, "ready_to_reimburse", e.round),
                {NewReadyToReimburse(machine.round, machine.used_kickoffs)})

OnOperatorExit(e) ==
    /\ pc = "processing"
    /\ e.event = "OperatorExit"
    /\ machine.state # "operator_exit"
    /\ Dispatch(e, Transition(machine, "operator_exit", 0),
                IF machine.state = "round_tx"
                THEN {NewReadyToReimburse(machine.round, machine.used_kickoffs)} ELSE {})

(* The block generates no more events: save_state_to_db, SavedToDb, commit. *)
SaveBlock ==
    /\ pc = "processing"
    /\ \A e \in machine.matchers : MatchesAt(e) = {}
    /\ row' = IF machine.dirty THEN machine ELSE row
    /\ machine' = [machine EXCEPT !.dirty = FALSE]
    /\ duties' = duties \cup pending
    /\ pending' = {}
    /\ block' = << >>
    /\ blocks' = IF block = << >> THEN blocks ELSE blocks + 1
    /\ pc' = "mining"
    /\ UNCHANGED <<collateral, mined, spent, finalizers, finalized, spentInRound, faults>>

(* An error or a restart: the transaction is rolled back, the machine is   *)
(* loaded again, which runs its entry action, and the block is processed   *)
(* again.                                                                  *)
Reload ==
    /\ faults < MaxFaults
    /\ faults' = faults + 1
    /\ machine' = [row EXCEPT !.matchers = EntryMatchers(row.state, row.round)]
    /\ pending' = {}
    /\ UNCHANGED <<chainVars, pc, row, duties>>

-----------------------------------------------------------------------------
NewMachine ==
    [state |-> "initial_collateral", round |-> 0, used_kickoffs |-> {},
     possible_kickoffs |-> {}, kickoff_finalizers_spent |-> {},
     matchers |-> EntryMatchers("initial_collateral", 0), dirty |-> TRUE]

Init ==
    /\ collateral = Funding /\ mined = 0
    /\ spent = {} /\ finalizers = {} /\ finalized = {}
    /\ spentInRound = [r \in 0..NumRounds - 1 |-> {}]
    /\ block = << >> /\ blocks = 0
    /\ pc = "mining"
    /\ machine = [NewMachine EXCEPT !.dirty = FALSE]
    /\ row = NewMachine
    /\ pending = {} /\ duties = {}
    /\ faults = 0

Operate ==
    \/ \E r \in Rounds : MineCollateral(RoundTx(r))
    \/ \E r \in 0..NumRounds - 1 : MineCollateral(ReadyToReimburseTx(r))
    \/ \E S \in SUBSET Unspent : MineCollateral(ExitTx(S)) \/ MineKickoffs(BurnTx(S))
    \/ \E k \in Unspent : MineKickoffs(KickoffTx(k)) \/ MineKickoffs(LookalikeTx(k))
    \/ \E k \in finalizers : MineFinalizer(k)

Process ==
    \/ CloseBlock
    \/ \E e \in machine.matchers :
          \/ OnRoundSent(e)
          \/ OnKickoffUtxoUsed(e)
          \/ OnKickoffFinalizerSpent(e)
          \/ OnReadyToReimburseSent(e)
          \/ OnOperatorExit(e)
    \/ SaveBlock

Next == Operate \/ Process \/ Reload

Spec == Init /\ [][Next]_vars

-----------------------------------------------------------------------------
States == {"initial_collateral", "round_tx", "ready_to_reimburse", "operator_exit"}
MachineType ==
    [state : States, round : Rounds, used_kickoffs : SUBSET KickoffIdx,
     possible_kickoffs : SUBSET KickoffIdx, kickoff_finalizers_spent : SUBSET KickoffIdx,
     matchers : SUBSET [event : {"KickoffUtxoUsed", "ReadyToReimburseSent", "RoundSent",
                                 "OperatorExit", "KickoffFinalizerSpent"},
                        round : Rounds, kickoff : KickoffIdx],
     dirty : BOOLEAN]

(* The type invariant of the machine and of what it reports. *)
TypeOK ==
    /\ machine \in MachineType
    /\ row \in MachineType
    /\ pc \in {"mining", "processing"}
    /\ \A d \in duties \cup pending :
          /\ d.duty \in {"NewReadyToReimburse", "CheckIfKickoff", "QueueReadyToReimburse"}
          /\ d.round \in 0..NumRounds - 1
          /\ d.kickoffs \subseteq KickoffIdx

(* Every event that a matcher can dispatch is one that the current state   *)
(* handles, for the current round: an unhandled event is an error, and the *)
(* block would fail again on every retry.                                  *)
EventsAreHandled ==
    \A e \in machine.matchers :
        CASE e.event = "RoundSent" ->
                \/ machine.state = "initial_collateral" /\ e.round = 0
                \/ machine.state = "ready_to_reimburse" /\ e.round = machine.round + 1
          [] e.event = "OperatorExit" -> machine.state # "operator_exit"
          [] OTHER -> machine.state = "round_tx" /\ e.round = machine.round

(* Between two blocks. *)
AtRest == pc = "mining" /\ block = << >>

(* "Stores where in the collateral chain the operator is" (mod.rs): after  *)
(* every block, however many transactions of the operator it has.  The     *)
(* round after the last one is not followed.                               *)
FollowsCollateral ==
    AtRest => \/ Place(machine) = collateral
              \/ machine.state = "round_tx" /\ machine.round = NumRounds

(* In the current round every kickoff output that is spent was reported.   *)
(* When a round ends, its owner is told exactly the outputs that were      *)
(* spent before, in the order of the chain: a verifier burns the others.   *)
UsedKickoffsAreReported ==
    /\ AtRest /\ machine.state = "round_tx" =>
          \A i \in KickoffIdx :
              <<machine.round, i>> \in spent =>
                  /\ CheckIfKickoff(machine.round, i) \in duties
                  /\ i \in machine.used_kickoffs
    /\ \A d \in duties : d.duty = "NewReadyToReimburse" =>
          /\ {<<d.round, i>> : i \in d.kickoffs} = spentInRound[d.round]
          /\ \A i \in KickoffIdx : CheckIfKickoff(d.round, i) \in duties <=> i \in d.kickoffs

(* The operator is never told to end a round that has an unspent kickoff   *)
(* output, or a kickoff (or what may be one) whose finalizer is unspent.   *)
QueuedOnlyWhenFinished ==
    \A r \in 0..NumRounds - 1 :
        QueueReadyToReimburse(r) \in duties =>
            /\ \A i \in KickoffIdx : <<r, i>> \in spent
            /\ {k \in finalizers : k[1] = r} \subseteq finalized

(* "Dispatched when all kickoff UTXOs are spent and all kickoff finalizers *)
(* for possible kickoffs [...] are spent" (Duty::QueueReadyToReimburse).   *)
QueuedWhenFinished ==
    /\ AtRest
    /\ machine.state = "round_tx" /\ machine.round < NumRounds
    /\ \A i \in KickoffIdx : <<machine.round, i>> \in spent
    /\ {k \in finalizers : k[1] = machine.round} \subseteq finalized
    => QueueReadyToReimburse(machine.round) \in duties

(* The operator is told to end a round when it is finished, never before,  *)
(* and as long as no reload happened also not later: a loaded machine no   *)
(* longer watches the finalizers of the kickoffs it knows.                 *)
QueuedExactlyWhenFinished == QueuedOnlyWhenFinished /\ (faults = 0 => QueuedWhenFinished)
=============================================================================
