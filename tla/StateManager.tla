---------------------------- MODULE StateManager ----------------------------
(***************************************************************************)
(* The state manager of a verifier or an operator: it reads one message    *)
(* after the other from a database queue, moves its state machines, and    *)
(* saves the ones that changed, all in one database transaction.           *)
(*                                                                         *)
(* The machines are abstracted to what the manager does with them: which   *)
(* of the blocks that concern it a machine has seen, whether it is dirty,  *)
(* and, for a round machine, which rounds were challenged.                 *)
(*                                                                         *)
(* Messages come from the block fetcher and the LCP syncer, each of which  *)
(* hands on every finalized height once and in order (FinalizedChain), from *)
(* set_operator, from the signing of deposits, and from the manager itself *)
(* when a round machine meets a kickoff.                                   *)
(***************************************************************************)
EXTENDS Integers, FiniteSets, SequencesExt

CONSTANTS
    Operators,
    Kickoffs,
    OperatorOf,         \* OperatorOf[k]: KickoffData::operator_xonly_pk
    RoundOf,            \* RoundOf[k]: KickoffData::round_idx
    KickoffHeight,      \* KickoffHeight[k]: the block with the kickoff tx
    Malicious,          \* the kickoffs that is_kickoff_malicious finds malicious
    Resigned,           \* kickoffs whose deposit may be signed after they are mined
    Tracked,            \* the operators the owner follows: all (verifier) or itself
    Activity,           \* Activity[m]: the heights whose block matches a matcher of m
    LcpSyncer,          \* whether the owner runs an LCP syncer: the verifier does
    StartHeight,        \* ProtocolParamset::start_height
    MaxHeight,          \* bound: the last block
    MaxSetOperator,     \* bound: calls of set_operator
    MaxFaults           \* bound: failures

Machines == Operators \cup Kickoffs

(* is_kickoff_relevant_for_owner *)
Relevant == {k \in Kickoffs : OperatorOf[k] \in Tracked}

ASSUME ManagerAssumption ==
    /\ IsFiniteSet(Operators) /\ IsFiniteSet(Kickoffs) /\ Operators \cap Kickoffs = {}
    /\ OperatorOf \in [Kickoffs -> Operators]
    /\ StartHeight \in Nat \ {0} /\ MaxHeight \in Nat
    /\ KickoffHeight \in [Kickoffs -> StartHeight..MaxHeight]
    /\ Malicious \subseteq Kickoffs /\ Resigned \subseteq Kickoffs /\ Tracked \subseteq Operators
    /\ Activity \in [Machines -> SUBSET (StartHeight..MaxHeight)]
    /\ \A k \in Kickoffs : KickoffHeight[k] \in Activity[OperatorOf[k]]
    /\ LcpSyncer \in BOOLEAN
    /\ MaxSetOperator \in Nat /\ MaxFaults \in Nat

VARIABLES
    (* the rest of the owner *)
    finalTip,               \* the highest finalized block of the syncer's tables
    nextBlock, nextLcp,     \* the next heights of the block fetcher and the LCP syncer
    setOperators,           \* the operators in the database
    setCount,               \* calls of set_operator so far
    deposit,                \* deposit[k]: the signing of the deposit of k
    overtaken,              \* history: kickoffs whose block was processed while the
                            \* transaction of their deposit was open
    (* the database of the state manager *)
    queue,                  \* the pgmq queue
    rows,                   \* state_machines
    dbNextHeight, dbLcp,    \* state_manager_status
    challenges,             \* the kickoffs whose challenge tx is in the tx sender's queue
    (* its memory *)
    pc,                     \* "down", "run", "recover" after an error
    round_machines, kickoff_machines,
    next_height_to_process, last_processed_lcp,
    last_finalized_block,   \* the height of that block
    overlaid,               \* history: machines were loaded on top of others
    faults

ownerVars == <<finalTip, nextBlock, nextLcp, setOperators, setCount, deposit, overtaken>>
dbVars == <<queue, rows, dbNextHeight, dbLcp, challenges>>
memVars == <<pc, round_machines, kickoff_machines, next_height_to_process,
             last_processed_lcp, last_finalized_block, overlaid>>
vars == <<ownerVars, dbVars, memVars, faults>>

NoLcp == -1
NoRow == [seen |-> {}, challenged |-> {}, dirty |-> FALSE, id |-> "none"]
Rounds == {RoundOf[k] : k \in Kickoffs}
MachineRecords == [id : Machines, seen : SUBSET (StartHeight..MaxHeight),
                   challenged : SUBSET Rounds, dirty : BOOLEAN]

NewFinalizedBlock(h) == [type |-> "NewFinalizedBlock", height |-> h]
NewOperator(o) == [type |-> "NewOperator", operator |-> o]
NewKickoff(k) == [type |-> "NewKickoff", kickoff |-> k]
LCPProcessed(h) == [type |-> "LCPProcessed", height |-> h]

-----------------------------------------------------------------------------
(* The producers. *)

(* A block gets its last confirmation.  An honest operator sends a kickoff *)
(* once the deposit is signed; a verifier that lost its database signs it  *)
(* again later.                                                            *)
Finalize ==
    /\ finalTip < MaxHeight
    /\ \A k \in Kickoffs \ Resigned :
          KickoffHeight[k] = finalTip + 1 => deposit[k] = "signed"
    /\ finalTip' = finalTip + 1
    /\ UNCHANGED <<nextBlock, nextLcp, setOperators, setCount, deposit, overtaken, dbVars, memVars,
                   faults>>

(* QueueBlockHandler::handle_new_block. *)
SendFinalizedBlock ==
    /\ nextBlock <= finalTip
    /\ nextBlock' = nextBlock + 1
    /\ queue' = Append(queue, NewFinalizedBlock(nextBlock))
    /\ UNCHANGED <<finalTip, nextLcp, setOperators, setCount, deposit, overtaken, rows, dbNextHeight,
                   dbLcp, challenges, memVars, faults>>

(* The end of Verifier::handle_finalized_block. *)
SendLCPProcessed ==
    /\ LcpSyncer
    /\ nextLcp <= finalTip
    /\ nextLcp' = nextLcp + 1
    /\ queue' = Append(queue, LCPProcessed(nextLcp))
    /\ UNCHANGED <<finalTip, nextBlock, setOperators, setCount, deposit, overtaken, rows, dbNextHeight,
                   dbLcp, challenges, memVars, faults>>

(* Verifier::set_operator, Operator::track_rounds: also for an operator    *)
(* that was set before.  The verifier of an operator shares its database.  *)
SetOperator(o) ==
    /\ setCount < MaxSetOperator
    /\ setCount' = setCount + 1
    /\ setOperators' = setOperators \cup {o}
    /\ queue' = IF o \in Tracked THEN Append(queue, NewOperator(o)) ELSE queue
    /\ UNCHANGED <<finalTip, nextBlock, nextLcp, deposit, overtaken, rows, dbNextHeight, dbLcp,
                   challenges, memVars, faults>>

(* deposit_finalize up to the reads of check_kickoffs_on_chain_and_track:  *)
(* the operators of a valid deposit are in the database, the kickoff txids *)
(* are written, and a kickoff that is final is looked up.                  *)
OpenDeposit(k) ==
    /\ deposit[k] = "none"
    /\ OperatorOf[k] \in setOperators
    /\ deposit' = [deposit EXCEPT ![k] =
          IF KickoffHeight[k] <= finalTip THEN "open_final" ELSE "open_not_final"]
    /\ UNCHANGED <<finalTip, nextBlock, nextLcp, setOperators, setCount, overtaken, dbVars, memVars,
                   faults>>

(* The block of a kickoff that was not final when deposit_finalize looked  *)
(* may have been processed since.                                          *)
Overtaken(k) ==
    IF deposit[k] = "open_not_final" /\ KickoffHeight[k] < dbNextHeight THEN {k} ELSE {}

(* Mutant of CommitDeposit: a kickoff that is already final is not dispatched. *)
CommitDepositOnly(k) ==
    /\ deposit[k] \in {"open_final", "open_not_final"}
    /\ deposit' = [deposit EXCEPT ![k] = "signed"]
    /\ overtaken' = overtaken \cup Overtaken(k)
    /\ UNCHANGED <<finalTip, nextBlock, nextLcp, setOperators, setCount, dbVars, memVars, faults>>

(* The commit of that transaction, with the dispatch of a final kickoff. *)
CommitDeposit(k) ==
    /\ deposit[k] \in {"open_final", "open_not_final"}
    /\ deposit' = [deposit EXCEPT ![k] = "signed"]
    /\ overtaken' = overtaken \cup Overtaken(k)
    /\ queue' = IF deposit[k] = "open_final" THEN Append(queue, NewKickoff(k)) ELSE queue
    /\ UNCHANGED <<finalTip, nextBlock, nextLcp, setOperators, setCount, rows, dbNextHeight,
                   dbLcp, challenges, memVars, faults>>

-----------------------------------------------------------------------------
(* Whether a block has a transaction for a machine. *)
Moves(m, h) == h \in Activity[m.id] \ m.seen

(* The machine after that transaction. *)
Moved(m, h) == [m EXCEPT !.seen = m.seen \cup {h}, !.dirty = TRUE]

(* Mutant of Advance: a machine that moved is not marked dirty. *)
AdvanceClean(machines, h) ==
    LET split[i \in 0..Len(machines)] ==
            IF i = 0 THEN [unchanged |-> << >>, changed |-> << >>]
            ELSE IF Moves(machines[i], h)
            THEN [unchanged |-> split[i - 1].unchanged,
                  changed |-> Append(split[i - 1].changed,
                                     [machines[i] EXCEPT !.seen = @ \cup {h}])]
            ELSE [unchanged |-> Append(split[i - 1].unchanged, machines[i]),
                  changed |-> split[i - 1].changed]
    IN  split[Len(machines)].unchanged \o split[Len(machines)].changed

(* process_block_parallel on a vector of machines: the ones that the block *)
(* does not match stay in front, the others follow, changed and dirty.     *)
Advance(machines, h) ==
    LET split[i \in 0..Len(machines)] ==
            IF i = 0 THEN [unchanged |-> << >>, changed |-> << >>]
            ELSE IF Moves(machines[i], h)
            THEN [unchanged |-> split[i - 1].unchanged,
                  changed |-> Append(split[i - 1].changed, Moved(machines[i], h))]
            ELSE [unchanged |-> Append(split[i - 1].unchanged, machines[i]),
                  changed |-> split[i - 1].changed]
    IN  split[Len(machines)].unchanged \o split[Len(machines)].changed

(* The duty CheckIfKickoff of the round machines that block h moves: the   *)
(* kickoffs that the database knows.                                       *)
CheckIfKickoff(machines, h) ==
    {x \in (1..Len(machines)) \X Kickoffs :
        /\ machines[x[1]].id = OperatorOf[x[2]]
        /\ KickoffHeight[x[2]] = h
        /\ h \notin machines[x[1]].seen
        /\ deposit[x[2]] = "signed"}

(* The messages for these kickoffs: in the order of the blocks, and in any *)
(* order for one block, as the machines move in parallel.                  *)
KickoffMessages(found) ==
    {[i \in 1..Len(s) |-> NewKickoff(s[i][2])] :
        s \in {s \in SetToSeqs(found) : \A i, j \in 1..Len(s) :
                  i < j => KickoffHeight[s[i][2]] <= KickoffHeight[s[j][2]]}}

(* A machine that has seen the blocks from height on, before next_height:  *)
(* process_and_add_new_states_from_height.                                 *)
Replayed(m, height) ==
    [id |-> m, seen |-> Activity[m] \cap (height..next_height_to_process - 1),
     challenged |-> {}, dirty |-> TRUE]

(* get_round_machine: the first one. *)
RoundMachine(machines, o) == SelectInSeq(machines, LAMBDA m : m.id = o)

(* check_if_kickoff_malicious, with the verifier's handle_kickoff (outside *)
(* mainnet and testnet4, where a challenge is not sent by itself): one     *)
(* challenge for each round.                                               *)
CheckIfKickoffMalicious(state, k) ==
    LET i == RoundMachine(state.round_machines, OperatorOf[k])
        challenged_before == RoundOf[k] \in state.round_machines[i].challenged
    IN  IF k \in Malicious /\ ~ challenged_before
        THEN [round_machines |-> [state.round_machines EXCEPT
                                    ![i].challenged = @ \cup {RoundOf[k]},
                                    ![i].dirty = TRUE],
              challenges |-> state.challenges \cup {k}]
        ELSE state

(* The kickoffs at height h among the first n machines, checked in turn    *)
(* when its LCP is processed.                                              *)
CheckKickoffsAt(h, n) ==
    LET checked[i \in 0..n] ==
            IF i = 0 THEN [round_machines |-> round_machines, challenges |-> challenges]
            ELSE IF KickoffHeight[kickoff_machines[i].id] = h
            THEN CheckIfKickoffMalicious(checked[i - 1], kickoff_machines[i].id)
            ELSE checked[i - 1]
    IN  checked[n]

(* save_state_machines: every dirty machine in turn, by its id. *)
SaveRows(machines) ==
    [m \in Machines |->
        LET i == SelectLastInSeq(machines, LAMBDA x : x.id = m /\ x.dirty)
        IN  IF i = 0 THEN rows[m] ELSE machines[i]]

(* The event SavedToDb. *)
SavedToDb(machines) == [i \in 1..Len(machines) |-> [machines[i] EXCEPT !.dirty = FALSE]]

(* The height that save_state_to_db stores. *)
HeightToSave(block) == block + 1

Fault == faults < MaxFaults /\ faults' = faults + 1

(* The transaction of one message that changed the machines: everything is *)
(* saved and the message archived; or the save, the archiving or the       *)
(* commit fails and only the memory has changed.                           *)
Handled(round, kickoff, lcp, block, messages, challenged) ==
    /\ next_height_to_process' =
          IF block + 1 > next_height_to_process THEN block + 1 ELSE next_height_to_process
    /\ last_processed_lcp' = lcp
    /\ last_finalized_block' = block
    /\ UNCHANGED overlaid
    /\ \/ /\ queue' = Tail(queue) \o messages
          /\ rows' = SaveRows(round \o kickoff)
          /\ dbNextHeight' = HeightToSave(block)
          /\ dbLcp' = lcp
          /\ challenges' = challenged
          /\ round_machines' = SavedToDb(round)
          /\ kickoff_machines' = SavedToDb(kickoff)
          /\ UNCHANGED <<pc, faults>>
       \/ /\ Fault
          /\ pc' = "recover"
          /\ \/ round_machines' = round /\ kickoff_machines' = kickoff
             \/ round_machines' = SavedToDb(round) /\ kickoff_machines' = SavedToDb(kickoff)
          /\ UNCHANGED dbVars

(* The next message of the queue. *)
Reads(type) == pc = "run" /\ queue # << >> /\ Head(queue).type = type

HandleFinalizedBlock ==
    /\ Reads("NewFinalizedBlock")
    /\ LET h == Head(queue).height
       IN  /\ h = next_height_to_process
           /\ \E messages \in KickoffMessages(CheckIfKickoff(round_machines, h)) :
                 Handled(Advance(round_machines, h), Advance(kickoff_machines, h),
                         last_processed_lcp, h, messages, challenges)
    /\ UNCHANGED ownerVars

(* An error of a machine, or of the duty it dispatches: update_machines    *)
(* has taken the machines out of the manager.                              *)
FailInBlock ==
    /\ Reads("NewFinalizedBlock")
    /\ Fault
    /\ pc' = "recover"
    /\ round_machines' = << >>
    /\ kickoff_machines' = << >>
    /\ UNCHANGED <<ownerVars, dbVars, next_height_to_process, last_processed_lcp,
                   last_finalized_block, overlaid>>

(* Mutant of HandleNewOperator: an operator that has a machine gets another. *)
HandleNewOperatorAgain ==
    /\ Reads("NewOperator")
    /\ Handled(Append(round_machines, Replayed(Head(queue).operator, StartHeight)),
               kickoff_machines, last_processed_lcp, last_finalized_block, << >>, challenges)
    /\ UNCHANGED ownerVars

HandleNewOperator ==
    /\ Reads("NewOperator")
    /\ LET o == Head(queue).operator
       IN  /\ RoundMachine(round_machines, o) = 0
           /\ LET replayed == Replayed(o, StartHeight)
                  found == {x \in {<<1, k>> : k \in Kickoffs} :
                              /\ OperatorOf[x[2]] = o
                              /\ KickoffHeight[x[2]] \in replayed.seen
                              /\ deposit[x[2]] = "signed"}
              IN  \E messages \in KickoffMessages(found) :
                     Handled(Append(round_machines, replayed), kickoff_machines,
                             last_processed_lcp, last_finalized_block, messages, challenges)
    /\ UNCHANGED ownerVars

(* Whether the LCP of the kickoff's block was processed before the kickoff. *)
LcpCovers(k) == last_processed_lcp # NoLcp /\ last_processed_lcp >= KickoffHeight[k]

HandleNewKickoff ==
    /\ Reads("NewKickoff")
    /\ LET k == Head(queue).kickoff
           checked == IF LcpCovers(k)
                      THEN CheckIfKickoffMalicious([round_machines |-> round_machines,
                                                    challenges |-> challenges], k)
                      ELSE [round_machines |-> round_machines, challenges |-> challenges]
       IN  /\ k \in Relevant
           /\ \A i \in DOMAIN kickoff_machines : kickoff_machines[i].id # k
           /\ LcpCovers(k) => RoundMachine(round_machines, OperatorOf[k]) # 0
           /\ Handled(checked.round_machines,
                      Append(kickoff_machines, Replayed(k, KickoffHeight[k])),
                      last_processed_lcp, last_finalized_block, << >>, checked.challenges)
    /\ UNCHANGED ownerVars

(* Their round machines are there. *)
Checkable(h, n) ==
    \A i \in 1..n : KickoffHeight[kickoff_machines[i].id] = h =>
        RoundMachine(round_machines, OperatorOf[kickoff_machines[i].id]) # 0

HandleLCPProcessed ==
    /\ Reads("LCPProcessed")
    /\ LET h == Head(queue).height
           checked == CheckKickoffsAt(h, Len(kickoff_machines))
       IN  /\ Checkable(h, Len(kickoff_machines))
           /\ Handled(checked.round_machines, kickoff_machines, h, last_finalized_block,
                      << >>, checked.challenges)
    /\ UNCHANGED ownerVars

(* Mutant of SkipMessage: a message that needs no work is not archived. *)
SkipMessageNotArchived ==
    /\ \/ /\ Reads("NewOperator")
          /\ RoundMachine(round_machines, Head(queue).operator) # 0
       \/ /\ Reads("NewKickoff")
          /\ Head(queue).kickoff \notin Relevant
       \/ /\ Reads("NewKickoff")
          /\ \E i \in DOMAIN kickoff_machines : kickoff_machines[i].id = Head(queue).kickoff
    /\ UNCHANGED vars

(* run_once on an empty queue. *)
PollEmptyQueue == pc = "run" /\ queue = << >> /\ UNCHANGED vars

(* The early returns of handle_event: the operator or the kickoff has a    *)
(* machine, or the kickoff is not the owner's.  Nothing is saved.          *)
SkipMessage ==
    /\ \/ /\ Reads("NewOperator")
          /\ RoundMachine(round_machines, Head(queue).operator) # 0
       \/ /\ Reads("NewKickoff")
          /\ Head(queue).kickoff \notin Relevant
       \/ /\ Reads("NewKickoff")
          /\ \E i \in DOMAIN kickoff_machines : kickoff_machines[i].id = Head(queue).kickoff
    /\ queue' = Tail(queue)
    /\ UNCHANGED <<ownerVars, rows, dbNextHeight, dbLcp, challenges, memVars, faults>>

(* An error before anything has changed in memory, or in the temporary     *)
(* manager of process_and_add_new_states_from_height.                      *)
FailOutsideBlock ==
    /\ pc = "run"
    /\ Fault
    /\ pc' = "recover"
    /\ UNCHANGED <<ownerVars, dbVars, round_machines, kickoff_machines,
                   next_height_to_process, last_processed_lcp, last_finalized_block, overlaid>>

(* check_if_kickoff_malicious fails: its duty, or there is no round        *)
(* machine.  The new kickoff machine is there, and the rounds of kickoffs  *)
(* that were checked before it are marked.                                 *)
CheckFails(o) ==
    /\ RoundMachine(round_machines, o) = 0 \/ faults < MaxFaults
    /\ faults' = IF RoundMachine(round_machines, o) = 0 THEN faults ELSE faults + 1
    /\ pc' = "recover"
    /\ UNCHANGED <<ownerVars, dbVars, next_height_to_process, last_processed_lcp,
                   last_finalized_block, overlaid>>

FailInCheckOfNewKickoff ==
    /\ Reads("NewKickoff")
    /\ LET k == Head(queue).kickoff
       IN  /\ k \in Relevant
           /\ \A i \in DOMAIN kickoff_machines : kickoff_machines[i].id # k
           /\ LcpCovers(k)
           /\ CheckFails(OperatorOf[k])
           /\ kickoff_machines' = Append(kickoff_machines, Replayed(k, KickoffHeight[k]))
           /\ UNCHANGED round_machines

FailInCheckOfLCP ==
    /\ Reads("LCPProcessed")
    /\ \E i \in DOMAIN kickoff_machines :
          /\ KickoffHeight[kickoff_machines[i].id] = Head(queue).height
          /\ Checkable(Head(queue).height, i - 1)
          /\ CheckFails(OperatorOf[kickoff_machines[i].id])
          /\ round_machines' = CheckKickoffsAt(Head(queue).height, i - 1).round_machines
    /\ UNCHANGED kickoff_machines

-----------------------------------------------------------------------------
(* The rows of some machines, in the order in which a SELECT returns them. *)
Loaded(ids) ==
    {[i \in 1..Len(s) |-> rows[s[i]]] : s \in SetToSeqs({m \in ids : rows[m] # NoRow})}

(* Mutant of ReloadFromDb: the processed LCP is not loaded. *)
ReloadFromDbWithoutLcp(round, kickoff) ==
    /\ \E r \in Loaded(Operators) : round_machines' = round \o r
    /\ \E k \in Loaded(Kickoffs) : kickoff_machines' = kickoff \o k
    /\ next_height_to_process' = dbNextHeight
    /\ last_processed_lcp' = NoLcp
    /\ last_finalized_block' = IF dbNextHeight = 0 THEN 0 ELSE dbNextHeight - 1

(* reload_state_manager_from_db: the loaded machines are pushed to the     *)
(* ones in the vectors.                                                    *)
ReloadFromDb(round, kickoff) ==
    /\ \E r \in Loaded(Operators) : round_machines' = round \o r
    /\ \E k \in Loaded(Kickoffs) : kickoff_machines' = kickoff \o k
    /\ next_height_to_process' = dbNextHeight
    /\ last_processed_lcp' = dbLcp
    /\ last_finalized_block' = IF dbNextHeight = 0 THEN 0 ELSE dbNextHeight - 1

(* StateManager::new. *)
Start ==
    /\ pc = "down"
    /\ ReloadFromDb(<< >>, << >>)
    /\ pc' = "run"
    /\ UNCHANGED <<ownerVars, dbVars, overlaid, faults>>

(* recover_from_error, called by BufferedErrors; it may itself fail after  *)
(* it has pushed the machines.                                             *)
Recover ==
    /\ pc = "recover"
    /\ ReloadFromDb(round_machines, kickoff_machines)
    /\ overlaid' = (overlaid \/ round_machines # << >> \/ kickoff_machines # << >>)
    /\ \/ pc' = "run" /\ UNCHANGED faults
       \/ Fault /\ pc' = "recover"
    /\ UNCHANGED <<ownerVars, dbVars>>

(* The process is killed, or BufferedErrors gave up. *)
Crash ==
    /\ pc # "down"
    /\ Fault
    /\ pc' = "down"
    /\ round_machines' = << >>
    /\ kickoff_machines' = << >>
    /\ UNCHANGED <<ownerVars, dbVars, next_height_to_process, last_processed_lcp,
                   last_finalized_block, overlaid>>

-----------------------------------------------------------------------------
Init ==
    /\ finalTip = StartHeight - 1
    /\ nextBlock = StartHeight /\ nextLcp = StartHeight
    /\ setOperators = {} /\ setCount = 0
    /\ deposit = [k \in Kickoffs |-> "none"] /\ overtaken = {}
    /\ queue = << >>
    /\ rows = [m \in Machines |-> NoRow]
    /\ dbNextHeight = StartHeight /\ dbLcp = NoLcp
    /\ challenges = {}
    /\ pc = "down"
    /\ round_machines = << >> /\ kickoff_machines = << >>
    /\ next_height_to_process = StartHeight /\ last_processed_lcp = NoLcp
    /\ last_finalized_block = 0
    /\ overlaid = FALSE /\ faults = 0

Produce ==
    \/ Finalize
    \/ SendFinalizedBlock
    \/ SendLCPProcessed
    \/ \E o \in Operators : SetOperator(o)
    \/ \E k \in Kickoffs : OpenDeposit(k) \/ CommitDeposit(k)

Consume ==
    \/ Start
    \/ HandleFinalizedBlock
    \/ HandleNewOperator
    \/ HandleNewKickoff
    \/ HandleLCPProcessed
    \/ SkipMessage
    \/ PollEmptyQueue
    \/ Recover

Next ==
    \/ Produce
    \/ Consume
    \/ FailInBlock
    \/ FailOutsideBlock
    \/ FailInCheckOfNewKickoff
    \/ FailInCheckOfLCP
    \/ Crash

Spec == Init /\ [][Next]_vars

(* The task runs in a loop, and a manager that ended is started again. *)
FairSpec == Spec /\ WF_vars(Consume)

-----------------------------------------------------------------------------
(* The type invariant; the heights stay in their ranges. *)
TypeOK ==
    /\ finalTip \in StartHeight - 1..MaxHeight
    /\ nextBlock \in StartHeight..MaxHeight + 1
    /\ nextLcp \in StartHeight..MaxHeight + 1
    /\ setOperators \subseteq Operators
    /\ setCount \in 0..MaxSetOperator
    /\ deposit \in [Kickoffs -> {"none", "open_final", "open_not_final", "signed"}]
    /\ \A i \in DOMAIN queue :
          queue[i] \in {NewFinalizedBlock(h) : h \in StartHeight..MaxHeight}
                       \cup {LCPProcessed(h) : h \in StartHeight..MaxHeight}
                       \cup {NewOperator(o) : o \in Operators}
                       \cup {NewKickoff(k) : k \in Kickoffs}
    /\ \A m \in Machines : rows[m] = NoRow \/ (rows[m] \in MachineRecords /\ rows[m].id = m)
    /\ dbNextHeight \in StartHeight..MaxHeight + 1
    /\ dbLcp \in StartHeight..MaxHeight \cup {NoLcp}
    /\ challenges \subseteq Kickoffs
    /\ pc \in {"down", "run", "recover"}
    /\ \A i \in DOMAIN round_machines :
          round_machines[i] \in MachineRecords /\ round_machines[i].id \in Operators
    /\ \A i \in DOMAIN kickoff_machines :
          kickoff_machines[i] \in MachineRecords /\ kickoff_machines[i].id \in Kickoffs
    /\ next_height_to_process \in StartHeight..MaxHeight + 1
    /\ last_processed_lcp \in StartHeight..MaxHeight \cup {NoLcp}
    /\ last_finalized_block \in 0..MaxHeight
    /\ overtaken \subseteq Kickoffs /\ overlaid \in BOOLEAN
    /\ faults \in 0..MaxFaults

(* What a machine must have seen before height next: for a kickoff, the    *)
(* blocks from its own on; a machine that was created ahead of its block   *)
(* may have seen some before.                                              *)
HasSeen(m, next) ==
    LET first == IF m.id \in Operators THEN StartHeight ELSE KickoffHeight[m.id]
    IN  /\ Activity[m.id] \cap (first..next - 1) \subseteq m.seen
        /\ m.seen \subseteq Activity[m.id] \cap (StartHeight..next - 1)

(* The saved machines have seen all the blocks below the saved height that *)
(* concern them and no other, although only dirty machines are saved and a *)
(* new machine catches up by replaying old blocks.                         *)
SavedMachinesAreCurrent ==
    \A m \in Machines : rows[m] # NoRow => HasSeen(rows[m], dbNextHeight)

(* In memory, whenever the next message is read, a saved machine has a     *)
(* copy that has seen the same; and every copy has seen what the manager's *)
(* height says, or, when a transaction that moved it was rolled back, the  *)
(* next block too, which then is the next message.                         *)
LoadedMachinesAreCurrent ==
    LET all == round_machines \o kickoff_machines
        next == next_height_to_process
    IN  pc = "run" =>
            /\ \A m \in Machines : rows[m] # NoRow =>
                  \E i \in DOMAIN all : all[i].id = m /\ all[i].seen = rows[m].seen
            /\ \A i \in DOMAIN all :
                  \/ HasSeen(all[i], next)
                  \/ /\ HasSeen(all[i], next + 1)
                     /\ queue # << >> /\ Head(queue) = NewFinalizedBlock(next)

(* Both, after any failure and although recover_from_error puts the saved  *)
(* machines on top of those in memory.                                     *)
MachinesAreCurrent == SavedMachinesAreCurrent /\ LoadedMachinesAreCurrent

(* "Each operator and kickoff process has its own state machine" (mod.rs): *)
(* in memory there is one machine for each saved one, and it is the same,  *)
(* but for the dirty flag.  TLC refutes it as it stands, see the README.   *)
OneMachinePerProcess ==
    pc = "run" =>
        LET all == round_machines \o kickoff_machines
        IN  /\ \A i, j \in DOMAIN all : all[i].id = all[j].id => i = j
            /\ {[x EXCEPT !.dirty = FALSE] : x \in Range(all)}
               = {[rows[m] EXCEPT !.dirty = FALSE] : m \in {m \in Machines : rows[m] # NoRow}}

(* The only way to a second machine is a recovery on top of machines that  *)
(* an error left in memory: not an operator that is set again, a kickoff   *)
(* that is found twice, or a restart.                                      *)
OneMachineUnlessOverlaid == ~overlaid => OneMachinePerProcess

(* A kickoff that the owner knows and that is in a processed block has a   *)
(* machine, or will have one.                                              *)
IsTracked(k) ==
    /\ deposit[k] = "signed"
    /\ rows[OperatorOf[k]] # NoRow
    /\ KickoffHeight[k] < dbNextHeight
    => \/ rows[k] # NoRow
       \/ NewKickoff(k) \in Range(queue)

(* "dispatches finalized kickoffs to state managers for resync"            *)
(* (check_kickoffs_on_chain_and_track): no kickoff of a signed deposit is  *)
(* lost, whichever of the signing, the registration of its operator and    *)
(* its block came first.  TLC refutes it as it stands, see the README.     *)
KnownKickoffsAreTracked == \A k \in Relevant : IsTracked(k)

(* There are two ways to lose one: its block is processed while the        *)
(* transaction of its deposit is open, or a recovery leaves a machine in   *)
(* memory that is not saved.                                               *)
KickoffsTrackedUnlessOvertaken ==
    ~overlaid => \A k \in Relevant \ overtaken : IsTracked(k)

(* A round with a malicious kickoff that the LCP covers is challenged, and *)
(* once ("only one challenge is needed per round",                         *)
(* Duty::CheckIfKickoffMalicious), also across restarts.                   *)
MaliciousRoundsChallengedOnce ==
    LET SameRound(c, k) == OperatorOf[c] = OperatorOf[k] /\ RoundOf[c] = RoundOf[k]
    IN  /\ LcpSyncer => \A k \in Malicious :
              rows[k] # NoRow /\ dbLcp >= KickoffHeight[k] => \E c \in challenges : SameRound(c, k)
        /\ \A c, d \in challenges : SameRound(c, d) => c = d

(* The same for a manager that never recovered on top of its machines:     *)
(* whichever of the kickoff and the LCP of its block comes first, and      *)
(* across restarts and errors.                                             *)
ChallengedOnceUnlessOverlaid == ~overlaid => MaliciousRoundsChallengedOnce

(* Every message is handled in the end. *)
QueueDrains == <>[](queue = << >>)
=============================================================================
