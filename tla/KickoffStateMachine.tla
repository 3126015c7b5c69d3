------------------------- MODULE KickoffStateMachine ------------------------
(***************************************************************************)
(* The state machine that follows one kickoff: its challenge, the          *)
(* challenges of the watchtowers and the operator's acknowledgements, the  *)
(* latest blockhash and the asserts that the operator commits, until the   *)
(* kickoff finalizer or the operator's collateral is spent.                *)
(*                                                                         *)
(* A transaction is named by the output of the kickoff that it is for: it  *)
(* reveals something (any transaction that spends the output) or it is the *)
(* presigned timeout of that output.  The timelocks of the timeouts are    *)
(* left out, so the transactions come in any order that the outputs allow. *)
(* As in RoundStateMachine a block is processed event by event and then    *)
(* saved; the machine also has timers, matchers of a block height.         *)
(***************************************************************************)
EXTENDS Integers, Sequences, FiniteSets

CONSTANTS
    Watchtowers,        \* the watchtowers of the deposit
    Asserts,            \* the assert outputs of the kickoff
    FinalityDepth,      \* ProtocolParamset::finality_depth
    TimeToSend,         \* BridgeConfig::time_to_send_watchtower_challenge
    MaxBlockLen,        \* bound: transactions of the kickoff in a block
    MaxHeight,          \* bound: blocks since the kickoff
    MaxFaults           \* bound: errors and restarts

ASSUME KickoffAssumption ==
    /\ IsFiniteSet(Watchtowers) /\ IsFiniteSet(Asserts)
    /\ FinalityDepth \in Nat \ {0} /\ TimeToSend \in Nat
    /\ MaxBlockLen \in Nat /\ MaxHeight \in Nat /\ MaxFaults \in Nat

VARIABLES
    (* the chain *)
    onChain,            \* the transactions of the kickoff that are mined
    spent,              \* the outputs that they spend
    lastWatchtower,     \* the height at which a watchtower output was last spent
    block,              \* the block
    height,             \* its height, 0 being kickoff_height
    (* the machine *)
    pc,                 \* "mining" or "processing" the block
    machine,            \* the state machine in memory
    pending,            \* the duties dispatched by the open database transaction
    row,                \* the machine in the database
    duties,             \* the duties that were committed
    faults

chainVars == <<onChain, spent, lastWatchtower, block, height>>
vars == <<chainVars, pc, machine, pending, row, duties, faults>>

-----------------------------------------------------------------------------
(* The outputs of the kickoff, and the collateral in the round. *)
Challenge == <<"challenge">>
Watchtower(w) == <<"watchtower", w>>
Ack(w) == <<"ack", w>>
LatestBlockhash == <<"latest_blockhash">>
AssertOutput(i) == <<"assert", i>>
Disprove == <<"disprove">>
Finalizer == <<"finalizer">>
Collateral == <<"collateral">>

Outputs ==
    {Challenge, LatestBlockhash, Disprove, Finalizer, Collateral}
    \cup {Watchtower(w) : w \in Watchtowers} \cup {Ack(w) : w \in Watchtowers}
    \cup {AssertOutput(i) : i \in Asserts}

Reveal(u) == [type |-> "reveal", of |-> u]
Timeout(u) == [type |-> "timeout", of |-> u]

(* The transactions: the finalizer has no transaction of its own, and the  *)
(* collateral is revealed when anything else spends it.                    *)
Txs ==
    {Reveal(u) : u \in Outputs \ {Finalizer}}
    \cup {Timeout(u) : u \in Outputs \ {Finalizer, Collateral}}

(* The outputs that a transaction spends. *)
Inputs(tx) ==
    {tx.of} \cup
    CASE tx = Reveal(Disprove) -> {Collateral}
      [] tx.type = "reveal" /\ tx.of # Disprove -> {}
      [] tx.type = "timeout" /\ tx.of \in {Challenge, Disprove} -> {Finalizer}
      [] tx.type = "timeout" /\ tx.of[1] = "watchtower" -> {Ack(tx.of[2])}
      [] tx.type = "timeout" /\ tx.of[1] \in {"ack", "latest_blockhash", "assert"} ->
            {Finalizer, Collateral}

Ended == spent \cap {Finalizer, Collateral} # {}

(* After its end the kickoff is of no interest to anyone. *)
Mine(tx) ==
    /\ pc = "mining"
    /\ height <= MaxHeight
    /\ Len(block) < MaxBlockLen
    /\ Inputs(tx) \cap spent = {}
    /\ ~Ended \/ block # << >>
    /\ block' = Append(block, tx)
    /\ onChain' = onChain \cup {tx}
    /\ spent' = spent \cup Inputs(tx)
    /\ lastWatchtower' = IF tx.of[1] = "watchtower" THEN height ELSE lastWatchtower
    /\ UNCHANGED <<height, pc, machine, pending, row, duties, faults>>

CloseBlock ==
    /\ pc = "mining"
    /\ height <= MaxHeight
    /\ pc' = "processing"
    /\ UNCHANGED <<chainVars, machine, pending, row, duties, faults>>

-----------------------------------------------------------------------------
(* KickoffEvent; an event stands also for the matcher that dispatches it. *)
Challenged == <<"Challenged">>
WatchtowerChallengeSent(w) == <<"WatchtowerChallengeSent", w>>
WatchtowerChallengeTimeoutSent(w) == <<"WatchtowerChallengeTimeoutSent", w>>
OperatorChallengeAckSent(w) == <<"OperatorChallengeAckSent", w>>
OperatorAssertSent(i) == <<"OperatorAssertSent", i>>
LatestBlockHashSent == <<"LatestBlockHashSent">>
KickoffFinalizerSpent == <<"KickoffFinalizerSpent">>
BurnConnectorSpent == <<"BurnConnectorSpent">>
TimeToSendLatestBlockhash == <<"TimeToSendLatestBlockhash">>
TimeToSendWatchtowerChallenge == <<"TimeToSendWatchtowerChallenge">>

(* add_default_kickoff_matchers. *)
DefaultMatchers ==
    {Challenged, LatestBlockHashSent, KickoffFinalizerSpent, BurnConnectorSpent}
    \cup {OperatorAssertSent(i) : i \in Asserts}
    \cup UNION {{WatchtowerChallengeSent(w), WatchtowerChallengeTimeoutSent(w),
                 OperatorChallengeAckSent(w)} : w \in Watchtowers}

(* The output that a matcher waits for. *)
Watched(e) ==
    CASE e = Challenged -> Challenge
      [] e = LatestBlockHashSent -> LatestBlockhash
      [] e = KickoffFinalizerSpent -> Finalizer
      [] e = BurnConnectorSpent -> Collateral
      [] e[1] \in {"WatchtowerChallengeSent", "WatchtowerChallengeTimeoutSent"} ->
            Watchtower(e[2])
      [] e[1] = "OperatorChallengeAckSent" -> Ack(e[2])
      [] e[1] = "OperatorAssertSent" -> AssertOutput(e[2])

(* Mutant of ButNot: the timeout of a watchtower is taken for an ack. *)
ButNotOwnTimeout(e) ==
    IF e \in {KickoffFinalizerSpent, BurnConnectorSpent} THEN {} ELSE {Timeout(Watched(e))}

(* The transactions that must not be the ones that spend it. *)
ButNot(e) ==
    CASE e \in {KickoffFinalizerSpent, BurnConnectorSpent} -> {}
      [] e[1] = "OperatorChallengeAckSent" ->
            {Timeout(Ack(e[2])), Timeout(Watchtower(e[2]))}
      [] OTHER -> {Timeout(Watched(e))}

(* Matcher::matches, for the matchers of transactions: SentTx for the      *)
(* timeout of a watchtower, SpentUtxo and SpentUtxoButNotTxid for the rest.*)
MatchesAt(e) ==
    IF e[1] = "WatchtowerChallengeTimeoutSent"
    THEN {n \in DOMAIN block : block[n] = Timeout(Watched(e))}
    ELSE {n \in DOMAIN block :
            /\ Watched(e) \in Inputs(block[n])
            /\ \A k \in DOMAIN block : block[k] \notin ButNot(e)}

(* Matcher::BlockHeight: the timers that are due. *)
Due == {t \in machine.timers : t[1] <= height}

(* match_block: the event that is dispatched is that of the first matcher; *)
(* block heights come before transactions, and those in the order of the   *)
(* block.  (Two events of one transaction both close the machine: their    *)
(* order is immaterial.)                                                   *)
First(e) ==
    /\ pc = "processing"
    /\ e \in machine.matchers
    /\ Due = {}
    /\ \E i \in MatchesAt(e) : \A f \in machine.matchers : \A j \in MatchesAt(f) : i <= j

-----------------------------------------------------------------------------
(* Duties. *)
AddNecessaryTxsForKickoff == [duty |-> "AddNecessaryTxsForKickoff"]
AddRelevantTxsIfChallenged == [duty |-> "AddRelevantTxsToTxSenderIfChallenged"]
WatchtowerChallengeDetected(w) == [duty |-> "WatchtowerChallengeDetected", watchtower |-> w]
WatchtowerChallenge == [duty |-> "WatchtowerChallenge"]
SendLatestBlockhash(h) == [duty |-> "SendLatestBlockhash", block |-> h]
SendOperatorAsserts(S) == [duty |-> "SendOperatorAsserts", challenges |-> S]
VerifierDisprove(A, S) == [duty |-> "VerifierDisprove", asserts |-> A, acks |-> S]

AllWatchtowersSpent(m) == m.spent_watchtower_utxos = Watchtowers

(* A hash map has one event for each block height. *)
InsertTimer(T, h, e) == {t \in T : t[1] # h} \cup {<<h, e>>}

(* Mutant of create_matcher_...: one block too early. *)
ScheduleEarly(m, h) ==
    IF m.challenged /\ AllWatchtowersSpent(m)
    THEN [m EXCEPT !.timers = InsertTimer(@, h + FinalityDepth - 2, TimeToSendLatestBlockhash)]
    ELSE m

(* create_matcher_for_latest_blockhash_if_ready, in the context of block h. *)
ScheduleLatestBlockhash(m, h) ==
    IF m.challenged /\ AllWatchtowersSpent(m)
    THEN [m EXCEPT !.timers = InsertTimer(@, h + FinalityDepth - 1, TimeToSendLatestBlockhash)]
    ELSE m

(* Mutant of AssertsIfReady: the watchtowers are not waited for. *)
AssertsIfBlockhash(m) ==
    IF m.challenged /\ m.latest_blockhash
    THEN {SendOperatorAsserts(m.watchtower_challenges)} ELSE {}

(* send_operator_asserts_if_ready. *)
AssertsIfReady(m) ==
    IF m.challenged /\ AllWatchtowersSpent(m) /\ m.latest_blockhash
    THEN {SendOperatorAsserts(m.watchtower_challenges)} ELSE {}

(* disprove_if_ready. *)
DisproveIfReady(m) ==
    IF /\ m.challenged /\ AllWatchtowersSpent(m) /\ m.latest_blockhash
       /\ m.operator_asserts = Asserts
       /\ m.watchtower_challenges \subseteq m.operator_challenge_acks
    THEN {VerifierDisprove(m.operator_asserts, m.operator_challenge_acks)} ELSE {}

-----------------------------------------------------------------------------
(* on_kickoff_started_entry. *)
StartedEntry(m) ==
    [machine |-> [m EXCEPT !.matchers = @ \cup DefaultMatchers],
     duties |-> {AddNecessaryTxsForKickoff}]

(* on_challenged_entry, in the context of block h. *)
ChallengedEntry(m, h) ==
    LET m1 == [m EXCEPT !.challenged = TRUE,
                  !.timers = InsertTimer(@, TimeToSend, TimeToSendWatchtowerChallenge)]
        m2 == ScheduleLatestBlockhash(m1, h)
    IN  [machine |-> m2,
         duties |-> {AddRelevantTxsIfChallenged} \cup AssertsIfReady(m2) \cup DisproveIfReady(m2)]

(* Mutant of ClosedEntry: the timers survive. *)
ClosedEntryKeepsTimers(m) == [machine |-> [m EXCEPT !.matchers = {}], duties |-> {}]

(* on_closed_entry. *)
ClosedEntry(m) == [machine |-> [m EXCEPT !.matchers = {}, !.timers = {}], duties |-> {}]

(* process_with_ctx and on_dispatch: the first event is dispatched and its *)
(* matcher removed; m is what the state makes of the machine.              *)
Dispatch(m, new) ==
    /\ machine' = m
    /\ pending' = pending \cup new
    /\ UNCHANGED <<chainVars, pc, row, duties, faults>>

Without(e) == [machine EXCEPT !.matchers = @ \ {e}, !.dirty = TRUE]

OnChallenged ==
    /\ First(Challenged)
    /\ machine.state = "kickoff_started"
    /\ LET entry == ChallengedEntry([Without(Challenged) EXCEPT !.state = "challenged"], height)
       IN  Dispatch(entry.machine, entry.duties)

OnWatchtowerChallengeSent(w) ==
    LET e == WatchtowerChallengeSent(w)
        m == ScheduleLatestBlockhash(
                [Without(e) EXCEPT !.spent_watchtower_utxos = @ \cup {w},
                                   !.watchtower_challenges = @ \cup {w}], height)
    IN  /\ First(e)
        /\ machine.state # "closed"
        /\ Dispatch(m, {WatchtowerChallengeDetected(w)} \cup AssertsIfReady(m) \cup DisproveIfReady(m))

OnWatchtowerChallengeTimeoutSent(w) ==
    LET e == WatchtowerChallengeTimeoutSent(w)
        m == ScheduleLatestBlockhash(
                [Without(e) EXCEPT !.spent_watchtower_utxos = @ \cup {w}], height)
    IN  /\ First(e)
        /\ machine.state # "closed"
        /\ Dispatch(m, AssertsIfReady(m) \cup DisproveIfReady(m))

OnOperatorAssertSent(i) ==
    LET e == OperatorAssertSent(i)
        m == [Without(e) EXCEPT !.operator_asserts = @ \cup {i}]
    IN  /\ First(e)
        /\ machine.state # "closed"
        /\ Dispatch(m, DisproveIfReady(m))

(* Mutant of OnOperatorChallengeAckSent: the ack is only recorded. *)
OnOperatorChallengeAckSentOnly(w) ==
    LET e == OperatorChallengeAckSent(w)
    IN  /\ First(e)
        /\ machine.state # "closed"
        /\ Dispatch([Without(e) EXCEPT !.operator_challenge_acks = @ \cup {w}], {})

OnOperatorChallengeAckSent(w) ==
    LET e == OperatorChallengeAckSent(w)
        m == [Without(e) EXCEPT !.operator_challenge_acks = @ \cup {w}]
    IN  /\ First(e)
        /\ machine.state # "closed"
        /\ Dispatch(m, DisproveIfReady(m))

OnLatestBlockHashSent ==
    LET e == LatestBlockHashSent
        m == [Without(e) EXCEPT !.latest_blockhash = TRUE]
    IN  /\ First(e)
        /\ machine.state # "closed"
        /\ Dispatch(m, AssertsIfReady(m) \cup DisproveIfReady(m))

(* The kickoff finalizer or the collateral is spent. *)
OnClosed ==
    \E e \in {KickoffFinalizerSpent, BurnConnectorSpent} :
        LET entry == ClosedEntry([Without(e) EXCEPT !.state = "closed"])
        IN  /\ First(e)
            /\ machine.state # "closed"
            /\ Dispatch(entry.machine, entry.duties)

(* A timer is due.  on_dispatch removes some matcher with the same event,  *)
(* which need not be the one that matched.                                 *)
OnTimer(e, new) ==
    /\ pc = "processing"
    /\ \E t \in Due : t[2] = e
    /\ \E t \in machine.timers :
          /\ t[2] = e
          /\ Dispatch([machine EXCEPT !.timers = @ \ {t}, !.dirty = TRUE], new)

OnTimeToSendLatestBlockhash ==
    /\ machine.state # "closed"
    /\ OnTimer(TimeToSendLatestBlockhash, {SendLatestBlockhash(height)})

OnTimeToSendWatchtowerChallenge ==
    /\ machine.state = "challenged"
    /\ OnTimer(TimeToSendWatchtowerChallenge, {WatchtowerChallenge})

(* The block generates no more events: save_state_to_db, SavedToDb, commit. *)
SaveBlock ==
    /\ pc = "processing"
    /\ Due = {}
    /\ \A e \in machine.matchers : MatchesAt(e) = {}
    /\ row' = IF machine.dirty THEN machine ELSE row
    /\ machine' = [machine EXCEPT !.dirty = FALSE]
    /\ duties' = duties \cup pending
    /\ pending' = {}
    /\ block' = << >>
    /\ height' = height + 1
    /\ pc' = "mining"
    /\ UNCHANGED <<onChain, spent, lastWatchtower, faults>>

(* The entry action of the state of a machine that is loaded. *)
Entry(m, h) ==
    CASE m.state = "kickoff_started" -> StartedEntry(m)
      [] m.state = "challenged" -> ChallengedEntry(m, h)
      [] m.state = "closed" -> ClosedEntry(m)

(* An error or a restart: the open transaction is rolled back, the machine *)
(* is loaded in the context of the last processed block, which runs its    *)
(* entry action and commits its duties, and the block is processed again.  *)
Reload ==
    /\ faults < MaxFaults
    /\ faults' = faults + 1
    /\ machine' = Entry(row, height - 1).machine
    /\ duties' = duties \cup Entry(row, height - 1).duties
    /\ pending' = {}
    /\ UNCHANGED <<chainVars, pc, row>>

(* The bound is reached. *)
Done == height > MaxHeight /\ UNCHANGED vars

-----------------------------------------------------------------------------
(* A new machine, after its entry action. *)
NewMachine ==
    [state |-> "kickoff_started", matchers |-> DefaultMatchers, timers |-> {},
     challenged |-> FALSE, spent_watchtower_utxos |-> {}, latest_blockhash |-> FALSE,
     watchtower_challenges |-> {}, operator_asserts |-> {}, operator_challenge_acks |-> {},
     dirty |-> TRUE]

Init ==
    /\ onChain = {} /\ spent = {} /\ lastWatchtower = 0
    /\ block = << >> /\ height = 0
    /\ pc = "mining"
    /\ row = NewMachine
    /\ machine = [NewMachine EXCEPT !.dirty = FALSE]
    /\ pending = {} /\ duties = {AddNecessaryTxsForKickoff}
    /\ faults = 0

Process ==
    \/ CloseBlock
    \/ OnChallenged
    \/ \E w \in Watchtowers :
          \/ OnWatchtowerChallengeSent(w)
          \/ OnWatchtowerChallengeTimeoutSent(w)
          \/ OnOperatorChallengeAckSent(w)
    \/ \E i \in Asserts : OnOperatorAssertSent(i)
    \/ OnLatestBlockHashSent
    \/ OnClosed
    \/ OnTimeToSendLatestBlockhash
    \/ OnTimeToSendWatchtowerChallenge
    \/ SaveBlock

Next == (\E tx \in Txs : Mine(tx)) \/ Process \/ Reload \/ Done

Spec == Init /\ [][Next]_vars

-----------------------------------------------------------------------------
MachineType ==
    [state : {"kickoff_started", "challenged", "closed"},
     matchers : SUBSET DefaultMatchers,
     timers : SUBSET ((Int \X {TimeToSendLatestBlockhash, TimeToSendWatchtowerChallenge})),
     challenged : BOOLEAN, latest_blockhash : BOOLEAN,
     spent_watchtower_utxos : SUBSET Watchtowers, watchtower_challenges : SUBSET Watchtowers,
     operator_challenge_acks : SUBSET Watchtowers, operator_asserts : SUBSET Asserts,
     dirty : BOOLEAN]

(* The type invariant of the machine, in memory and saved. *)
TypeOK ==
    /\ machine \in MachineType /\ row \in MachineType
    /\ onChain \subseteq Txs /\ spent \subseteq Outputs
    /\ pc \in {"mining", "processing"}
    /\ height \in 0..MaxHeight + 1 /\ lastWatchtower \in 0..height

(* Every event that a matcher can dispatch is one that the current state   *)
(* handles: an unhandled event is an error, and the block would fail again *)
(* on every retry.  No two timers share a block height.                    *)
EventsAreHandled ==
    /\ Challenged \in machine.matchers => machine.state = "kickoff_started"
    /\ machine.timers # {} => machine.state = "challenged"
    /\ machine.state = "closed" => machine.matchers = {}
    /\ \A s, t \in machine.timers : s[1] = t[1] => s = t

(* Between two blocks. *)
AtRest == pc = "mining" /\ block = << >>
Open == AtRest /\ machine.state # "closed"

Revealed(u) == Reveal(u) \in onChain

(* After every block the machine has recorded what the chain says of the   *)
(* kickoff, whatever the order of the transactions and the restarts, and   *)
(* it is closed if and only if the finalizer or the collateral is spent.   *)
RecordsTheChain ==
    AtRest =>
        /\ machine.state = "closed" <=> Ended
        /\ ~Ended =>
            /\ (machine.state = "challenged") = Revealed(Challenge)
            /\ machine.challenged = Revealed(Challenge)
            /\ machine.latest_blockhash = Revealed(LatestBlockhash)
            /\ machine.spent_watchtower_utxos = {w \in Watchtowers : Watchtower(w) \in spent}
            /\ machine.watchtower_challenges = {w \in Watchtowers : Revealed(Watchtower(w))}
            /\ machine.operator_challenge_acks = {w \in Watchtowers : Revealed(Ack(w))}
            /\ machine.operator_asserts = {i \in Asserts : Revealed(AssertOutput(i))}

(* "This duty is only sent if a kickoff was challenged": the duties that   *)
(* cost the owner something.                                               *)
DutiesOnlyIfChallenged ==
    \A d \in duties \cup pending :
        d.duty \in {"WatchtowerChallenge", "SendLatestBlockhash", "SendOperatorAsserts",
                    "VerifierDisprove"} => Revealed(Challenge)

(* The operator is told to assert with the challenges of all watchtowers:  *)
(* none can come later, and the latest blockhash is committed.             *)
AssertsHaveEveryChallenge ==
    \A d \in duties \cup pending : d.duty = "SendOperatorAsserts" =>
        /\ \A w \in Watchtowers : Watchtower(w) \in spent
        /\ d.challenges = {w \in Watchtowers : Revealed(Watchtower(w))}
        /\ Revealed(LatestBlockhash)

(* ... and it is told so, in whatever order that became true. *)
AssertsAreRequested ==
    /\ Open
    /\ Revealed(Challenge) /\ Revealed(LatestBlockhash)
    /\ \A w \in Watchtowers : Watchtower(w) \in spent
    => \E d \in duties : d.duty = "SendOperatorAsserts"

(* A verifier disproves with every assert, the latest blockhash, and an    *)
(* ack for each watchtower that challenged.                                *)
DisproveIsComplete ==
    \A d \in duties \cup pending : d.duty = "VerifierDisprove" =>
        /\ d.asserts = Asserts /\ \A i \in Asserts : Revealed(AssertOutput(i))
        /\ \A w \in Watchtowers : Revealed(Watchtower(w)) => w \in d.acks /\ Revealed(Ack(w))
        /\ \A w \in Watchtowers : Watchtower(w) \in spent
        /\ Revealed(LatestBlockhash)

(* ... and it is told to as soon as that holds, in whatever order. *)
DisproveIsRequested ==
    /\ Open
    /\ Revealed(Challenge) /\ Revealed(LatestBlockhash)
    /\ \A i \in Asserts : Revealed(AssertOutput(i))
    /\ \A w \in Watchtowers : Watchtower(w) \in spent
    /\ \A w \in Watchtowers : Revealed(Watchtower(w)) => Revealed(Ack(w))
    => \E d \in duties : d.duty = "VerifierDisprove"

(* When a challenged kickoff is old enough, the watchtower was told to     *)
(* challenge, unless all of them are done.                                 *)
WatchtowerChallengeRequested ==
    /\ Open
    /\ Revealed(Challenge)
    /\ height > TimeToSend
    => \/ WatchtowerChallenge \in duties
       \/ \A w \in Watchtowers : Watchtower(w) \in spent

(* What is requested is complete: no duty without a challenge, and each    *)
(* with all that has to go into it.                                        *)
DutiesAreComplete == DutiesOnlyIfChallenged /\ AssertsHaveEveryChallenge /\ DisproveIsComplete

(* ... and what is complete is requested. *)
DutiesAreRequested ==
    AssertsAreRequested /\ DisproveIsRequested /\ WatchtowerChallengeRequested

(* The blockhash that is to be committed is of a block that is at least    *)
(* finality_depth - 1 blocks after the last watchtower output was spent;   *)
(* and once the kickoff is challenged and those outputs are spent, it was  *)
(* requested or a timer will request it: timers that overwrite each other, *)
(* and restarts, do not lose it.                                           *)
BlockhashAfterChallenges ==
    /\ \A d \in duties \cup pending : d.duty = "SendLatestBlockhash" =>
          /\ \A w \in Watchtowers : Watchtower(w) \in spent
          /\ d.block >= lastWatchtower + FinalityDepth - 1
    /\ Open /\ Revealed(Challenge) /\ (\A w \in Watchtowers : Watchtower(w) \in spent) =>
          \/ \E d \in duties : d.duty = "SendLatestBlockhash"
          \/ \E t \in machine.timers :
                t[2] = TimeToSendLatestBlockhash /\ t[1] <= height + FinalityDepth - 2
=============================================================================
