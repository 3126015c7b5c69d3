# A TLA+ development of Clementine

Clementine is Citrea's BitVM-based bridge between Bitcoin and a rollup. This
directory holds TLA+ models of the parts of it that keep state and react to
Bitcoin, the TLC configurations that check them on small instances, and TLAPS
proofs. `PROJECT.json` lists components, runs, mutants, findings, hazards and
theorems, and maps definitions to source lines.

Run a configuration with `tlc -workers 2 -config Fetcher.cfg MCFinalizedBlockFetcher`,
and check proofs with `tlapm FinalizedBlockFetcherProofs.tla` (each `...Proofs`
module is checked by itself).

## 1. The system

Paths are relative to `src/core/src` unless they begin with `crates`,
`circuits-lib` or `bridge-circuit-host` (relative to `src`).

| Component | State it keeps | Operations | Interacts with | What makes it correct |
|---|---|---|---|---|
| Bitcoin syncer (`bitcoin_syncer.rs`, `database/bitcoin_syncer.rs`) | tables `bitcoin_syncer` (id, height, canonical), `bitcoin_blocks`, events; the height in memory | `fetch_new_blocks`, `save_block`, mark a branch as reorged | polls the Bitcoin node; writes an event log that every other task consumes | one canonical chain; events replay to it; reorgs below the finality depth never stall it and deeper ones never corrupt it |
| Finalized block fetchers (`bitcoin_syncer.rs`, `task/lcp_syncer.rs`) | a position in the log per consumer; the next height in memory | consume one event and hand on the blocks that it makes final | read the syncer's tables; call a handler in the same transaction | each final height once and in order, never reorged later, across restarts |
| State manager (`states/mod.rs`, `states/event.rs`, `states/task.rs`, `database/state_machine.rs`) | a pgmq queue, `state_machines` and `state_manager_status`, the machines in memory | handle one message, save dirty machines, recover, reload | fed by fetchers, `set_operator`, deposits, its own machines; calls the owner's duties | no message jams the queue; memory, tables and height agree; no kickoff is lost; a malicious round is challenged once |
| Round machine (`states/round.rs`) | where the collateral is, used kickoffs, possible kickoffs, matchers | one event per matched transaction; entry and exit actions | duties of the owner (`CheckIfKickoff`, `NewReadyToReimburse`, `QueueReadyToReimburse`) | follows the collateral through any block, reports kickoffs and round ends exactly |
| Kickoff machine (`states/kickoff.rs`) | challenge data, matchers, block-height timers | events of the challenge protocol | duties (challenge, asserts, disprove, latest blockhash) | records the chain; each duty when its inputs are complete, not before |
| Task framework (`task/mod.rs`, `task/manager.rs`) | a registry of tasks, abort handles, error buffers | retry, recover, restart, shut down | wraps every background task | a stopped task is restarted, none runs twice |
| Verifier (`verifier.rs`, `musig2.rs`) | nonce sessions, signatures, known kickoffs, Citrea deposits and withdrawals | `nonce_gen`, `deposit_sign`, `deposit_finalize`, `handle_finalized_block`, `handle_kickoff` | aggregator, state manager, Citrea node | a nonce is used once; a signed deposit is tracked; every malicious kickoff is challenged |
| Operator (`operator.rs`, `task/payout_checker.rs`) | payouts, used kickoff connectors, the current round | pay a withdrawal, send a kickoff, end a round | tx sender, syncer's tables, Bitcoin node | one kickoff per payout, no reuse of a connector, no early end of a round |
| Transaction sender (`crates/clementine-tx-sender`) | queued transactions, activation conditions, RBF and CPFP attempts | queue, try to send, bump, track confirmations | Bitcoin node, syncer events | a transaction that may be sent is sent, until it is final |
| Header chain prover (`header_chain_prover.rs`, `database/header_chain_prover.rs`) | a row per final block, a proof for some | save a block, prove a batch, prove up to a given block | the verifier's fetcher, watchtower challenges, the operator's asserts | each proof commits to what Bitcoin's rules give for its block; the operator gets the proof it needs |
| Aggregator (`aggregator.rs`, `rpc/aggregator.rs`) | deposits in progress | two MuSig2 rounds over streams | all verifiers and operators | no nonce signs twice, no move transaction without everything that protects it |
| Circuits (`circuits-lib`) and hosts (`bridge-circuit-host`) | header chain state, MMR, Merkle trees | pure functions | prover | they accept exactly the chains and proofs that are valid |
| Transaction builders (`builder/transaction`) | none: the graph of presigned transactions | inputs, outputs, timelocks, scripts | all | the honest side of a challenge always has the last word |
| RPC layer, clients, keys, configuration, metrics | none of their own | parse, connect, sign | all | (out of scope, see section 8) |

### What is hard here

* The node reorganises while the syncer walks back; the walk reads several
  times, and so does a fetcher's READ COMMITTED transaction.
* Progress is kept partly in memory and partly derived again from an event log
  after a restart.
* A message's effects are committed with the machines, but machines live in
  memory too, and a rolled-back transaction does not roll memory back.
* Messages of independent producers (blocks, LCPs, operators, deposits) arrive
  in any order.
* Several of an operator's transactions can be in one block, and the machines
  process them by matchers kept in a hash map.
* Loading a saved machine runs the entry action of its state again.
* Every answer of a party races a presigned timeout of the other one, and a
  party only acts on final blocks.
* A nonce session is taken out of its table while a task signs with it; other
  calls, evictions and retries of the aggregator go on.
* A queued transaction has several versions, each of which may be mined,
  evicted or reorged between two calls to the node.
* Three tasks prove overlapping pieces of the header chain at once, and some of
  a chain state lives only inside one batch.

`hazards` in `PROJECT.json` lists these at their lines, with the properties
that would catch them.

## 2. Modules

| Module | Models | Uses |
|---|---|---|
| `BitcoinChain` | the tree of all blocks, `is_block_finalized` | |
| `BitcoinSyncer` | the node (external) and the syncer task with its tables | extends `BitcoinChain` |
| `FinalizedBlockFetcher` | the consumers of the event log, composed with the syncer | extends `BitcoinSyncer` |
| `FinalizedChain` | the promise of both: an append-only chain and growing prefixes of it | abstract |
| `StateManager` | the manager, its queue, tables and memory, and the producers of its messages | |
| `RoundStateMachine` | one operator's collateral and kickoff outputs, and its machine | |
| `KickoffStateMachine` | one kickoff's outputs, and its machine | |
| `BridgeTransactions` | the presigned transactions of a round: what each spends, after how many blocks | |
| `ReimbursementGame` | an operator against the verifiers, one side running this code, the other sending anything it has signatures for | extends `BridgeTransactions` |
| `TxSender` | the transaction sender with one queued transaction, its versions and fee payers, and the node | |
| `DepositSigning` | aggregator and verifiers: nonce sessions, two signing rounds, the stored deposit | |
| `Operator` | withdrawals, payouts, connectors and rounds, with and without automation | |
| `HeaderChain` | the header chain circuit and the MMR in the circuit and on the host; Bitcoin's rules as the reference | |
| `HeaderChainProver` | the table of headers and proofs, and the three tasks that work on it | extends `HeaderChain` |
| `MC...` | small instances for TLC | |
| `FinalizedBlockFetcherProofs` (syncer included), `ReimbursementGameProofs`, `DepositSigningProofs`, `KickoffStateMachineProofs`, `RoundStateMachineProofs`, `TxSenderProofs`, `OperatorProofs`, `StateManagerProofs` | theorems about the module of that name | TLAPS |

Definitions whose comment begins with "Mutant of" are faulty variants used to
test that a property can fail; no specification uses them.

### BitcoinSyncer and FinalizedBlockFetcher

A block stands for its hash, so the tree fixes parent and height. `id`,
`is_canonical` and `bitcoin_blocks` are the columns of the tables, `events` the
outbox in id order. The syncer's steps are `StartOnEmptyDb`, `StartOnSyncedDb`
(`BitcoinSyncer::new`), `FetchTip`, `WalkBack` (one turn of the loop in
`fetch_new_blocks`), `WalkFails`, and `SaveNewBlocks`, the single database
transaction of `run_once` with the marking of reorged rows in it. `NodeSwitch`
may happen between any two of them. `SyncerFails` ends the task: it runs
without `BufferedErrors`.

A fetcher's run is `FetchEvent`, then `ReadFullBlock` and `HandleBlock` for each
block (two queries, hence two steps), then `CommitRun`. `FetcherFails` rolls
back; `RestartFetcher` rebuilds `nextFinalized` with `NextFinalizedFromDb`,
which is `get_next_finalized_block_height_for_consumer`. `handed` is a history
variable. The transactions and spent outputs of a block belong to the block's
data and are not told apart.

### StateManager

A machine is abstracted to the manager's view: the blocks with activity that it
has seen, its dirty flag, and for a round machine `challenged_rounds`. One
message is handled in one step, because it is one database transaction of one
task; what other tasks may do in between is between messages. The producers are
actions: `Finalize`, `SendFinalizedBlock`, `SendLCPProcessed`, `SetOperator`,
and `OpenDeposit` / `CommitDeposit` for the transaction that ends
`deposit_finalize`, during which blocks may become final and be processed.
Failures are a crash, an error inside `process_block_parallel` (which has taken
the machines out of the vectors), an error before anything has changed, a failed
check of a kickoff (which leaves what was changed before it), and a failed save,
archive or commit (which leaves everything changed). After each but the first
the recovery loads the saved machines behind those in memory, and may fail
itself. Two history variables name what goes wrong: `overlaid` (a recovery found
machines in memory) and `overtaken` (kickoffs whose block was processed while
the transaction of their deposit was open).

### RoundStateMachine and KickoffStateMachine

Both have the same shape. Transactions of the operator are mined into a block
(external actions); the block is closed; then events are dispatched one by one,
the event of the first matching matcher each time, until none matches;
`SaveBlock` saves the machine if dirty and commits the duties. `Reload` is a
restart or a recovery anywhere: pending duties are dropped, the saved machine
is loaded, and the entry action of its state runs. An event names its matcher
as well, since each has exactly one; only the kickoff's timers (`BlockHeight`)
are kept apart, keyed by height as in the hash map.

In the round machine a transaction says which output of the collateral it
spends and creates and which kickoff outputs it spends. In the kickoff machine
a transaction reveals something on an output or is that output's presigned
timeout; `Inputs` gives the other outputs that it spends. Bitcoin's timelocks
are left out, which allows more orders than Bitcoin does, so what holds here
holds there. Witnesses and transactions that a machine stores are abstracted to
their presence. A new kickoff machine replays past blocks in the transaction
that creates it; `KickoffStateMachine` begins with the machine just created and
saved, and `StateManager` covers the replay.

### BridgeTransactions and ReimbursementGame

An output or a transaction is a tuple that begins with its name in the code;
`Inputs` gives, for each transaction type, the outputs it spends and the
relative timelock of each. The game is played in blocks: `Mine` puts a
transaction into the current block, `NextBlock` closes it. The honest side's
transactions (`Queue`, the duties of its state machines together with what
`add_txs` queues) are mined in the first block in which they are valid unless
the other side spends the same output in that block; both orders are explored.
All verifiers run this code, so one of them stands for all. A party sees a
block when it is `FinalityDepth` deep. `GameAssumption` states the room between
an event and the answer to it. The parameters in
`crates/clementine-config/src/protocol.rs`, the testnet4 configuration,
`config/protocol.rs` and `.env.example` satisfy it; the defaults of
`scripts/run.sh` do not, whose finality depth of 100 leaves no time for the
latest blockhash (288 + 199 blocks against 360). Of `operator_reimburse_timelock`
it asks only that it is positive: see section 6 for what depends on it. Ages are
counted up to `Cap`, the largest lock anything depends on. Challenges are sent
automatically, as on all networks but mainnet and testnet4, where a person
sends them. The round machine reports kickoffs that are mined before
ReadyToReimburse (`seen`); one that is mined later is in the game too, and no
verifier looks at it. The game is over when the collateral has left.

### TxSender

One queued transaction (`Queued` gives its way of paying and its timelock), the
activator whose output it spends, its RBF versions or its CPFP child and fee
payers. The node's mempool and chain move between any two calls of the task;
reorgs, evictions, errors and crashes are faults. The task's loop is
synchronise, check the inputs, bump or send, one step per call to the node or
commit. A confirmed transaction is looked up in two steps, getrawtransaction and
getblock, of the row, of each fee payer and of the activator alike; `block` is
the depth of the block between the two, negative once it is stale. The lookup of
an unconfirmed one (getrawtransaction, getmempoolentry) is one step, and the
caches of a run are left out: what they hold is an answer of the same run.
`stale` is a history variable: the transactions that were looked up in a stale
block. Confirmations are unsigned numbers of `IntWidth` bits (8 here, 32 in
the code). A fee payer waits one block before it is used (`rested`); the CPFP
package obeys the TRUC rule of one unconfirmed parent. `MaxRetries` must exceed
the number of faults plus one: the counter of failed input checks counts them.
Timelocks are at most `MaxTimelock`, which with the depth bounds the
confirmations that are told apart. The wallet funds a new transaction with any
txid that was never broadcast (`NextOf`).
Another party that broadcasts the very same transaction is not modelled.

### DepositSigning

An attempt is a call of `new_deposit` (or of the optimistic payout, which uses
nonces of the same table). Tasks of an attempt run in the verifiers: `deposit_sign`
takes its session out of the table, signs, and puts it back; `deposit_finalize`
pops nonces under the lock. An error, a timeout or a lost call is a task that
takes no further step. A *borrower* is an attempt whose calls carry the session
ids of another one. Session ids are random: they do not repeat by chance, also
across restarts (`oldIds`). The limit on bytes acts like the limit on the
number of sessions. Variants of the data of one outpoint are different operator
sets. What `is_deposit_valid`, keys and operator signatures do is not told
apart. Two consequences are in the model and are not violations: a deposit
stored by some verifiers and then attempted with other data cannot be completed
(`verifier.rs:897`; the model has one stored value for each verifier and
outpoint where `database/operator.rs:500` compares each operator, round and
kickoff, which refuses no less: another set of operators has other kickoffs),
and a put-back that finds its id taken fails the call
(`verifier.rs:992`).

### Operator

One table of withdrawals stands for those of all verifiers and of the operator,
because each handles the same final blocks with the same code. Payouts of other
parties for the same withdrawal, and a reorg, may interfere: a payout that is
mined again is in another block (`paidIn`), the table has the block of the final
one, and the witness of a kickoff commits to a block (`witness`), which
`IsKickoffMalicious` compares with the table. Nobody challenges
here (that is the game), timelocks are left out, batch proofs reach the bridge
in order. A round has more than one connector, and there are no more withdrawals
than rounds (`OperatorAssumption`): the code does not enforce this, `withdraw`
pays also when no connector is left, and the payout checker then fails on that
payout at every run. An unspent connector is marked
spent only by a later successful call, as in the code. In manual mode the
passing run assumes `OneByOne`, that a withdrawal is fronted when earlier
payouts are reimbursed; without it see section 6. Replacement deposits are not
modelled.

### HeaderChain and HeaderChainProver

A hash is the height of its block and `hash_pair` a pair. Targets are small
numbers in base 4 with the same compact form (size, three digits, sign bit), so
that rounding, the cut of the epoch's timespan and the maximum target all
occur; an epoch has four blocks and the ring three timestamps. `HeadersOf`
computes the headers of a chain from its block times by Bitcoin's rules, which
are independent definitions (a target is the largest compact number not above
the adjusted one; a chain's target is a function of the epoch, not of a state
that is updated). `ApplyBlockHeaders` is the circuit, with the two variables
that live for one batch. `GenerateProof` (host) and `VerifyProof` (circuit) are
the two forms of the MMR.

The prover's rows and proofs are committed data; `handler` is the verifier's
task, whose row is invisible to others until `CommitBlock`; `request` are the
proofs of a watchtower challenge and of the operator's asserts, whose
transaction inserts rows too (`pending`) but proves on another connection. The
model has a verifier and an operator on one database, as `docs/usage.md:14`
advises: with a database of its own an operator would never get its rows.
Left out: the start from a proof file (`header_chain_proof_path`), which can
leave a gap in the rows if the file is ahead of `start_height`; epochs that end
before they start (the unsigned difference would overflow); a genesis block
that ends an epoch (`ProverAssumption`; every other height is allowed, 0
included, where the ring of timestamps has fewer blocks than entries); targets of less than three digits, on
which `target_to_bits` panics.

## 3. Runs

| Run | Shows | Bounds |
|---|---|---|
| `fetcher` | tables are one chain, the log replays, heights are handed once, in order and for good, a restart resumes in place, no block is missing, final blocks are never reorged; syncer and consumer implement `FinalizedChain`, the syncer catches up, every final block is handed on | 11 blocks on 3 branches, start height 1, depth 3, 1 failure |
| `state_manager` | what is saved and what is in memory has seen the right blocks, always; unless a recovery loaded machines on top of others: one machine per process, a malicious round is challenged once, a kickoff is tracked unless its block overtakes its deposit | 3 kickoffs in 2 rounds, 3 blocks, 2 calls of `set_operator`, 1 failure of any kind |
| `state_manager_lost_challenge` | a violation, see section 6 | the same |
| `state_manager_live` | an operator's queue drains | 2 operators, 1 failure of any kind |
| `round` | the collateral is followed; kickoffs and round ends are reported exactly | 2 rounds of 2 kickoffs, blocks of up to 3 transactions, 1 reload |
| `kickoff` | chain recorded; duties complete, in time and not early | 2 watchtowers, 1 assert, blocks of up to 2 transactions, 1 reload |
| `reimbursement` | an honest operator keeps its collateral and is reimbursed; a malicious one whose kickoff is reported is removed, unless it is in the next round within twice the finality depth of that kickoff | 1 kickoff, 2 watchtowers, 1 assert, either side honest, every lock as short as it may be and the reimbursement lock at twice the finality depth |
| `tx_sender` | what is called final is final, unless it was looked up in a stale block; a transaction is given up only if its output was spent; else it becomes final, unless a fee payer was marked final in a stale block | every way to pay, 3 versions, 3 fee payers, 1 fault |
| `deposit_signing` | a nonce signs once; a signed move transaction is protected; signatures fit | 2 verifiers, 2 attempts, 2 variants of the data, 2 sessions, 1 crash |
| `operator` | no kickoff looks malicious, no round is ended while punishable, every payout is reimbursed | 2 withdrawals, 2 rounds of 2 connectors, 1 reorg, both modes |
| `operator_burns_assigned` | a violation, see section 6 | the same, manual mode |
| `header_chain` | honest headers are accepted, proofs commit to the chain, inclusion proofs verify, the asserts get their proof | 3 networks; a genesis block in the second epoch with all valid times of 3 blocks and batches of 2, or block 0 with 7 blocks and batches of 3; 1 challenge, 1 failure or crash |

Why these bounds are enough to be interesting: the block tree forks below and
at the first block and has branches shorter and longer than the depth, so
reorgs of exactly the depth (refused) and of one block less (followed) occur,
and a branch can be left and rejoined. Three kickoffs give two in one round and
block and one in another round. With two kickoffs a round has both a used and
an unused output, and blocks of three transactions hold a kickoff, the end of
the round and the next round. In `kickoff` the finality depth (3) and the time
to send a watchtower challenge (3) make the two timers collide on one height,
and two watchtowers separate "one" from "all". One failure can happen at every
point of a run; a second one finds the same saved state as the first, except
after a recovery on top of machines in memory (section 6).
Blocks without transactions are processed without bound in `round`; `kickoff`
ends at `MaxHeight` (action `Done`). In the game the locks that
`GameAssumption` relates have the order of the shipped ones and the smallest
room it allows, so that each race is as tight as it may be; the lock of the
reimbursement, which it leaves free, is twice the finality depth, the ratio of
the testnet4 configuration. The run has one kickoff; what a second one of the
same round could change, of which only one is challenged, is covered by the
theorem `ChallengeIsNotOutrun`, for any number. Two fee payers and two versions are what a
bump needs, a third one what a bump after a loss needs. Two sessions and two
attempts make an eviction hit a session in use. Withdrawal 1 may take the only
connector of withdrawal 2 (`MCSigned`), so that a choice of connector matters.
In `header_chain` the deployment is chosen in the initial state. From the later
genesis block three blocks end one epoch and begin the next, with
steps in time that go back, are normal or are late on testnet4; batches of two
put the change of epoch inside a batch or between two, depending on the
challenge and the asserts. From block 0, the `genesis_height` of the shipped
parameters, the ring of timestamps starts with fewer blocks than entries, and
seven leaves make a mountain range of three peaks. CHECK_DEADLOCK FALSE is given where a run ends: a
game that is over, a transaction that is final, no attempt left, everything
reimbursed, the last block proved.

## 4. Fairness

`fetcher` assumes weak fairness of the syncer's steps together, start
included, and of each fetcher's steps: the tasks loop until they are cancelled
(`CancelableLoop`, `into_polling`), and a task that ended is started again by
`restart_background_tasks` (`rpc/verifier.rs`, `rpc/operator.rs`, called by the
aggregator). The node has no fairness: `SyncerCatchesUp` speaks of nodes that
settle on a tip that agrees with the final part of the database. Failures are
bounded, not fair. `state_manager_live` assumes weak fairness of the consumer
task, its recovery and its restart.

`reimbursement` assumes that blocks are mined and that what the honest side has
queued gets into one: that is what the transaction sender is for
(`KeepsTrying`). Nothing is assumed of the other side. `tx_sender` assumes weak
fairness of the task, which is polled for ever, and strong fairness of mining
what pays the market rate: it may leave the mempool again and again, and is then
mined in one of the blocks in which it is there. `operator` assumes that what is
sent is mined, blocks become final and are handled, the payout checker and the
duty of the end of a round run, and, without automation, that somebody keeps
asking. `header_chain` assumes that the process is started again and that
fetcher and state manager retry what failed (`BufferedErrors`).

## 5. Proofs

Every safety property that a passing run checks, except those of the header chain, is
also a theorem: it holds for every value of the constants that the
named assumptions of the modules allow, not only for the bounds of section 3. Each rests on an
inductive invariant that TLC checked on the small instance before it was
proved. In every proof module the invariant is stated first, in named parts,
then one lemma per action or per group of actions that do the same to it.

### Syncer and fetchers (`FinalizedBlockFetcherProofs`)

For every finite block tree, start height, finality depth of at least 1, set of
consumers and bound on failures (`ChainAssumption`, `FaultsAssumption`):

* `TypeCorrect`, `CanonicalChain`, `HandedChain`, `ResumeCorrect`,
  `NothingMissing`, `LogReplays`: the invariants of the run `fetcher`;
* `FinalityHolds`: the action property `FinalizedNeverReorged`;
* `Refinement`: syncer and consumers implement `FinalizedChain`, step by step.
  A step of the syncer extends the final chain or stutters, a step of a consumer
  hands on a longer prefix of it or stutters.

They rest on `Inv`, in these parts:

* `HeightInv`, `ChainInv`: the height in the task's memory is that of the highest
  canonical row, and below it rows and stored blocks are one chain. The stated
  property uses a CHOOSE over the rows; the invariant names the height instead.
* `WalkInv`: the fetched blocks are a branch down from the height after the tip
  and are at most `finality_depth` many. This bounds how deep `SaveNewBlocks`
  can cut, and is why a block with `finality_depth` confirmations stays.
* `BelowTipInv`, `EventsInv`: no event is about a block above the tip, and a
  block is announced before it is reorged. They turn "final for the event" into
  "final now", although the event may be old and its block reorged, and make
  the highest processed event that of a `new_block`.
* `HandedInv`, `DbtxInv`: what was handed on, and what an open transaction is
  about to hand on, is final now; between the two reads of a transaction a
  reorg can only change rows above.
* `ResumeInv`: the height in memory is the highest processed height minus depth
  plus 2, or the start height. `ResumeFromDb` shows that the query computes it.

`LogReplays` follows the two parts of the log that one save appends: the reorged
blocks of the old branch, then the new ones, none of which is in both.

### The game (`ReimbursementGameProofs`)

For any number of kickoffs, watchtowers and asserts and every finality depth and
timelocks that `GameAssumption` allows:

* `HonestCollateral` (`HonestCollateralIsSafe`): whatever is challenged and
  when, no transaction that takes an honest operator's collateral is ever valid;
* `ChallengeIsNotOutrun` (`NextRoundOutrunsNoChallenge`): however many kickoffs of
  a round are malicious, challenging one of them is enough to close the round,
  if the operator is not in the next one before that challenge is final;
* `ReportedUnpaidIsNotReimbursed` (`ReportedUnpaidNeverReimbursed`), with the
  hypothesis `LongReimburseLock` that the reimbursement lock is longer than twice
  the finality depth: then the operator cannot be there in time. It is false
  with a lock of exactly that length (section 6), so the bound is the right one;
* `GameTypes` (`TypeOK`), and `GameIsInductive`, from which the others follow.

`GameInv` has three parts. `ChainInv` ties ages, outputs and transactions
together: what is spent was spent by a mined transaction, and a mined
transaction has taken the outputs of one of its input sets after their
timelocks. From it come, once per transaction type, what must be true when it is
mined (`...Took`), what is needed to mine it (`...Can`) and who can have spent an
output (`...Spent`). The other two parts say how old an answer is at least,
relative to the age of the kickoff: `Follows(tx, k, lock, n)` holds if `tx` was
mined at most `lock` blocks after the kickoff of `k`, counted to the `n` blocks
after which nobody waits any more. Without it the invariants are not inductive:
that an answer is mined does not say that the next one, which waits until it is
final, comes in time.

* `OperatorInv`: every kickoff whose finalizer is unspent meets each deadline
  (`MeetsDeadlines`): the challenge or its timeout after `ChallengeTimeoutLock`,
  each watchtower output after `WatchtowerTimeoutLock`, its acknowledgement F
  blocks later, the blockhash after 2F - 1 and the asserts after 3F - 1. Each
  follows from the one before because a block is full only when what the
  operator queued is in it or not valid. `GameAssumption` puts each deadline
  before the verifiers' timeout (`CannotBurn`), and the operator ends the round
  only when every connector is burned or settled (`OperatorSent`).
* `VerifierInv`: as long as no kickoff is challenged, the unpaid ones are
  younger than F. Of the challenged one every answer is forced (`Forced`), since
  otherwise the verifiers' timeout would have ended the game; so all commitments
  are on the chain F blocks before the disprove timeout and the kickoff is
  disproved by then (`Trapped`). If the operator ends the round first, the next
  block has `KickoffNotFinalized`. A kickoff that was seen is at least as old as
  the end of the round (`SeenInv`), and the challenged one as old as any unpaid
  one, so that `NextRound` is only mined while all of them are young
  (`ChallengeIsNotOutrun`), and under `LongReimburseLock` never
  (`NextRoundCannot`).

### Deposit signing (`DepositSigningProofs`)

For any number of verifiers, attempts, transactions, sessions and crashes:
`NonceSafety` (`NonceSignsOnce`), `MoveSafety` (`MoveTxIsProtected`) and
`SignaturesFitAlways` (`SignaturesFit`). The first needs that a nonce is in one
place: a session in the table, a task that took the session, or spent; a
put-back, a retry or an eviction moves it and never copies it. Which session the
limits evict does not matter: the proof uses only that what is kept was there
(`Kept`, `Fits`, `Evicted`). The second needs that the data of a deposit are
written once by a verifier and that a finalize task signs the move transaction
after it wrote them. The third is about attempts that use their own sessions:
while such an attempt runs nobody else takes from its session, so the position
in the session is the number of signatures made.

### Kickoff machine (`KickoffStateMachineProofs`)

For every set of watchtowers and asserts, timer and finality depth:
`TypeCorrect`, `HandlesEveryEvent`, `ChainIsRecorded`, `RequestsAreComplete`,
`RequestsAreMade`, `BlockhashInTime`. The invariant holds of the machine in
memory and of the one in the table alike, since a reload makes one of the other:
what it has recorded is on the chain; what is on the chain is recorded or still
to be dispatched from this block; and for whatever it has not seen it has a
matcher. A matcher is therefore never missing and never left behind, which is
why no state gets an event that it does not handle. For the timers: each is set
at least as late as the event that it waits after, and one that overwrites
another at the same height is not of the same kind.

### Round machine (`RoundStateMachineProofs`)

For any number of rounds, kickoffs and transactions in a block: `TypeCorrect`,
`HandlesEveryEvent`, `CollateralIsFollowed`, `ReportsTheKickoffs`,
`QueuesInTime`. The places of the collateral are ordered (`At`), each is visited
once, and the machine is at a place at or before that of the collateral: the
transactions between the two are in the block being processed, in the order of
the places. A machine that reaches the end of the block has therefore caught up,
and a report lists the outputs that were spent before the place it leaves. That
the end of the round is requested as soon as possible is proved without reloads
(`faults = 0`), that it is never requested early with them: see section 6.

### Transaction sender (`TxSenderProofs`)

For every depth, timelock, fee market, number of versions and fee payers, and
every order of blocks, reorgs, evictions, errors and crashes:

* `GivesUpOnlyIfSpent` (`GivenUpOnlyIfSpent`). Between the sync and the check of
  the inputs the run has the activator in view (`RetryInv`). If it sees it and
  the output is not spent, then a check that fails has had a fault since the
  sync; the failed checks in a row are therefore never more than the faults.
  The assumption `MaxRetries > MaxFaults + 1` says that the retry limit is above
  the number of things that go wrong.
* `FinalStaysFinal` (`FinalizedIsFinal`): a transaction that is marked final is
  deep, or it was looked up in a block that a reorg had just replaced (`stale`).
  A reorg is shallower than `FinalityDepth`, so what was deep stays deep; the
  block that the first call names has the depth of the transaction until the
  second call, or is stale (`LookupInv`, `RowInv`); the cast of a depth to fewer
  bits never makes more of it.

Both except what was looked up in a stale block (section 6): no other step leads
to a wrong mark.
Both need that mempool and chain are disjoint and that fee rates are positive
(`NodeInv`, `FeeInv`): a fee payer that the wallet funds is a fresh one.

### Operator (`OperatorProofs`)

For any number of withdrawals, rounds and connectors, in both modes, with and
without `OneByOne`, and any number of reorgs:

* `KickoffsAreAccepted` (`HonestKickoffAccepted`): every kickoff anywhere is for
  a payout in the table that all verifiers have when they see it, and commits to
  the block that the table has for it. A row of the table is of a final block
  and never changes, so the hash that the operator read is the one that the
  verifiers compare, in whichever blocks the payout was before.
* `RoundsAreSafe` (`NeverPunishable`): a ready-to-reimburse transaction is only
  sent when each connector of its round is spent in a block that no reorg takes
  back (`Settled`), and where that is by a kickoff, so is its finalizer
  (`ReadyInv`). The manual mode checks this in two steps with the chain moving
  in between; what the first step saw is settled and stays, and every kickoff
  that it may have seen has its connector assigned in the table that the second
  step reads (`KickoffInv`). A connector is spent by one transaction
  (`SpendInv`), so the settled spender is the mined one.

### State manager (`StateManagerProofs`)

For any operators, kickoffs, blocks and messages, any number of failures of
every kind, and deposits whose transactions stay open for any time:

* `MachinesStayCurrent` (`MachinesAreCurrent`), with recoveries on top of the
  machines in memory. Their copies differ: one may have seen a block of which
  the transaction was rolled back. `CurrentInv` says that every copy has seen
  what the manager's height says, or one block more, and then that block is at
  the head of the queue, where no other message overtakes it; and that every
  row has a copy that has seen the same. A copy that is ahead does not move at
  that block a second time and is saved with the others.
* `OneMachineEach` (`OneMachineUnlessOverlaid`) follows from `Core`, which holds
  until a recovery finds machines in memory (`overlaid`): between two messages
  the vectors have one machine for each row, equal but for the dirty flag, and
  a manager that starts or recovers has empty vectors.
* `KickoffsAreTracked` (`KickoffsTrackedUnlessOvertaken`). A block that was sent
  is final (`BlocksInv`), so a kickoff that the transaction of its deposit did
  not find in the chain is in a block that the manager has still to process, or
  has processed while that transaction was open (`overtaken`).
* `RoundsAreChallengedOnce` (`ChallengedOnceUnlessOverlaid`). The LCP messages
  in the queue are the ones after the last one processed, without a gap and in
  order (`LcpInv`): a kickoff that comes before the LCP of its block is checked
  with it, one that comes after it is checked at once, and in both cases the row
  of the operator's machine then has the round (`CoveredInv`). A round is in
  that row exactly when one challenge was sent for it (`ChallengesInv`).

The exceptions are necessary: TLC refutes the last three without them
(section 6).

The vectors are rebuilt by loops (`Advance`, `CheckKickoffsAt`), written as
recursive functions. What a loop makes of a vector of any length is shown by
induction on its index, in the form of `SetInduction`, which speaks of a set of
numbers in place of a predicate; `LoopExists` shows that such a function exists.

### Model-checked only

Liveness (fairness and ENABLED are beyond the prover), and the three invariants
of `HeaderChainProver`. `ProofsAreOfTheChain` and `HonestHeadersAccepted` compare
what a fold of the community modules computes over a batch of headers, with
medians by cardinality and powers of `Base`, with Bitcoin's rules;
`InclusionProofsVerify` compares two recursions over the levels of an MMR, whose
number is a bound of the model (`MaxLevel`). These are inductions over data and
nonlinear arithmetic, which the provers do not do. The type invariants of the modules with proofs are
proved, in one form or another, and therefore in no configuration.

## 6. Findings and known limits

Two runs are expected to find a violation of what comments of the code say:

* `operator_burns_assigned` (`operator.rs:2264`): without automation, the call
  that returns the next transactions for one payout burns every connector the
  node shows unspent, also one assigned to another payout whose kickoff is not
  mined yet; that payout can then not be reimbursed with it. Fronting
  withdrawals one by one avoids it (`OneByOne` in the run `operator`).
* `state_manager_lost_challenge` (`states/mod.rs:5`, `states/task.rs:190`):
  `reload_state_manager_from_db` does not empty the vectors, so after a failed
  save, commit or check a process has two machines. What they have seen stays
  right (`MachinesStayCurrent`), but the one that comes first has the round
  marked as challenged, although the transaction that queued the challenge was
  rolled back: no challenge is sent. (`OneMachinePerProcess` fails in the same
  way, as an invariant of `StateManager.cfg`.)

In four more places a comment, or what one would expect, holds only with an
exception. The passing property names the exception; TLC refutes the one without
it, which is defined beside it, when it is put into the configuration:

* Open deposit (`verifier.rs:1356`, "dispatch finalized kickoffs to state
  managers"). A kickoff that becomes final, and whose block is processed, during
  the transaction that signs its deposit again is tracked by neither side.
  `KickoffsTrackedUnlessOvertaken` excepts it; `KnownKickoffsAreTracked` in
  `StateManager.cfg` shows it.
* Stale block (`crates/clementine-tx-sender/src/confirmations.rs:138`, "Mark as
  finalized if confirmations >= finality_depth"). The confirmations of a stale
  block are -1 and are cast to an unsigned number, so a reorg between two calls
  to the node marks a transaction as final that is in no block.
  `FinalizedIsFinal` excepts it (`stale`); `FinalizedIsConfirmed` in
  `TxSender.cfg` shows it.
* Short reimbursement lock (`builder/transaction/operator_reimburse.rs:277`).
  With `operator_reimburse_timelock` of at most twice the finality depth, an
  operator can end the round and enter the next one before the challenge of its
  unpaid kickoff is final, and is reimbursed. The shipped parameters have lock
  and depth 2 and 5 (`crates/clementine-config/src/protocol.rs:211`), 12 and 6
  (testnet4), 2 and 1 (`config/protocol.rs:157`), 12 and 100 (`scripts/run.sh`);
  only the comment of the field, two days, leaves the time, and nothing in the
  code relates the two numbers. On testnet4 and mainnet challenges are sent by
  hand, which takes longer still. `NextRoundOutrunsNoChallenge` says how far the
  verifiers are protected with any lock; `ReportedUnpaidNeverReimbursed`, a
  theorem for longer locks, in `ReimbursementGame.cfg` shows the rest.
* Late kickoff (`states/context.rs:50`, "This duty is sent after a kickoff utxo
  is spent by the operator"; `states/round.rs:359`). A kickoff that is mined with
  or after ReadyToReimburse, and before the verifiers' transaction for an unspent
  kickoff output, is reported to nobody and never challenged, whatever the lock,
  and reimburses a deposit that was not paid for. `NextRoundOutrunsNoChallenge`,
  `MaliciousIsRemoved` and `ReportedUnpaidNeverReimbursed` are about the kickoffs
  that are reported; `UnpaidNeverReimbursed` with a `ReimburseLock` of 3 shows
  the others.

One comment is wrong and the code right: `database/bitcoin_syncer.rs:535` says
"Next height is the max height of the processed block - finality depth + 1",
while the query subtracts `finality_depth - 1` and adds one (548-557), which is
one more. Resuming at the documented height would hand the last block on twice;
`ResumesWhereItStopped` is about the height of the code.

The passing runs have these boundaries, each found by a counterexample when the
model was allowed to cross it:

* `fetch_new_blocks` refuses a reorg of exactly `finality_depth` blocks, since
  its list contains the block above the old tip too, where its documentation
  says greater. This is the safe side: see `FinalityHolds`.
* After a recovery on top of machines in memory a kickoff machine may be saved
  whose operator has no round machine in the table, if the message that created
  the round machine was rolled back and another failure follows; the next LCP or
  kickoff of that operator is then refused again and again. It takes two
  failures; `state_manager_live`, with one, drains. Each further failure adds
  further copies, whose number nothing bounds.
* A reloaded round machine no longer watches the finalizers of the round's
  kickoffs, so the operator may not be told to end the round:
  `QueuedExactlyWhenFinished` asks for the request only without a reload, and
  that it never comes early always.
* A reload of a challenged kickoff whose watchtower outputs are spent schedules
  the latest blockhash again; a second one is then signed with the same one-time
  key. `BlockhashAfterChallenges` says when each is requested, not that there is
  one.
* The work of a header chain proof depends on how it was batched, because an
  adjusted target is only rounded when the batch ends. It is at most Bitcoin's
  chainwork and, where blocks have equal targets, more than that of the parent
  block; on testnet4, with blocks of minimum difficulty, the second half is not
  claimed.

Some situations are outside the models altogether: a reorg of the block at
`start_height`, which is stored without a parent and then stops the syncer
(`bitcoin_syncer.rs:205`); `start_height` 0, where the height before the first
block saturates (`states/mod.rs:283`); a round whose every connector is used
without automation, which cannot be ended because there is nothing to burn
(`builder/transaction/operator_collateral.rs:389`); and a replacement deposit
between a payout and the check of its kickoff (`verifier.rs:2245`).

## 7. Plan

Modelled: syncer and fetchers, state manager, both machines, the presigned
transactions and the game over them, transaction sender, deposit signing,
operator, header chain circuit and prover. Proved: every safety invariant of
these but the header chain's. What remains, most important first:

1. the table of `HeaderChainProver` (rows and proofs are intervals of heights,
   each batch is consecutive), as the first half of `ProofsAreOfTheChain`;
2. the task registry (`task/manager.rs`), whose one hazard has no property yet.

## 8. Not modelled

Cryptography (keys, signatures, Winternitz, MuSig2 arithmetic, proofs), scripts
and the construction of transactions beyond the outputs they spend, RPC
plumbing and generated code, configuration, metrics, encryption, the BitVM
cache, the light client proof and the contracts of Citrea. A request to the node or the database that fails is a failure of the
task that makes it. The first start of a bridge with start height 0 is left out
of `StateManager`.

The map covers about an eighth of the implementation's lines. More than a
quarter of those lines is one table (`seal_format.rs`, 25 800 lines of
constants), another part is generated code (`rpc/clementine.rs`), helpers of
tests, parsers, the command line, SQL of set-up tables and error types. What is
left of the bridge's own logic outside the map is mostly: collection and
distribution of keys and operator signatures (`aggregator.rs`,
`rpc/aggregator.rs`), construction and signing of transactions
(`builder/transaction`, `builder/script.rs`, `builder/sighash.rs`), the queries
behind set-up (`database/operator.rs`, `database/verifier.rs`), Citrea's client
and the bridge circuit's checks of byte strings. They transform data without
keeping state of their own that two steps could disagree about.
