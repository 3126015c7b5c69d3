----------------------- MODULE FinalizedBlockFetcher ------------------------
(***************************************************************************)
(* The consumers of the syncer's event log.  Every FinalizedBlockFetcher   *)
(* task (the state manager's block fetcher and the LCP syncer, of the      *)
(* operator and of the verifier) reads the log from its own position and   *)
(* hands its handler each finalized block, in order.                       *)
(*                                                                         *)
(* One run is one database transaction: it moves the position, and the     *)
(* handler writes through it.  The transaction is READ COMMITTED, so each  *)
(* of its queries may see a later commit of the syncer: the queries are    *)
(* separate steps here.                                                    *)
(***************************************************************************)
EXTENDS BitcoinSyncer

CONSTANT Consumers      \* the btc_syncer_consumer_ids

VARIABLES
    lastProcessed,      \* bitcoin_syncer_event_handlers.last_processed_event_id
    nextFinalized,      \* next_finalized_height, in the task's memory
    dbtx,               \* the open transaction of each task
    handed              \* history: what handle_new_block got, once committed

fetcherVars == <<lastProcessed, nextFinalized, dbtx, handed>>
vars == <<syncerVars, faults, fetcherVars>>

(* A block as the handler gets it: the height asked for, the block whose   *)
(* row the block id names, and the full block.                             *)
Handed == [height : Nat, row : Blocks, block : Blocks]

(* The local state of a run: "none" when no transaction is open, "loop" at *)
(* the head of the while loop, "full" when get_full_block has returned.    *)
(* tip is the height of the event's block, or NoTip for a reorged_block.   *)
NoTip == -1
NoTx == [at |-> "none", tip |-> NoTip, expected |-> 0, block |-> NoBlock, out |-> << >>]

-----------------------------------------------------------------------------
(* get_max_processed_block_height *)
ProcessedHeights(c) == {Height[events[i].block] : i \in 1..lastProcessed[c]}
MaxProcessed(c) ==
    CHOOSE m \in ProcessedHeights(c) : \A h \in ProcessedHeights(c) : h <= m

(* Mutant of NextFinalizedFromDb: the last event's block, not the highest. *)
NextFinalizedFromLastEvent(c) ==
    LET last == Height[events[lastProcessed[c]].block]
    IN  IF lastProcessed[c] = 0 \/ last < FinalityDepth - 1
        THEN StartHeight
        ELSE LET next == last - (FinalityDepth - 1) + 1
             IN  IF next > StartHeight THEN next ELSE StartHeight

(* get_next_finalized_block_height_for_consumer: where a new task starts.  *)
(* checked_sub yields nothing when the chain is shorter than the depth.    *)
NextFinalizedFromDb(c) ==
    IF lastProcessed[c] = 0 \/ MaxProcessed(c) < FinalityDepth - 1
    THEN StartHeight
    ELSE LET next == MaxProcessed(c) - (FinalityDepth - 1) + 1
         IN  IF next > StartHeight THEN next ELSE StartHeight

-----------------------------------------------------------------------------
(* fetch_next_bitcoin_syncer_evt and the height of the event's block, which *)
(* may no longer be canonical.  With no event the run ends at once.         *)
FetchEvent(c) ==
    /\ dbtx[c].at = "none"
    /\ lastProcessed[c] < Len(events)
    /\ LET e == events[lastProcessed[c] + 1]
       IN  dbtx' = [dbtx EXCEPT ![c] =
              [at |-> "loop",
               tip |-> IF e.type = "new_block" THEN Height[e.block] ELSE NoTip,
               expected |-> nextFinalized[c], block |-> NoBlock, out |-> << >>]]
    /\ UNCHANGED <<syncerVars, faults, lastProcessed, nextFinalized, handed>>

(* The condition of the while loop. *)
MoreToHand(c) ==
    /\ dbtx[c].tip # NoTip
    /\ IsBlockFinalized(dbtx[c].expected, dbtx[c].tip)

(* get_full_block, by height. *)
ReadFullBlock(c) ==
    /\ dbtx[c].at = "loop"
    /\ MoreToHand(c)
    /\ dbtx[c].expected \in Heights
    /\ bitcoin_blocks[dbtx[c].expected] # NoBlock
    /\ dbtx' = [dbtx EXCEPT ![c].at = "full",
                            ![c].block = bitcoin_blocks[dbtx[c].expected]]
    /\ UNCHANGED <<syncerVars, faults, lastProcessed, nextFinalized, handed>>

(* get_canonical_block_id_from_height, then handle_new_block. *)
HandleBlock(c) ==
    /\ dbtx[c].at = "full"
    /\ \E b \in is_canonical :
          /\ Height[b] = dbtx[c].expected
          /\ dbtx' = [dbtx EXCEPT
                ![c].at = "loop",
                ![c].expected = dbtx[c].expected + 1,
                ![c].out = Append(dbtx[c].out,
                              [height |-> dbtx[c].expected, row |-> b,
                               block |-> dbtx[c].block])]
    /\ UNCHANGED <<syncerVars, faults, lastProcessed, nextFinalized, handed>>

(* Mutant of CommitRun: an event without new blocks is not acknowledged. *)
CommitRunIfNewBlock(c) ==
    /\ dbtx[c].at = "loop"
    /\ ~ MoreToHand(c)
    /\ lastProcessed' = [lastProcessed EXCEPT
          ![c] = IF dbtx[c].tip = NoTip THEN lastProcessed[c] ELSE lastProcessed[c] + 1]
    /\ nextFinalized' = [nextFinalized EXCEPT ![c] = dbtx[c].expected]
    /\ handed' = [handed EXCEPT ![c] = handed[c] \o dbtx[c].out]
    /\ dbtx' = [dbtx EXCEPT ![c] = NoTx]
    /\ UNCHANGED <<syncerVars, faults>>

(* The commit, and the update of the task's memory that follows it. *)
CommitRun(c) ==
    /\ dbtx[c].at = "loop"
    /\ ~ MoreToHand(c)
    /\ lastProcessed' = [lastProcessed EXCEPT ![c] = lastProcessed[c] + 1]
    /\ nextFinalized' = [nextFinalized EXCEPT ![c] = dbtx[c].expected]
    /\ handed' = [handed EXCEPT ![c] = handed[c] \o dbtx[c].out]
    /\ dbtx' = [dbtx EXCEPT ![c] = NoTx]
    /\ UNCHANGED <<syncerVars, faults>>

(* The two "not found" errors of the loop, which would roll back and make  *)
(* the task retry the same event for ever: see NeverMissing.               *)
MissingBlock(c) ==
    \/ /\ dbtx[c].at = "loop"
       /\ MoreToHand(c)
       /\ dbtx[c].expected \in Heights => bitcoin_blocks[dbtx[c].expected] = NoBlock
    \/ /\ dbtx[c].at = "full"
       /\ \A b \in is_canonical : Height[b] # dbtx[c].expected

(* The handler or the database fails: the transaction rolls back and the   *)
(* task retries (recover_from_error has nothing to do).                    *)
FetcherFails(c) ==
    /\ dbtx[c].at # "none"
    /\ faults < MaxFaults
    /\ faults' = faults + 1
    /\ dbtx' = [dbtx EXCEPT ![c] = NoTx]
    /\ UNCHANGED <<syncerVars, lastProcessed, nextFinalized, handed>>

(* The task is killed, or gave up after too many errors, and a new one is  *)
(* created: its memory is rebuilt from the database.                       *)
RestartFetcher(c) ==
    /\ faults < MaxFaults
    /\ faults' = faults + 1
    /\ dbtx' = [dbtx EXCEPT ![c] = NoTx]
    /\ nextFinalized' = [nextFinalized EXCEPT ![c] = NextFinalizedFromDb(c)]
    /\ UNCHANGED <<syncerVars, lastProcessed, handed>>

-----------------------------------------------------------------------------
Init ==
    /\ SyncerInit
    /\ lastProcessed = [c \in Consumers |-> 0]
    /\ nextFinalized = [c \in Consumers |-> StartHeight]
    /\ dbtx = [c \in Consumers |-> NoTx]
    /\ handed = [c \in Consumers |-> << >>]

FetcherStep(c) ==
    \/ FetchEvent(c)
    \/ ReadFullBlock(c)
    \/ HandleBlock(c)
    \/ CommitRun(c)

Next ==
    \/ SyncerNext /\ UNCHANGED fetcherVars
    \/ \E c \in Consumers : \/ FetcherStep(c)
                            \/ FetcherFails(c)
                            \/ RestartFetcher(c)

Spec == Init /\ [][Next]_vars

(* The tasks loop for ever, and a stopped syncer is started again. *)
FairSpec ==
    /\ Spec
    /\ WF_vars(SyncerStep /\ UNCHANGED fetcherVars)
    /\ \A c \in Consumers : WF_vars(FetcherStep(c))

-----------------------------------------------------------------------------
(* The type invariant of the fetchers and of the syncer below them. *)
TypeOK ==
    /\ SyncerTypeOK
    /\ lastProcessed \in [Consumers -> Nat]
    /\ nextFinalized \in [Consumers -> Nat]
    /\ dbtx \in [Consumers -> [at : {"none", "loop", "full"}, tip : Nat \cup {NoTip},
                               expected : Nat, block : Blocks \cup {NoBlock},
                               out : Seq(Handed)]]
    /\ handed \in [Consumers -> Seq(Handed)]

(* Each consumer is handed every height once and in order, the block id and *)
(* the full block it gets are of the same block although two queries read   *)
(* them, and no block it was ever handed is reorged later: whatever the     *)
(* node, the syncer and the restarts do in between.                         *)
HandedFinalizedChain ==
    \A c \in Consumers : \A i \in 1..Len(handed[c]) :
        /\ handed[c][i].height = StartHeight + i - 1
        /\ Height[handed[c][i].block] = handed[c][i].height
        /\ handed[c][i].row = handed[c][i].block
        /\ handed[c][i].block \in is_canonical

(* A restarted task resumes where the old one stopped: the height that      *)
(* get_next_finalized_block_height_for_consumer derives from the event log  *)
(* is the one in memory, and it is the first height not handed yet.  (Its   *)
(* doc comment gives a height that is one too low: the last block would be  *)
(* handed on twice.)                                                        *)
ResumesWhereItStopped ==
    \A c \in Consumers :
        /\ nextFinalized[c] = NextFinalizedFromDb(c)
        /\ nextFinalized[c] = StartHeight + Len(handed[c])

(* No run of a fetcher meets a height it should hand on but has no block or *)
(* no canonical row for: such a run would fail again on every retry.        *)
NeverMissing == \A c \in Consumers : ~ MissingBlock(c)

(* The number of heights from start_height on that are final. *)
FinalizedCount ==
    IF DbTip - FinalityDepth + 2 > StartHeight
    THEN DbTip - FinalityDepth + 2 - StartHeight ELSE 0

(* The blocks stored by height, cut at the final ones, and what each        *)
(* consumer got.                                                            *)
FinalBlocks == [i \in 1..FinalizedCount |-> bitcoin_blocks[StartHeight + i - 1]]
HandedBlocks == [c \in Consumers |-> [i \in 1..Len(handed[c]) |-> handed[c][i].block]]

Abstract == INSTANCE FinalizedChain WITH chain <- FinalBlocks, seen <- HandedBlocks

(* The syncer and its consumers implement the append-only chain: whatever   *)
(* forks, reorgs, transactions and restarts do, only Finalize and HandOn    *)
(* show.                                                                    *)
ImplementsFinalizedChain == Abstract!Spec

(* Once the node settles on a tip that extends the part of the database    *)
(* that is final, the syncer reaches the tip's height: reorgs shallower    *)
(* than finality_depth never stall it.                                     *)
SyncerCatchesUp ==
    \A t \in Blocks :
        <>[](nodeTip = t) => <>[](Extends(t) => Height[t] <= DbTip)

(* Every consumer ends up with every finalized block: no event is lost or   *)
(* blocks the log, whatever failed on the way.                              *)
EverythingHanded ==
    \A c \in Consumers :
        <>[](\A h \in Heights : h >= StartHeight /\ IsBlockFinalized(h, DbTip)
                                => h < nextFinalized[c])
=============================================================================
