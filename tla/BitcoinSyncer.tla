--------------------------- MODULE BitcoinSyncer ----------------------------
(***************************************************************************)
(* The task that copies the active chain of a Bitcoin node into the        *)
(* database and records every change in an event log (an outbox) that the  *)
(* other tasks consume, each at its own pace.                              *)
(*                                                                         *)
(* The node may switch to another branch at any moment, also between two   *)
(* requests of one run of the task.  The task may end at any moment: it    *)
(* runs without BufferedErrors, so the first error of a request or of the  *)
(* database ends it until it is started again.                             *)
(***************************************************************************)
EXTENDS BitcoinChain, Functions

CONSTANT MaxFaults      \* bound: how often tasks fail or are killed

ASSUME FaultsAssumption == MaxFaults \in Nat

VARIABLES
    nodeTip,            \* the tip of the node's active chain
    (* tables *)
    id,                 \* bitcoin_syncer.id of a block, 0 when it has no row
    is_canonical,       \* the blocks whose row says is_canonical
    bitcoin_blocks,     \* bitcoin_blocks: the full block stored for a height
    events,             \* bitcoin_syncer_events, in the order of their ids
    (* the task *)
    pc,                 \* "down", "idle" between runs, "walk" in fetch_new_blocks
    current_height,     \* the height of the last block it saved
    new_blocks,         \* the blocks fetched so far, newest first
    faults              \* failures so far

tables == <<id, is_canonical, bitcoin_blocks, events>>
task == <<pc, current_height, new_blocks>>
syncerVars == <<nodeTip, tables, task>>

NewBlock(b) == [type |-> "new_block", block |-> b]
ReorgedBlock(b) == [type |-> "reorged_block", block |-> b]
Events == [type : {"new_block", "reorged_block"}, block : Blocks]

-----------------------------------------------------------------------------
(* get_max_height: the highest canonical row. *)
IsMaxHeight(h) ==
    /\ \E b \in is_canonical : Height[b] = h
    /\ \A b \in is_canonical : Height[b] <= h

(* The rows that an UPDATE ... WHERE height > h touches. *)
RowsAbove(h) == {b \in Blocks : id[b] # 0 /\ Height[b] > h}

(* SELECT id ... ORDER BY id DESC: the one enumeration of S by falling id. *)
ByIdDescending(S) ==
    {s \in [1..Cardinality(S) -> S] :
        \A i, j \in 1..Cardinality(S) : i < j => id[s[i]] > id[s[j]]}

(* The ids that the blocks of S without a row get: a serial column, filled *)
(* in the order of their heights.                                          *)
IdsAfterInsert(S) ==
    LET used  == Cardinality({b \in Blocks : id[b] # 0})
        fresh == {b \in S : id[b] = 0}
    IN  [b \in Blocks |->
            IF b \in fresh
            THEN used + Cardinality({x \in fresh : Height[x] <= Height[b]})
            ELSE id[b]]

(* Mutant of SaveBlocks: a block that has a row is not stored again. *)
SaveBlocksNewRowsOnly(s, before) ==
    LET top    == Height[s[1]]
        bottom == top + 1 - Len(s)
    IN  /\ id' = IdsAfterInsert(Range(s))
        /\ bitcoin_blocks' =
              [h \in Heights |-> IF bottom <= h /\ h <= top /\ id[s[top + 1 - h]] = 0
                                 THEN s[top + 1 - h] ELSE bitcoin_blocks[h]]
        /\ events' = events \o before
                            \o [i \in 1..Len(s) |-> NewBlock(s[Len(s) + 1 - i])]

(* Mutant of SaveBlocks: the events of the new blocks come first. *)
SaveBlocksReorgsLast(s, before) ==
    LET top    == Height[s[1]]
        bottom == top + 1 - Len(s)
    IN  /\ id' = IdsAfterInsert(Range(s))
        /\ bitcoin_blocks' =
              [h \in Heights |-> IF bottom <= h /\ h <= top
                                 THEN s[top + 1 - h] ELSE bitcoin_blocks[h]]
        /\ events' = events \o [i \in 1..Len(s) |-> NewBlock(s[Len(s) + 1 - i])]
                            \o before

(* save_block for every block of s (newest first), oldest block first, each *)
(* followed by its new_block event, after the events in `before`.           *)
SaveBlocks(s, before) ==
    LET top    == Height[s[1]]
        bottom == top + 1 - Len(s)
    IN  /\ id' = IdsAfterInsert(Range(s))
        /\ bitcoin_blocks' =
              [h \in Heights |-> IF bottom <= h /\ h <= top
                                 THEN s[top + 1 - h] ELSE bitcoin_blocks[h]]
        /\ events' = events \o before
                            \o [i \in 1..Len(s) |-> NewBlock(s[Len(s) + 1 - i])]

-----------------------------------------------------------------------------
(* The node (external) switches to another tip: new blocks, a reorg. *)
NodeSwitch(b) ==
    /\ b # nodeTip
    /\ nodeTip' = b
    /\ UNCHANGED <<tables, task, faults>>

(* BitcoinSyncer::new on an empty database: set_initial_block_info stores  *)
(* the block at start_height.  With a node shorter than that, new returns  *)
(* an error and nothing happens.                                           *)
StartOnEmptyDb ==
    /\ pc = "down"
    /\ is_canonical = {}
    /\ \E b \in Blocks :
          /\ b \in ChainOf[nodeTip]
          /\ Height[b] = StartHeight
          /\ SaveBlocks(<<b>>, << >>)
          /\ is_canonical' = {b}
    /\ pc' = "idle"
    /\ current_height' = StartHeight
    /\ UNCHANGED <<nodeTip, new_blocks, faults>>

(* BitcoinSyncer::new on a database that has blocks. *)
StartOnSyncedDb ==
    /\ pc = "down"
    /\ \E h \in Heights : IsMaxHeight(h) /\ current_height' = h
    /\ pc' = "idle"
    /\ UNCHANGED <<nodeTip, tables, new_blocks, faults>>

(* fetch_new_blocks asks the node for the block after the last saved one. *)
(* With no such block the run ends and nothing changes.                   *)
FetchTip ==
    /\ pc = "idle"
    /\ \E b \in Blocks :
          /\ b \in ChainOf[nodeTip]
          /\ Height[b] = current_height + 1
          /\ new_blocks' = <<b>>
    /\ pc' = "walk"
    /\ UNCHANGED <<nodeTip, tables, current_height, faults>>

(* The parent that the while loop of fetch_new_blocks looks up next. *)
MissingParent == Parent[new_blocks[Len(new_blocks)]]

(* Mutant of WalkBack: the length is checked before the push. *)
WalkBackTooFar ==
    /\ pc = "walk"
    /\ MissingParent \notin is_canonical
    /\ MissingParent # NoBlock
    /\ Len(new_blocks) <= FinalityDepth
    /\ new_blocks' = Append(new_blocks, MissingParent)
    /\ UNCHANGED <<nodeTip, tables, pc, current_height, faults>>

(* One turn of the loop: the parent is not canonical here, fetch it too. *)
WalkBack ==
    /\ pc = "walk"
    /\ MissingParent \notin is_canonical
    /\ MissingParent # NoBlock
    /\ Len(new_blocks) + 1 <= FinalityDepth
    /\ new_blocks' = Append(new_blocks, MissingParent)
    /\ UNCHANGED <<nodeTip, tables, pc, current_height, faults>>

(* Mutant of WalkFails: >= instead of >. *)
WalkFailsEarly ==
    /\ pc = "walk"
    /\ MissingParent \notin is_canonical
    /\ MissingParent # NoBlock => Len(new_blocks) + 1 >= FinalityDepth
    /\ pc' = "down"
    /\ new_blocks' = << >>
    /\ UNCHANGED <<nodeTip, tables, current_height, faults>>

(* The loop fetched more blocks than finality_depth, or ran past the       *)
(* genesis block: an error, which ends the task.                           *)
WalkFails ==
    /\ pc = "walk"
    /\ MissingParent \notin is_canonical
    /\ MissingParent # NoBlock => Len(new_blocks) + 1 > FinalityDepth
    /\ pc' = "down"
    /\ new_blocks' = << >>
    /\ UNCHANGED <<nodeTip, tables, current_height, faults>>

(* Mutant of SaveNewBlocks: a block that has a row is not made canonical.  *)
SaveNewBlocksKeepsFlags ==
    /\ pc = "walk"
    /\ MissingParent \in is_canonical
    /\ LET common_ancestor_height == Height[new_blocks[Len(new_blocks)]] - 1
           above == RowsAbove(common_ancestor_height)
       IN  /\ \E r \in ByIdDescending(above) :
                 SaveBlocks(new_blocks,
                            [i \in 1..Cardinality(above) |-> ReorgedBlock(r[i])])
           /\ is_canonical' = (is_canonical \ above) \cup {b \in Range(new_blocks) : id[b] = 0}
    /\ current_height' = Height[new_blocks[1]]
    /\ pc' = "idle"
    /\ new_blocks' = << >>
    /\ UNCHANGED <<nodeTip, faults>>

(* The parent is canonical: one database transaction marks every row above *)
(* it as reorged, emits their events, saves the fetched blocks and emits   *)
(* theirs; after the commit the task advances.                             *)
SaveNewBlocks ==
    /\ pc = "walk"
    /\ MissingParent \in is_canonical
    /\ LET common_ancestor_height == Height[new_blocks[Len(new_blocks)]] - 1
           above == RowsAbove(common_ancestor_height)
       IN  /\ \E r \in ByIdDescending(above) :
                 SaveBlocks(new_blocks,
                            [i \in 1..Cardinality(above) |-> ReorgedBlock(r[i])])
           /\ is_canonical' = (is_canonical \ above) \cup Range(new_blocks)
    /\ current_height' = Height[new_blocks[1]]
    /\ pc' = "idle"
    /\ new_blocks' = << >>
    /\ UNCHANGED <<nodeTip, faults>>

(* A failed request, a failed transaction or a killed process. *)
SyncerFails ==
    /\ pc # "down"
    /\ faults < MaxFaults
    /\ faults' = faults + 1
    /\ pc' = "down"
    /\ new_blocks' = << >>
    /\ UNCHANGED <<nodeTip, tables, current_height>>

-----------------------------------------------------------------------------
SyncerInit ==
    /\ nodeTip \in Blocks
    /\ id = [b \in Blocks |-> 0]
    /\ is_canonical = {}
    /\ bitcoin_blocks = [h \in Heights |-> NoBlock]
    /\ events = << >>
    /\ pc = "down"
    /\ current_height = 0
    /\ new_blocks = << >>
    /\ faults = 0

SyncerStep ==
    \/ StartOnEmptyDb
    \/ StartOnSyncedDb
    \/ FetchTip
    \/ WalkBack
    \/ WalkFails
    \/ SaveNewBlocks

SyncerNext ==
    \/ \E b \in Blocks : NodeSwitch(b)
    \/ SyncerStep
    \/ SyncerFails

-----------------------------------------------------------------------------
(* The type invariant of the syncer and its tables. *)
SyncerTypeOK ==
    /\ nodeTip \in Blocks
    /\ id \in [Blocks -> Nat]
    /\ is_canonical \subseteq Blocks
    /\ bitcoin_blocks \in [Heights -> Blocks \cup {NoBlock}]
    /\ events \in Seq(Events)
    /\ pc \in {"down", "idle", "walk"}
    /\ current_height \in Nat
    /\ new_blocks \in Seq(Blocks)
    /\ faults \in 0..MaxFaults

(* The height of the synced chain, below start_height while there is none. *)
DbTip == IF is_canonical = {} THEN StartHeight - 1
                              ELSE CHOOSE h \in Heights : IsMaxHeight(h)

(* The canonical rows and the full blocks stored by height, two tables that *)
(* a reorg updates separately, always describe one and the same chain: one  *)
(* block per height from start_height to the tip, each the child of the one *)
(* below.                                                                   *)
OneCanonicalChain ==
    /\ \A b \in is_canonical :
          /\ id[b] # 0
          /\ StartHeight <= Height[b]
          /\ bitcoin_blocks[Height[b]] = b
    /\ \A h \in Heights :
          StartHeight <= h /\ h <= DbTip =>
             /\ bitcoin_blocks[h] \in is_canonical
             /\ Height[bitcoin_blocks[h]] = h
             /\ h > StartHeight => Parent[bitcoin_blocks[h]] = bitcoin_blocks[h - 1]

(* Replaying the event log gives the canonical rows: a block is canonical   *)
(* iff the last event about it is new_block.  The consumers that react to   *)
(* reorged_block depend on it, although a reorg announces the rows that     *)
(* were not canonical again.                                                *)
EventLogReplays ==
    \A b \in Blocks :
        b \in is_canonical <=>
            \E i \in 1..Len(events) :
                /\ events[i] = NewBlock(b)
                /\ \A j \in i + 1..Len(events) : events[j].block # b

(* A block with finality_depth confirmations in the database keeps its row, *)
(* its full block and its canonical flag for ever.                          *)
FinalizedNeverReorged ==
    [][LET tip == DbTip
       IN  \A b \in is_canonical :
              IsBlockFinalized(Height[b], tip) =>
                 /\ b \in is_canonical'
                 /\ bitcoin_blocks'[Height[b]] = b]_<<is_canonical, bitcoin_blocks>>

(* t is on a branch that agrees with the final part of the database, and   *)
(* with its first block.                                                   *)
Extends(t) ==
    /\ Height[t] >= StartHeight
    /\ \A b \in is_canonical :
          Height[b] = StartHeight \/ IsBlockFinalized(Height[b], DbTip) => b \in ChainOf[t]
=============================================================================
