-------------------- MODULE FinalizedBlockFetcherProofs ---------------------
(***************************************************************************)
(* The consumers are handed the finalized chain: for every block tree,     *)
(* every start height and finality depth, every number of consumers, and   *)
(* any number of failures.                                                 *)
(***************************************************************************)
EXTENDS FinalizedBlockFetcher, FiniteSetTheorems, SequenceTheorems, TLAPS

-----------------------------------------------------------------------------
(* The inductive invariant of the syncer, and what a step of it may do to  *)
(* the finalized blocks.                                                   *)

(* The task's height is the height of the synced chain; it only runs on a  *)
(* database that has one.                                                  *)
HeightInv ==
    /\ pc # "down" => is_canonical # {}
    /\ is_canonical # {} => IsMaxHeight(current_height) /\ StartHeight <= current_height

(* The canonical rows and the blocks stored by height are one chain. *)
ChainInv ==
    /\ \A b \in is_canonical :
          /\ id[b] # 0
          /\ StartHeight <= Height[b]
          /\ bitcoin_blocks[Height[b]] = b
    /\ is_canonical # {} =>
          \A h \in StartHeight..current_height :
             /\ h \in Heights
             /\ bitcoin_blocks[h] \in is_canonical
             /\ Height[bitcoin_blocks[h]] = h
             /\ h > StartHeight => Parent[bitcoin_blocks[h]] = bitcoin_blocks[h - 1]

(* The blocks being fetched are a branch down from the height after the tip, *)
(* no longer than finality_depth.                                            *)
WalkInv ==
    pc = "walk" =>
        /\ Len(new_blocks) \in 1..FinalityDepth
        /\ \A i \in 1..Len(new_blocks) : Height[new_blocks[i]] = current_height + 2 - i
        /\ \A i \in 1..Len(new_blocks) - 1 : Parent[new_blocks[i]] = new_blocks[i + 1]

(* No row and no event is about a block above the tip. *)
BelowTipInv ==
    /\ \A b \in Blocks : id[b] # 0 => is_canonical # {} /\ Height[b] <= current_height
    /\ \A e \in Range(events) : is_canonical # {} /\ Height[e.block] <= current_height

(* Every row was announced, and a block is announced before it is reorged. *)
EventsInv ==
    /\ \A b \in Blocks : id[b] # 0 => NewBlock(b) \in Range(events)
    /\ \A i \in 1..Len(events) :
          events[i].type = "reorged_block" =>
             \E j \in 1..i - 1 : events[j] = NewBlock(events[i].block)

SyncerInv ==
    SyncerTypeOK /\ HeightInv /\ ChainInv /\ WalkInv /\ BelowTipInv /\ EventsInv

-----------------------------------------------------------------------------
(* Heights are natural numbers; a parent is one below. *)
LEMMA HeightFacts ==
    /\ Heights \subseteq Nat
    /\ \A b \in Blocks : Height[b] \in Heights /\ Height[b] \in Nat
    /\ \A b \in Blocks : Parent[b] \in Blocks => Height[Parent[b]] = Height[b] - 1
  BY ChainAssumption DEF Heights

(* Row counts are natural numbers, so ids stay natural numbers, and after   *)
(* the insert exactly the old rows and the blocks of S have one.            *)
LEMMA IdsAfterInsertFacts ==
    ASSUME id \in [Blocks -> Nat], NEW S \in SUBSET Blocks
    PROVE  /\ IdsAfterInsert(S) \in [Blocks -> Nat]
           /\ \A b \in Blocks : IdsAfterInsert(S)[b] # 0 <=> (b \in S \/ id[b] # 0)
<1> DEFINE used == Cardinality({b \in Blocks : id[b] # 0})
           fresh == {b \in S : id[b] = 0}
           upTo(b) == {x \in fresh : Height[x] <= Height[b]}
<1>1. \A T \in SUBSET Blocks : IsFiniteSet(T) /\ Cardinality(T) \in Nat
  BY ChainAssumption, FS_Subset, FS_CardinalityType
<1>2. used \in Nat
  BY <1>1
<1>3. \A b \in fresh : Cardinality(upTo(b)) \in Nat \ {0}
  <2> SUFFICES ASSUME NEW b \in fresh PROVE Cardinality(upTo(b)) \in Nat \ {0}
    OBVIOUS
  <2>1. upTo(b) \in SUBSET Blocks /\ b \in upTo(b)
    BY HeightFacts
  <2>2. IsFiniteSet(upTo(b)) /\ Cardinality(upTo(b)) \in Nat
    BY <1>1, <2>1
  <2>3. Cardinality(upTo(b)) # 0
    BY <2>1, <2>2, FS_EmptySet
  <2> QED BY <2>2, <2>3
<1>4. IdsAfterInsert(S) = [b \in Blocks |-> IF b \in fresh THEN used + Cardinality(upTo(b)) ELSE id[b]]
  BY DEF IdsAfterInsert
<1> HIDE DEF used, upTo
<1> QED BY <1>2, <1>3, <1>4

(* The enumerations of a set of rows are sequences of its elements. *)
LEMMA ByIdDescendingFacts ==
    ASSUME NEW S \in SUBSET Blocks, NEW r \in ByIdDescending(S)
    PROVE  Cardinality(S) \in Nat /\ \A i \in 1..Cardinality(S) : r[i] \in S
<1>1. Cardinality(S) \in Nat
  BY ChainAssumption, FS_Subset, FS_CardinalityType
<1> QED BY <1>1 DEF ByIdDescending

(* Where the elements of a concatenation come from. *)
LEMMA ConcatElements ==
    ASSUME NEW S, NEW a \in Seq(S), NEW b \in Seq(S)
    PROVE  /\ Len(a) <= Len(a \o b)
           /\ \A i \in 1..Len(a) : (a \o b)[i] = a[i]
           /\ \A i \in 1..Len(a \o b) : i > Len(a) => (a \o b)[i] \in Range(b)
<1>1. Len(a \o b) = Len(a) + Len(b) /\ Len(a) \in Nat /\ Len(b) \in Nat
  BY ConcatProperties
<1>2. ASSUME NEW i \in 1..Len(a \o b), i > Len(a)
      PROVE  (a \o b)[i] \in Range(b)
  <2>1. i - Len(a) \in 1..Len(b)
    BY <1>1, <1>2
  <2>2. (a \o b)[i] = b[i - Len(a)]
    BY <1>1, <1>2, ConcatProperties
  <2> QED BY <2>1, <2>2 DEF Range
<1> QED BY <1>1, <1>2, ConcatProperties

(* What save_block does to the tables for a branch s, newest block first. *)
LEMMA SaveBlocksFacts ==
    ASSUME SyncerTypeOK,
           NEW s \in Seq(Blocks), s # << >>,
           \A i \in 1..Len(s) : Height[s[i]] = Height[s[1]] + 1 - i,
           NEW before \in Seq(Events),
           SaveBlocks(s, before)
    PROVE  /\ Range(s) \subseteq Blocks
           /\ id' \in [Blocks -> Nat]
           /\ \A b \in Blocks : id'[b] # 0 <=> (b \in Range(s) \/ id[b] # 0)
           /\ bitcoin_blocks' \in [Heights -> Blocks \cup {NoBlock}]
           /\ \A i \in 1..Len(s) : bitcoin_blocks'[Height[s[i]]] = s[i]
           /\ \A h \in Heights : h <= Height[s[1]] - Len(s) \/ h > Height[s[1]] =>
                                    bitcoin_blocks'[h] = bitcoin_blocks[h]
           /\ events' \in Seq(Events)
           /\ Range(events') = Range(events) \cup Range(before)
                                  \cup {NewBlock(b) : b \in Range(s)}
           /\ Len(events) <= Len(events')
           /\ \A i \in 1..Len(events) : events'[i] = events[i]
           /\ \A i \in 1..Len(events') : i > Len(events) =>
                 events'[i] \in Range(before) \cup {NewBlock(b) : b \in Range(s)}
<1> USE DEF SyncerTypeOK
<1>1. Range(s) \subseteq Blocks /\ Len(s) \in Nat \ {0} /\ s[1] \in Blocks
  BY RangeOfSeq
<1>2. /\ id' \in [Blocks -> Nat]
      /\ \A b \in Blocks : id'[b] # 0 <=> (b \in Range(s) \/ id[b] # 0)
  BY <1>1, IdsAfterInsertFacts DEF SaveBlocks
<1> DEFINE top == Height[s[1]]
           bottom == top + 1 - Len(s)
           news == [i \in 1..Len(s) |-> NewBlock(s[Len(s) + 1 - i])]
<1>3. top \in Nat /\ bottom \in Int
  BY <1>1, HeightFacts
<1>4. bitcoin_blocks' =
        [h \in Heights |-> IF bottom <= h /\ h <= top
                           THEN s[top + 1 - h] ELSE bitcoin_blocks[h]]
  BY DEF SaveBlocks
<1>5. \A h \in Heights : bottom <= h /\ h <= top => top + 1 - h \in 1..Len(s)
  <2> SUFFICES ASSUME NEW h \in Heights, bottom <= h, h <= top
               PROVE  top + 1 - h \in 1..Len(s)
    OBVIOUS
  <2>1. h \in Nat
    BY HeightFacts
  <2> HIDE DEF top
  <2> QED BY <1>1, <1>3, <2>1
<1>6. bitcoin_blocks' \in [Heights -> Blocks \cup {NoBlock}]
  BY <1>4, <1>5
<1>7. \A i \in 1..Len(s) : bitcoin_blocks'[Height[s[i]]] = s[i]
  <2> SUFFICES ASSUME NEW i \in 1..Len(s) PROVE bitcoin_blocks'[Height[s[i]]] = s[i]
    OBVIOUS
  <2>1. Height[s[i]] \in Heights /\ Height[s[i]] = top + 1 - i
    BY HeightFacts
  <2>2. bottom <= Height[s[i]] /\ Height[s[i]] <= top /\ top + 1 - Height[s[i]] = i
    <3> DEFINE h == Height[s[i]]
               len == Len(s)
    <3>1. h = top + 1 - i /\ bottom = top + 1 - len /\ i \in 1..len /\ len \in Nat /\ top \in Nat
      BY <1>1, <1>3, <2>1
    <3> HIDE DEF h, len, top, bottom
    <3>2. bottom <= h /\ h <= top /\ top + 1 - h = i
      BY <3>1
    <3> QED BY <3>2 DEF h
  <2> QED BY <1>4, <2>1, <2>2
<1>8. \A h \in Heights : h <= top - Len(s) \/ h > top => bitcoin_blocks'[h] = bitcoin_blocks[h]
  <2> SUFFICES ASSUME NEW h \in Heights, h <= top - Len(s) \/ h > top
               PROVE  bitcoin_blocks'[h] = bitcoin_blocks[h]
    OBVIOUS
  <2>1. ~ (bottom <= h /\ h <= top)
    BY <1>1, <1>3, HeightFacts
  <2> QED BY <1>4, <2>1
<1>9. news \in Seq(Events) /\ Range(news) = {NewBlock(b) : b \in Range(s)}
  <2>1. \A i \in 1..Len(s) : Len(s) + 1 - i \in 1..Len(s) /\ Len(s) + 1 - (Len(s) + 1 - i) = i
    BY <1>1
  <2>2. \A i \in 1..Len(s) : s[Len(s) + 1 - i] \in Blocks
    BY <2>1
  <2>3. \A i \in 1..Len(s) : NewBlock(s[Len(s) + 1 - i]) \in Events
    BY <2>2 DEF NewBlock, Events
  <2>4. news \in Seq(Events)
    BY <2>3, <1>1
  <2>5. DOMAIN news = 1..Len(s) /\ DOMAIN s = 1..Len(s)
    OBVIOUS
  <2>6. \A i \in 1..Len(s) : news[i] = NewBlock(s[Len(s) + 1 - i])
    OBVIOUS
  <2> HIDE DEF news
  <2>7. Range(news) \subseteq {NewBlock(b) : b \in Range(s)}
    <3> SUFFICES ASSUME NEW i \in 1..Len(s) PROVE news[i] \in {NewBlock(b) : b \in Range(s)}
      BY <2>5 DEF Range
    <3>1. s[Len(s) + 1 - i] \in Range(s)
      BY <2>1, <2>5 DEF Range
    <3> QED BY <2>6, <3>1
  <2>8. {NewBlock(b) : b \in Range(s)} \subseteq Range(news)
    <3> SUFFICES ASSUME NEW i \in 1..Len(s) PROVE NewBlock(s[i]) \in Range(news)
      BY <2>5 DEF Range
    <3>1. news[Len(s) + 1 - i] = NewBlock(s[i])
      BY <2>1, <2>6
    <3> QED BY <2>1, <2>5, <3>1 DEF Range
  <2> QED BY <2>4, <2>7, <2>8
<1>10. events' = (events \o before) \o news
  BY DEF SaveBlocks
<1> HIDE DEF news
<1>11. events \o before \in Seq(Events) /\ events' \in Seq(Events)
  BY <1>9, <1>10, ConcatProperties
<1>12. Range(events') = Range(events) \cup Range(before) \cup Range(news)
  <2>1. events \in Seq(Events)
    OBVIOUS
  <2>2. Range(events \o before) = Range(events) \cup Range(before)
    BY <2>1, RangeConcatenation, ZenonT(40)
  <2>3. events \o before \in Seq(Events) /\ news \in Seq(Events)
    BY <1>9, <1>11
  <2>4. \A e \in Seq(Events) : Range(e \o news) = Range(e) \cup Range(news)
    BY <2>3, RangeConcatenation, ZenonT(40)
  <2>5. Range((events \o before) \o news) = Range(events \o before) \cup Range(news)
    BY <2>3, <2>4, Zenon
  <2> QED BY <2>2, <2>5, <1>10
<1> DEFINE evs == events \o before
<1>13. /\ Len(events) <= Len(evs)
       /\ \A i \in 1..Len(events) : evs[i] = events[i]
       /\ \A i \in 1..Len(evs) : i > Len(events) => evs[i] \in Range(before)
  <2>1. events \in Seq(Events)
    OBVIOUS
  <2> QED BY <2>1, ConcatElements, Zenon
<1>14. /\ Len(evs) <= Len(events')
       /\ \A i \in 1..Len(evs) : events'[i] = evs[i]
       /\ \A i \in 1..Len(events') : i > Len(evs) => events'[i] \in Range(news)
  BY <1>9, <1>10, <1>11, ConcatElements, Zenon
<1>15. evs \in Seq(Events)
  BY <1>11
<1> HIDE DEF evs
<1>16. Len(events) \in Nat /\ Len(evs) \in Nat /\ Len(events') \in Nat
  BY <1>11, <1>15
<1>17. /\ Len(events) <= Len(events')
       /\ \A i \in 1..Len(events) : events'[i] = events[i]
       /\ \A i \in 1..Len(events') : i > Len(events) =>
             events'[i] \in Range(before) \cup Range(news)
  <2>1. \A i \in 1..Len(events) : i \in 1..Len(evs)
    BY <1>13, <1>16
  <2>2. ASSUME NEW i \in 1..Len(events'), i > Len(events)
        PROVE  events'[i] \in Range(before) \cup Range(news)
    <3>1. CASE i <= Len(evs)
      <4>1. i \in 1..Len(evs)
        BY <3>1, <1>16
      <4> QED BY <4>1, <2>2, <1>13, <1>14
    <3>2. CASE i > Len(evs)
      BY <3>2, <1>14
    <3> QED BY <3>1, <3>2, <1>16
  <2> QED BY <2>1, <2>2, <1>13, <1>14, <1>16
<1> QED BY <1>1, <1>2, <1>6, <1>7, <1>8, <1>9, <1>11, <1>12, <1>17

-----------------------------------------------------------------------------
(* The commit of a run: the invariant holds again one block higher, and the *)
(* part of the chain that was final is as before.                           *)
LEMMA SaveNewBlocksStep ==
    ASSUME SyncerInv, SaveNewBlocks
    PROVE  /\ SyncerInv'
           /\ current_height' = current_height + 1
           /\ Len(events) <= Len(events')
           /\ \A i \in 1..Len(events) : events'[i] = events[i]
           /\ \A b \in is_canonical :
                 Height[b] <= current_height - FinalityDepth + 1 =>
                    b \in is_canonical' /\ bitcoin_blocks'[Height[b]] = b
           /\ \A h \in Heights :
                 h <= current_height - FinalityDepth + 1 => bitcoin_blocks'[h] = bitcoin_blocks[h]
<1> DEFINE L == Len(new_blocks)
           T == current_height
           p == MissingParent
           ca == Height[new_blocks[L]] - 1
           above == RowsAbove(ca)
<1>0. /\ pc = "walk" /\ p \in is_canonical /\ current_height' = Height[new_blocks[1]]
      /\ pc' = "idle" /\ new_blocks' = << >> /\ nodeTip' = nodeTip /\ faults' = faults
      /\ is_canonical' = (is_canonical \ above) \cup Range(new_blocks)
  BY DEF SaveNewBlocks
<1>1. /\ new_blocks \in Seq(Blocks) /\ T \in Nat /\ StartHeight \in Nat /\ FinalityDepth \in Nat
      /\ is_canonical \subseteq Blocks /\ SyncerTypeOK
      /\ StartHeight <= T
  BY <1>0, ChainAssumption DEF SyncerInv, SyncerTypeOK, HeightInv
<1>2. /\ L \in 1..FinalityDepth
      /\ \A i \in 1..L : Height[new_blocks[i]] = T + 2 - i
      /\ \A i \in 1..L - 1 : Parent[new_blocks[i]] = new_blocks[i + 1]
  BY <1>0 DEF SyncerInv, WalkInv
<1>3. Height[new_blocks[1]] = T + 1 /\ ca = T + 1 - L /\ new_blocks # << >>
  BY <1>1, <1>2
<1>4. \A i \in 1..L : new_blocks[i] \in Blocks /\ new_blocks[i] \in Range(new_blocks)
  BY <1>1 DEF Range
<1>5. p \in Blocks /\ Height[p] = ca /\ p = Parent[new_blocks[L]]
  BY <1>0, <1>1, <1>2, <1>4, HeightFacts DEF MissingParent
<1>6. above \in SUBSET Blocks
  BY DEF RowsAbove
<1>7. PICK r \in ByIdDescending(above) :
         SaveBlocks(new_blocks, [i \in 1..Cardinality(above) |-> ReorgedBlock(r[i])])
  BY DEF SaveNewBlocks
<1> DEFINE before == [i \in 1..Cardinality(above) |-> ReorgedBlock(r[i])]
<1>8. before \in Seq(Events) /\ \A e \in Range(before) : e.block \in above /\ e.type = "reorged_block"
  <2>1. Cardinality(above) \in Nat /\ \A i \in 1..Cardinality(above) : r[i] \in above
    BY <1>6, ByIdDescendingFacts
  <2>2. \A i \in 1..Cardinality(above) : ReorgedBlock(r[i]) \in Events
    BY <2>1, <1>6 DEF ReorgedBlock, Events
  <2> HIDE DEF above
  <2>3. before \in Seq(Events) /\ DOMAIN before = 1..Cardinality(above)
    BY <2>1, <2>2
  <2> QED BY <2>1, <2>3 DEF Range, ReorgedBlock
<1>9. \A i \in 1..Len(new_blocks) : Height[new_blocks[i]] = Height[new_blocks[1]] + 1 - i
  BY <1>1, <1>2, <1>3
<1> HIDE DEF before, above, ca, p
<1>10. /\ Range(new_blocks) \subseteq Blocks
       /\ id' \in [Blocks -> Nat]
       /\ \A b \in Blocks : id'[b] # 0 <=> (b \in Range(new_blocks) \/ id[b] # 0)
       /\ bitcoin_blocks' \in [Heights -> Blocks \cup {NoBlock}]
       /\ \A i \in 1..Len(new_blocks) : bitcoin_blocks'[Height[new_blocks[i]]] = new_blocks[i]
       /\ \A h \in Heights : h <= Height[new_blocks[1]] - Len(new_blocks) \/ h > Height[new_blocks[1]] =>
                                bitcoin_blocks'[h] = bitcoin_blocks[h]
       /\ events' \in Seq(Events)
       /\ Range(events') = Range(events) \cup Range(before)
                              \cup {NewBlock(b) : b \in Range(new_blocks)}
       /\ Len(events) <= Len(events')
       /\ \A i \in 1..Len(events) : events'[i] = events[i]
       /\ \A i \in 1..Len(events') : i > Len(events) =>
             events'[i] \in Range(before) \cup {NewBlock(b) : b \in Range(new_blocks)}
  BY <1>1, <1>3, <1>7, <1>8, <1>9, SaveBlocksFacts DEF before
<1>11. \A h \in Heights : h <= ca => bitcoin_blocks'[h] = bitcoin_blocks[h]
  BY <1>1, <1>2, <1>3, <1>10
<1>12. \A b \in is_canonical :
          /\ b \in Blocks /\ id[b] # 0 /\ StartHeight <= Height[b] /\ bitcoin_blocks[Height[b]] = b
          /\ Height[b] \in Nat /\ Height[b] \in Heights /\ Height[b] <= T
  BY <1>1, HeightFacts DEF SyncerInv, ChainInv, HeightInv, IsMaxHeight
<1>13. \A b \in is_canonical : b \in above <=> Height[b] > ca
  BY <1>12 DEF above, RowsAbove
<1>14. \A b \in is_canonical : Height[b] <= ca => b \in is_canonical'
  BY <1>0, <1>1, <1>2, <1>3, <1>12, <1>13
<1>15. \A b \in is_canonical' : \/ b \in is_canonical /\ Height[b] <= ca
                               \/ \E i \in 1..L : b = new_blocks[i]
  <2>1. \A b \in Range(new_blocks) : \E i \in 1..L : b = new_blocks[i]
    BY <1>1 DEF Range
  <2> QED BY <2>1, <1>0, <1>1, <1>2, <1>3, <1>12, <1>13
<1>16. StartHeight <= ca /\ ca <= T /\ ca \in Nat /\ p = bitcoin_blocks[ca] /\ ca \in Heights
  BY <1>0, <1>1, <1>2, <1>3, <1>5, <1>12
<1>17. current_height' = T + 1
  BY <1>0, <1>3
<1>18. SyncerTypeOK'
  <2>1. is_canonical' \subseteq Blocks
    BY <1>0, <1>1, <1>10
  <2> QED BY <1>0, <1>1, <1>10, <1>17, <2>1 DEF SyncerTypeOK
<1>19. \A b \in is_canonical' : /\ id'[b] # 0 /\ StartHeight <= Height[b] /\ Height[b] <= T + 1
                               /\ bitcoin_blocks'[Height[b]] = b
  <2> SUFFICES ASSUME NEW b \in is_canonical'
               PROVE  /\ id'[b] # 0 /\ StartHeight <= Height[b] /\ Height[b] <= T + 1
                      /\ bitcoin_blocks'[Height[b]] = b
    OBVIOUS
  <2>1. CASE b \in is_canonical /\ Height[b] <= ca
    BY <2>1, <1>1, <1>10, <1>11, <1>12
  <2>2. CASE \E i \in 1..L : b = new_blocks[i]
    <3>1. PICK i \in 1..L : b = new_blocks[i]
      BY <2>2
    <3>2. Height[b] = T + 2 - i /\ b \in Blocks /\ b \in Range(new_blocks)
      BY <3>1, <1>2, <1>4
    <3>3. StartHeight <= Height[b] /\ Height[b] <= T + 1
      BY <3>2, <1>1, <1>2, <1>3, <1>16
    <3> QED BY <3>1, <3>2, <3>3, <1>10
  <2> QED BY <2>1, <2>2, <1>15
<1>20. HeightInv'
  <2>1. new_blocks[1] \in is_canonical'
    BY <1>0, <1>2, <1>4
  <2>2. IsMaxHeight(current_height)'
    BY <2>1, <1>3, <1>17, <1>19 DEF IsMaxHeight
  <2> QED BY <2>1, <2>2, <1>1, <1>17 DEF HeightInv
<1>21. ASSUME NEW h \in StartHeight..T + 1
       PROVE  /\ h \in Heights
              /\ bitcoin_blocks'[h] \in is_canonical'
              /\ Height[bitcoin_blocks'[h]] = h
              /\ h > StartHeight => Parent[bitcoin_blocks'[h]] = bitcoin_blocks'[h - 1]
  <2>0. h \in Nat /\ T \in Nat /\ StartHeight <= h
    BY <1>1, <1>21
  <2>a. \A k \in StartHeight..T : /\ k \in Heights
                                  /\ bitcoin_blocks[k] \in is_canonical
                                  /\ Height[bitcoin_blocks[k]] = k
                                  /\ k > StartHeight => Parent[bitcoin_blocks[k]] = bitcoin_blocks[k - 1]
    BY <1>0 DEF SyncerInv, ChainInv
  <2>1. CASE h <= ca
    <3>1. h \in StartHeight..T
      BY <2>0, <2>1, <1>1, <1>16
    <3>2. h \in Heights /\ bitcoin_blocks'[h] = bitcoin_blocks[h]
      BY <3>1, <2>a, <2>1, <1>11
    <3>3. h > StartHeight => h - 1 \in StartHeight..T /\ h - 1 <= ca
      BY <3>1, <2>1, <1>1, <1>16
    <3>4. h > StartHeight => bitcoin_blocks'[h - 1] = bitcoin_blocks[h - 1]
      BY <3>3, <2>a, <1>11
    <3> QED BY <3>1, <3>2, <3>4, <2>a, <2>1, <1>14
  <2>2. CASE h > ca
    <3> DEFINE i == T + 2 - h
    <3>1. i \in 1..L /\ T + 2 - i = h
      BY <2>0, <2>2, <1>1, <1>2, <1>3, <1>21
    <3> HIDE DEF i
    <3>2. Height[new_blocks[i]] = h /\ new_blocks[i] \in Blocks /\ new_blocks[i] \in is_canonical'
      BY <3>1, <1>0, <1>2, <1>4
    <3>3. h \in Heights /\ bitcoin_blocks'[h] = new_blocks[i]
      BY <3>1, <3>2, <1>10, HeightFacts
    <3>4. Parent[new_blocks[i]] = bitcoin_blocks'[h - 1]
      <4>1. CASE i = L
        <5>1. h - 1 = ca
          BY <4>1, <3>1, <2>0, <1>1, <1>2, <1>3
        <5> QED BY <4>1, <5>1, <1>5, <1>11, <1>16
      <4>2. CASE i # L
        <5>1. i \in 1..L - 1 /\ i + 1 \in 1..L /\ T + 2 - (i + 1) = h - 1
          BY <4>2, <3>1, <2>0, <1>1, <1>2
        <5>2. Parent[new_blocks[i]] = new_blocks[i + 1] /\ Height[new_blocks[i + 1]] = h - 1
          BY <5>1, <1>2
        <5> QED BY <5>1, <5>2, <1>10
      <4> QED BY <4>1, <4>2
    <3> QED BY <3>2, <3>3, <3>4
  <2> QED BY <2>0, <2>1, <2>2, <1>16
<1>22. ChainInv'
  BY <1>17, <1>19, <1>21 DEF ChainInv
<1>23. WalkInv'
  BY <1>0 DEF WalkInv
<1>24. BelowTipInv'
  <2>1. new_blocks[1] \in is_canonical'
    BY <1>0, <1>2, <1>4
  <2>2. \A b \in Range(new_blocks) : b \in is_canonical' /\ Height[b] <= T + 1
    BY <1>0, <1>19
  <2>3. \A b \in Blocks : id[b] # 0 => Height[b] <= T + 1
    BY <1>1, HeightFacts DEF SyncerInv, BelowTipInv
  <2>4. \A b \in Blocks : id'[b] # 0 => Height[b] <= T + 1
    BY <2>2, <2>3, <1>10
  <2>5. \A e \in Range(events) : e \in Events /\ Height[e.block] <= T
    BY RangeOfSeq, <1>1 DEF SyncerInv, BelowTipInv, SyncerTypeOK
  <2>6. \A e \in Range(events) : Height[e.block] <= T + 1
    BY <2>5, <1>1, HeightFacts DEF Events
  <2>7. \A e \in Range(before) : Height[e.block] <= T + 1
    BY <2>3, <1>8 DEF above, RowsAbove
  <2>8. \A e \in {NewBlock(b) : b \in Range(new_blocks)} : Height[e.block] <= T + 1
    BY <2>2 DEF NewBlock
  <2>9. \A e \in Range(events') : Height[e.block] <= T + 1
    BY <2>6, <2>7, <2>8, <1>10
  <2> QED BY <2>1, <2>4, <2>9, <1>17 DEF BelowTipInv
<1>25. \A b \in is_canonical :
          Height[b] <= T - FinalityDepth + 1 => b \in is_canonical' /\ bitcoin_blocks'[Height[b]] = b
  <2>1. T - FinalityDepth + 1 <= ca
    BY <1>1, <1>2, <1>3
  <2>2. \A b \in is_canonical : Height[b] <= T - FinalityDepth + 1 => Height[b] <= ca
    BY <2>1, <1>1, <1>12, <1>16
  <2> QED BY <2>2, <1>11, <1>12, <1>14
<1>26. \A h \in Heights : h <= T - FinalityDepth + 1 => bitcoin_blocks'[h] = bitcoin_blocks[h]
  <2> SUFFICES ASSUME NEW h \in Heights, h <= T - FinalityDepth + 1
               PROVE  bitcoin_blocks'[h] = bitcoin_blocks[h]
    OBVIOUS
  <2>1. h \in Nat
    BY HeightFacts
  <2>2. h <= ca
    BY <2>1, <1>1, <1>2, <1>3, <1>16
  <2> QED BY <2>2, <1>11
<1>27. EventsInv'
  <2>1. \A b \in Blocks : id'[b] # 0 => NewBlock(b) \in Range(events')
    BY <1>10 DEF SyncerInv, EventsInv
  <2>2. ASSUME NEW i \in 1..Len(events'), events'[i].type = "reorged_block"
        PROVE  \E j \in 1..i - 1 : events'[j] = NewBlock(events'[i].block)
    <3>0. events \in Seq(Events) /\ Len(events) \in Nat /\ Len(events') \in Nat
      BY <1>1, <1>10 DEF SyncerTypeOK
    <3>1. CASE i <= Len(events)
      <4>1. i \in 1..Len(events) /\ events'[i] = events[i]
        BY <3>0, <3>1, <1>10
      <4>2. PICK j \in 1..i - 1 : events[j] = NewBlock(events[i].block)
        BY <4>1, <2>2 DEF SyncerInv, EventsInv
      <4>3. j \in 1..Len(events)
        BY <3>0, <3>1
      <4> QED BY <4>1, <4>2, <4>3, <1>10
    <3>2. CASE i > Len(events)
      <4>1. events'[i] \in Range(before)
        <5>1. \A b \in Range(new_blocks) : NewBlock(b).type # "reorged_block"
          BY DEF NewBlock
        <5>2. events'[i] \in Range(before) \cup {NewBlock(b) : b \in Range(new_blocks)}
          BY <3>2, <1>10
        <5> QED BY <5>1, <5>2, <2>2
      <4>2. events'[i].block \in Blocks /\ id[events'[i].block] # 0
        BY <4>1, <1>8 DEF above, RowsAbove
      <4>3. NewBlock(events'[i].block) \in Range(events)
        BY <4>2 DEF SyncerInv, EventsInv
      <4>4. PICK j \in 1..Len(events) : events[j] = NewBlock(events'[i].block)
        BY <4>3, <3>0 DEF Range
      <4>5. j \in 1..i - 1
        BY <3>0, <3>2
      <4> QED BY <4>4, <4>5, <1>10
    <3> QED BY <3>0, <3>1, <3>2
  <2> QED BY <2>1, <2>2 DEF EventsInv
<1> QED BY <1>10, <1>17, <1>18, <1>20, <1>22, <1>23, <1>24, <1>25, <1>26, <1>27 DEF SyncerInv

(* The first block of an empty database. *)
LEMMA StartOnEmptyDbStep ==
    ASSUME SyncerInv, StartOnEmptyDb
    PROVE  /\ SyncerInv'
           /\ Len(events) <= Len(events')
           /\ \A i \in 1..Len(events) : events'[i] = events[i]
<1>1. PICK b \in Blocks :
         Height[b] = StartHeight /\ SaveBlocks(<<b>>, << >>) /\ is_canonical' = {b}
  BY DEF StartOnEmptyDb
<1>2. /\ is_canonical = {} /\ pc' = "idle" /\ current_height' = StartHeight
      /\ nodeTip' = nodeTip /\ new_blocks' = new_blocks /\ faults' = faults
  BY DEF StartOnEmptyDb
<1>3. SyncerTypeOK /\ StartHeight \in Nat
  BY ChainAssumption DEF SyncerInv
<1>4. /\ <<b>> \in Seq(Blocks) /\ <<b>> # << >> /\ Len(<<b>>) = 1 /\ <<b>>[1] = b
      /\ << >> \in Seq(Events) /\ Range(<< >>) = {} /\ Range(<<b>>) = {b}
  BY DEF Range
<1>5. \A i \in 1..Len(<<b>>) : Height[<<b>>[i]] = Height[<<b>>[1]] + 1 - i
  BY <1>1, <1>3, <1>4
<1>6. /\ id' \in [Blocks -> Nat]
      /\ \A x \in Blocks : id'[x] # 0 <=> (x = b \/ id[x] # 0)
      /\ bitcoin_blocks' \in [Heights -> Blocks \cup {NoBlock}]
      /\ bitcoin_blocks'[StartHeight] = b
      /\ events' \in Seq(Events)
      /\ Range(events') = Range(events) \cup {NewBlock(b)}
      /\ Len(events) <= Len(events')
      /\ \A i \in 1..Len(events) : events'[i] = events[i]
      /\ \A i \in 1..Len(events') : i > Len(events) => events'[i] = NewBlock(b)
  <2> HIDE DEF NewBlock
  <2>1. /\ id' \in [Blocks -> Nat]
        /\ \A x \in Blocks : id'[x] # 0 <=> (x \in Range(<<b>>) \/ id[x] # 0)
        /\ bitcoin_blocks' \in [Heights -> Blocks \cup {NoBlock}]
        /\ \A i \in 1..Len(<<b>>) : bitcoin_blocks'[Height[<<b>>[i]]] = <<b>>[i]
        /\ events' \in Seq(Events)
        /\ Range(events') = Range(events) \cup Range(<< >>) \cup {NewBlock(x) : x \in Range(<<b>>)}
        /\ Len(events) <= Len(events')
        /\ \A i \in 1..Len(events) : events'[i] = events[i]
        /\ \A i \in 1..Len(events') : i > Len(events) =>
              events'[i] \in Range(<< >>) \cup {NewBlock(x) : x \in Range(<<b>>)}
    BY <1>1, <1>3, <1>4, <1>5, SaveBlocksFacts
  <2> QED BY <2>1, <1>1, <1>4
<1>7. \A x \in Blocks : id[x] = 0
  BY <1>2, <1>3 DEF SyncerInv, BelowTipInv, SyncerTypeOK
<1>8. Range(events) = {}
  BY <1>2 DEF SyncerInv, BelowTipInv
<1>9. SyncerTypeOK'
  BY <1>1, <1>2, <1>3, <1>6 DEF SyncerTypeOK
<1>10. HeightInv'
  BY <1>1, <1>2, <1>3 DEF HeightInv, IsMaxHeight
<1>11. ChainInv'
  BY <1>1, <1>2, <1>3, <1>6, HeightFacts DEF ChainInv
<1>12. WalkInv'
  BY <1>2 DEF WalkInv
<1>13. BelowTipInv'
  BY <1>1, <1>2, <1>3, <1>6, <1>7, <1>8 DEF BelowTipInv, NewBlock
<1>14. EventsInv'
  <2>0. events \in Seq(Events) /\ Len(events) = 0 /\ Len(events') \in Nat
    <3>1. events \in Seq(Events) /\ Len(events') \in Nat
      BY <1>3, <1>6 DEF SyncerTypeOK
    <3>2. DOMAIN events = {}
      BY <1>8 DEF Range
    <3> QED BY <3>1, <3>2
  <2>1. \A i \in 1..Len(events') : events'[i].type # "reorged_block"
    BY <2>0, <1>6 DEF NewBlock
  <2> QED BY <2>1, <1>6, <1>7 DEF EventsInv
<1> QED BY <1>6, <1>9, <1>10, <1>11, <1>12, <1>13, <1>14 DEF SyncerInv

(* One turn of the walk down the branch. *)
LEMMA WalkBackStep ==
    ASSUME SyncerInv, WalkBack
    PROVE  SyncerInv'
<1> DEFINE L == Len(new_blocks)
           p == MissingParent
<1>1. /\ pc = "walk" /\ p # NoBlock /\ L + 1 <= FinalityDepth
      /\ new_blocks' = Append(new_blocks, p)
      /\ UNCHANGED <<nodeTip, tables, pc, current_height, faults>>
  BY DEF WalkBack
<1>2. /\ new_blocks \in Seq(Blocks) /\ current_height \in Nat /\ FinalityDepth \in Nat
      /\ L \in 1..FinalityDepth
      /\ \A i \in 1..L : Height[new_blocks[i]] = current_height + 2 - i
      /\ \A i \in 1..L - 1 : Parent[new_blocks[i]] = new_blocks[i + 1]
  BY <1>1, ChainAssumption DEF SyncerInv, SyncerTypeOK, WalkInv
<1>3. p = Parent[new_blocks[L]] /\ p \in Blocks /\ Height[p] = current_height + 2 - (L + 1)
  <2>1. new_blocks[L] \in Blocks /\ Height[new_blocks[L]] = current_height + 2 - L
    BY <1>2
  <2>2. p = Parent[new_blocks[L]] /\ p \in Blocks
    BY <2>1, <1>1, ChainAssumption DEF MissingParent
  <2> QED BY <2>1, <2>2, <1>2, HeightFacts
<1> HIDE DEF p
<1>4. /\ new_blocks' \in Seq(Blocks) /\ Len(new_blocks') = L + 1 /\ new_blocks'[L + 1] = p
      /\ \A i \in 1..L : new_blocks'[i] = new_blocks[i]
  BY <1>1, <1>2, <1>3
<1>5. SyncerTypeOK'
  BY <1>1, <1>4 DEF SyncerInv, SyncerTypeOK, tables
<1>6. WalkInv'
  <2>1. Len(new_blocks') \in 1..FinalityDepth
    BY <1>1, <1>2, <1>4
  <2>2. \A i \in 1..Len(new_blocks') : Height[new_blocks'[i]] = current_height + 2 - i
    <3> SUFFICES ASSUME NEW i \in 1..L + 1 PROVE Height[new_blocks'[i]] = current_height + 2 - i
      BY <1>4
    <3>1. CASE i = L + 1
      BY <3>1, <1>3, <1>4
    <3>2. CASE i # L + 1
      <4>1. i \in 1..L
        BY <3>2, <1>2
      <4> QED BY <4>1, <1>2, <1>4
    <3> QED BY <3>1, <3>2
  <2>3. \A i \in 1..Len(new_blocks') - 1 : Parent[new_blocks'[i]] = new_blocks'[i + 1]
    <3> SUFFICES ASSUME NEW i \in 1..L PROVE Parent[new_blocks'[i]] = new_blocks'[i + 1]
      BY <1>2, <1>4
    <3>1. CASE i = L
      BY <3>1, <1>3, <1>4
    <3>2. CASE i # L
      <4>1. i \in 1..L - 1 /\ i + 1 \in 1..L
        BY <3>2, <1>2
      <4> QED BY <4>1, <1>2, <1>4
    <3> QED BY <3>1, <3>2
  <2> QED BY <2>1, <2>2, <2>3, <1>1 DEF WalkInv
<1>7. HeightInv' /\ ChainInv' /\ BelowTipInv' /\ EventsInv'
  BY <1>1 DEF SyncerInv, HeightInv, IsMaxHeight, ChainInv, BelowTipInv, EventsInv, tables
<1> QED BY <1>5, <1>6, <1>7 DEF SyncerInv

(* A new task on a synced database finds the height the old one had. *)
LEMMA StartOnSyncedDbStep ==
    ASSUME SyncerInv, StartOnSyncedDb
    PROVE  SyncerInv' /\ current_height' = current_height
<1>1. PICK h \in Heights : IsMaxHeight(h) /\ current_height' = h
  BY DEF StartOnSyncedDb
<1>2. /\ pc' = "idle" /\ nodeTip' = nodeTip /\ UNCHANGED tables
      /\ new_blocks' = new_blocks /\ faults' = faults
  BY DEF StartOnSyncedDb
<1>3. is_canonical # {}
  BY <1>1 DEF IsMaxHeight
<1>4. IsMaxHeight(current_height) /\ current_height \in Nat /\ h \in Nat
  BY <1>3, HeightFacts DEF SyncerInv, HeightInv, SyncerTypeOK
<1>5. h = current_height
  BY <1>1, <1>4 DEF IsMaxHeight
<1>6. current_height' = current_height
  BY <1>1, <1>5
<1> QED BY <1>2, <1>3, <1>6
        DEF SyncerInv, SyncerTypeOK, HeightInv, IsMaxHeight, ChainInv, WalkInv, BelowTipInv, EventsInv, tables

(* The other steps of the task and of the node leave the tables alone. *)
LEMMA FetchTipStep ==
    ASSUME SyncerInv, FetchTip
    PROVE  SyncerInv'
<1>1. PICK b \in Blocks : Height[b] = current_height + 1 /\ new_blocks' = <<b>>
  BY DEF FetchTip
<1>2. pc = "idle" /\ pc' = "walk" /\ UNCHANGED <<nodeTip, tables, current_height, faults>>
  BY DEF FetchTip
<1>3. SyncerTypeOK'
  BY <1>1, <1>2 DEF SyncerInv, SyncerTypeOK, tables
<1>4. WalkInv'
  <2>1. Len(new_blocks') = 1 /\ new_blocks'[1] = b
    BY <1>1
  <2>2. 1 \in 1..FinalityDepth /\ current_height \in Nat
    BY ChainAssumption DEF SyncerInv, SyncerTypeOK
  <2> QED BY <2>1, <2>2, <1>1, <1>2 DEF WalkInv
<1>5. HeightInv' /\ ChainInv' /\ BelowTipInv' /\ EventsInv'
  BY <1>2 DEF SyncerInv, HeightInv, IsMaxHeight, ChainInv, BelowTipInv, EventsInv, tables
<1> QED BY <1>3, <1>4, <1>5 DEF SyncerInv

LEMMA OtherSyncerSteps ==
    ASSUME SyncerInv,
           UNCHANGED <<tables, current_height>>,
           \/ \E b \in Blocks : NodeSwitch(b)
           \/ WalkFails
           \/ SyncerFails
    PROVE  SyncerInv'
<1>1. CASE \E b \in Blocks : NodeSwitch(b)
  BY <1>1 DEF NodeSwitch, SyncerInv, SyncerTypeOK, HeightInv, IsMaxHeight, ChainInv, WalkInv,
              BelowTipInv, EventsInv, tables, task
<1>2. CASE WalkFails
  BY <1>2 DEF WalkFails, SyncerInv, SyncerTypeOK, HeightInv, IsMaxHeight, ChainInv, WalkInv,
              BelowTipInv, EventsInv, tables
<1>3. CASE SyncerFails
  BY <1>3, FaultsAssumption
     DEF SyncerFails, SyncerInv, SyncerTypeOK, HeightInv, IsMaxHeight, ChainInv, WalkInv,
         BelowTipInv, EventsInv, tables
<1> QED BY <1>1, <1>2, <1>3

(* The initial state satisfies the invariant. *)
LEMMA SyncerInitInv == SyncerInit => SyncerInv
<1> SUFFICES ASSUME SyncerInit PROVE SyncerInv
  OBVIOUS
<1>1. Range(events) = {} /\ events \in Seq(Events)
  BY DEF SyncerInit, Range
<1> QED BY <1>1, FaultsAssumption
        DEF SyncerInit, SyncerInv, SyncerTypeOK, HeightInv, ChainInv, WalkInv, BelowTipInv, EventsInv

(* Every step of the node or the syncer keeps the invariant and the final  *)
(* part of the chain; the synced height never falls.                       *)
LEMMA SyncerNextInv ==
    ASSUME SyncerInv, SyncerNext
    PROVE  /\ SyncerInv'
           /\ is_canonical # {} => is_canonical' # {} /\ current_height <= current_height'
           /\ Len(events) <= Len(events')
           /\ \A i \in 1..Len(events) : events'[i] = events[i]
           /\ \A b \in is_canonical :
                 Height[b] <= current_height - FinalityDepth + 1 =>
                    b \in is_canonical' /\ bitcoin_blocks'[Height[b]] = b
<1>1. /\ \A b \in is_canonical : bitcoin_blocks[Height[b]] = b
      /\ current_height \in Nat /\ Len(events) \in Nat
  BY DEF SyncerInv, ChainInv, SyncerTypeOK
<1>2. CASE SaveNewBlocks
  <2>1. is_canonical' # {}
    BY <1>2, SaveNewBlocksStep DEF SyncerInv, HeightInv, SaveNewBlocks
  <2> QED BY <2>1, <1>1, <1>2, SaveNewBlocksStep
<1>3. CASE StartOnEmptyDb
  BY <1>3, StartOnEmptyDbStep DEF StartOnEmptyDb
<1>4. CASE StartOnSyncedDb
  BY <1>1, <1>4, StartOnSyncedDbStep DEF StartOnSyncedDb, tables
<1>5. CASE FetchTip
  BY <1>1, <1>5, FetchTipStep DEF FetchTip, tables
<1>6. CASE WalkBack
  BY <1>1, <1>6, WalkBackStep DEF WalkBack, tables
<1>7. CASE (\E b \in Blocks : NodeSwitch(b)) \/ WalkFails \/ SyncerFails
  <2>1. UNCHANGED <<tables, current_height>>
    BY <1>7 DEF NodeSwitch, WalkFails, SyncerFails, task
  <2> QED BY <1>1, <1>7, <2>1, OtherSyncerSteps DEF tables
<1> QED BY <1>2, <1>3, <1>4, <1>5, <1>6, <1>7 DEF SyncerNext, SyncerStep
-----------------------------------------------------------------------------
(* The last event of the log ev about b says that b is a new block. *)
LastIsNew(ev, b) ==
    \E i \in 1..Len(ev) : ev[i] = NewBlock(b) /\ \A j \in i + 1..Len(ev) : ev[j].block # b

(* Events about other blocks do not matter. *)
LEMMA LastIsNewOthers ==
    ASSUME NEW ev \in Seq(Events), NEW b \in Blocks, NEW more \in Seq(Events),
           \A j \in 1..Len(more) : more[j].block # b
    PROVE  LastIsNew(ev \o more, b) <=> LastIsNew(ev, b)
<1> DEFINE all == ev \o more
           n == Len(ev)
           m == Len(more)
<1>1. /\ n \in Nat /\ m \in Nat /\ Len(all) = n + m
      /\ \A i \in 1..n : all[i] = ev[i]
      /\ \A i \in 1..n + m : i > n => all[i] = more[i - n]
  BY ConcatProperties
<1> HIDE DEF all, n, m
<1>2. \A i \in 1..n + m : i > n => all[i].block # b
  <2> SUFFICES ASSUME NEW i \in 1..n + m, i > n PROVE all[i].block # b
    OBVIOUS
  <2>1. i - n \in 1..m
    BY <1>1
  <2> QED BY <1>1, <2>1 DEF m
<1>3. ASSUME LastIsNew(ev, b) PROVE LastIsNew(all, b)
  <2>1. PICK i \in 1..n : ev[i] = NewBlock(b) /\ \A j \in i + 1..n : ev[j].block # b
    BY <1>3 DEF LastIsNew, n
  <2>2. i \in 1..n + m /\ all[i] = NewBlock(b)
    BY <1>1, <2>1
  <2>3. \A j \in i + 1..n + m : all[j].block # b
    <3> SUFFICES ASSUME NEW j \in i + 1..n + m PROVE all[j].block # b
      OBVIOUS
    <3>1. CASE j <= n
      <4>1. j \in i + 1..n /\ j \in 1..n
        BY <3>1, <1>1
      <4> QED BY <4>1, <1>1, <2>1
    <3>2. CASE j > n
      <4>1. j \in 1..n + m
        BY <3>2, <1>1
      <4> QED BY <4>1, <3>2, <1>2
    <3> QED BY <3>1, <3>2, <1>1
  <2> QED BY <1>1, <2>2, <2>3 DEF LastIsNew
<1>4. ASSUME LastIsNew(all, b) PROVE LastIsNew(ev, b)
  <2>1. PICK i \in 1..n + m : all[i] = NewBlock(b) /\ \A j \in i + 1..n + m : all[j].block # b
    BY <1>1, <1>4 DEF LastIsNew
  <2>2. i <= n
    BY <1>1, <1>2, <2>1 DEF NewBlock
  <2>3. i \in 1..n /\ ev[i] = NewBlock(b)
    BY <1>1, <2>1, <2>2
  <2>4. \A j \in i + 1..n : ev[j].block # b
    <3> SUFFICES ASSUME NEW j \in i + 1..n PROVE ev[j].block # b
      OBVIOUS
    <3>1. j \in i + 1..n + m /\ j \in 1..n
      BY <1>1, <2>3
    <3> QED BY <3>1, <1>1, <2>1
  <2> QED BY <2>3, <2>4 DEF LastIsNew, n
<1> QED BY <1>3, <1>4 DEF all

(* The new events decide when they are about b. *)
LEMMA LastIsNewDecided ==
    ASSUME NEW ev \in Seq(Events), NEW b \in Blocks, NEW more \in Seq(Events)
    PROVE  /\ LastIsNew(more, b) => LastIsNew(ev \o more, b)
           /\ (/\ \E j \in 1..Len(more) : more[j].block = b
               /\ \A j \in 1..Len(more) : more[j] # NewBlock(b)) => ~ LastIsNew(ev \o more, b)
<1> DEFINE all == ev \o more
           n == Len(ev)
           m == Len(more)
<1>1. /\ n \in Nat /\ m \in Nat /\ Len(all) = n + m
      /\ \A i \in 1..n : all[i] = ev[i]
      /\ \A i \in 1..n + m : i > n => all[i] = more[i - n]
  BY ConcatProperties
<1> HIDE DEF all, n, m
<1>2. ASSUME LastIsNew(more, b) PROVE LastIsNew(all, b)
  <2>1. PICK i \in 1..m : more[i] = NewBlock(b) /\ \A j \in i + 1..m : more[j].block # b
    BY <1>2 DEF LastIsNew, m
  <2>2. n + i \in 1..n + m /\ n + i > n /\ (n + i) - n = i
    BY <1>1
  <2>3. all[n + i] = NewBlock(b)
    BY <1>1, <2>1, <2>2
  <2>4. \A j \in n + i + 1..n + m : all[j].block # b
    <3> SUFFICES ASSUME NEW j \in n + i + 1..n + m PROVE all[j].block # b
      OBVIOUS
    <3>1. j - n \in i + 1..m /\ j \in 1..n + m /\ j > n
      BY <1>1
    <3>2. all[j] = more[j - n]
      BY <3>1, <1>1
    <3> QED BY <3>1, <3>2, <2>1
  <2> QED BY <1>1, <2>2, <2>3, <2>4 DEF LastIsNew
<1>3. ASSUME NEW k \in 1..m, more[k].block = b, \A j \in 1..m : more[j] # NewBlock(b),
             LastIsNew(all, b)
      PROVE  FALSE
  <2>1. PICK i \in 1..n + m : all[i] = NewBlock(b) /\ \A j \in i + 1..n + m : all[j].block # b
    BY <1>1, <1>3 DEF LastIsNew
  <2>2. CASE i > n
    <3>1. i - n \in 1..m /\ all[i] = more[i - n]
      BY <1>1, <2>2
    <3> QED BY <3>1, <2>1, <1>3
  <2>3. CASE i <= n
    <3>1. n + k \in i + 1..n + m /\ n + k \in 1..n + m /\ n + k > n /\ (n + k) - n = k
      BY <1>1, <2>3
    <3>2. all[n + k] = more[k]
      BY <1>1, <3>1
    <3> QED BY <3>1, <3>2, <2>1, <1>3
  <2> QED BY <2>2, <2>3, <1>1
<1> QED BY <1>2, <1>3 DEF all, m

(* An enumeration of a set of rows by falling id reaches every row. *)
LEMMA ByIdDescendingAll ==
    ASSUME id \in [Blocks -> Nat], NEW S \in SUBSET Blocks, NEW r \in ByIdDescending(S), NEW b \in S
    PROVE  \E i \in 1..Cardinality(S) : r[i] = b
<1> DEFINE n == Cardinality(S)
<1>1. IsFiniteSet(S) /\ n \in Nat
  BY ChainAssumption, FS_Subset, FS_CardinalityType
<1>2. r \in [1..n -> S] /\ \A i, j \in 1..n : i < j => id[r[i]] > id[r[j]]
  BY DEF ByIdDescending
<1>3. \A i \in 1..n : id[r[i]] \in Nat
  BY <1>2
<1> HIDE DEF n
<1>4. ASSUME NEW i \in 1..n, NEW j \in 1..n, r[i] = r[j] PROVE i = j
  <2>1. i \in Nat /\ j \in Nat
    BY <1>1
  <2>2. ~ (i < j) /\ ~ (j < i)
    BY <1>2, <1>3, <1>4
  <2> QED BY <2>1, <2>2
<1>5. r \in Injection(1..n, S)
  BY <1>2, <1>4 DEF Injection, IsInjective
<1>6. Cardinality(1..n) = n
  BY <1>1, FS_Interval
<1>7. r \in Surjection(1..n, S)
  BY <1>1, <1>5, <1>6, FS_Injection DEF n
<1> QED BY <1>7 DEF Surjection, n
(* The property in terms of LastIsNew. *)
LEMMA ReplaysAsLast == EventLogReplays <=> \A b \in Blocks : b \in is_canonical <=> LastIsNew(events, b)
  BY DEF EventLogReplays, LastIsNew

(* A reorg in the log: the reorged events of every row above the common     *)
(* ancestor, then the new blocks, oldest first.                             *)
LEMMA SaveNewBlocksReplays ==
    ASSUME SyncerInv, SaveNewBlocks,
           \A b \in Blocks : b \in is_canonical <=> LastIsNew(events, b)
    PROVE  \A b \in Blocks : b \in is_canonical' <=> LastIsNew(events', b)
<1> DEFINE s == new_blocks
           above == RowsAbove(Height[new_blocks[Len(new_blocks)]] - 1)
<1>1. PICK r \in ByIdDescending(above) :
         SaveBlocks(s, [i \in 1..Cardinality(above) |-> ReorgedBlock(r[i])])
  BY DEF SaveNewBlocks
<1> DEFINE L == Len(s)
           before == [i \in 1..Cardinality(above) |-> ReorgedBlock(r[i])]
           news == [i \in 1..L |-> NewBlock(s[L + 1 - i])]
<1>2. events' = (events \o before) \o news /\ is_canonical' = (is_canonical \ above) \cup Range(s)
  BY <1>1 DEF SaveBlocks, SaveNewBlocks
<1>3. /\ s \in Seq(Blocks) /\ L \in Nat /\ id \in [Blocks -> Nat] /\ above \in SUBSET Blocks
      /\ events \in Seq(Events) /\ current_height \in Nat
  BY DEF SyncerInv, SyncerTypeOK, RowsAbove
<1>4. \A i \in 1..L : Height[s[i]] = current_height + 2 - i
  BY DEF SyncerInv, WalkInv, SaveNewBlocks
<1>5. \A b \in Blocks : b \in Range(s) <=> \E i \in 1..L : s[i] = b
  BY <1>3 DEF Range
<1> HIDE DEF above
<1>6. /\ Cardinality(above) \in Nat
      /\ \A i \in 1..Cardinality(above) : r[i] \in above
      /\ \A b \in above : \E i \in 1..Cardinality(above) : r[i] = b
  BY <1>3, ByIdDescendingFacts, ByIdDescendingAll
<1>7. /\ before \in Seq(Events) /\ Len(before) = Cardinality(above)
      /\ \A i \in 1..Len(before) : before[i] = ReorgedBlock(r[i])
  <2>1. \A i \in 1..Cardinality(above) : ReorgedBlock(r[i]) \in Events
    BY <1>3, <1>6 DEF ReorgedBlock, Events
  <2> QED BY <1>6, <2>1
<1>8. /\ news \in Seq(Events) /\ Len(news) = L
      /\ \A i \in 1..L : news[i] = NewBlock(s[L + 1 - i])
  <2>1. \A i \in 1..L : L + 1 - i \in 1..L
    BY <1>3
  <2>2. \A i \in 1..L : NewBlock(s[L + 1 - i]) \in Events
    BY <1>3, <2>1 DEF NewBlock, Events
  <2> QED BY <1>3, <2>2
<1> DEFINE evs == events \o before
<1>9. evs \in Seq(Events) /\ events' = evs \o news
  BY <1>2, <1>3, <1>7, ConcatProperties
<1> HIDE DEF before, news, evs, L
<1> SUFFICES ASSUME NEW b \in Blocks PROVE b \in is_canonical' <=> LastIsNew(events', b)
  OBVIOUS
<1>10. CASE b \in Range(s)
  <2>1. PICK k \in 1..L : s[k] = b
    BY <1>5, <1>10
  <2>2. L + 1 - k \in 1..L /\ L + 1 - (L + 1 - k) = k
    BY <1>3
  <2>3. news[L + 1 - k] = NewBlock(b)
    BY <1>8, <2>1, <2>2
  <2>4. \A j \in L + 1 - k + 1..L : news[j].block # b
    <3> SUFFICES ASSUME NEW j \in L + 1 - k + 1..L PROVE news[j].block # b
      OBVIOUS
    <3>1. j \in 1..L /\ L + 1 - j \in 1..L /\ L + 1 - j # k
      BY <1>3
    <3>2. Height[s[L + 1 - j]] = current_height + 2 - (L + 1 - j) /\ Height[b] = current_height + 2 - k
      BY <3>1, <1>4, <2>1
    <3>3. s[L + 1 - j] # b
      BY <3>1, <3>2, <1>3
    <3> QED BY <3>1, <3>3, <1>8 DEF NewBlock
  <2>5. LastIsNew(news, b)
    BY <1>8, <2>2, <2>3, <2>4 DEF LastIsNew
  <2> QED BY <2>5, <1>2, <1>8, <1>9, <1>10, LastIsNewDecided
<1>11. CASE b \notin Range(s)
  <2>1. \A j \in 1..Len(news) : news[j].block # b
    <3> SUFFICES ASSUME NEW j \in 1..L PROVE news[j].block # b
      BY <1>8
    <3>1. L + 1 - j \in 1..L
      BY <1>3
    <3>2. s[L + 1 - j] # b
      BY <3>1, <1>5, <1>11
    <3> QED BY <3>2, <1>8 DEF NewBlock
  <2>2. LastIsNew(events', b) <=> LastIsNew(evs, b)
    BY <2>1, <1>8, <1>9, LastIsNewOthers
  <2>3. CASE b \in above
    <3>1. PICK i \in 1..Len(before) : before[i].block = b
      BY <2>3, <1>6, <1>7 DEF ReorgedBlock
    <3>2. \A j \in 1..Len(before) : before[j] # NewBlock(b)
      <4> SUFFICES ASSUME NEW j \in 1..Len(before), before[j] = NewBlock(b) PROVE FALSE
        OBVIOUS
      <4>1. before[j].type = "reorged_block"
        BY <1>7 DEF ReorgedBlock
      <4>2. before[j].type = "new_block"
        BY DEF NewBlock
      <4> QED BY <4>1, <4>2
    <3>3. ~ LastIsNew(evs, b)
      BY <3>1, <3>2, <1>3, <1>7, LastIsNewDecided DEF evs
    <3> QED BY <2>2, <2>3, <3>3, <1>2, <1>11
  <2>4. CASE b \notin above
    <3>1. \A j \in 1..Len(before) : before[j].block # b
      BY <2>4, <1>6, <1>7 DEF ReorgedBlock
    <3>2. LastIsNew(evs, b) <=> LastIsNew(events, b)
      BY <3>1, <1>3, <1>7, LastIsNewOthers DEF evs
    <3> QED BY <2>2, <2>4, <3>2, <1>2, <1>11
  <2> QED BY <2>3, <2>4
<1> QED BY <1>10, <1>11

(* Every step of the node or the syncer keeps the log in line with the rows. *)
LEMMA SyncerNextReplays ==
    ASSUME SyncerInv, EventLogReplays, SyncerNext
    PROVE  EventLogReplays'
<1>1. \A b \in Blocks : b \in is_canonical <=> LastIsNew(events, b)
  BY ReplaysAsLast
<1>2. CASE SaveNewBlocks
  <2>1. \A b \in Blocks : b \in is_canonical' <=> LastIsNew(events', b)
    BY <1>1, <1>2, SaveNewBlocksReplays
  <2> QED BY <2>1 DEF EventLogReplays, LastIsNew
<1>3. CASE StartOnEmptyDb
  <2>1. PICK b \in Blocks : SaveBlocks(<<b>>, << >>) /\ is_canonical' = {b}
    BY <1>3 DEF StartOnEmptyDb
  <2>2. events = << >>
    <3>1. Range(events) = {} /\ events \in Seq(Events)
      BY <1>3 DEF StartOnEmptyDb, SyncerInv, BelowTipInv, SyncerTypeOK
    <3>2. DOMAIN events = {}
      BY <3>1 DEF Range
    <3> QED BY <3>1, <3>2
  <2>3. events' = (events \o << >>) \o [i \in 1..1 |-> NewBlock(<<b>>[1 + 1 - i])]
    BY <2>1 DEF SaveBlocks
  <2>4. Len(events') = 1 /\ events'[1] = NewBlock(b)
    BY <2>2, <2>3
  <2>5. \A x \in Blocks : NewBlock(b) = NewBlock(x) => b = x
    BY DEF NewBlock
  <2> QED BY <2>1, <2>4, <2>5 DEF EventLogReplays
<1>4. CASE ~ SaveNewBlocks /\ ~ StartOnEmptyDb
  <2>1. is_canonical' = is_canonical /\ events' = events
    BY <1>4 DEF SyncerNext, SyncerStep, NodeSwitch, StartOnSyncedDb, FetchTip, WalkBack, WalkFails,
                SyncerFails, tables
  <2> QED BY <2>1 DEF EventLogReplays
<1> QED BY <1>2, <1>3, <1>4

-----------------------------------------------------------------------------
(* The consumers. *)

(* x is height h of the chain, with enough confirmations to stay there. *)
Final(x, h) ==
    /\ x.height = h
    /\ x.row = x.block
    /\ x.block \in is_canonical
    /\ Height[x.block] = h
    /\ h <= current_height - FinalityDepth + 1

(* What has been handed on is the final chain up to the height in memory. *)
HandedInv ==
    \A c \in Consumers :
        /\ nextFinalized[c] = StartHeight + Len(handed[c])
        /\ \A i \in 1..Len(handed[c]) : Final(handed[c][i], StartHeight + i - 1)

(* An open transaction continues there, on account of the next event. *)
DbtxOf(c) ==
    /\ lastProcessed[c] < Len(events)
    /\ LET e == events[lastProcessed[c] + 1]
       IN  dbtx[c].tip = IF e.type = "new_block" THEN Height[e.block] ELSE NoTip
    /\ dbtx[c].expected = nextFinalized[c] + Len(dbtx[c].out)
    /\ \A i \in 1..Len(dbtx[c].out) : Final(dbtx[c].out[i], nextFinalized[c] + i - 1)
    /\ dbtx[c].expected # nextFinalized[c] =>
          dbtx[c].tip # NoTip /\ IsBlockFinalized(dbtx[c].expected - 1, dbtx[c].tip)
    /\ dbtx[c].at = "full" =>
          /\ MoreToHand(c)
          /\ dbtx[c].block \in is_canonical
          /\ Height[dbtx[c].block] = dbtx[c].expected

DbtxInv == \A c \in Consumers : dbtx[c].at # "none" => DbtxOf(c)

(* m is the largest height among the first n events. *)
IsMaxEvent(n, m) ==
    /\ \E i \in 1..n : Height[events[i].block] = m
    /\ \A i \in 1..n : Height[events[i].block] <= m

(* The height in memory is a function of the events processed. *)
ResumeInv ==
    \A c \in Consumers :
        /\ lastProcessed[c] <= Len(events)
        /\ lastProcessed[c] = 0 => nextFinalized[c] = StartHeight
        /\ lastProcessed[c] # 0 =>
              \E m \in Heights :
                 /\ IsMaxEvent(lastProcessed[c], m)
                 /\ nextFinalized[c] = IF m - FinalityDepth + 2 > StartHeight
                                       THEN m - FinalityDepth + 2 ELSE StartHeight

Inv == SyncerInv /\ TypeOK /\ HandedInv /\ DbtxInv /\ ResumeInv

-----------------------------------------------------------------------------
(* The database query gives the height in memory. *)
LEMMA ResumeFromDb ==
    ASSUME Inv, NEW c \in Consumers
    PROVE  nextFinalized[c] = NextFinalizedFromDb(c)
<1>0. lastProcessed[c] \in Nat /\ StartHeight \in Nat /\ FinalityDepth \in Nat \ {0}
  BY ChainAssumption DEF Inv, TypeOK
<1>1. CASE lastProcessed[c] = 0
  BY <1>1 DEF Inv, ResumeInv, NextFinalizedFromDb
<1>2. CASE lastProcessed[c] # 0
  <2>1. PICK m \in Heights :
           /\ IsMaxEvent(lastProcessed[c], m)
           /\ nextFinalized[c] = IF m - FinalityDepth + 2 > StartHeight
                                 THEN m - FinalityDepth + 2 ELSE StartHeight
    BY <1>2 DEF Inv, ResumeInv
  <2>2. m \in ProcessedHeights(c) /\ \A h \in ProcessedHeights(c) : h <= m
    BY <2>1 DEF IsMaxEvent, ProcessedHeights
  <2>3. ProcessedHeights(c) \subseteq Nat
    <3>1. lastProcessed[c] <= Len(events) /\ events \in Seq(Events)
      BY DEF Inv, ResumeInv, SyncerInv, SyncerTypeOK
    <3>2. \A i \in 1..lastProcessed[c] : events[i] \in Events
      BY <3>1, <1>0
    <3> QED BY <3>2, HeightFacts DEF ProcessedHeights, Events
  <2>4. MaxProcessed(c) = m
    <3>1. \A x \in ProcessedHeights(c) : (\A h \in ProcessedHeights(c) : h <= x) => x = m
      BY <2>2, <2>3, HeightFacts
    <3> QED BY <2>2, <3>1 DEF MaxProcessed
  <2> QED BY <1>0, <1>2, <2>1, <2>4, HeightFacts DEF NextFinalizedFromDb
<1> QED BY <1>1, <1>2

(* What is final for an event's block is final for the synced chain. *)
LEMMA FinalizedBelowTip ==
    ASSUME Inv, NEW h \in Nat, NEW tip \in Nat, tip <= current_height
    PROVE  IsBlockFinalized(h, tip) <=> h <= tip /\ h <= tip - FinalityDepth + 1
           /\ h <= current_height - FinalityDepth + 1
<1>1. current_height \in Nat /\ FinalityDepth \in Nat \ {0}
  BY ChainAssumption DEF Inv, SyncerInv, SyncerTypeOK
<1> QED BY <1>1 DEF IsBlockFinalized

(* The height an open transaction works towards is not above the tip. *)
LEMMA TipBelowSynced ==
    ASSUME Inv, NEW c \in Consumers, dbtx[c].at # "none", dbtx[c].tip # NoTip
    PROVE  /\ is_canonical # {}
           /\ dbtx[c].tip \in Nat /\ dbtx[c].tip <= current_height
           /\ events[lastProcessed[c] + 1] \in Events
           /\ events[lastProcessed[c] + 1].type = "new_block"
           /\ dbtx[c].tip = Height[events[lastProcessed[c] + 1].block]
<1> DEFINE e == events[lastProcessed[c] + 1]
<1>1. events \in Seq(Events) /\ lastProcessed[c] \in Nat /\ lastProcessed[c] < Len(events)
  BY DEF Inv, TypeOK, SyncerTypeOK, DbtxInv, DbtxOf
<1>2. lastProcessed[c] + 1 \in 1..Len(events)
  BY <1>1
<1>3. e \in Events /\ e \in Range(events)
  BY <1>1, <1>2 DEF Range
<1>4. e.type = "new_block" /\ dbtx[c].tip = Height[e.block]
  BY DEF Inv, DbtxInv, DbtxOf
<1>5. is_canonical # {} /\ Height[e.block] <= current_height
  BY <1>3 DEF Inv, SyncerInv, BelowTipInv
<1> QED BY <1>3, <1>4, <1>5, HeightFacts DEF Events

(* Concatenation, element by element. *)
LEMMA ConcatFacts ==
    ASSUME NEW S, NEW s \in Seq(S), NEW t \in Seq(S)
    PROVE  /\ s \o t \in Seq(S) /\ Len(s) \in Nat /\ Len(t) \in Nat
           /\ Len(s \o t) = Len(s) + Len(t)
           /\ \A i \in 1..Len(s) : (s \o t)[i] = s[i]
           /\ \A i \in Len(s) + 1..Len(s) + Len(t) : (s \o t)[i] = t[i - Len(s)]
  OBVIOUS

(* The height a transaction asks for next is in the database. *)
LEMMA ExpectedInChain ==
    ASSUME Inv, NEW c \in Consumers, dbtx[c].at # "none", MoreToHand(c)
    PROVE  is_canonical # {} /\ dbtx[c].expected \in StartHeight..current_height
<1> DEFINE k == Len(handed[c])
           l == Len(dbtx[c].out)
<1>1. dbtx[c].out \in Seq(Handed) /\ handed[c] \in Seq(Handed)
  BY DEF Inv, TypeOK
<1>2. k \in Nat /\ l \in Nat
  BY <1>1, ConcatFacts, Zenon
<1>3. dbtx[c].expected = nextFinalized[c] + l /\ nextFinalized[c] = StartHeight + k
  BY DEF Inv, HandedInv, DbtxInv, DbtxOf
<1>4. is_canonical # {} /\ dbtx[c].tip \in Nat /\ dbtx[c].tip <= current_height
  BY TipBelowSynced DEF MoreToHand
<1>5. dbtx[c].expected <= dbtx[c].tip
  BY DEF MoreToHand, IsBlockFinalized
<1>6. StartHeight \in Nat /\ current_height \in Nat /\ dbtx[c].expected \in Nat
  BY ChainAssumption DEF Inv, TypeOK, SyncerTypeOK
<1> HIDE DEF k, l
<1>7. StartHeight <= dbtx[c].expected /\ dbtx[c].expected <= current_height
  BY <1>2, <1>3, <1>4, <1>5, <1>6
<1> QED BY <1>4, <1>6, <1>7

(* A finalized block stays one, whatever the node and the syncer do. *)
LEMMA FinalStable ==
    ASSUME SyncerInv, SyncerNext, NEW x, NEW h \in Int, Final(x, h)
    PROVE  Final(x, h)'
<1>1. current_height \in Nat /\ current_height' \in Nat /\ FinalityDepth \in Nat
  BY SyncerNextInv, ChainAssumption DEF SyncerInv, SyncerTypeOK
<1>2. x.block \in is_canonical'
  BY SyncerNextInv DEF Final
<1>3. current_height <= current_height'
  BY SyncerNextInv DEF Final
<1>4. h <= current_height - FinalityDepth + 1
  BY DEF Final
<1>5. \A i, j \in Nat : i <= j /\ h <= i - FinalityDepth + 1 => h <= j - FinalityDepth + 1
  BY ChainAssumption
<1>6. h <= current_height' - FinalityDepth + 1
  BY <1>1, <1>3, <1>4, <1>5, Zenon
<1> QED BY <1>2, <1>6 DEF Final

(* Steps of the node and the syncer keep what the fetchers rely on. *)
LEMMA SyncerKeepsInv ==
    ASSUME Inv, SyncerNext, UNCHANGED fetcherVars
    PROVE  Inv'
<1>0. /\ SyncerInv /\ TypeOK /\ SyncerInv'
      /\ lastProcessed' = lastProcessed /\ nextFinalized' = nextFinalized
      /\ dbtx' = dbtx /\ handed' = handed
      /\ Len(events) <= Len(events')
      /\ \A i \in 1..Len(events) : events'[i] = events[i]
  BY SyncerNextInv DEF Inv, fetcherVars
<1>1. TypeOK'
  BY <1>0 DEF TypeOK, SyncerInv
<1>2. /\ Len(events) \in Nat /\ Len(events') \in Nat /\ StartHeight \in Nat /\ FinalityDepth \in Nat
      /\ \A c \in Consumers :
            /\ lastProcessed[c] \in Nat /\ nextFinalized[c] \in Nat
            /\ handed[c] \in Seq(Handed) /\ dbtx[c].out \in Seq(Handed)
            /\ dbtx[c].expected \in Nat
  <2>1. events \in Seq(Events) /\ events' \in Seq(Events)
    BY <1>0 DEF TypeOK, SyncerInv, SyncerTypeOK
  <2>2. Len(events) \in Nat /\ Len(events') \in Nat
    BY <2>1
  <2>3. StartHeight \in Nat /\ FinalityDepth \in Nat
    BY ChainAssumption
  <2> QED BY <1>0, <2>2, <2>3 DEF TypeOK
<1>3. HandedInv'
  <2> SUFFICES ASSUME NEW c \in Consumers
               PROVE  /\ nextFinalized[c] = StartHeight + Len(handed[c])
                      /\ \A i \in 1..Len(handed[c]) : Final(handed[c][i], StartHeight + i - 1)'
    BY <1>0 DEF HandedInv
  <2>1. \A i \in 1..Len(handed[c]) : StartHeight + i - 1 \in Int /\ Final(handed[c][i], StartHeight + i - 1)
    BY <1>2 DEF Inv, HandedInv
  <2> QED BY <2>1, <1>0, FinalStable DEF Inv, HandedInv
<1>4. DbtxInv'
  <2> SUFFICES ASSUME NEW c \in Consumers, dbtx[c].at # "none"
               PROVE  /\ lastProcessed[c] < Len(events')
                      /\ LET e == events'[lastProcessed[c] + 1]
                         IN  dbtx[c].tip = IF e.type = "new_block" THEN Height[e.block] ELSE NoTip
                      /\ dbtx[c].expected = nextFinalized[c] + Len(dbtx[c].out)
                      /\ \A i \in 1..Len(dbtx[c].out) : Final(dbtx[c].out[i], nextFinalized[c] + i - 1)'
                      /\ dbtx[c].expected # nextFinalized[c] =>
                            dbtx[c].tip # NoTip /\ IsBlockFinalized(dbtx[c].expected - 1, dbtx[c].tip)
                      /\ dbtx[c].at = "full" =>
                            /\ MoreToHand(c)
                            /\ dbtx[c].block \in is_canonical'
                            /\ Height[dbtx[c].block] = dbtx[c].expected
    BY <1>0 DEF DbtxInv, DbtxOf, MoreToHand
  <2>1. lastProcessed[c] < Len(events) /\ lastProcessed[c] + 1 \in 1..Len(events)
    BY <1>2 DEF Inv, DbtxInv, DbtxOf
  <2>2. lastProcessed[c] < Len(events') /\ events'[lastProcessed[c] + 1] = events[lastProcessed[c] + 1]
    BY <2>1, <1>0, <1>2
  <2>3. \A i \in 1..Len(dbtx[c].out) :
           nextFinalized[c] + i - 1 \in Int /\ Final(dbtx[c].out[i], nextFinalized[c] + i - 1)
    BY <1>2 DEF Inv, DbtxInv, DbtxOf
  <2>4. \A i \in 1..Len(dbtx[c].out) : Final(dbtx[c].out[i], nextFinalized[c] + i - 1)'
    BY <2>3, <1>0, FinalStable
  <2>5. ASSUME dbtx[c].at = "full"
        PROVE  dbtx[c].block \in is_canonical'
    <3>1. dbtx[c].block \in is_canonical /\ Height[dbtx[c].block] = dbtx[c].expected /\ MoreToHand(c)
      BY <2>5 DEF Inv, DbtxInv, DbtxOf
    <3>2. dbtx[c].tip \in Nat /\ dbtx[c].tip <= current_height
      <4>1. dbtx[c].tip # NoTip
        BY <3>1 DEF MoreToHand
      <4> QED BY <4>1, TipBelowSynced
    <3>3. Height[dbtx[c].block] <= current_height - FinalityDepth + 1
      BY <3>1, <3>2, <1>2, FinalizedBelowTip DEF MoreToHand
    <3> QED BY <3>1, <3>3, <1>0, SyncerNextInv
  <2> QED BY <2>2, <2>4, <2>5 DEF Inv, DbtxInv, DbtxOf
<1>5. ResumeInv'
  <2> SUFFICES ASSUME NEW c \in Consumers
               PROVE  /\ lastProcessed[c] <= Len(events')
                      /\ lastProcessed[c] = 0 => nextFinalized[c] = StartHeight
                      /\ lastProcessed[c] # 0 =>
                            \E m \in Heights :
                               /\ IsMaxEvent(lastProcessed[c], m)'
                               /\ nextFinalized[c] = IF m - FinalityDepth + 2 > StartHeight
                                                     THEN m - FinalityDepth + 2 ELSE StartHeight
    BY <1>0 DEF ResumeInv
  <2>1. lastProcessed[c] <= Len(events)
    BY DEF Inv, ResumeInv
  <2>2. \A i \in 1..lastProcessed[c] : events'[i] = events[i]
    BY <2>1, <1>0, <1>2
  <2>3. \A m \in Heights : IsMaxEvent(lastProcessed[c], m) => IsMaxEvent(lastProcessed[c], m)'
    BY <2>2, <1>0 DEF IsMaxEvent
  <2> QED BY <2>1, <2>3, <1>0, <1>2 DEF Inv, ResumeInv
<1> QED BY <1>0, <1>1, <1>3, <1>4, <1>5 DEF Inv

-----------------------------------------------------------------------------
(* What a fetcher step leaves alone. *)
LEMMA SyncerUnchanged ==
    ASSUME Inv, UNCHANGED syncerVars, faults' \in 0..MaxFaults
    PROVE  SyncerInv' /\ SyncerTypeOK' /\ \A x, h : Final(x, h)' <=> Final(x, h)
<1>1. SyncerTypeOK'
  BY DEF Inv, SyncerInv, SyncerTypeOK, syncerVars, tables, task
<1>2. HeightInv' /\ ChainInv' /\ WalkInv' /\ BelowTipInv' /\ EventsInv'
  BY DEF Inv, SyncerInv, HeightInv, IsMaxHeight, ChainInv, WalkInv, BelowTipInv, EventsInv,
         syncerVars, tables, task
<1>3. \A x, h : Final(x, h)' <=> Final(x, h)
  BY DEF Final, syncerVars, tables, task
<1> QED BY <1>1, <1>2, <1>3 DEF SyncerInv

(* A step of one fetcher does not touch the transactions of the others. *)
LEMMA OthersUnchanged ==
    ASSUME Inv, UNCHANGED syncerVars, NEW c \in Consumers,
           \A d \in Consumers \ {c} : /\ dbtx'[d] = dbtx[d]
                                      /\ lastProcessed'[d] = lastProcessed[d]
                                      /\ nextFinalized'[d] = nextFinalized[d],
           dbtx'[c].at # "none" => DbtxOf(c)'
    PROVE  DbtxInv'
<1>1. events' = events /\ is_canonical' = is_canonical /\ current_height' = current_height
  BY DEF syncerVars, tables, task
<1> SUFFICES ASSUME NEW d \in Consumers \ {c}, dbtx[d].at # "none"
             PROVE  DbtxOf(d)'
  BY DEF DbtxInv
<1>2. DbtxOf(d)
  BY DEF Inv, DbtxInv
<1>3. \A y, h : Final(y, h)' <=> Final(y, h)
  BY <1>1 DEF Final
<1> QED BY <1>1, <1>2, <1>3 DEF DbtxOf, MoreToHand

(* The steps that end a transaction without a commit: only the local state  *)
(* is lost, and a restart reads the height back that was in memory.         *)
LEMMA AbortStep ==
    ASSUME Inv, NEW c \in Consumers, FetcherFails(c) \/ RestartFetcher(c)
    PROVE  Inv'
<1>1. /\ UNCHANGED syncerVars /\ faults' \in 0..MaxFaults
      /\ lastProcessed' = lastProcessed /\ handed' = handed
      /\ dbtx' = [dbtx EXCEPT ![c] = NoTx]
  BY FaultsAssumption DEF Inv, TypeOK, SyncerTypeOK, FetcherFails, RestartFetcher
<1>2. SyncerInv' /\ SyncerTypeOK' /\ \A x, h : Final(x, h)' <=> Final(x, h)
  BY <1>1, SyncerUnchanged
<1>3. nextFinalized' = nextFinalized
  <2>1. CASE FetcherFails(c)
    BY <2>1 DEF FetcherFails
  <2>2. CASE RestartFetcher(c)
    <3>1. nextFinalized' = [nextFinalized EXCEPT ![c] = nextFinalized[c]]
      BY <2>2, ResumeFromDb DEF RestartFetcher
    <3> QED BY <3>1 DEF Inv, TypeOK
  <2> QED BY <2>1, <2>2
<1>4. TypeOK'
  <2>1. NoTx \in [at : {"none", "loop", "full"}, tip : Nat \cup {NoTip},
                  expected : Nat, block : Blocks \cup {NoBlock}, out : Seq(Handed)]
    BY DEF NoTx
  <2> QED BY <1>1, <1>2, <1>3, <2>1 DEF Inv, TypeOK
<1>5. HandedInv'
  BY <1>1, <1>2, <1>3 DEF Inv, HandedInv
<1>6. \A d \in Consumers : dbtx'[d].at # "none" => d # c /\ dbtx'[d] = dbtx[d]
  BY <1>1 DEF Inv, TypeOK, NoTx
<1>7. events' = events /\ is_canonical' = is_canonical
  BY <1>1 DEF syncerVars, tables
<1>8. DbtxInv'
  BY <1>1, <1>2, <1>3, <1>6, <1>7 DEF Inv, DbtxInv, DbtxOf, MoreToHand
<1>9. ResumeInv'
  BY <1>1, <1>3, <1>7 DEF Inv, ResumeInv, IsMaxEvent
<1> QED BY <1>2, <1>4, <1>5, <1>8, <1>9 DEF Inv

(* A run starts. *)
LEMMA FetchEventStep ==
    ASSUME Inv, NEW c \in Consumers, FetchEvent(c)
    PROVE  Inv'
<1> DEFINE e == events[lastProcessed[c] + 1]
           tx == [at |-> "loop",
                  tip |-> IF e.type = "new_block" THEN Height[e.block] ELSE NoTip,
                  expected |-> nextFinalized[c], block |-> NoBlock, out |-> << >>]
<1>1. /\ UNCHANGED syncerVars /\ faults' \in 0..MaxFaults
      /\ lastProcessed' = lastProcessed /\ handed' = handed /\ nextFinalized' = nextFinalized
      /\ lastProcessed[c] < Len(events)
      /\ dbtx' = [dbtx EXCEPT ![c] = tx]
  BY DEF Inv, TypeOK, SyncerTypeOK, FetchEvent
<1>2. SyncerInv' /\ SyncerTypeOK' /\ \A x, h : Final(x, h)' <=> Final(x, h)
  BY <1>1, SyncerUnchanged
<1>3. /\ lastProcessed[c] \in Nat /\ nextFinalized[c] \in Nat /\ events \in Seq(Events)
      /\ lastProcessed[c] + 1 \in 1..Len(events)
  BY <1>1 DEF Inv, TypeOK, SyncerTypeOK
<1>4. e \in Events
  BY <1>3
<1>5. IF e.type = "new_block" THEN Height[e.block] \in Nat ELSE TRUE
  BY <1>4, HeightFacts DEF Events
<1>6. tx \in [at : {"none", "loop", "full"}, tip : Nat \cup {NoTip},
              expected : Nat, block : Blocks \cup {NoBlock}, out : Seq(Handed)]
  BY <1>3, <1>5
<1>7. TypeOK'
  <2> HIDE DEF tx
  <2> QED BY <1>1, <1>2, <1>6 DEF Inv, TypeOK
<1>8. HandedInv'
  BY <1>1, <1>2 DEF Inv, HandedInv
<1>9. events' = events /\ is_canonical' = is_canonical
  BY <1>1 DEF syncerVars, tables
<1>10. dbtx'[c] = tx /\ \A d \in Consumers \ {c} : dbtx'[d] = dbtx[d]
  BY <1>1 DEF Inv, TypeOK
<1>11. DbtxInv'
  <2>1. /\ tx.at = "loop" /\ tx.expected = nextFinalized[c] /\ tx.out = << >>
        /\ tx.tip = IF e.type = "new_block" THEN Height[e.block] ELSE NoTip
    OBVIOUS
  <2> HIDE DEF tx
  <2>2. tx.expected = nextFinalized[c] + Len(tx.out) /\ 1..Len(tx.out) = {}
    BY <2>1, <1>3
  <2> HIDE DEF e
  <2>3. /\ lastProcessed'[c] < Len(events')
        /\ e = events'[lastProcessed'[c] + 1]
        /\ dbtx'[c].tip = IF e.type = "new_block" THEN Height[e.block] ELSE NoTip
        /\ dbtx'[c].at = "loop"
        /\ dbtx'[c].expected = nextFinalized'[c] + Len(dbtx'[c].out)
        /\ dbtx'[c].expected = nextFinalized'[c]
        /\ 1..Len(dbtx'[c].out) = {}
    BY <2>1, <2>2, <1>1, <1>9, <1>10 DEF e
  <2>4. DbtxOf(c)'
    BY <2>3 DEF DbtxOf
  <2> QED BY <2>4, <1>1, <1>10, OthersUnchanged
<1>12. ResumeInv'
  BY <1>1, <1>9 DEF Inv, ResumeInv, IsMaxEvent
<1> QED BY <1>2, <1>7, <1>8, <1>11, <1>12 DEF Inv

(* get_full_block returns the block that is canonical at that height. *)
LEMMA ReadFullBlockStep ==
    ASSUME Inv, NEW c \in Consumers, ReadFullBlock(c)
    PROVE  Inv'
<1> DEFINE x == dbtx[c].expected
           b == bitcoin_blocks[x]
<1>1. /\ UNCHANGED syncerVars /\ faults' \in 0..MaxFaults
      /\ lastProcessed' = lastProcessed /\ handed' = handed /\ nextFinalized' = nextFinalized
      /\ dbtx[c].at = "loop" /\ MoreToHand(c) /\ x \in Heights
      /\ dbtx' = [dbtx EXCEPT ![c].at = "full", ![c].block = b]
  BY DEF Inv, TypeOK, SyncerTypeOK, ReadFullBlock
<1>2. SyncerInv' /\ SyncerTypeOK' /\ \A y, h : Final(y, h)' <=> Final(y, h)
  BY <1>1, SyncerUnchanged
<1>3. dbtx[c].tip # NoTip /\ IsBlockFinalized(x, dbtx[c].tip)
  BY <1>1 DEF MoreToHand
<1>4. is_canonical # {} /\ x \in StartHeight..current_height
  BY <1>1, ExpectedInChain
<1>5. b \in is_canonical /\ Height[b] = x
  BY <1>4 DEF Inv, SyncerInv, ChainInv
<1>6. b \in Blocks
  BY <1>5 DEF Inv, TypeOK, SyncerTypeOK
<1> HIDE DEF b
<1>7. /\ dbtx'[c].at = "full" /\ dbtx'[c].block = b /\ dbtx'[c].tip = dbtx[c].tip
      /\ dbtx'[c].expected = x /\ dbtx'[c].out = dbtx[c].out
      /\ \A d \in Consumers \ {c} : dbtx'[d] = dbtx[d]
  BY <1>1 DEF Inv, TypeOK
<1>8. TypeOK'
  <2> DEFINE Tx == [at : {"none", "loop", "full"}, tip : Nat \cup {NoTip}, expected : Nat,
                    block : Blocks \cup {NoBlock}, out : Seq(Handed)]
             tx == [dbtx[c] EXCEPT !.at = "full", !.block = b]
  <2>1. dbtx \in [Consumers -> Tx] /\ dbtx[c] \in Tx
    BY DEF Inv, TypeOK
  <2>2. tx \in Tx
    BY <1>6, <2>1
  <2>3. dbtx' = [dbtx EXCEPT ![c] = tx]
    BY <1>1, <2>1
  <2> HIDE DEF Tx, tx
  <2>4. dbtx' \in [Consumers -> Tx]
    BY <2>1, <2>2, <2>3
  <2> QED BY <1>1, <1>2, <2>4 DEF Inv, TypeOK, Tx
<1>9. events' = events /\ is_canonical' = is_canonical
  BY <1>1 DEF syncerVars, tables
<1>10. HandedInv'
  BY <1>1, <1>2 DEF Inv, HandedInv
<1>11. ResumeInv'
  BY <1>1, <1>9 DEF Inv, ResumeInv, IsMaxEvent
<1>12. DbtxInv'
  <2>1. DbtxOf(c)
    BY <1>1 DEF Inv, DbtxInv
  <2>2. MoreToHand(c)' /\ dbtx'[c].block \in is_canonical' /\ Height[dbtx'[c].block] = dbtx'[c].expected
    BY <1>3, <1>5, <1>7, <1>9 DEF MoreToHand
  <2>3. current_height' = current_height
    BY <1>1 DEF syncerVars, task
  <2>4. (\A i \in 1..Len(dbtx[c].out) : Final(dbtx[c].out[i], nextFinalized[c] + i - 1))'
    BY <2>1, <2>3, <1>1, <1>7, <1>9 DEF DbtxOf, Final
  <2>5. DbtxOf(c)'
    BY <2>1, <2>2, <2>4, <1>1, <1>7, <1>9 DEF DbtxOf
  <2> QED BY <2>5, <1>1, <1>7, OthersUnchanged
<1> QED BY <1>2, <1>8, <1>10, <1>11, <1>12 DEF Inv

(* The block id read in the second query is of the block that the first one *)
(* returned: it is final, so no commit in between can have replaced it.     *)
LEMMA HandleBlockStep ==
    ASSUME Inv, NEW c \in Consumers, HandleBlock(c)
    PROVE  Inv'
<1> DEFINE x == dbtx[c].expected
           out == dbtx[c].out
<1>1. /\ UNCHANGED syncerVars /\ faults' \in 0..MaxFaults
      /\ lastProcessed' = lastProcessed /\ handed' = handed /\ nextFinalized' = nextFinalized
      /\ dbtx[c].at = "full"
  BY DEF Inv, TypeOK, SyncerTypeOK, HandleBlock
<1>2. PICK b \in is_canonical :
        /\ Height[b] = x
        /\ dbtx' = [dbtx EXCEPT ![c].at = "loop", ![c].expected = x + 1,
                       ![c].out = Append(out, [height |-> x, row |-> b, block |-> dbtx[c].block])]
  BY DEF HandleBlock
<1>3. SyncerInv' /\ SyncerTypeOK' /\ \A y, h : Final(y, h)' <=> Final(y, h)
  BY <1>1, SyncerUnchanged
<1>4. DbtxOf(c)
  BY <1>1 DEF Inv, DbtxInv
<1>5. /\ dbtx[c].tip # NoTip /\ IsBlockFinalized(x, dbtx[c].tip)
      /\ dbtx[c].block \in is_canonical /\ Height[dbtx[c].block] = x
  BY <1>1, <1>4 DEF DbtxOf, MoreToHand
<1>6. dbtx[c].block = b
  BY <1>2, <1>5 DEF Inv, SyncerInv, ChainInv
<1>7. x \in Nat /\ nextFinalized[c] \in Nat /\ out \in Seq(Handed) /\ b \in Blocks
  BY <1>2 DEF Inv, TypeOK, SyncerTypeOK
<1>8. x <= current_height - FinalityDepth + 1
  BY <1>1, <1>5, <1>7, TipBelowSynced, FinalizedBelowTip
<1> DEFINE n == [height |-> x, row |-> b, block |-> b]
<1>9. n \in Handed /\ Final(n, x)
  BY <1>2, <1>7, <1>8 DEF Handed, Final
<1>10. dbtx' = [dbtx EXCEPT ![c].at = "loop", ![c].expected = x + 1, ![c].out = Append(out, n)]
  BY <1>2, <1>6
<1> HIDE DEF n
<1>11. /\ Append(out, n) \in Seq(Handed) /\ Len(Append(out, n)) = Len(out) + 1
       /\ Append(out, n)[Len(out) + 1] = n
       /\ \A i \in 1..Len(out) : Append(out, n)[i] = out[i]
       /\ Len(out) \in Nat
  BY <1>7, <1>9
<1>12. /\ dbtx'[c].at = "loop" /\ dbtx'[c].tip = dbtx[c].tip
       /\ dbtx'[c].expected = x + 1 /\ dbtx'[c].out = Append(out, n)
       /\ \A d \in Consumers \ {c} : dbtx'[d] = dbtx[d]
  BY <1>10 DEF Inv, TypeOK
<1>13. TypeOK'
  <2> DEFINE T == [at : {"none", "loop", "full"}, tip : Nat \cup {NoTip},
                   expected : Nat, block : Blocks \cup {NoBlock}, out : Seq(Handed)]
             tx == [dbtx[c] EXCEPT !.at = "loop", !.expected = x + 1, !.out = Append(out, n)]
  <2>1. dbtx \in [Consumers -> T] /\ dbtx' = [dbtx EXCEPT ![c] = tx]
    BY <1>10 DEF Inv, TypeOK
  <2>2. tx \in T
    <3> HIDE DEF x, out
    <3>1. dbtx[c] \in T /\ x + 1 \in Nat
      BY <2>1, <1>7
    <3> QED BY <3>1, <1>11
  <2>3. dbtx' \in [Consumers -> T]
    <3> HIDE DEF T, tx
    <3> QED BY <2>1, <2>2
  <2> QED BY <1>1, <1>3, <2>3 DEF Inv, TypeOK
<1>14. events' = events /\ is_canonical' = is_canonical /\ current_height' = current_height
  BY <1>1 DEF syncerVars, tables, task
<1>15. HandedInv'
  BY <1>1, <1>3 DEF Inv, HandedInv
<1>16. ResumeInv'
  BY <1>1, <1>14 DEF Inv, ResumeInv, IsMaxEvent
<1>17. DbtxInv'
  <2>1. x = nextFinalized[c] + Len(out)
    BY <1>4 DEF DbtxOf
  <2>2. \A i \in 1..Len(out) + 1 : Final(Append(out, n)[i], nextFinalized[c] + i - 1)
    <3> SUFFICES ASSUME NEW i \in 1..Len(out) + 1
                 PROVE  Final(Append(out, n)[i], nextFinalized[c] + i - 1)
      OBVIOUS
    <3>1. CASE i \in 1..Len(out)
      BY <3>1, <1>4, <1>11 DEF DbtxOf
    <3>2. CASE i = Len(out) + 1
      <4>1. nextFinalized[c] + i - 1 = x
        BY <2>1, <3>2, <1>7, <1>11
      <4> QED BY <4>1, <3>2, <1>9, <1>11
    <3> QED BY <3>1, <3>2, <1>11
  <2>3. (\A i \in 1..Len(dbtx[c].out) : Final(dbtx[c].out[i], nextFinalized[c] + i - 1))'
    BY <2>2, <1>1, <1>11, <1>12, <1>14 DEF Final
  <2>4. dbtx'[c].expected = nextFinalized'[c] + Len(dbtx'[c].out)
    BY <2>1, <1>1, <1>7, <1>11, <1>12
  <2>5. (dbtx[c].tip # NoTip /\ IsBlockFinalized(dbtx[c].expected - 1, dbtx[c].tip))'
    <3>1. dbtx'[c].expected - 1 = x
      BY <1>7, <1>12
    <3> QED BY <3>1, <1>5, <1>12
  <2>6. lastProcessed'[c] < Len(events') /\
        LET e == events'[lastProcessed'[c] + 1]
        IN  dbtx'[c].tip = IF e.type = "new_block" THEN Height[e.block] ELSE NoTip
    BY <1>1, <1>4, <1>12, <1>14 DEF DbtxOf
  <2>7. DbtxOf(c)'
    BY <2>3, <2>4, <2>5, <2>6, <1>12 DEF DbtxOf
  <2> QED BY <2>7, <1>1, <1>12, OthersUnchanged
<1> QED BY <1>3, <1>13, <1>15, <1>16, <1>17 DEF Inv

(* The height to start from when the largest height processed is m. *)
NextFor(m) ==
    IF m - FinalityDepth + 2 > StartHeight THEN m - FinalityDepth + 2 ELSE StartHeight

(* One event more: the largest height is its height or the old one. *)
LEMMA MaxEventExtend ==
    ASSUME SyncerTypeOK, NEW n \in Nat, n < Len(events), NEW m \in Heights, NEW k \in Heights,
           k = Height[events[n + 1].block],
           n # 0 => IsMaxEvent(n, m)
    PROVE  /\ n = 0 \/ k > m => IsMaxEvent(n + 1, k)
           /\ n # 0 /\ k <= m => IsMaxEvent(n + 1, m)
<1>1. m \in Nat /\ k \in Nat
  BY HeightFacts
<1>2. \A i \in 1..n : Height[events[i].block] \in Nat
  <2>1. events \in Seq(Events)
    BY DEF SyncerTypeOK
  <2>2. \A i \in 1..n : i \in 1..Len(events)
    BY <2>1
  <2>3. \A i \in 1..n : events[i] \in Events
    BY <2>1, <2>2
  <2> QED BY <2>3, HeightFacts DEF Events
<1>3. 1..n + 1 = 1..n \cup {n + 1}
  OBVIOUS
<1>4. n + 1 \in 1..n + 1
  OBVIOUS
<1>5. CASE n = 0
  BY <1>1, <1>3, <1>4, <1>5 DEF IsMaxEvent
<1>6. CASE n # 0
  <2>1. IsMaxEvent(n, m)
    BY <1>6
  <2>2. ASSUME k > m PROVE IsMaxEvent(n + 1, k)
    <3>1. \A i \in 1..n : Height[events[i].block] <= m
      BY <2>1 DEF IsMaxEvent
    <3>2. \A i \in 1..n : Height[events[i].block] <= k
      BY <3>1, <2>2, <1>1, <1>2
    <3> QED BY <3>2, <1>1, <1>3, <1>4 DEF IsMaxEvent
  <2>3. ASSUME k <= m PROVE IsMaxEvent(n + 1, m)
    BY <2>1, <2>3, <1>1, <1>2, <1>3, <1>4 DEF IsMaxEvent
  <2> QED BY <2>2, <2>3, <1>6
<1> QED BY <1>5, <1>6

(* Where the loop stops: at the height that a restart would compute. *)
LEMMA LoopEnds ==
    ASSUME NEW tip \in Nat, NEW m \in Nat, NEW next \in Nat, NEW expected \in Nat,
           next = StartHeight \/ next = NextFor(m), StartHeight <= next, next <= expected,
           expected # next => IsBlockFinalized(expected - 1, tip),
           ~ IsBlockFinalized(expected, tip)
    PROVE  /\ next = StartHeight => expected = NextFor(tip)
           /\ next = NextFor(m) /\ tip > m => expected = NextFor(tip)
           /\ next = NextFor(m) /\ tip <= m => expected = next
<1>1. StartHeight \in Nat /\ FinalityDepth \in Nat \ {0}
  BY ChainAssumption
<1>2. expected >= tip - FinalityDepth + 2
  BY <1>1 DEF IsBlockFinalized
<1>3. expected # next => expected - 1 <= tip - FinalityDepth + 1
  BY <1>1 DEF IsBlockFinalized
<1> QED BY <1>1, <1>2, <1>3 DEF NextFor

(* The blocks of the run join those handed before; the height in memory     *)
(* moves with the position in the log.                                      *)
LEMMA CommitRunStep ==
    ASSUME Inv, NEW c \in Consumers, CommitRun(c)
    PROVE  Inv'
<1> DEFINE e == events[lastProcessed[c] + 1]
           n == lastProcessed[c]
           out == dbtx[c].out
<1>1. /\ UNCHANGED syncerVars /\ faults' \in 0..MaxFaults
      /\ dbtx[c].at = "loop" /\ ~ MoreToHand(c)
      /\ lastProcessed' = [lastProcessed EXCEPT ![c] = n + 1]
      /\ nextFinalized' = [nextFinalized EXCEPT ![c] = dbtx[c].expected]
      /\ handed' = [handed EXCEPT ![c] = handed[c] \o out]
      /\ dbtx' = [dbtx EXCEPT ![c] = NoTx]
  BY DEF Inv, TypeOK, SyncerTypeOK, CommitRun
<1>2. SyncerInv' /\ SyncerTypeOK' /\ \A y, h : Final(y, h)' <=> Final(y, h)
  BY <1>1, SyncerUnchanged
<1>3. DbtxOf(c)
  BY <1>1 DEF Inv, DbtxInv
<1>4. /\ n \in Nat /\ nextFinalized[c] \in Nat /\ dbtx[c].expected \in Nat
      /\ out \in Seq(Handed) /\ handed[c] \in Seq(Handed) /\ StartHeight \in Nat
      /\ events \in Seq(Events) /\ SyncerTypeOK
  BY ChainAssumption DEF Inv, TypeOK, SyncerTypeOK
<1>5. events' = events /\ is_canonical' = is_canonical /\ current_height' = current_height
  BY <1>1 DEF syncerVars, tables, task
<1>6. /\ lastProcessed'[c] = n + 1 /\ nextFinalized'[c] = dbtx[c].expected
      /\ handed'[c] = handed[c] \o out /\ dbtx'[c] = NoTx
      /\ \A d \in Consumers \ {c} :
            /\ lastProcessed'[d] = lastProcessed[d] /\ nextFinalized'[d] = nextFinalized[d]
            /\ handed'[d] = handed[d] /\ dbtx'[d] = dbtx[d]
  BY <1>1 DEF Inv, TypeOK
<1> DEFINE k == Len(handed[c])
           l == Len(out)
           joined == handed[c] \o out
<1>7. /\ joined \in Seq(Handed) /\ k \in Nat /\ l \in Nat /\ Len(joined) = k + l
      /\ \A i \in 1..k : joined[i] = handed[c][i]
      /\ \A i \in k + 1..k + l : joined[i] = out[i - k]
  <2> DEFINE s == handed[c]
             t == out
  <2>1. s \in Seq(Handed) /\ t \in Seq(Handed)
    BY <1>4
  <2> HIDE DEF s, t
  <2>2. /\ s \o t \in Seq(Handed) /\ Len(s) \in Nat /\ Len(t) \in Nat
        /\ Len(s \o t) = Len(s) + Len(t)
        /\ \A i \in 1..Len(s) : (s \o t)[i] = s[i]
        /\ \A i \in Len(s) + 1..Len(s) + Len(t) : (s \o t)[i] = t[i - Len(s)]
    BY <2>1
  <2> QED BY <2>2, Zenon DEF s, t
<1>8. /\ dbtx[c].expected = nextFinalized[c] + l
      /\ nextFinalized[c] = StartHeight + k
      /\ n < Len(events) /\ n + 1 \in 1..Len(events)
  <2>1. dbtx[c].expected = nextFinalized[c] + l /\ nextFinalized[c] = StartHeight + k
    BY <1>3 DEF Inv, HandedInv, DbtxOf
  <2>2. n < Len(events)
    BY <1>3 DEF DbtxOf
  <2>3. n + 1 \in 1..Len(events)
    BY <2>2, <1>4
  <2> QED BY <2>1, <2>2, <2>3
<1>9. /\ handed' = [handed EXCEPT ![c] = joined] /\ handed'[c] = joined
      /\ \A i \in 1..k : Final(handed[c][i], StartHeight + i - 1)
  BY <1>1, <1>6 DEF Inv, HandedInv
<1>10. \A i \in 1..l : Final(out[i], nextFinalized[c] + i - 1)
  BY <1>3 DEF DbtxOf
<1> HIDE DEF k, l, joined
<1>11. TypeOK'
  <2>1. NoTx \in [at : {"none", "loop", "full"}, tip : Nat \cup {NoTip},
                  expected : Nat, block : Blocks \cup {NoBlock}, out : Seq(Handed)]
    BY DEF NoTx
  <2>2. lastProcessed' \in [Consumers -> Nat] /\ nextFinalized' \in [Consumers -> Nat]
    BY <1>1, <1>4 DEF Inv, TypeOK
  <2>3. handed' \in [Consumers -> Seq(Handed)]
    BY <1>7, <1>9 DEF Inv, TypeOK
  <2> QED BY <1>1, <1>2, <2>1, <2>2, <2>3 DEF Inv, TypeOK
<1>12. HandedInv'
  <2> SUFFICES ASSUME NEW d \in Consumers
               PROVE  /\ nextFinalized'[d] = StartHeight + Len(handed'[d])
                      /\ \A i \in 1..Len(handed'[d]) : Final(handed'[d][i], StartHeight + i - 1)
    BY <1>5 DEF HandedInv, Final
  <2>1. CASE d # c
    BY <2>1, <1>6 DEF Inv, HandedInv
  <2>2. CASE d = c
    <3>1. nextFinalized'[c] = StartHeight + Len(handed'[c])
      <4>1. Len(handed'[c]) = k + l /\ nextFinalized'[c] = dbtx[c].expected
        BY <1>6, <1>7, <1>9
      <4> QED BY <4>1, <1>4, <1>8, <1>7
    <3> SUFFICES ASSUME NEW i \in 1..k + l
                 PROVE  Final(joined[i], StartHeight + i - 1)
      BY <3>1, <2>2, <1>7, <1>9
    <3>2. CASE i \in 1..k
      BY <3>2, <1>7, <1>9
    <3>3. CASE i \in k + 1..k + l
      <4> DEFINE j == i - k
      <4>1. j \in 1..l /\ StartHeight + i - 1 = nextFinalized[c] + j - 1
        BY <3>3, <1>4, <1>8, <1>7
      <4>2. joined[i] = out[j]
        BY <3>3, <1>7
      <4> HIDE DEF j
      <4>3. Final(out[j], nextFinalized[c] + j - 1)
        BY <4>1, <1>4, <1>7, <1>10
      <4> QED BY <4>1, <4>2, <4>3
    <3> QED BY <3>2, <3>3, <1>7
  <2> QED BY <2>1, <2>2
<1>13. DbtxInv'
  <2>1. dbtx'[c].at = "none"
    BY <1>6 DEF NoTx
  <2> QED BY <2>1, <1>1, <1>6, OthersUnchanged
<1>14. e \in Events /\ Height[e.block] \in Heights /\ Height[e.block] \in Nat
  <2>1. e \in Events
    BY <1>4, <1>8
  <2> QED BY <2>1, HeightFacts DEF Events
<1>15. \E m \in Heights : IsMaxEvent(n + 1, m) /\ dbtx[c].expected = NextFor(m)
  <2>1. n # 0 => \E m \in Heights : IsMaxEvent(n, m) /\ nextFinalized[c] = NextFor(m)
    BY DEF Inv, ResumeInv, NextFor
  <2>2. n = 0 => nextFinalized[c] = StartHeight
    BY DEF Inv, ResumeInv
  <2>3. dbtx[c].tip = IF e.type = "new_block" THEN Height[e.block] ELSE NoTip
    BY <1>3 DEF DbtxOf
  <2>4. dbtx[c].expected # nextFinalized[c] =>
           dbtx[c].tip # NoTip /\ IsBlockFinalized(dbtx[c].expected - 1, dbtx[c].tip)
    BY <1>3 DEF DbtxOf
  <2>5. dbtx[c].tip = NoTip \/ ~ IsBlockFinalized(dbtx[c].expected, dbtx[c].tip)
    BY <1>1 DEF MoreToHand
  <2>6. StartHeight <= nextFinalized[c] /\ nextFinalized[c] <= dbtx[c].expected
    <3> HIDE DEF k, l, n, out
    <3> QED BY <1>4, <1>8, <1>7
  <2> HIDE DEF e, n
  <2>7. CASE e.type = "new_block"
    <3>1. dbtx[c].tip = Height[e.block] /\ dbtx[c].tip # NoTip
      BY <2>3, <2>7, <1>14 DEF NoTip
    <3> DEFINE tip == Height[e.block]
               next == nextFinalized[c]
               expected == dbtx[c].expected
    <3>0. /\ tip \in Nat /\ next \in Nat /\ expected \in Nat
          /\ StartHeight <= next /\ next <= expected
          /\ expected # next => IsBlockFinalized(expected - 1, tip)
          /\ ~ IsBlockFinalized(expected, tip)
      BY <3>1, <2>4, <2>5, <2>6, <1>4, <1>14
    <3>2. CASE n = 0
      <4>1. IsMaxEvent(n + 1, Height[e.block])
        BY <3>2, <1>4, <1>8, <1>14, MaxEventExtend DEF e, n
      <4>2. dbtx[c].expected = NextFor(Height[e.block])
        <5>1. next = StartHeight
          BY <2>2, <3>2
        <5> HIDE DEF tip, next, expected
        <5>2. expected = NextFor(tip)
          BY <3>0, <5>1, LoopEnds
        <5> QED BY <5>2 DEF tip, expected
      <4> QED BY <4>1, <4>2, <1>14
    <3>3. CASE n # 0
      <4>1. PICK m \in Heights : IsMaxEvent(n, m) /\ nextFinalized[c] = NextFor(m)
        BY <2>1, <3>3
      <4>2. m \in Nat
        BY HeightFacts
      <4>3. CASE Height[e.block] > m
        <5>1. IsMaxEvent(n + 1, Height[e.block])
          BY <4>1, <4>3, <3>3, <1>4, <1>8, <1>14, MaxEventExtend DEF e, n
        <5>2. dbtx[c].expected = NextFor(Height[e.block])
          <6>1. next = NextFor(m) /\ tip > m
            BY <4>1, <4>3
          <6> HIDE DEF tip, next, expected
          <6>2. expected = NextFor(tip)
            BY <3>0, <4>2, <6>1, LoopEnds
          <6> QED BY <6>2 DEF tip, expected
        <5> QED BY <5>1, <5>2, <1>14
      <4>4. CASE Height[e.block] <= m
        <5>1. IsMaxEvent(n + 1, m)
          BY <4>1, <4>4, <3>3, <1>4, <1>8, <1>14, MaxEventExtend DEF e, n
        <5>2. dbtx[c].expected = NextFor(m)
          <6>1. next = NextFor(m) /\ tip <= m
            BY <4>1, <4>4
          <6> HIDE DEF tip, next, expected
          <6>2. expected = NextFor(m)
            BY <3>0, <4>2, <6>1, LoopEnds
          <6> QED BY <6>2 DEF expected
        <5> QED BY <5>1, <5>2
      <4> QED BY <4>2, <4>3, <4>4, <1>14
    <3> QED BY <3>2, <3>3
  <2>8. CASE e.type = "reorged_block"
    <3>1. dbtx[c].expected = nextFinalized[c]
      BY <2>3, <2>4, <2>8
    <3>2. PICK j \in 1..n : events[j] = NewBlock(e.block)
      <4>1. events[n + 1].type = "reorged_block"
        BY <2>8 DEF e, n
      <4>2. \E j \in 1..(n + 1) - 1 : events[j] = NewBlock(events[n + 1].block)
        BY <4>1, <1>8 DEF Inv, SyncerInv, EventsInv
      <4>3. (n + 1) - 1 = n
        BY <1>4
      <4> QED BY <4>2, <4>3 DEF e, n
    <3>3. n # 0 /\ Height[events[j].block] = Height[e.block]
      BY <3>2, <1>4 DEF NewBlock, n
    <3>4. PICK m \in Heights : IsMaxEvent(n, m) /\ nextFinalized[c] = NextFor(m)
      BY <2>1, <3>3
    <3>5. Height[e.block] <= m
      BY <3>2, <3>3, <3>4 DEF IsMaxEvent
    <3>6. IsMaxEvent(n + 1, m)
      BY <3>3, <3>4, <3>5, <1>4, <1>8, <1>14, MaxEventExtend DEF e, n
    <3> QED BY <3>1, <3>4, <3>6
  <2> QED BY <2>7, <2>8, <1>14 DEF Events
<1>16. ResumeInv'
  <2> SUFFICES ASSUME NEW d \in Consumers
               PROVE  /\ lastProcessed'[d] <= Len(events)
                      /\ lastProcessed'[d] = 0 => nextFinalized'[d] = StartHeight
                      /\ lastProcessed'[d] # 0 =>
                            \E m \in Heights : /\ IsMaxEvent(lastProcessed'[d], m)
                                               /\ nextFinalized'[d] = NextFor(m)
    BY <1>5 DEF ResumeInv, IsMaxEvent, NextFor
  <2>1. CASE d # c
    BY <2>1, <1>6 DEF Inv, ResumeInv, NextFor
  <2>2. CASE d = c
    <3>1. n + 1 <= Len(events) /\ n + 1 # 0
      BY <1>4, <1>8
    <3> QED BY <3>1, <2>2, <1>6, <1>15
  <2> QED BY <2>1, <2>2
<1> QED BY <1>2, <1>11, <1>12, <1>13, <1>16 DEF Inv

-----------------------------------------------------------------------------
LEMMA InitInv == Init => Inv
<1> SUFFICES ASSUME Init PROVE Inv
  OBVIOUS
<1>1. SyncerInv
  BY SyncerInitInv DEF Init
<1>2. NoTx \in [at : {"none", "loop", "full"}, tip : Nat \cup {NoTip},
                expected : Nat, block : Blocks \cup {NoBlock}, out : Seq(Handed)]
  BY DEF NoTx
<1>3. TypeOK
  BY <1>1, <1>2, ChainAssumption DEF Init, TypeOK, SyncerInv
<1>4. \A c \in Consumers : handed[c] = << >> /\ nextFinalized[c] = StartHeight
                          /\ dbtx[c].at = "none" /\ lastProcessed[c] = 0
  BY DEF Init, NoTx
<1>5. HandedInv
  <2>1. StartHeight \in Nat /\ Len(<< >>) = 0 /\ 1..0 = {}
    BY ChainAssumption
  <2> QED BY <1>4, <2>1 DEF HandedInv
<1>6. DbtxInv
  BY <1>4 DEF DbtxInv
<1>7. ResumeInv
  <2>1. Len(events) = 0
    BY DEF Init, SyncerInit
  <2> QED BY <1>4, <2>1 DEF ResumeInv
<1> QED BY <1>1, <1>3, <1>5, <1>6, <1>7 DEF Inv

LEMMA StutterInv == Inv /\ UNCHANGED vars => Inv'
<1> SUFFICES ASSUME Inv, UNCHANGED vars PROVE Inv'
  OBVIOUS
<1>1. /\ UNCHANGED syncerVars /\ faults' \in 0..MaxFaults
      /\ lastProcessed' = lastProcessed /\ handed' = handed /\ nextFinalized' = nextFinalized
      /\ dbtx' = dbtx
  BY DEF Inv, TypeOK, SyncerTypeOK, vars, fetcherVars
<1>2. SyncerInv' /\ SyncerTypeOK' /\ \A y, h : Final(y, h)' <=> Final(y, h)
  BY <1>1, SyncerUnchanged
<1>3. events' = events /\ is_canonical' = is_canonical
  BY <1>1 DEF syncerVars, tables
<1>4. TypeOK' /\ HandedInv'
  BY <1>1, <1>2 DEF Inv, TypeOK, HandedInv
<1>5. DbtxInv'
  BY <1>1, <1>2, <1>3 DEF Inv, DbtxInv, DbtxOf, MoreToHand
<1>6. ResumeInv'
  BY <1>1, <1>3 DEF Inv, ResumeInv, IsMaxEvent
<1> QED BY <1>2, <1>4, <1>5, <1>6 DEF Inv

LEMMA NextInv == Inv /\ [Next]_vars => Inv'
<1> SUFFICES ASSUME Inv, [Next]_vars PROVE Inv'
  OBVIOUS
<1>1. CASE SyncerNext /\ UNCHANGED fetcherVars
  BY <1>1, SyncerKeepsInv
<1>2. ASSUME NEW c \in Consumers, FetcherStep(c) PROVE Inv'
  BY <1>2, FetchEventStep, ReadFullBlockStep, HandleBlockStep, CommitRunStep DEF FetcherStep
<1>3. ASSUME NEW c \in Consumers, FetcherFails(c) \/ RestartFetcher(c) PROVE Inv'
  BY <1>3, AbortStep
<1>4. CASE UNCHANGED vars
  BY <1>4, StutterInv
<1> QED BY <1>1, <1>2, <1>3, <1>4 DEF Next

(* The inductive invariant holds in every reachable state. *)
THEOREM Invariance == Spec => []Inv
<1> QED BY InitInv, NextInv, PTL DEF Spec

(* Every variable of the syncer, its tables and its consumers keeps its     *)
(* type, so no height or block that a query must find is ever absent.       *)
THEOREM TypeCorrect == Spec => []TypeOK
<1>1. Inv => TypeOK
  BY DEF Inv
<1> QED BY <1>1, Invariance, PTL

(* The height that the task remembers is the one that get_max_height finds. *)
LEMMA TipIsSyncedHeight ==
    ASSUME SyncerInv, is_canonical # {}
    PROVE  DbTip = current_height
<1>1. IsMaxHeight(current_height) /\ current_height \in Nat
  BY DEF SyncerInv, HeightInv, SyncerTypeOK
<1>2. current_height \in Heights
  BY <1>1 DEF IsMaxHeight, Heights, SyncerInv, SyncerTypeOK
<1>3. \A h \in Heights : IsMaxHeight(h) => h = current_height
  BY <1>1, HeightFacts DEF IsMaxHeight
<1> QED BY <1>1, <1>2, <1>3 DEF DbTip

(* In every reachable state bitcoin_syncer and bitcoin_blocks describe one  *)
(* chain from start_height to the tip, whatever reorgs and restarts did.    *)
THEOREM CanonicalChain == Spec => []OneCanonicalChain
<1>1. Inv => OneCanonicalChain
  <2> SUFFICES ASSUME Inv PROVE OneCanonicalChain
    OBVIOUS
  <2>1. SyncerInv /\ ChainInv /\ StartHeight \in Nat /\ current_height \in Nat
    BY ChainAssumption DEF Inv, SyncerInv, SyncerTypeOK
  <2>2. CASE is_canonical = {}
    <3>1. \A h \in Heights : ~ (StartHeight <= h /\ h <= DbTip)
      BY <2>1, <2>2, HeightFacts DEF DbTip
    <3> QED BY <2>2, <3>1 DEF OneCanonicalChain
  <2>3. CASE is_canonical # {}
    <3>1. DbTip = current_height
      BY <2>1, <2>3, TipIsSyncedHeight
    <3>2. \A h \in Heights : StartHeight <= h /\ h <= DbTip => h \in StartHeight..current_height
      BY <2>1, <3>1, HeightFacts
    <3> QED BY <2>1, <2>3, <3>2 DEF OneCanonicalChain, ChainInv
  <2> QED BY <2>2, <2>3
<1> QED BY <1>1, Invariance, PTL

(* handle_new_block gets every height once, in order, with one block whose  *)
(* id and contents agree, and none of these blocks is ever reorged.         *)
THEOREM HandedChain == Spec => []HandedFinalizedChain
<1>1. Inv => HandedFinalizedChain
  BY DEF Inv, HandedInv, HandedFinalizedChain, Final
<1> QED BY <1>1, Invariance, PTL

(* get_next_finalized_block_height_for_consumer gives a restarted task the  *)
(* height that the old one had in memory, the first one not handed yet.     *)
THEOREM ResumeCorrect == Spec => []ResumesWhereItStopped
<1>1. Inv => ResumesWhereItStopped
  BY ResumeFromDb DEF Inv, HandedInv, ResumesWhereItStopped
<1> QED BY <1>1, Invariance, PTL

(* No run of FinalizedBlockFetcherTask ends in "block not found".           *)
THEOREM NothingMissing == Spec => []NeverMissing
<1>1. ASSUME Inv, NEW c \in Consumers PROVE ~ MissingBlock(c)
  <2>1. CASE dbtx[c].at = "loop" /\ MoreToHand(c)
    <3>1. is_canonical # {} /\ dbtx[c].expected \in StartHeight..current_height
      BY <1>1, <2>1, ExpectedInChain
    <3>2. dbtx[c].expected \in Heights /\ bitcoin_blocks[dbtx[c].expected] \in is_canonical
      BY <1>1, <3>1 DEF Inv, SyncerInv, ChainInv
    <3>3. NoBlock \notin is_canonical
      BY <1>1, ChainAssumption DEF Inv, TypeOK, SyncerTypeOK
    <3> QED BY <2>1, <3>2, <3>3 DEF MissingBlock
  <2>2. CASE dbtx[c].at = "full"
    BY <1>1, <2>2 DEF Inv, DbtxInv, DbtxOf, MissingBlock
  <2> QED BY <2>1, <2>2 DEF MissingBlock
<1>2. Inv => NeverMissing
  BY <1>1 DEF NeverMissing
<1> QED BY <1>2, Invariance, PTL

(* No step of the node, the syncer or the consumers takes a block with      *)
(* finality_depth confirmations out of the database: the length check of    *)
(* fetch_new_blocks is deep enough.                                         *)
THEOREM FinalityHolds == Spec => FinalizedNeverReorged
<1> DEFINE Keeps == LET tip == DbTip
                    IN  \A b \in is_canonical :
                           IsBlockFinalized(Height[b], tip) =>
                              /\ b \in is_canonical'
                              /\ bitcoin_blocks'[Height[b]] = b
<1>1. Inv /\ [Next]_vars => [Keeps]_<<is_canonical, bitcoin_blocks>>
  <2> SUFFICES ASSUME Inv, Next, NEW b \in is_canonical, IsBlockFinalized(Height[b], DbTip),
                      ~ UNCHANGED <<is_canonical, bitcoin_blocks>>
               PROVE  b \in is_canonical' /\ bitcoin_blocks'[Height[b]] = b
    BY DEF vars, syncerVars, tables
  <2>1. SyncerNext
    BY DEF Next, FetcherStep, FetchEvent, ReadFullBlock, HandleBlock, CommitRun, FetcherFails,
           RestartFetcher, syncerVars, tables
  <2>2. SyncerInv /\ DbTip = current_height
    BY TipIsSyncedHeight DEF Inv
  <2>3. Height[b] \in Nat /\ current_height \in Nat /\ FinalityDepth \in Nat
    BY <2>2, HeightFacts, ChainAssumption DEF SyncerInv, SyncerTypeOK
  <2>4. Height[b] <= current_height - FinalityDepth + 1
    BY <2>2, <2>3 DEF IsBlockFinalized
  <2> QED BY <2>1, <2>2, <2>4, SyncerNextInv
<1> QED BY <1>1, Invariance, PTL DEF Spec, FinalizedNeverReorged

(* Replaying bitcoin_syncer_events gives the canonical rows, for every tree *)
(* of blocks and every sequence of reorgs, failures and restarts.           *)
THEOREM LogReplays == Spec => []EventLogReplays
<1>1. Init => EventLogReplays
  BY DEF Init, SyncerInit, EventLogReplays
<1>2. Inv /\ EventLogReplays /\ [Next]_vars => EventLogReplays'
  <2> SUFFICES ASSUME Inv, EventLogReplays, [Next]_vars PROVE EventLogReplays'
    OBVIOUS
  <2>1. CASE SyncerNext
    BY <2>1, SyncerNextReplays DEF Inv
  <2>2. CASE ~ SyncerNext
    <3>1. UNCHANGED syncerVars
      BY <2>2 DEF Next, FetcherStep, FetchEvent, ReadFullBlock, HandleBlock, CommitRun, FetcherFails,
                  RestartFetcher, vars
    <3> QED BY <3>1 DEF EventLogReplays, syncerVars, tables
  <2> QED BY <2>1, <2>2
<1> QED BY <1>1, <1>2, Invariance, PTL DEF Spec

-----------------------------------------------------------------------------
(* The refinement of FinalizedChain. *)

(* The final part of the chain in terms of the height the task remembers. *)
FinalBlocksInv ==
    /\ FinalizedCount \in Nat
    /\ FinalBlocks \in Seq(Blocks) /\ Len(FinalBlocks) = FinalizedCount
    /\ \A i \in 1..FinalizedCount : FinalBlocks[i] = bitcoin_blocks[StartHeight + i - 1]
    /\ is_canonical = {} => FinalizedCount = 0
    /\ is_canonical # {} =>
          /\ FinalizedCount = IF current_height - FinalityDepth + 2 > StartHeight
                              THEN current_height - FinalityDepth + 2 - StartHeight ELSE 0
          /\ \A i \in 1..FinalizedCount : StartHeight + i - 1 \in StartHeight..current_height

LEMMA FinalBlocksFacts == SyncerInv => FinalBlocksInv
<1> SUFFICES ASSUME SyncerInv PROVE FinalBlocksInv
  OBVIOUS
<1>1. /\ StartHeight \in Nat /\ FinalityDepth \in Nat \ {0} /\ current_height \in Nat
      /\ is_canonical \subseteq Blocks
  BY ChainAssumption DEF SyncerInv, SyncerTypeOK
<1>2. is_canonical = {} => FinalizedCount = 0
  BY <1>1 DEF FinalizedCount, DbTip
<1>3. ASSUME is_canonical # {}
      PROVE  /\ FinalizedCount = IF current_height - FinalityDepth + 2 > StartHeight
                                 THEN current_height - FinalityDepth + 2 - StartHeight ELSE 0
             /\ FinalizedCount \in Nat
             /\ \A i \in 1..FinalizedCount : StartHeight + i - 1 \in StartHeight..current_height
             /\ \A i \in 1..FinalizedCount : bitcoin_blocks[StartHeight + i - 1] \in Blocks
  <2>1. DbTip = current_height
    BY <1>3, TipIsSyncedHeight
  <2>2. FinalizedCount = IF current_height - FinalityDepth + 2 > StartHeight
                         THEN current_height - FinalityDepth + 2 - StartHeight ELSE 0
    BY <2>1 DEF FinalizedCount
  <2>3. FinalizedCount \in Nat
    BY <1>1, <2>2
  <2>4. \A i \in 1..FinalizedCount : StartHeight + i - 1 \in StartHeight..current_height
    BY <1>1, <2>2
  <2>5. \A h \in StartHeight..current_height : bitcoin_blocks[h] \in is_canonical
    BY <1>3 DEF SyncerInv, ChainInv
  <2> QED BY <1>1, <2>2, <2>3, <2>4, <2>5
<1>4. FinalizedCount \in Nat /\ \A i \in 1..FinalizedCount : bitcoin_blocks[StartHeight + i - 1] \in Blocks
  <2>1. CASE is_canonical = {}
    BY <2>1, <1>2
  <2> QED BY <2>1, <1>3
<1>5. FinalBlocks \in Seq(Blocks) /\ Len(FinalBlocks) = FinalizedCount
  BY <1>4 DEF FinalBlocks
<1>6. \A i \in 1..FinalizedCount : FinalBlocks[i] = bitcoin_blocks[StartHeight + i - 1]
  BY <1>4 DEF FinalBlocks
<1> QED BY <1>2, <1>3, <1>4, <1>5, <1>6 DEF FinalBlocksInv

(* A height is final when it is one of the counted ones. *)
LEMMA FinalIndex ==
    ASSUME SyncerInv, is_canonical # {}, NEW i \in Nat, i >= 1
    PROVE  i <= FinalizedCount <=> StartHeight + i - 1 <= current_height - FinalityDepth + 1
<1>1. StartHeight \in Nat /\ FinalityDepth \in Nat \ {0} /\ current_height \in Nat
  BY ChainAssumption DEF SyncerInv, SyncerTypeOK
<1>2. FinalizedCount = IF current_height - FinalityDepth + 2 > StartHeight
                       THEN current_height - FinalityDepth + 2 - StartHeight ELSE 0
  BY FinalBlocksFacts DEF FinalBlocksInv
<1> QED BY <1>1, <1>2

(* The commit of a run of the syncer finalizes the next block, or none.     *)
LEMMA SaveFinalizes ==
    ASSUME SyncerInv, SaveNewBlocks, UNCHANGED fetcherVars
    PROVE  Abstract!Next \/ UNCHANGED <<FinalBlocks, HandedBlocks>>
<1> DEFINE n == FinalizedCount
           k == FinalizedCount'
<1>1. /\ SyncerInv' /\ current_height' = current_height + 1
      /\ \A h \in Heights : h <= current_height - FinalityDepth + 1 => bitcoin_blocks'[h] = bitcoin_blocks[h]
      /\ is_canonical # {} /\ is_canonical' # {}
  BY SaveNewBlocksStep DEF SyncerInv, HeightInv, SaveNewBlocks
<1>2. UNCHANGED HandedBlocks
  BY DEF HandedBlocks, fetcherVars
<1>3. /\ StartHeight \in Nat /\ FinalityDepth \in Nat \ {0} /\ current_height \in Nat
      /\ n \in Nat /\ FinalBlocks \in Seq(Blocks) /\ Len(FinalBlocks) = n
      /\ \A i \in 1..n : FinalBlocks[i] = bitcoin_blocks[StartHeight + i - 1]
      /\ \A i \in 1..n : StartHeight + i - 1 \in StartHeight..current_height
      /\ n = IF current_height - FinalityDepth + 2 > StartHeight
             THEN current_height - FinalityDepth + 2 - StartHeight ELSE 0
  BY <1>1, FinalBlocksFacts, ChainAssumption DEF FinalBlocksInv, SyncerInv, SyncerTypeOK
<1>4. /\ k \in Nat /\ FinalBlocks' \in Seq(Blocks) /\ Len(FinalBlocks') = k
      /\ \A i \in 1..k : FinalBlocks'[i] = bitcoin_blocks'[StartHeight + i - 1]
      /\ \A i \in 1..k : StartHeight + i - 1 \in StartHeight..current_height'
      /\ k = IF current_height' - FinalityDepth + 2 > StartHeight
             THEN current_height' - FinalityDepth + 2 - StartHeight ELSE 0
  <2>1. FinalBlocksInv'
    BY <1>1, FinalBlocksFacts, PTL
  <2> QED BY <2>1, <1>1 DEF FinalBlocksInv
<1> HIDE DEF n, k
<1>5. k = n \/ k = n + 1
  BY <1>1, <1>3, <1>4
<1>6. \A i \in 1..n : FinalBlocks'[i] = FinalBlocks[i]
  <2> SUFFICES ASSUME NEW i \in 1..n PROVE FinalBlocks'[i] = FinalBlocks[i]
    OBVIOUS
  <2>1. StartHeight + i - 1 <= current_height - FinalityDepth + 1
    BY <1>3
  <2>2. StartHeight + i - 1 \in Heights
    BY <1>1, <1>3 DEF SyncerInv, ChainInv
  <2>3. bitcoin_blocks'[StartHeight + i - 1] = bitcoin_blocks[StartHeight + i - 1]
    BY <2>1, <2>2, <1>1
  <2>4. i \in 1..k
    BY <1>3, <1>4, <1>5
  <2> QED BY <2>3, <2>4, <1>3, <1>4
<1>7. CASE k = n
  <2>1. FinalBlocks' = FinalBlocks
    BY <1>7, <1>3, <1>4, <1>6, SeqEqual
  <2> QED BY <2>1, <1>2
<1>8. CASE k = n + 1
  <2> DEFINE b == FinalBlocks'[n + 1]
  <2>1. b \in Blocks /\ b = bitcoin_blocks'[StartHeight + n] /\ StartHeight + n \in StartHeight..current_height'
    <3>1. n + 1 \in 1..k /\ StartHeight + (n + 1) - 1 = StartHeight + n
      BY <1>8, <1>3
    <3> QED BY <3>1, <1>4
  <2> HIDE DEF b
  <2>2. FinalBlocks' = Append(FinalBlocks, b)
    <3>1. /\ Append(FinalBlocks, b) \in Seq(Blocks) /\ Len(Append(FinalBlocks, b)) = n + 1
          /\ \A i \in 1..n : Append(FinalBlocks, b)[i] = FinalBlocks[i]
          /\ Append(FinalBlocks, b)[n + 1] = b
      BY <1>3, <2>1
    <3>2. \A i \in 1..n + 1 : FinalBlocks'[i] = Append(FinalBlocks, b)[i]
      <4> SUFFICES ASSUME NEW i \in 1..n + 1 PROVE FinalBlocks'[i] = Append(FinalBlocks, b)[i]
        OBVIOUS
      <4>1. i \in 1..n \/ i = n + 1
        BY <1>3
      <4> QED BY <4>1, <3>1, <1>6 DEF b
    <3>3. FinalBlocks' \in Seq(Blocks) /\ Len(FinalBlocks') = n + 1
      BY <1>4, <1>8
    <3> HIDE DEF b
    <3> DEFINE app == Append(FinalBlocks, b)
    <3>4. app \in Seq(Blocks) /\ Len(app) = n + 1 /\ \A i \in 1..n + 1 : FinalBlocks'[i] = app[i]
      BY <3>1, <3>2
    <3> HIDE DEF app
    <3>5. FinalBlocks' = app
      BY <3>3, <3>4, SeqEqual
    <3> QED BY <3>5 DEF app
  <2>3. FinalBlocks # << >> => Parent[b] = FinalBlocks[Len(FinalBlocks)]
    <3> SUFFICES ASSUME FinalBlocks # << >> PROVE Parent[b] = FinalBlocks[n]
      BY <1>3
    <3>1. n \in 1..n /\ n \in 1..k
      BY <1>3, <1>8
    <3>2. StartHeight + n > StartHeight /\ StartHeight + n - 1 = (StartHeight + n) - 1
      BY <3>1, <1>3
    <3>3. Parent[bitcoin_blocks'[StartHeight + n]] = bitcoin_blocks'[StartHeight + n - 1]
      BY <3>2, <2>1, <1>1 DEF SyncerInv, ChainInv
    <3>4. FinalBlocks'[n] = bitcoin_blocks'[StartHeight + n - 1] /\ FinalBlocks'[n] = FinalBlocks[n]
      BY <3>1, <1>4, <1>6
    <3> QED BY <3>3, <3>4, <2>1
  <2>4. Abstract!Finalize
    BY <2>1, <2>2, <2>3, <1>2 DEF Abstract!Finalize
  <2> QED BY <2>4 DEF Abstract!Next
<1> QED BY <1>5, <1>7, <1>8

(* The first block of an empty database is final at once iff finality_depth *)
(* is one.                                                                  *)
LEMMA StartFinalizes ==
    ASSUME SyncerInv, StartOnEmptyDb, UNCHANGED fetcherVars
    PROVE  Abstract!Next \/ UNCHANGED <<FinalBlocks, HandedBlocks>>
<1>1. SyncerInv' /\ current_height' = StartHeight /\ is_canonical = {} /\ is_canonical' # {}
  BY StartOnEmptyDbStep DEF StartOnEmptyDb
<1>2. UNCHANGED HandedBlocks
  BY DEF HandedBlocks, fetcherVars
<1>3. FinalBlocks = << >> /\ StartHeight \in Nat /\ FinalityDepth \in Nat \ {0}
  <2>1. FinalBlocks \in Seq(Blocks) /\ Len(FinalBlocks) = 0
    BY <1>1, FinalBlocksFacts DEF FinalBlocksInv
  <2> QED BY <2>1, ChainAssumption
<1>4. /\ FinalBlocks' \in Seq(Blocks) /\ Len(FinalBlocks') = FinalizedCount'
      /\ FinalizedCount' = IF current_height' - FinalityDepth + 2 > StartHeight
                           THEN current_height' - FinalityDepth + 2 - StartHeight ELSE 0
  <2>1. FinalBlocksInv'
    BY <1>1, FinalBlocksFacts, PTL
  <2> QED BY <2>1, <1>1 DEF FinalBlocksInv
<1>5. Len(FinalBlocks') = 0 \/ Len(FinalBlocks') = 1
  BY <1>1, <1>3, <1>4
<1>6. CASE Len(FinalBlocks') = 0
  BY <1>2, <1>3, <1>4, <1>6
<1>7. CASE Len(FinalBlocks') = 1
  <2>1. FinalBlocks'[1] \in Blocks /\ FinalBlocks' = <<FinalBlocks'[1]>>
    BY <1>4, <1>7
  <2>2. FinalBlocks' = Append(FinalBlocks, FinalBlocks'[1])
    BY <2>1, <1>3
  <2>3. Abstract!Finalize
    BY <2>1, <2>2, <1>2, <1>3 DEF Abstract!Finalize
  <2> QED BY <2>3 DEF Abstract!Next
<1> QED BY <1>5, <1>6, <1>7

(* What a consumer was handed is a prefix of the final blocks. *)
PrefixInv ==
    \A c \in Consumers :
        /\ Len(handed[c]) \in 0..Len(FinalBlocks)
        /\ HandedBlocks[c] = SubSeq(FinalBlocks, 1, Len(handed[c]))

LEMMA HandedIsPrefix == Inv => PrefixInv
<1> SUFFICES ASSUME Inv, NEW c \in Consumers
             PROVE  /\ Len(handed[c]) \in 0..Len(FinalBlocks)
                    /\ HandedBlocks[c] = SubSeq(FinalBlocks, 1, Len(handed[c]))
  BY DEF PrefixInv
<1> DEFINE m == Len(handed[c])
           n == FinalizedCount
<1>1. /\ SyncerInv /\ handed[c] \in Seq(Handed) /\ m \in Nat
      /\ StartHeight \in Nat /\ FinalityDepth \in Nat \ {0} /\ current_height \in Nat
  BY ChainAssumption DEF Inv, TypeOK, SyncerTypeOK
<1>2. \A i \in 1..m : Final(handed[c][i], StartHeight + i - 1)
  BY DEF Inv, HandedInv
<1>3. /\ FinalBlocks \in Seq(Blocks) /\ Len(FinalBlocks) = n /\ n \in Nat
      /\ \A i \in 1..n : FinalBlocks[i] = bitcoin_blocks[StartHeight + i - 1]
  BY <1>1, FinalBlocksFacts DEF FinalBlocksInv
<1> HIDE DEF n
<1>4. ASSUME NEW i \in 1..m PROVE i <= n /\ FinalBlocks[i] = handed[c][i].block
  <2>1. /\ handed[c][i].block \in is_canonical /\ Height[handed[c][i].block] = StartHeight + i - 1
        /\ StartHeight + i - 1 <= current_height - FinalityDepth + 1
    BY <1>2 DEF Final
  <2>2. is_canonical # {} /\ i \in Nat /\ i >= 1
    BY <2>1, <1>1
  <2>3. i <= n
    BY <2>1, <2>2, <1>1, FinalIndex DEF n
  <2>4. bitcoin_blocks[StartHeight + i - 1] = handed[c][i].block
    BY <2>1, <1>1 DEF SyncerInv, ChainInv
  <2> QED BY <2>2, <2>3, <2>4, <1>3
<1>5. m <= n
  <2>1. CASE m = 0
    BY <2>1, <1>3
  <2>2. CASE m # 0
    BY <2>2, <1>1, <1>4
  <2> QED BY <2>1, <2>2
<1>6. HandedBlocks[c] = [i \in 1..m |-> FinalBlocks[i]]
  BY <1>4 DEF HandedBlocks
<1>7. SubSeq(FinalBlocks, 1, m) = [i \in 1..m |-> FinalBlocks[i]]
  BY <1>1, <1>3
<1> QED BY <1>1, <1>3, <1>5, <1>6, <1>7

(* The commit of a consumer's run hands on blocks; nothing else does. *)
LEMMA CommitHandsOn ==
    ASSUME Inv, Inv', NEW c \in Consumers, CommitRun(c)
    PROVE  Abstract!Next
<1>1. FinalBlocks' = FinalBlocks
  BY DEF CommitRun, syncerVars, tables, FinalBlocks, FinalizedCount, DbTip, IsMaxHeight
<1>2. /\ handed \in [Consumers -> Seq(Handed)] /\ dbtx[c].out \in Seq(Handed)
      /\ handed' = [handed EXCEPT ![c] = handed[c] \o dbtx[c].out]
  BY DEF Inv, TypeOK, CommitRun
<1>3. /\ Len(handed'[c]) = Len(handed[c]) + Len(dbtx[c].out)
      /\ Len(handed[c]) \in Nat /\ Len(dbtx[c].out) \in Nat /\ Len(handed'[c]) \in Nat
      /\ \A d \in Consumers : d # c => handed'[d] = handed[d]
  <2>1. /\ handed[c] \in Seq(Handed) /\ handed'[c] = handed[c] \o dbtx[c].out
        /\ \A d \in Consumers : d # c => handed'[d] = handed[d]
    BY <1>2
  <2> QED BY <1>2, <2>1
<1>4. /\ Len(handed'[c]) \in 0..Len(FinalBlocks')
      /\ HandedBlocks'[c] = SubSeq(FinalBlocks', 1, Len(handed'[c]))
  <2>1. PrefixInv'
    BY HandedIsPrefix, PTL
  <2> QED BY <2>1 DEF PrefixInv
<1>5. Len(HandedBlocks[c]) = Len(handed[c])
  BY <1>3 DEF HandedBlocks
<1>6. Len(handed'[c]) \in Len(HandedBlocks[c])..Len(FinalBlocks)
  <2>1. Len(FinalBlocks) \in Nat
    BY FinalBlocksFacts DEF Inv, FinalBlocksInv
  <2>2. \A i, j, k, l \in Nat : i + j = k /\ k \in 0..l => k \in i..l
    OBVIOUS
  <2>3. Len(handed'[c]) \in Nat /\ Len(handed'[c]) \in 0..Len(FinalBlocks)
    BY <1>1, <1>3, <1>4, Zenon
  <2> QED BY <2>1, <2>2, <2>3, <1>3, <1>5
<1>7. HandedBlocks' = [HandedBlocks EXCEPT ![c] = SubSeq(FinalBlocks, 1, Len(handed'[c]))]
  BY <1>1, <1>3, <1>4 DEF HandedBlocks
<1>8. Abstract!HandOn(c)
  BY <1>1, <1>6, <1>7 DEF Abstract!HandOn
<1> QED BY <1>8 DEF Abstract!Next

(* The syncer with its consumers implements FinalizedChain: every step is a *)
(* block becoming final, a consumer getting blocks that are, or nothing.    *)
THEOREM Refinement == Spec => ImplementsFinalizedChain
<1>1. Init => Abstract!Init
  <2> SUFFICES ASSUME Init PROVE FinalBlocks = << >> /\ HandedBlocks = [c \in Consumers |-> << >>]
    BY DEF Abstract!Init
  <2>1. SyncerInv /\ is_canonical = {}
    BY SyncerInitInv DEF Init, SyncerInit
  <2>2. FinalBlocks = << >>
    BY <2>1, FinalBlocksFacts DEF FinalBlocksInv
  <2>3. \A c \in Consumers : [i \in 1..Len(handed[c]) |-> handed[c][i].block] = << >>
    BY DEF Init
  <2> QED BY <2>2, <2>3 DEF HandedBlocks
<1>2. Inv /\ Inv' /\ [Next]_vars => [Abstract!Next]_<<FinalBlocks, HandedBlocks>>
  <2> SUFFICES ASSUME Inv, Inv', [Next]_vars
               PROVE  Abstract!Next \/ UNCHANGED <<FinalBlocks, HandedBlocks>>
    OBVIOUS
  <2>1. ASSUME UNCHANGED <<is_canonical, bitcoin_blocks, handed>>
        PROVE  UNCHANGED <<FinalBlocks, HandedBlocks>>
    BY <2>1 DEF FinalBlocks, FinalizedCount, DbTip, IsMaxHeight, HandedBlocks
  <2>2. CASE SyncerNext /\ UNCHANGED fetcherVars
    <3>1. CASE SaveNewBlocks
      BY <2>2, <3>1, SaveFinalizes DEF Inv
    <3>2. CASE StartOnEmptyDb
      BY <2>2, <3>2, StartFinalizes DEF Inv
    <3>3. CASE ~ SaveNewBlocks /\ ~ StartOnEmptyDb
      BY <2>1, <2>2, <3>3 DEF SyncerNext, SyncerStep, NodeSwitch, StartOnSyncedDb, FetchTip, WalkBack,
                              WalkFails, SyncerFails, tables, fetcherVars
    <3> QED BY <3>1, <3>2, <3>3
  <2>3. ASSUME NEW c \in Consumers, CommitRun(c)
        PROVE  Abstract!Next
    BY <2>3, CommitHandsOn
  <2>4. CASE UNCHANGED vars
    BY <2>1, <2>4 DEF vars, syncerVars, tables, fetcherVars
  <2>5. ASSUME NEW c \in Consumers,
               FetchEvent(c) \/ ReadFullBlock(c) \/ HandleBlock(c) \/ FetcherFails(c) \/ RestartFetcher(c)
        PROVE  UNCHANGED <<FinalBlocks, HandedBlocks>>
    BY <2>1, <2>5 DEF FetchEvent, ReadFullBlock, HandleBlock, FetcherFails, RestartFetcher,
                      syncerVars, tables
  <2> QED BY <2>2, <2>3, <2>4, <2>5 DEF Next, FetcherStep
<1> QED BY <1>1, <1>2, Invariance, PTL DEF Spec, ImplementsFinalizedChain, Abstract!Spec
=============================================================================
