------------------------- MODULE StateManagerProofs -------------------------
(***************************************************************************)
(* Proofs about the state manager, for any operators, kickoffs, blocks,    *)
(* numbers of messages and failures.                                       *)
(*                                                                         *)
(* The arguments: a machine in memory or in the table has seen the blocks  *)
(* below the saved height, whatever fails and however many copies of it    *)
(* there are; and between two messages the memory and the tables agree but *)
(* for the dirty flags, as long as no recovery puts the saved machines on  *)
(* top of those that an error left in memory.  The vectors are rebuilt by  *)
(* loops; what a loop computes is shown by induction on its index, in the  *)
(* form of SetInduction.                                                   *)
(***************************************************************************)
EXTENDS StateManager, FiniteSetTheorems, WellFoundedInduction, TLAPS

(* Two copies of a machine that differ at most in the dirty flag. *)
Same(a, b) == a.id = b.id /\ a.seen = b.seen /\ a.challenged = b.challenged

(* A vector of machines of processes of S. *)
Vector(ms, S) == ms \in Seq(MachineRecords) /\ \A i \in 1..Len(ms) : ms[i].id \in S

(* One for each of some processes of S. *)
Lists(ms, S) ==
    /\ ms \in Seq(MachineRecords)
    /\ \A i \in 1..Len(ms) : ms[i].id \in S
    /\ \A i, j \in 1..Len(ms) : ms[i].id = ms[j].id => i = j

(* The machines of the vector are the ones of the table. *)
Holds(ms, S, table) ==
    /\ \A i \in 1..Len(ms) : table[ms[i].id] # NoRow /\ Same(ms[i], table[ms[i].id])
    /\ \A m \in S : table[m] # NoRow => \E i \in 1..Len(ms) : ms[i].id = m

(* A row is of its machine, and was saved dirty. *)
IsTable(table) ==
    /\ table = [m \in Machines |-> table[m]]
    /\ \A m \in Machines : table[m] # NoRow => table[m] \in MachineRecords /\ table[m].id = m /\ table[m].dirty

(* The rows are up to date. *)
RowsInv ==
    /\ IsTable(rows)
    /\ \A m \in Machines : rows[m] # NoRow => HasSeen(rows[m], dbNextHeight)
    /\ dbNextHeight \in Nat /\ dbNextHeight >= StartHeight
    /\ dbLcp \in Int /\ challenges \in SUBSET Kickoffs

(* Between two messages the memory is what the database has. *)
MemoryInv ==
    /\ pc \in {"down", "run", "recover"}
    /\ pc = "run" =>
          /\ next_height_to_process = dbNextHeight
          /\ last_processed_lcp = dbLcp
          /\ last_finalized_block = dbNextHeight - 1
          /\ Lists(round_machines, Operators) /\ Holds(round_machines, Operators, rows)
          /\ Lists(kickoff_machines, Kickoffs) /\ Holds(kickoff_machines, Kickoffs, rows)

Messages == {NewFinalizedBlock(h) : h \in Nat} \cup {LCPProcessed(h) : h \in Nat}
               \cup {NewOperator(o) : o \in Operators} \cup {NewKickoff(k) : k \in Kickoffs}

Core == queue \in Seq(Messages) /\ RowsInv /\ MemoryInv

(* The blocks that are sent are final, and the processed ones were sent. *)
BlocksInv ==
    /\ finalTip \in Int /\ nextBlock \in Int
    /\ nextBlock <= finalTip + 1 /\ dbNextHeight <= nextBlock
    /\ \A i \in 1..Len(queue) :
          queue[i].type = "NewFinalizedBlock" => queue[i].height < nextBlock
    /\ deposit \in [Kickoffs -> {"none", "open_final", "open_not_final", "signed"}]

(* The LCP messages of the queue are the ones that follow the last one *)
(* processed, in order.                                                *)
NextLcp == IF dbLcp = NoLcp THEN StartHeight ELSE dbLcp + 1
IsLcp(i) == queue[i].type = "LCPProcessed"
LcpInv ==
    /\ nextLcp \in Nat /\ (dbLcp = NoLcp \/ dbLcp \in Nat) /\ NextLcp <= nextLcp
    /\ \A i \in 1..Len(queue) : IsLcp(i) => NextLcp <= queue[i].height /\ queue[i].height < nextLcp
    /\ \A i, j \in 1..Len(queue) : IsLcp(i) /\ IsLcp(j) /\ i < j => queue[i].height < queue[j].height
    /\ \A h \in NextLcp..nextLcp - 1 : \E i \in 1..Len(queue) : IsLcp(i) /\ queue[i].height = h

(* A round is challenged once its machine says so. *)
ChallengesInv(table, cs) ==
    /\ cs \subseteq Kickoffs
    /\ \A c \in cs : /\ table[OperatorOf[c]] # NoRow
                     /\ RoundOf[c] \in table[OperatorOf[c]].challenged
    /\ \A o \in Operators : table[o] # NoRow =>
          \A r \in table[o].challenged : \E c \in cs : OperatorOf[c] = o /\ RoundOf[c] = r
    /\ \A c, d \in cs : OperatorOf[c] = OperatorOf[d] /\ RoundOf[c] = RoundOf[d] => c = d
CoveredInv ==
    \A k \in Malicious : rows[k] # NoRow /\ dbLcp >= KickoffHeight[k] =>
        /\ rows[OperatorOf[k]] # NoRow
        /\ RoundOf[k] \in rows[OperatorOf[k]].challenged

-----------------------------------------------------------------------------
(* Facts about sets and sequences. *)

(* Induction over the naturals, for a set instead of a predicate. *)
LEMMA SetInduction ==
    ASSUME NEW S, 0 \in S, \A n \in Nat : n \in S => n + 1 \in S
    PROVE  Nat \subseteq S
<1> DEFINE T == Nat \ S
           R == OpToRel(<, Nat)
<1>1. IsWellFoundedOn(R, Nat)
  BY NatLessThanWellFounded
<1>2. \A x, y \in Nat : x < y => <<x, y>> \in R
  BY DEF OpToRel
<1> HIDE DEF R
<1>3. SUFFICES ASSUME T # {} PROVE FALSE
  OBVIOUS
<1>4. PICK x \in T : \A y \in T : ~(<<y, x>> \in R)
  <2>1. T \subseteq Nat
    OBVIOUS
  <2> HIDE DEF T
  <2> QED BY <1>1, <1>3, <2>1, WFMin
<1>5. x \in Nat /\ x # 0 /\ x - 1 \in Nat /\ x - 1 < x
  OBVIOUS
<1>6. x - 1 \notin T
  BY <1>2, <1>4, <1>5
<1> QED BY <1>5, <1>6

(* A set of indices has a first and, when it is bounded, a last one. *)
LEMMA MinFacts ==
    ASSUME NEW S, S \subseteq Nat, S # {} PROVE Min(S) \in S
<1> DEFINE T == {n \in Nat : \A x \in S : ~(x < n)}
<1>1. SUFFICES ASSUME \A x \in S : \E y \in S : ~(x =< y) PROVE FALSE
  BY DEF Min
<1>2. 0 \in T
  OBVIOUS
<1>3. ASSUME NEW n \in Nat, n \in T PROVE n + 1 \in T
  <2>1. n \notin S
    <3>1. SUFFICES ASSUME n \in S PROVE FALSE
      OBVIOUS
    <3>2. PICK y \in S : ~(n =< y)
      BY <1>1, <3>1
    <3> QED BY <1>3, <3>2
  <2>2. \A x \in S : ~(x < n + 1)
    BY <1>3, <2>1
  <2> QED BY <2>2
<1>4. Nat \subseteq T
  <2> HIDE DEF T
  <2> QED BY <1>2, <1>3, SetInduction
<1>5. PICK x \in S : TRUE
  OBVIOUS
<1>6. x + 1 \in T /\ x < x + 1
  BY <1>4, <1>5
<1> QED BY <1>6

LEMMA MaxFacts ==
    ASSUME NEW n \in Nat, NEW S, S \subseteq 1..n, S # {} PROVE Max(S) \in S
<1> DEFINE T == {d \in Nat : \A x \in S : ~(n - d < x)}
<1>1. SUFFICES ASSUME \A x \in S : \E y \in S : ~(x >= y) PROVE FALSE
  BY DEF Max
<1>2. 0 \in T
  OBVIOUS
<1>3. ASSUME NEW d \in Nat, d \in T PROVE d + 1 \in T
  <2>1. n - d \notin S
    <3>1. SUFFICES ASSUME n - d \in S PROVE FALSE
      OBVIOUS
    <3>2. PICK y \in S : ~(n - d >= y)
      BY <1>1, <3>1
    <3> QED BY <1>3, <3>2
  <2>2. \A x \in S : ~(n - (d + 1) < x)
    BY <1>3, <2>1
  <2> QED BY <2>2
<1>4. Nat \subseteq T
  <2> HIDE DEF T
  <2> QED BY <1>2, <1>3, SetInduction
<1>5. PICK x \in S : TRUE
  OBVIOUS
<1>6. n \in T /\ n - n < x
  BY <1>4, <1>5
<1> QED BY <1>6

(* The values of a loop of n steps: G[<<i, v>>] is the value after step i. *)
IsLoop(V, base, n, G, f) ==
    f \in [0..n -> V] /\ f[0] = base /\ \A i \in 1..n : f[i] = G[<<i, f[i - 1]>>]

LEMMA LoopExists ==
    ASSUME NEW V, NEW base, NEW n, NEW G,
           base \in V, n \in Nat, G \in [(1..n) \X V -> V]
    PROVE  \E f : IsLoop(V, base, n, G, f)
<1> DEFINE Runs(j, f) == f[0] = base /\ \A i \in 1..j : f[i] = G[<<i, f[i - 1]>>]
           S == {j \in Nat : j <= n => \E f \in [0..j -> V] : Runs(j, f)}
<1>1. 0 \in S
  <2> DEFINE f == [i \in 0..0 |-> base]
  <2>1. f \in [0..0 -> V] /\ Runs(0, f)
    OBVIOUS
  <2> HIDE DEF f, Runs
  <2> QED BY <2>1
<1>2. ASSUME NEW j \in Nat, j \in S PROVE j + 1 \in S
  <2> SUFFICES ASSUME j + 1 <= n PROVE \E f \in [0..j + 1 -> V] : Runs(j + 1, f)
    OBVIOUS
  <2>1. PICK f \in [0..j -> V] : Runs(j, f)
    BY <1>2
  <2> DEFINE v == G[<<j + 1, f[j]>>]
             g == [i \in 0..j + 1 |-> IF i = j + 1 THEN v ELSE f[i]]
  <2>2. v \in V
    <3>1. <<j + 1, f[j]>> \in (1..n) \X V
      OBVIOUS
    <3> QED BY <3>1
  <2>3. g \in [0..j + 1 -> V]
    <3> HIDE DEF v
    <3> QED BY <2>2
  <2>4. Runs(j + 1, g)
    <3>1. g[0] = base
      BY <2>1
    <3>2. ASSUME NEW i \in 1..j + 1 PROVE g[i] = G[<<i, g[i - 1]>>]
      <4>1. g[i - 1] = f[i - 1]
        <5>1. i - 1 \in 0..j + 1 /\ i - 1 # j + 1
          OBVIOUS
        <5> HIDE DEF v
        <5> QED BY <5>1
      <4>2. CASE i = j + 1
        <5>1. g[i] = v /\ i - 1 = j
          <6> HIDE DEF v
          <6> QED BY <4>2
        <5>2. g[i - 1] = f[j]
          BY <4>1, <5>1
        <5> HIDE DEF g
        <5> QED BY <4>2, <5>1, <5>2
      <4>3. CASE i # j + 1
        <5>1. i \in 1..j /\ g[i] = f[i]
          BY <4>3
        <5> QED BY <2>1, <4>1, <5>1
      <4> QED BY <4>2, <4>3
    <3> QED BY <3>1, <3>2
  <2> HIDE DEF g, Runs
  <2> QED BY <2>3, <2>4
<1>3. n \in S
  <2> HIDE DEF S
  <2> QED BY <1>1, <1>2, SetInduction
<1> QED BY <1>3 DEF IsLoop

(* Two sequences, one after the other. *)
LEMMA JoinFacts ==
    ASSUME NEW X, NEW s \in Seq(X), NEW t \in Seq(X)
    PROVE  /\ s \o t \in Seq(X) /\ Len(s) \in Nat /\ Len(t) \in Nat /\ Len(s \o t) = Len(s) + Len(t)
           /\ \A j \in 1..Len(s) : (s \o t)[j] = s[j] /\ j \in 1..Len(s \o t)
           /\ \A j \in 1..Len(t) : (s \o t)[Len(s) + j] = t[j] /\ Len(s) + j \in 1..Len(s \o t)
           /\ \A j \in 1..Len(s \o t) : j \in 1..Len(s) \/ \E k \in 1..Len(t) : j = Len(s) + k
<1> DEFINE new == s \o t
           ls == Len(s)
           lt == Len(t)
<1>1. /\ new \in Seq(X) /\ ls \in Nat /\ lt \in Nat /\ Len(new) = ls + lt
      /\ \A j \in 1..ls : new[j] = s[j]
      /\ \A j \in ls + 1..ls + lt : new[j] = t[j - ls]
  OBVIOUS
<1> HIDE DEF new, ls, lt
<1>2. \A j \in 1..lt : ls + j \in ls + 1..ls + lt /\ (ls + j) - ls = j /\ ls + j \in 1..Len(new)
  BY <1>1
<1>3. ASSUME NEW j \in 1..Len(new), j \notin 1..ls PROVE \E k \in 1..lt : j = ls + k
  <2>1. j - ls \in 1..lt /\ j = ls + (j - ls)
    BY <1>1, <1>3
  <2> QED BY <2>1
<1>4. /\ new \in Seq(X) /\ ls \in Nat /\ lt \in Nat /\ Len(new) = ls + lt
      /\ \A j \in 1..ls : new[j] = s[j] /\ j \in 1..Len(new)
      /\ \A j \in 1..lt : new[ls + j] = t[j] /\ ls + j \in 1..Len(new)
      /\ \A j \in 1..Len(new) : j \in 1..ls \/ \E k \in 1..lt : j = ls + k
  BY <1>1, <1>2, <1>3
<1> QED BY <1>4, Zenon DEF new, ls, lt

-----------------------------------------------------------------------------
(* What process_block_parallel makes of a vector of machines. *)

(* A machine after a block. *)
After(m, h) == IF Moves(m, h) THEN Moved(m, h) ELSE m

(* The two vectors of Advance, after each machine. *)
IsSplit(machines, h, f) ==
    f = [i \in 0..Len(machines) |->
            IF i = 0 THEN [unchanged |-> << >>, changed |-> << >>]
            ELSE IF Moves(machines[i], h)
            THEN [unchanged |-> f[i - 1].unchanged,
                  changed |-> Append(f[i - 1].changed, Moved(machines[i], h))]
            ELSE [unchanged |-> Append(f[i - 1].unchanged, machines[i]),
                  changed |-> f[i - 1].changed]]

(* A machine that a block moves stays the machine of its process. *)
LEMMA MovedFacts ==
    ASSUME NEW m \in MachineRecords, NEW h, Moves(m, h)
    PROVE  /\ Moved(m, h) \in MachineRecords
           /\ Moved(m, h).id = m.id /\ Moved(m, h).seen = m.seen \cup {h}
           /\ Moved(m, h).challenged = m.challenged /\ Moved(m, h).dirty = TRUE
<1>1. Activity[m.id] \in SUBSET (StartHeight..MaxHeight) /\ m.id \in Machines
  BY ManagerAssumption DEF MachineRecords
<1>2. m.seen \cup {h} \in SUBSET (StartHeight..MaxHeight)
  BY <1>1 DEF Moves, MachineRecords
<1> QED BY <1>2 DEF Moved, MachineRecords

LEMMA SplitExists ==
    ASSUME NEW ms \in Seq(MachineRecords), NEW h
    PROVE  \E f : /\ IsSplit(ms, h, f)
                  /\ f \in [0..Len(ms) -> [unchanged : Seq(MachineRecords), changed : Seq(MachineRecords)]]
<1> DEFINE V == [unchanged : Seq(MachineRecords), changed : Seq(MachineRecords)]
           n == Len(ms)
           base == [unchanged |-> << >>, changed |-> << >>]
           G == [x \in (1..n) \X V |->
                    IF Moves(ms[x[1]], h)
                    THEN [unchanged |-> x[2].unchanged,
                          changed |-> Append(x[2].changed, Moved(ms[x[1]], h))]
                    ELSE [unchanged |-> Append(x[2].unchanged, ms[x[1]]),
                          changed |-> x[2].changed]]
<1>1. base \in V /\ n \in Nat
  OBVIOUS
<1>2. G \in [(1..n) \X V -> V]
  <2> SUFFICES ASSUME NEW i \in 1..n, NEW v \in V PROVE G[<<i, v>>] \in V
    OBVIOUS
  <2>1. ms[i] \in MachineRecords /\ v.unchanged \in Seq(MachineRecords) /\ v.changed \in Seq(MachineRecords)
    OBVIOUS
  <2>0. G[<<i, v>>] = IF Moves(ms[i], h)
                      THEN [unchanged |-> v.unchanged,
                            changed |-> Append(v.changed, Moved(ms[i], h))]
                      ELSE [unchanged |-> Append(v.unchanged, ms[i]), changed |-> v.changed]
    <3> HIDE DEF V
    <3> QED OBVIOUS
  <2>2. CASE Moves(ms[i], h)
    <3>0. Moved(ms[i], h) \in MachineRecords
      BY <2>1, <2>2, MovedFacts
    <3>1. Append(v.changed, Moved(ms[i], h)) \in Seq(MachineRecords)
      BY <2>1, <3>0
    <3>2. G[<<i, v>>] = [unchanged |-> v.unchanged, changed |-> Append(v.changed, Moved(ms[i], h))]
      BY <2>0, <2>2
    <3> HIDE DEF G
    <3> QED BY <2>1, <3>1, <3>2
  <2>3. CASE ~Moves(ms[i], h)
    <3>1. Append(v.unchanged, ms[i]) \in Seq(MachineRecords)
      BY <2>1
    <3>2. G[<<i, v>>] = [unchanged |-> Append(v.unchanged, ms[i]), changed |-> v.changed]
      BY <2>0, <2>3
    <3> HIDE DEF G
    <3> QED BY <2>1, <3>1, <3>2
  <2> QED BY <2>2, <2>3
<1>3. PICK f : f \in [0..n -> V] /\ f[0] = base /\ \A i \in 1..n : f[i] = G[<<i, f[i - 1]>>]
  <2> HIDE DEF V, n, base, G
  <2>1. \E f : IsLoop(V, base, n, G, f)
    BY <1>1, <1>2, LoopExists
  <2> QED BY <2>1 DEF IsLoop
<1>4. ASSUME NEW i \in 1..n
      PROVE  f[i] = IF Moves(ms[i], h)
                    THEN [unchanged |-> f[i - 1].unchanged,
                          changed |-> Append(f[i - 1].changed, Moved(ms[i], h))]
                    ELSE [unchanged |-> Append(f[i - 1].unchanged, ms[i]),
                          changed |-> f[i - 1].changed]
  <2>1. i - 1 \in 0..n
    OBVIOUS
  <2>2. f[i - 1] \in V
    BY <1>3, <2>1
  <2> DEFINE v == f[i - 1]
  <2>3. <<i, v>> \in (1..n) \X V
    BY <2>2
  <2>4. f[i] = G[<<i, v>>]
    BY <1>3
  <2> HIDE DEF v, V
  <2> QED BY <2>3, <2>4 DEF v
<1>5. IsSplit(ms, h, f)
  <2>1. \A i \in 0..n : i = 0 \/ i \in 1..n
    OBVIOUS
  <2>2. f = [i \in 0..n |-> f[i]]
    BY <1>3
  <2> HIDE DEF V, n
  <2>3. f = [i \in 0..n |->
               IF i = 0 THEN [unchanged |-> << >>, changed |-> << >>]
               ELSE IF Moves(ms[i], h)
               THEN [unchanged |-> f[i - 1].unchanged,
                     changed |-> Append(f[i - 1].changed, Moved(ms[i], h))]
               ELSE [unchanged |-> Append(f[i - 1].unchanged, ms[i]),
                     changed |-> f[i - 1].changed]]
    BY <1>3, <1>4, <2>1, <2>2
  <2> QED BY <2>3 DEF IsSplit, n
<1> QED BY <1>3, <1>5

(* Where the machines are after a block: each is in the new vector, changed *)
(* if the block matches it, and no other is.                                *)
LEMMA AdvanceFacts ==
    ASSUME NEW S, NEW ms, Vector(ms, S), NEW h
    PROVE  /\ Vector(Advance(ms, h), S)
           /\ Lists(ms, S) => Lists(Advance(ms, h), S)
           /\ \A j \in 1..Len(Advance(ms, h)) : \E i \in 1..Len(ms) : Advance(ms, h)[j] = After(ms[i], h)
           /\ \A i \in 1..Len(ms) : \E j \in 1..Len(Advance(ms, h)) : Advance(ms, h)[j] = After(ms[i], h)
<1> DEFINE MR == MachineRecords
           f == CHOOSE f : IsSplit(ms, h, f)
           n == Len(ms)
           u == f[n].unchanged
           c == f[n].changed
<1>1. ms \in Seq(MR) /\ n \in Nat
  BY DEF Vector
<1>2. IsSplit(ms, h, f) 
  <2>1. \E g : IsSplit(ms, h, g)
    BY <1>1, SplitExists
  <2> QED BY <2>1, Zenon
<1>3. Advance(ms, h) = u \o c
  BY DEF Advance, IsSplit
<1> HIDE DEF f
<1>4. /\ f[0] = [unchanged |-> << >>, changed |-> << >>]
      /\ \A i \in 1..n : f[i] = IF Moves(ms[i], h)
                                THEN [unchanged |-> f[i - 1].unchanged,
                                      changed |-> Append(f[i - 1].changed, Moved(ms[i], h))]
                                ELSE [unchanged |-> Append(f[i - 1].unchanged, ms[i]),
                                      changed |-> f[i - 1].changed]
  <2>1. 0 \in 0..n /\ \A i \in 1..n : i \in 0..n /\ i # 0
    BY <1>1
  <2> HIDE DEF n
  <2> QED BY <1>2, <2>1 DEF IsSplit, n
<1> DEFINE Half(s, i, moved) ==
              /\ s \in Seq(MR)
              /\ \A j \in 1..Len(s) : \E p \in 1..i : (Moves(ms[p], h) <=> moved) /\ s[j] = After(ms[p], h)
              /\ \A p \in 1..i : (Moves(ms[p], h) <=> moved) => \E j \in 1..Len(s) : s[j] = After(ms[p], h)
              /\ Lists(ms, S) => \A j, k \in 1..Len(s) : s[j].id = s[k].id => j = k
           J(i) == Half(f[i].unchanged, i, FALSE) /\ Half(f[i].changed, i, TRUE)
<1>5. \A p \in 1..n : /\ ms[p] \in MR /\ After(ms[p], h) \in MR /\ After(ms[p], h).id = ms[p].id
                     /\ ms[p].id \in S
  <2> SUFFICES ASSUME NEW p \in 1..n
               PROVE  /\ ms[p] \in MR /\ After(ms[p], h) \in MR /\ After(ms[p], h).id = ms[p].id
                      /\ ms[p].id \in S
    OBVIOUS
  <2>1. ms[p] \in MR /\ ms[p].id \in S
    BY <1>1 DEF Vector
  <2>2. CASE Moves(ms[p], h)
    BY <2>1, <2>2, MovedFacts DEF After
  <2>3. CASE ~Moves(ms[p], h)
    BY <2>1, <2>3 DEF After
  <2> QED BY <2>1, <2>2, <2>3
<1>6. Lists(ms, S) => \A p, q \in 1..n : ms[p].id = ms[q].id => p = q
  BY DEF Lists
<1>7. J(0)
  <2>1. f[0].unchanged = << >> /\ f[0].changed = << >>
    BY <1>4
  <2> QED BY <2>1
(* One machine more in the half it belongs to, and the other half as it was. *)
<1>8. ASSUME NEW s, NEW i \in 1..n, NEW moved \in BOOLEAN, Half(s, i - 1, moved)
      PROVE  /\ (Moves(ms[i], h) <=> moved) => Half(Append(s, After(ms[i], h)), i, moved)
             /\ ~(Moves(ms[i], h) <=> moved) => Half(s, i, moved)
  <2>1. \A p \in 1..i : p \in 1..i - 1 \/ p = i
    BY <1>1
  <2>2. \A p \in 1..i - 1 : p \in 1..i /\ p # i /\ p \in 1..n
    BY <1>1
  <2>3. i \in 1..i /\ Len(s) \in Nat /\ s \in Seq(MR)
    BY <1>1, <1>8
  <2>4. ASSUME Moves(ms[i], h) <=> moved PROVE Half(Append(s, After(ms[i], h)), i, moved)
    <3> DEFINE m == After(ms[i], h)
               t == Append(s, m)
               l == Len(s)
    <3>1. m \in MR /\ m.id = ms[i].id
      BY <1>5
    <3> HIDE DEF m
    <3>2. /\ t \in Seq(MR) /\ Len(t) = l + 1 /\ t[l + 1] = m /\ l \in Nat
          /\ \A j \in 1..l : t[j] = s[j]
      BY <2>3, <3>1
    <3> HIDE DEF t, l
    <3>3. \A j \in 1..Len(t) : j \in 1..l \/ j = l + 1
      BY <3>2
    <3>3a. \A j \in 1..l : j \in 1..Len(t) 
      BY <3>2
    <3>3b. l + 1 \in 1..Len(t)
      BY <3>2
    <3>4. ASSUME NEW j \in 1..Len(t) PROVE \E p \in 1..i : (Moves(ms[p], h) <=> moved) /\ t[j] = After(ms[p], h)
      <4>1. CASE j = l + 1
        BY <2>3, <2>4, <3>2, <4>1 DEF m
      <4>2. CASE j \in 1..l
        <5>1. PICK p \in 1..i - 1 : (Moves(ms[p], h) <=> moved) /\ s[j] = After(ms[p], h)
          BY <1>8, <4>2 DEF l
        <5> QED BY <2>2, <3>2, <4>2, <5>1
      <4> QED BY <3>3, <4>1, <4>2
    <3>5. ASSUME NEW p \in 1..i, Moves(ms[p], h) <=> moved PROVE \E j \in 1..Len(t) : t[j] = After(ms[p], h)
      <4>1. CASE p = i
        BY <3>2, <3>3b, <4>1 DEF m
      <4>2. CASE p \in 1..i - 1
        <5>1. PICK j \in 1..l : s[j] = After(ms[p], h)
          BY <1>8, <3>5, <4>2 DEF l
        <5> QED BY <3>2, <3>3a, <5>1
      <4> QED BY <2>1, <4>1, <4>2
    <3>6. ASSUME Lists(ms, S), NEW j \in 1..l PROVE s[j].id # m.id
      <4>1. PICK p \in 1..i - 1 : s[j] = After(ms[p], h)
        BY <1>8 DEF l
      <4>2. s[j].id = ms[p].id /\ p # i /\ p \in 1..n
        BY <1>5, <2>2, <4>1
      <4> QED BY <1>6, <3>1, <3>6, <4>2
    <3>7. ASSUME Lists(ms, S), NEW j \in 1..Len(t), NEW k \in 1..Len(t), t[j].id = t[k].id PROVE j = k
      <4>1. CASE j \in 1..l /\ k \in 1..l
        <5>1. s[j].id = s[k].id
          BY <3>2, <3>7, <4>1
        <5> QED BY <1>8, <3>7, <4>1, <5>1 DEF l
      <4>2. CASE j \in 1..l /\ k = l + 1
        BY <3>2, <3>6, <3>7, <4>2
      <4>3. CASE j = l + 1 /\ k \in 1..l
        <5>1. t[k].id = m.id
          BY <3>2, <3>7, <4>3
        <5> QED BY <3>2, <3>6, <3>7, <4>3, <5>1
      <4> QED BY <3>3, <4>1, <4>2, <4>3
    <3>8. Half(t, i, moved)
      BY <3>2, <3>4, <3>5, <3>7
    <3> QED BY <3>8 DEF t, m
  <2>5. ASSUME ~(Moves(ms[i], h) <=> moved) PROVE Half(s, i, moved)
    <3>1. \A j \in 1..Len(s) : \E p \in 1..i : (Moves(ms[p], h) <=> moved) /\ s[j] = After(ms[p], h)
      BY <1>8, <2>2
    <3>2. \A p \in 1..i : (Moves(ms[p], h) <=> moved) => \E j \in 1..Len(s) : s[j] = After(ms[p], h)
      BY <1>8, <2>1, <2>5
    <3> QED BY <1>8, <3>1, <3>2
  <2> QED BY <2>4, <2>5
<1> HIDE DEF Half
<1>9. ASSUME NEW i \in 1..n, J(i - 1) PROVE J(i)
  <2>1. CASE Moves(ms[i], h)
    <3>1. f[i].unchanged = f[i - 1].unchanged /\ f[i].changed = Append(f[i - 1].changed, After(ms[i], h))
      <4>1. f[i] = [unchanged |-> f[i - 1].unchanged,
                    changed |-> Append(f[i - 1].changed, Moved(ms[i], h))]
        BY <1>4, <2>1
      <4>2. After(ms[i], h) = Moved(ms[i], h)
        BY <2>1 DEF After
      <4> QED BY <4>1, <4>2
    <3>2. Half(f[i - 1].unchanged, i, FALSE)
      BY <1>8, <1>9, <2>1
    <3>3. Half(Append(f[i - 1].changed, After(ms[i], h)), i, TRUE)
      BY <1>8, <1>9, <2>1
    <3> QED BY <3>1, <3>2, <3>3
  <2>2. CASE ~Moves(ms[i], h)
    <3>1. f[i].changed = f[i - 1].changed /\ f[i].unchanged = Append(f[i - 1].unchanged, After(ms[i], h))
      <4>1. f[i] = [unchanged |-> Append(f[i - 1].unchanged, ms[i]),
                    changed |-> f[i - 1].changed]
        BY <1>4, <2>2
      <4>2. After(ms[i], h) = ms[i]
        BY <2>2 DEF After
      <4> QED BY <4>1, <4>2
    <3>2. Half(f[i - 1].changed, i, TRUE)
      BY <1>8, <1>9, <2>2
    <3>3. Half(Append(f[i - 1].unchanged, After(ms[i], h)), i, FALSE)
      BY <1>8, <1>9, <2>2
    <3> QED BY <3>1, <3>2, <3>3
  <2> QED BY <2>1, <2>2
<1>10. J(n)
  <2> DEFINE T == {i \in Nat : i <= n => J(i)}
  <2> HIDE DEF J
  <2>1. 0 \in T
    BY <1>7
  <2>2. ASSUME NEW i \in Nat, i \in T PROVE i + 1 \in T
    <3> SUFFICES ASSUME i + 1 <= n PROVE J(i + 1)
      OBVIOUS
    <3>1. i + 1 \in 1..n /\ (i + 1) - 1 = i /\ J(i)
      BY <1>1, <2>2
    <3> QED BY <1>9, <3>1
  <2>3. n \in T
    <3> HIDE DEF T
    <3> QED BY <1>1, <2>1, <2>2, SetInduction
  <2> QED BY <1>1, <2>3
<1> HIDE DEF u, c
<1>11. Half(u, n, FALSE) /\ Half(c, n, TRUE)
  BY <1>10 DEF u, c
<1> DEFINE new == u \o c
           lu == Len(u)
           lc == Len(c)
<1>12. /\ new \in Seq(MR) /\ lu \in Nat /\ lc \in Nat /\ Len(new) = lu + lc
       /\ \A j \in 1..lu : new[j] = u[j] /\ j \in 1..Len(new)
       /\ \A j \in 1..lc : new[lu + j] = c[j] /\ lu + j \in 1..Len(new)
       /\ \A j \in 1..Len(new) : j \in 1..lu \/ \E k \in 1..lc : j = lu + k
  <2>1. u \in Seq(MR) /\ c \in Seq(MR)
    BY <1>11 DEF Half
  <2> QED BY <2>1, JoinFacts
<1>13. /\ \A j \in 1..lu : \E p \in 1..n : ~Moves(ms[p], h) /\ u[j] = After(ms[p], h)
       /\ \A j \in 1..lc : \E p \in 1..n : Moves(ms[p], h) /\ c[j] = After(ms[p], h)
       /\ \A p \in 1..n : ~Moves(ms[p], h) => \E j \in 1..lu : u[j] = After(ms[p], h)
       /\ \A p \in 1..n : Moves(ms[p], h) => \E j \in 1..lc : c[j] = After(ms[p], h)
       /\ Lists(ms, S) => \A j, k \in 1..lu : u[j].id = u[k].id => j = k
       /\ Lists(ms, S) => \A j, k \in 1..lc : c[j].id = c[k].id => j = k
  BY <1>11 DEF Half
<1> HIDE DEF new, lu, lc
<1>14. ASSUME NEW j \in 1..Len(new) PROVE \E p \in 1..n : new[j] = After(ms[p], h)
  <2>1. CASE j \in 1..lu
    <3>1. new[j] = u[j]
      BY <1>12, <2>1
    <3>2. PICK p \in 1..n : u[j] = After(ms[p], h)
      BY <1>13, <2>1
    <3> QED BY <3>1, <3>2
  <2>2. CASE j \notin 1..lu
    <3>1. PICK k \in 1..lc : j = lu + k /\ new[j] = c[k]
      BY <1>12, <2>2
    <3> QED BY <1>13, <3>1
  <2> QED BY <2>1, <2>2
<1>15. ASSUME NEW p \in 1..n PROVE \E j \in 1..Len(new) : new[j] = After(ms[p], h)
  <2>1. CASE Moves(ms[p], h)
    <3>1. PICK j \in 1..lc : c[j] = After(ms[p], h)
      BY <1>13, <2>1
    <3> QED BY <1>12, <3>1
  <2>2. CASE ~Moves(ms[p], h)
    <3>1. PICK j \in 1..lu : u[j] = After(ms[p], h)
      BY <1>13, <2>2
    <3> QED BY <1>12, <3>1
  <2> QED BY <2>1, <2>2
<1>16. ASSUME Lists(ms, S), NEW j \in 1..lu, NEW k \in 1..lc PROVE u[j].id # c[k].id
  <2>1. PICK p \in 1..n : ~Moves(ms[p], h) /\ u[j] = After(ms[p], h)
    BY <1>13
  <2>2. PICK q \in 1..n : Moves(ms[q], h) /\ c[k] = After(ms[q], h)
    BY <1>13
  <2>3. p # q
    BY <2>1, <2>2
  <2> QED BY <1>5, <1>6, <1>16, <2>1, <2>2, <2>3
<1>17. ASSUME Lists(ms, S), NEW j \in 1..Len(new), NEW k \in 1..Len(new), new[j].id = new[k].id PROVE j = k
  <2>1. CASE j \in 1..lu /\ k \in 1..lu
    BY <1>12, <1>13, <1>17, <2>1
  <2>2. CASE j \in 1..lu /\ k \notin 1..lu
    <3>1. PICK b \in 1..lc : k = lu + b /\ new[k] = c[b]
      BY <1>12, <2>2
    <3>2. new[j] = u[j]
      BY <1>12, <2>2
    <3> QED BY <1>16, <1>17, <2>2, <3>1, <3>2
  <2>3. CASE j \notin 1..lu /\ k \in 1..lu
    <3>1. PICK b \in 1..lc : j = lu + b /\ new[j] = c[b]
      BY <1>12, <2>3
    <3>2. new[k] = u[k]
      BY <1>12, <2>3
    <3> QED BY <1>16, <1>17, <2>3, <3>1, <3>2
  <2>4. CASE j \notin 1..lu /\ k \notin 1..lu
    <3>1. PICK a \in 1..lc : j = lu + a /\ new[j] = c[a]
      BY <1>12, <2>4
    <3>2. PICK b \in 1..lc : k = lu + b /\ new[k] = c[b]
      BY <1>12, <2>4
    <3>3. a = b
      BY <1>13, <1>17, <3>1, <3>2
    <3> QED BY <3>1, <3>2, <3>3
  <2> QED BY <2>1, <2>2, <2>3, <2>4
<1>18. \A j \in 1..Len(new) : new[j].id \in S
  BY <1>5, <1>14
<1>19. Vector(new, S) /\ (Lists(ms, S) => Lists(new, S))
  BY <1>12, <1>17, <1>18 DEF Lists, Vector
<1>20. Advance(ms, h) = new
  BY <1>3 DEF new
<1> QED BY <1>14, <1>15, <1>19, <1>20

-----------------------------------------------------------------------------
(* What check_if_kickoff_malicious does, once and for all kickoffs of a block. *)

(* The round machines after some checks: more rounds may be challenged. *)
Extends(old, new) ==
    /\ Len(new) = Len(old)
    /\ \A i \in 1..Len(old) :
          /\ new[i].id = old[i].id /\ new[i].seen = old[i].seen
          /\ old[i].challenged \subseteq new[i].challenged
          /\ new[i] = old[i] \/ new[i].dirty

(* ChallengesInv for the machines in memory. *)
ChallengesIn(ms, cs) ==
    /\ \A c \in cs : \E i \in 1..Len(ms) : ms[i].id = OperatorOf[c] /\ RoundOf[c] \in ms[i].challenged
    /\ \A i \in 1..Len(ms) : \A r \in ms[i].challenged :
          \E c \in cs : OperatorOf[c] = ms[i].id /\ RoundOf[c] = r
    /\ \A c, d \in cs : OperatorOf[c] = OperatorOf[d] /\ RoundOf[c] = RoundOf[d] => c = d

(* The round of a kickoff is challenged. *)
IsChallenged(ms, k) == \E i \in 1..Len(ms) : ms[i].id = OperatorOf[k] /\ RoundOf[k] \in ms[i].challenged

(* get_round_machine finds a machine of an operator that has one. *)
LEMMA RoundMachineFacts ==
    ASSUME NEW ms \in Seq(MachineRecords), NEW o
    PROVE  /\ RoundMachine(ms, o) # 0 =>
                 RoundMachine(ms, o) \in 1..Len(ms) /\ ms[RoundMachine(ms, o)].id = o
           /\ RoundMachine(ms, o) = 0 <=> \A i \in 1..Len(ms) : ms[i].id # o
<1> DEFINE I == {i \in 1..Len(ms) : ms[i].id = o}
<1>1. RoundMachine(ms, o) = IF I # {} THEN Min(I) ELSE 0
  BY DEF RoundMachine, SelectInSeq
<1>2. CASE I = {}
  BY <1>1, <1>2
<1>3. CASE I # {}
  <2>1. I \subseteq Nat
    OBVIOUS
  <2>2. Min(I) \in I
    <3> HIDE DEF I
    <3> QED BY <1>3, <2>1, MinFacts
  <2>3. RoundMachine(ms, o) = Min(I)
    BY <1>1, <1>3
  <2>4. Min(I) \in 1..Len(ms) /\ ms[Min(I)].id = o /\ Min(I) # 0
    <3> DEFINE x == Min(I)
    <3>1. x \in I
      BY <2>2
    <3> HIDE DEF x
    <3> QED BY <3>1 DEF x
  <2> QED BY <2>3, <2>4
<1> QED BY <1>2, <1>3

(* The type of the state that the checks change. *)
CheckStates == [round_machines : Seq(MachineRecords), challenges : SUBSET Kickoffs]

LEMMA CheckFacts ==
    ASSUME NEW st \in CheckStates, NEW k \in Kickoffs,
           RoundMachine(st.round_machines, OperatorOf[k]) # 0
    PROVE  /\ CheckIfKickoffMalicious(st, k) \in CheckStates
           /\ Lists(st.round_machines, Operators) =>
                 Lists(CheckIfKickoffMalicious(st, k).round_machines, Operators)
           /\ Extends(st.round_machines, CheckIfKickoffMalicious(st, k).round_machines)
           /\ k \in Malicious => IsChallenged(CheckIfKickoffMalicious(st, k).round_machines, k)
           /\ Lists(st.round_machines, Operators) /\ ChallengesIn(st.round_machines, st.challenges) =>
                 ChallengesIn(CheckIfKickoffMalicious(st, k).round_machines,
                              CheckIfKickoffMalicious(st, k).challenges)
<1> DEFINE ms == st.round_machines
           cs == st.challenges
           i == RoundMachine(ms, OperatorOf[k])
           r == RoundOf[k]
           new == CheckIfKickoffMalicious(st, k)
<1>1. i \in 1..Len(ms) /\ ms[i].id = OperatorOf[k] /\ ms \in Seq(MachineRecords) /\ cs \in SUBSET Kickoffs
  <2>1. ms \in Seq(MachineRecords) /\ cs \in SUBSET Kickoffs
    BY DEF CheckStates
  <2> HIDE DEF ms, cs
  <2>2. i \in 1..Len(ms) /\ ms[i].id = OperatorOf[k]
    BY <2>1, RoundMachineFacts DEF ms
  <2> QED BY <2>1, <2>2
<1>2. CASE ~(k \in Malicious /\ r \notin ms[i].challenged)
  <2>1. new = st
    BY <1>2 DEF CheckIfKickoffMalicious
  <2>2. Extends(ms, ms)
    BY DEF Extends
  <2>3. k \in Malicious => IsChallenged(ms, k)
    BY <1>1, <1>2 DEF IsChallenged
  <2> HIDE DEF new
  <2> QED BY <2>1, <2>2, <2>3 DEF new
<1>3. CASE k \in Malicious /\ r \notin ms[i].challenged
  <2> DEFINE m == [ms[i] EXCEPT !.challenged = ms[i].challenged \cup {r}, !.dirty = TRUE]
             ns == [ms EXCEPT ![i] = m]
  <2>1. new = [round_machines |-> [ms EXCEPT ![i].challenged = ms[i].challenged \cup {r}, ![i].dirty = TRUE],
               challenges |-> cs \cup {k}]
    BY <1>3 DEF CheckIfKickoffMalicious
  <2>2. /\ m \in MachineRecords /\ m.id = ms[i].id /\ m.seen = ms[i].seen
        /\ m.challenged = ms[i].challenged \cup {r} /\ m.dirty = TRUE
    <3>1. ms[i] \in MachineRecords /\ r \in Rounds
      BY <1>1 DEF Rounds
    <3>2. ms[i].challenged \cup {r} \in SUBSET Rounds
      BY <3>1 DEF MachineRecords
    <3> QED BY <3>1, <3>2 DEF MachineRecords
  <2>3. [ms EXCEPT ![i].challenged = ms[i].challenged \cup {r}, ![i].dirty = TRUE] = ns
    BY <1>1
  <2>4. new = [round_machines |-> ns, challenges |-> cs \cup {k}]
    BY <2>1, <2>3
  <2> HIDE DEF m, new, ms, cs, i
  <2>5. /\ ns \in Seq(MachineRecords) /\ Len(ns) = Len(ms) /\ ns[i] = m
        /\ \A j \in 1..Len(ms) : j # i => ns[j] = ms[j]
    BY <1>1, <2>2
  <2> HIDE DEF ns
  <2>6. new.round_machines = ns /\ new.challenges = cs \cup {k} /\ new \in CheckStates
    BY <1>1, <2>4, <2>5 DEF CheckStates
  <2>7. \A j \in 1..Len(ms) : ns[j].id = ms[j].id
    BY <2>2, <2>5
  <2>8. Lists(ms, Operators) => Lists(ns, Operators)
    BY <2>5, <2>7 DEF Lists
  <2>9. Extends(ms, ns)
    BY <2>2, <2>5 DEF Extends
  <2>10. IsChallenged(ns, k)
    BY <1>1, <2>2, <2>5 DEF IsChallenged, r
  <2>11. ASSUME Lists(ms, Operators), ChallengesIn(ms, cs) PROVE ChallengesIn(ns, cs \cup {k})
    <3>1. ASSUME NEW c \in cs \cup {k}
          PROVE  \E j \in 1..Len(ns) : ns[j].id = OperatorOf[c] /\ RoundOf[c] \in ns[j].challenged
      <4>1. CASE c = k
        BY <2>10, <4>1 DEF IsChallenged
      <4>2. CASE c \in cs
        <5>1. PICK j \in 1..Len(ms) : ms[j].id = OperatorOf[c] /\ RoundOf[c] \in ms[j].challenged
          BY <2>11, <4>2 DEF ChallengesIn
        <5> QED BY <2>5, <2>9, <5>1 DEF Extends
      <4> QED BY <4>1, <4>2
    <3>2. ASSUME NEW j \in 1..Len(ns), NEW x \in ns[j].challenged
          PROVE  \E c \in cs \cup {k} : OperatorOf[c] = ns[j].id /\ RoundOf[c] = x
      <4>1. CASE j = i /\ x = r
        BY <1>1, <2>2, <2>5, <4>1 DEF r
      <4>2. CASE x \in ms[j].challenged
        <5>1. PICK c \in cs : OperatorOf[c] = ms[j].id /\ RoundOf[c] = x
          BY <2>5, <2>11, <4>2 DEF ChallengesIn
        <5> QED BY <2>5, <2>7, <5>1
      <4>3. (j = i /\ x = r) \/ x \in ms[j].challenged
        BY <2>2, <2>5
      <4> QED BY <4>1, <4>2, <4>3
    <3>3. ASSUME NEW c \in cs, OperatorOf[c] = OperatorOf[k], RoundOf[c] = RoundOf[k] PROVE FALSE
      <4>1. PICK j \in 1..Len(ms) : ms[j].id = OperatorOf[c] /\ RoundOf[c] \in ms[j].challenged
        BY <2>11 DEF ChallengesIn
      <4>2. j = i
        BY <1>1, <2>11, <3>3, <4>1 DEF Lists
      <4> QED BY <1>3, <3>3, <4>1, <4>2 DEF r
    <3> QED BY <2>11, <3>1, <3>2, <3>3 DEF ChallengesIn
  <2> QED BY <2>6, <2>8, <2>9, <2>10, <2>11 DEF new, ms, cs
<1> QED BY <1>2, <1>3

(* The state that CheckKickoffsAt changes, after each kickoff machine. *)
IsCheck(h, n, f) ==
    f = [i \in 0..n |->
            IF i = 0 THEN [round_machines |-> round_machines, challenges |-> challenges]
            ELSE IF KickoffHeight[kickoff_machines[i].id] = h
            THEN CheckIfKickoffMalicious(f[i - 1], kickoff_machines[i].id)
            ELSE f[i - 1]]

(* Every kickoff of the block is checked, also with the rounds that the *)
(* kickoffs before it had challenged.                                   *)
LEMMA CheckAllFacts ==
    ASSUME Vector(round_machines, Operators), Vector(kickoff_machines, Kickoffs),
           challenges \in SUBSET Kickoffs, NEW h, NEW n \in 0..Len(kickoff_machines), Checkable(h, n)
    PROVE  /\ CheckKickoffsAt(h, n) \in CheckStates
           /\ Extends(round_machines, CheckKickoffsAt(h, n).round_machines)
           /\ Lists(round_machines, Operators) => Lists(CheckKickoffsAt(h, n).round_machines, Operators)
           /\ \A i \in 1..n :
                 KickoffHeight[kickoff_machines[i].id] = h /\ kickoff_machines[i].id \in Malicious =>
                    IsChallenged(CheckKickoffsAt(h, n).round_machines, kickoff_machines[i].id)
           /\ Lists(round_machines, Operators) /\ ChallengesIn(round_machines, challenges) =>
                 ChallengesIn(CheckKickoffsAt(h, n).round_machines, CheckKickoffsAt(h, n).challenges)
<1> DEFINE K(i) == kickoff_machines[i].id
           base == [round_machines |-> round_machines, challenges |-> challenges]
           V == {st \in CheckStates :
                   /\ Lists(round_machines, Operators) => Lists(st.round_machines, Operators)
                   /\ Extends(round_machines, st.round_machines)}
           G == [x \in (1..n) \X V |->
                    IF KickoffHeight[K(x[1])] = h THEN CheckIfKickoffMalicious(x[2], K(x[1])) ELSE x[2]]
           f == CHOOSE f : IsCheck(h, n, f)
<1>1. n \in Nat /\ round_machines \in Seq(MachineRecords) /\ \A i \in 1..n : K(i) \in Kickoffs
  <2>1. kickoff_machines \in Seq(MachineRecords) /\ Len(kickoff_machines) \in Nat
    BY DEF Vector
  <2>2. \A i \in 1..n : i \in 1..Len(kickoff_machines)
    BY <2>1
  <2> QED BY <2>1, <2>2 DEF Vector
<1>2. base \in V
  <2>1. base \in CheckStates /\ base.round_machines = round_machines
    BY <1>1 DEF CheckStates
  <2>2. Extends(round_machines, round_machines)
    BY DEF Extends
  <2> HIDE DEF base
  <2> QED BY <2>1, <2>2
<1>3. ASSUME NEW i \in 1..n, NEW st \in V, KickoffHeight[K(i)] = h
      PROVE  /\ st \in CheckStates
             /\ RoundMachine(st.round_machines, OperatorOf[K(i)]) # 0
             /\ CheckIfKickoffMalicious(st, K(i)) \in V
  <2> DEFINE o == OperatorOf[K(i)]
             new == CheckIfKickoffMalicious(st, K(i))
             ms == st.round_machines
  <2>1. /\ st \in CheckStates /\ Extends(round_machines, ms) /\ ms \in Seq(MachineRecords)
        /\ Lists(round_machines, Operators) => Lists(ms, Operators)
    BY DEF CheckStates
  <2>2. RoundMachine(round_machines, o) # 0
    BY <1>1, <1>3 DEF Checkable
  <2>3. PICK j \in 1..Len(round_machines) : round_machines[j].id = o
    <3> HIDE DEF o
    <3> QED BY <1>1, <2>2, RoundMachineFacts
  <2>4. j \in 1..Len(ms) /\ ms[j].id = o
    BY <2>1, <2>3 DEF Extends
  <2>5. RoundMachine(ms, o) # 0
    <3> HIDE DEF o, ms
    <3> QED BY <2>1, <2>4, RoundMachineFacts
  <2>6. /\ new \in CheckStates /\ Extends(ms, new.round_machines)
        /\ Lists(ms, Operators) => Lists(new.round_machines, Operators)
    BY <1>1, <2>1, <2>5, CheckFacts
  <2>7. Extends(round_machines, new.round_machines)
    <3> HIDE DEF new, ms
    <3> QED BY <2>1, <2>6 DEF Extends
  <2> HIDE DEF new
  <2> QED BY <2>1, <2>5, <2>6, <2>7 DEF new
<1> HIDE DEF V
<1>4. G \in [(1..n) \X V -> V]
  <2> SUFFICES ASSUME NEW i \in 1..n, NEW st \in V PROVE G[<<i, st>>] \in V
    OBVIOUS
  <2>1. G[<<i, st>>] = IF KickoffHeight[K(i)] = h THEN CheckIfKickoffMalicious(st, K(i)) ELSE st
    OBVIOUS
  <2> HIDE DEF G
  <2> QED BY <1>3, <2>1
<1>5. PICK g : g \in [0..n -> V] /\ g[0] = base /\ \A i \in 1..n : g[i] = G[<<i, g[i - 1]>>]
  <2> HIDE DEF base, G
  <2>1. \E g : IsLoop(V, base, n, G, g)
    BY <1>1, <1>2, <1>4, LoopExists
  <2> QED BY <2>1 DEF IsLoop
<1>6. IsCheck(h, n, g)
  <2>1. \A i \in 0..n : i = 0 \/ i \in 1..n
    OBVIOUS
  <2>2. g = [i \in 0..n |-> g[i]]
    BY <1>5
  <2>3. ASSUME NEW i \in 1..n
        PROVE  g[i] = IF KickoffHeight[K(i)] = h THEN CheckIfKickoffMalicious(g[i - 1], K(i)) ELSE g[i - 1]
    <3>1. i - 1 \in 0..n
      OBVIOUS
    <3>2. g[i - 1] \in V
      BY <1>5, <3>1
    <3> DEFINE v == g[i - 1]
    <3>3. <<i, v>> \in (1..n) \X V /\ g[i] = G[<<i, v>>]
      BY <1>5, <3>2
    <3> HIDE DEF v
    <3> QED BY <3>3 DEF v
  <2>4. g = [i \in 0..n |-> IF i = 0 THEN [round_machines |-> round_machines, challenges |-> challenges]
                            ELSE IF KickoffHeight[kickoff_machines[i].id] = h
                            THEN CheckIfKickoffMalicious(g[i - 1], kickoff_machines[i].id)
                            ELSE g[i - 1]]
    BY <1>5, <2>1, <2>2, <2>3
  <2> QED BY <2>4 DEF IsCheck
<1>7. IsCheck(h, n, f)
  BY <1>6, Zenon
<1>8. CheckKickoffsAt(h, n) = f[n]
  BY DEF CheckKickoffsAt, IsCheck
<1> HIDE DEF f
<1>9. /\ f[0] = base
      /\ \A i \in 1..n : f[i] = IF KickoffHeight[K(i)] = h
                                THEN CheckIfKickoffMalicious(f[i - 1], K(i)) ELSE f[i - 1]
  <2>1. 0 \in 0..n /\ \A i \in 1..n : i \in 0..n /\ i # 0
    BY <1>1
  <2> QED BY <1>7, <2>1 DEF IsCheck
<1> DEFINE J(i) == /\ f[i] \in V
                   /\ \A p \in 1..i : KickoffHeight[K(p)] = h /\ K(p) \in Malicious =>
                         IsChallenged(f[i].round_machines, K(p))
                   /\ Lists(round_machines, Operators) /\ ChallengesIn(round_machines, challenges) =>
                         ChallengesIn(f[i].round_machines, f[i].challenges)
<1>10. J(0)
  BY <1>2, <1>9
<1>11. ASSUME NEW i \in 1..n, J(i - 1) PROVE J(i)
  <2>1. \A p \in 1..i : p \in 1..i - 1 \/ p = i
    OBVIOUS
  <2>2. CASE KickoffHeight[K(i)] # h
    <3>1. f[i] = f[i - 1]
      BY <1>9, <2>2
    <3> HIDE DEF K
    <3> QED BY <1>11, <2>1, <2>2, <3>1
  <2>3. CASE KickoffHeight[K(i)] = h
    <3> DEFINE st == f[i - 1]
    <3>1. f[i] = CheckIfKickoffMalicious(st, K(i)) /\ st \in V
      BY <1>9, <1>11, <2>3
    <3> HIDE DEF st
    <3>2. /\ st \in CheckStates
          /\ Lists(round_machines, Operators) => Lists(st.round_machines, Operators)
          /\ RoundMachine(st.round_machines, OperatorOf[K(i)]) # 0
          /\ f[i] \in V
      BY <1>3, <2>3, <3>1 DEF V
    <3>3. /\ Extends(st.round_machines, f[i].round_machines)
          /\ K(i) \in Malicious => IsChallenged(f[i].round_machines, K(i))
          /\ Lists(st.round_machines, Operators) /\ ChallengesIn(st.round_machines, st.challenges) =>
                ChallengesIn(f[i].round_machines, f[i].challenges)
      BY <1>1, <3>1, <3>2, CheckFacts
    <3>4. \A k : IsChallenged(st.round_machines, k) => IsChallenged(f[i].round_machines, k)
      BY <3>3 DEF IsChallenged, Extends
    <3> HIDE DEF K
    <3> QED BY <1>11, <2>1, <3>2, <3>3, <3>4 DEF st
  <2> QED BY <2>2, <2>3
<1>12. J(n)
  <2> DEFINE T == {i \in Nat : i <= n => J(i)}
  <2> HIDE DEF J
  <2>1. 0 \in T
    BY <1>10
  <2>2. ASSUME NEW i \in Nat, i \in T PROVE i + 1 \in T
    <3> SUFFICES ASSUME i + 1 <= n PROVE J(i + 1)
      OBVIOUS
    <3>1. i + 1 \in 1..n /\ (i + 1) - 1 = i /\ J(i)
      BY <1>1, <2>2
    <3> QED BY <1>11, <3>1
  <2>3. n \in T
    <3> HIDE DEF T
    <3> QED BY <1>1, <2>1, <2>2, SetInduction
  <2> QED BY <1>1, <2>3
<1> QED BY <1>8, <1>12 DEF V

-----------------------------------------------------------------------------
(* What is saved, and what is loaded. *)

(* A new vector next to the table: a machine that is not dirty is the saved *)
(* one, and no process is lost.                                             *)
Savable(ms, S) ==
    /\ \A i \in 1..Len(ms) : ms[i].dirty \/ (rows[ms[i].id] # NoRow /\ Same(ms[i], rows[ms[i].id]))
    /\ \A m \in S : rows[m] # NoRow => \E i \in 1..Len(ms) : ms[i].id = m

LEMMA DirtyIsRow == \A m : m.dirty = TRUE => m # NoRow
  BY DEF NoRow

(* save_state_machines saves every machine of a vector. *)
LEMMA SaveRowsFacts ==
    ASSUME NEW ms, Lists(ms, Machines), Savable(ms, Machines), IsTable(rows)
    PROVE  IsTable(SaveRows(ms)) /\ Holds(ms, Machines, SaveRows(ms))
<1> DEFINE t == SaveRows(ms)
           I(m) == {i \in 1..Len(ms) : ms[i].id = m /\ ms[i].dirty}
<1>1. t = [m \in Machines |-> IF (IF I(m) # {} THEN Max(I(m)) ELSE 0) = 0 THEN rows[m]
                              ELSE ms[IF I(m) # {} THEN Max(I(m)) ELSE 0]]
  BY DEF SaveRows, SelectLastInSeq
<1>2. ASSUME NEW m, NEW i \in I(m) PROVE Max(I(m)) = i /\ i # 0
  <2>1. \A j \in I(m) : j = i
    BY DEF Lists
  <2>2. i \in Int /\ i # 0
    OBVIOUS
  <2> DEFINE T == I(m)
  <2> HIDE DEF I
  <2>3. \E x \in T : \A y \in T : x >= y
    BY <2>1, <2>2
  <2> HIDE DEF T
  <2>4. Max(T) \in T
    BY <2>3 DEF Max
  <2> QED BY <2>1, <2>2, <2>4 DEF T
<1>3. \A m \in Machines : I(m) = {} => t[m] = rows[m]
  <2> HIDE DEF I, t
  <2> QED BY <1>1
<1>4. ASSUME NEW m \in Machines, NEW i \in I(m) PROVE t[m] = ms[i]
  <2>1. Max(I(m)) = i /\ i # 0 /\ I(m) # {}
    BY <1>2
  <2> HIDE DEF I, t
  <2> QED BY <1>1, <2>1
<1>5. t = [m \in Machines |-> t[m]]
  <2> HIDE DEF I, t
  <2> QED BY <1>1
<1> HIDE DEF t
<1>6. \A i \in 1..Len(ms) : ms[i] \in MachineRecords /\ ms[i].id \in Machines
  BY DEF Lists
<1>7. ASSUME NEW m \in Machines, t[m] # NoRow PROVE t[m] \in MachineRecords /\ t[m].id = m /\ t[m].dirty
  <2>1. CASE I(m) = {}
    BY <1>3, <1>7, <2>1 DEF IsTable
  <2>2. CASE I(m) # {}
    <3>1. PICK i \in I(m) : t[m] = ms[i]
      BY <1>4, <2>2
    <3> QED BY <1>6, <3>1
  <2> QED BY <2>1, <2>2
<1>8. ASSUME NEW i \in 1..Len(ms) PROVE t[ms[i].id] # NoRow /\ Same(ms[i], t[ms[i].id])
  <2>1. CASE ms[i].dirty
    <3>1. i \in I(ms[i].id)
      BY <2>1
    <3>2. t[ms[i].id] = ms[i]
      BY <1>4, <1>6, <3>1
    <3>3. ms[i].dirty = TRUE
      BY <1>6, <2>1 DEF MachineRecords
    <3> QED BY <3>2, <3>3, DirtyIsRow DEF Same
  <2>2. CASE ~ms[i].dirty
    <3>1. \A j \in 1..Len(ms) : ms[j].id = ms[i].id => j = i
      BY DEF Lists
    <3>2. I(ms[i].id) = {}
      BY <2>2, <3>1
    <3>3. t[ms[i].id] = rows[ms[i].id]
      BY <1>3, <1>6, <3>2
    <3> QED BY <2>2, <3>3 DEF Savable
  <2> QED BY <2>1, <2>2
<1>9. ASSUME NEW m \in Machines, t[m] # NoRow PROVE \E i \in 1..Len(ms) : ms[i].id = m
  <2>1. CASE I(m) = {}
    BY <1>3, <1>9, <2>1 DEF Savable
  <2>2. CASE I(m) # {}
    BY <2>2
  <2> QED BY <2>1, <2>2
<1>10. IsTable(t)
  BY <1>5, <1>7 DEF IsTable
<1>11. Holds(ms, Machines, t)
  BY <1>8, <1>9 DEF Holds
<1> QED BY <1>10, <1>11 DEF t

(* The same for the two vectors of the manager. *)
LEMMA SaveBothFacts ==
    ASSUME NEW round, NEW kickoff, Lists(round, Operators), Lists(kickoff, Kickoffs),
           Savable(round, Operators), Savable(kickoff, Kickoffs), IsTable(rows)
    PROVE  /\ IsTable(SaveRows(round \o kickoff))
           /\ Holds(round, Operators, SaveRows(round \o kickoff))
           /\ Holds(kickoff, Kickoffs, SaveRows(round \o kickoff))
<1> DEFINE all == round \o kickoff
           lr == Len(round)
           lk == Len(kickoff)
<1>1. /\ all \in Seq(MachineRecords) /\ lr \in Nat /\ lk \in Nat /\ Len(all) = lr + lk
      /\ \A j \in 1..lr : all[j] = round[j] /\ j \in 1..Len(all)
      /\ \A j \in 1..lk : all[lr + j] = kickoff[j] /\ lr + j \in 1..Len(all)
      /\ \A j \in 1..Len(all) : j \in 1..lr \/ \E k \in 1..lk : j = lr + k
  <2>1. round \in Seq(MachineRecords) /\ kickoff \in Seq(MachineRecords)
    BY DEF Lists
  <2> QED BY <2>1, JoinFacts
<1> HIDE DEF all, lr, lk
<1>2. /\ \A j \in 1..lr : round[j].id \in Operators /\ round[j].id \notin Kickoffs
      /\ \A j \in 1..lk : kickoff[j].id \in Kickoffs /\ kickoff[j].id \notin Operators
  BY ManagerAssumption DEF Lists, lr, lk
<1>3. \A j \in 1..Len(all) : all[j].id \in Machines
  BY <1>1, <1>2 DEF Machines
<1>4. ASSUME NEW i \in 1..Len(all), NEW j \in 1..Len(all), all[i].id = all[j].id PROVE i = j
  <2>1. CASE i \in 1..lr
    <3>1. all[i] = round[i]
      BY <1>1, <2>1
    <3>2. j \in 1..lr
      <4>1. all[j].id \notin Kickoffs
        BY <1>2, <1>4, <2>1, <3>1
      <4>2. ASSUME NEW k \in 1..lk, j = lr + k PROVE FALSE
        BY <1>1, <1>2, <4>1, <4>2
      <4> QED BY <1>1, <4>2
    <3> QED BY <1>1, <1>4, <2>1, <3>1, <3>2 DEF Lists, lr
  <2>2. CASE i \notin 1..lr
    <3>1. PICK a \in 1..lk : i = lr + a /\ all[i] = kickoff[a]
      BY <1>1, <2>2
    <3>2. j \notin 1..lr
      BY <1>1, <1>2, <1>4, <3>1
    <3>3. PICK b \in 1..lk : j = lr + b /\ all[j] = kickoff[b]
      BY <1>1, <3>2
    <3>4. a = b
      BY <1>4, <3>1, <3>3 DEF Lists, lk
    <3> QED BY <3>1, <3>3, <3>4
  <2> QED BY <2>1, <2>2
<1>5. Lists(all, Machines)
  BY <1>1, <1>3, <1>4 DEF Lists
<1>6. Savable(all, Machines)
  <2>1. ASSUME NEW j \in 1..Len(all)
        PROVE  all[j].dirty \/ (rows[all[j].id] # NoRow /\ Same(all[j], rows[all[j].id]))
    <3>1. CASE j \in 1..lr
      BY <1>1, <3>1 DEF Savable, lr
    <3>2. CASE j \notin 1..lr
      <4>1. PICK a \in 1..lk : j = lr + a /\ all[j] = kickoff[a]
        BY <1>1, <3>2
      <4> QED BY <4>1 DEF Savable, lk
    <3> QED BY <3>1, <3>2
  <2>2. ASSUME NEW m \in Machines, rows[m] # NoRow PROVE \E j \in 1..Len(all) : all[j].id = m
    <3>1. CASE m \in Operators
      <4>1. PICK i \in 1..lr : round[i].id = m
        BY <2>2, <3>1 DEF Savable, lr
      <4> QED BY <1>1, <4>1
    <3>2. CASE m \in Kickoffs
      <4>1. PICK i \in 1..lk : kickoff[i].id = m
        BY <2>2, <3>2 DEF Savable, lk
      <4> QED BY <1>1, <4>1
    <3> QED BY <3>1, <3>2 DEF Machines
  <2> QED BY <2>1, <2>2 DEF Savable
<1> DEFINE t == SaveRows(all)
<1>7. IsTable(t) /\ Holds(all, Machines, t)
  BY <1>5, <1>6, SaveRowsFacts
<1> HIDE DEF t
<1>8. Holds(round, Operators, t)
  <2>1. \A i \in 1..lr : t[round[i].id] # NoRow /\ Same(round[i], t[round[i].id])
    BY <1>1, <1>7 DEF Holds
  <2>2. ASSUME NEW m \in Operators, t[m] # NoRow PROVE \E i \in 1..lr : round[i].id = m
    <3>1. PICK j \in 1..Len(all) : all[j].id = m
      BY <1>7, <2>2 DEF Holds, Machines
    <3>2. ASSUME NEW k \in 1..lk, j = lr + k PROVE FALSE
      <4>1. all[j] = kickoff[k]
        BY <1>1, <3>2
      <4> QED BY <1>2, <3>1, <4>1
    <3>3. j \in 1..lr /\ all[j] = round[j]
      BY <1>1, <3>2
    <3> QED BY <3>1, <3>3
  <2> QED BY <2>1, <2>2 DEF Holds, lr
<1>9. Holds(kickoff, Kickoffs, t)
  <2>1. \A i \in 1..lk : t[kickoff[i].id] # NoRow /\ Same(kickoff[i], t[kickoff[i].id])
    BY <1>1, <1>7 DEF Holds
  <2>2. ASSUME NEW m \in Kickoffs, t[m] # NoRow PROVE \E i \in 1..lk : kickoff[i].id = m
    <3>1. PICK j \in 1..Len(all) : all[j].id = m
      BY <1>7, <2>2 DEF Holds, Machines
    <3>2. j \notin 1..lr
      <4>1. j \in 1..lr => all[j] = round[j]
        BY <1>1
      <4> QED BY <1>2, <3>1, <4>1
    <3>3. PICK k \in 1..lk : j = lr + k
      BY <1>1, <3>2
    <3>4. all[j] = kickoff[k]
      BY <1>1, <3>3
    <3> QED BY <3>1, <3>4
  <2> QED BY <2>1, <2>2 DEF Holds, lk
<1> QED BY <1>7, <1>8, <1>9 DEF t, all

(* SavedToDb leaves the machines what they are. *)
LEMMA SavedToDbFacts ==
    ASSUME NEW S, NEW ms, Lists(ms, S), NEW table, Holds(ms, S, table)
    PROVE  Lists(SavedToDb(ms), S) /\ Holds(SavedToDb(ms), S, table)
<1> DEFINE new == SavedToDb(ms)
<1>1. ms \in Seq(MachineRecords) /\ Len(ms) \in Nat /\ \A i \in 1..Len(ms) : ms[i] \in MachineRecords
  BY DEF Lists
<1>2. /\ \A i \in 1..Len(ms) : new[i] = [ms[i] EXCEPT !.dirty = FALSE]
      /\ DOMAIN new = 1..Len(ms)
  BY DEF SavedToDb
<1>3. ASSUME NEW m \in MachineRecords
      PROVE  [m EXCEPT !.dirty = FALSE] \in MachineRecords /\ Same([m EXCEPT !.dirty = FALSE], m)
  BY DEF MachineRecords, Same
<1>4. \A i \in 1..Len(ms) : new[i] \in MachineRecords /\ Same(new[i], ms[i])
  BY <1>1, <1>2, <1>3
<1>5. new \in Seq(MachineRecords) /\ Len(new) = Len(ms)
  <2>1. new = [i \in 1..Len(ms) |-> new[i]]
    BY DEF SavedToDb
  <2> HIDE DEF new
  <2> QED BY <1>1, <1>4, <2>1
<1> HIDE DEF new
<1>6. \A i \in 1..Len(ms) : new[i].id = ms[i].id
  BY <1>4 DEF Same
<1>7. Lists(new, S)
  BY <1>5, <1>6 DEF Lists
<1>8. \A i \in 1..Len(ms) : table[ms[i].id] # NoRow /\ Same(new[i], table[ms[i].id])
  BY <1>4 DEF Holds, Same
<1>9. Holds(new, S, table)
  BY <1>5, <1>6, <1>8 DEF Holds
<1> QED BY <1>7, <1>9 DEF new

(* The sequences of SetToSeqs have every element once. *)
LEMMA SetToSeqsFacts ==
    ASSUME NEW S, IsFiniteSet(S), NEW s \in SetToSeqs(S)
    PROVE  /\ s \in Seq(S)
           /\ \A i, j \in 1..Len(s) : s[i] = s[j] => i = j
           /\ \A x \in S : \E i \in 1..Len(s) : s[i] = x
<1> DEFINE n == Cardinality(S)
<1>1. n \in Nat
  BY FS_CardinalityType
<1>2. s \in [1..n -> S] /\ \A i, j \in 1..n : i # j => s[i] # s[j]
  BY DEF SetToSeqs
<1>3. s \in Seq(S) /\ Len(s) = n
  <2> HIDE DEF n
  <2> QED BY <1>1, <1>2
<1>4. s \in Injection(1..n, S)
  BY <1>2 DEF Injection, IsInjective
<1>5. Cardinality(1..n) = n
  <2>1. 1 \in Int /\ n \in Int /\ (1 > n => n = 0)
    BY <1>1
  <2>2. Cardinality(1..n) = IF 1 > n THEN 0 ELSE n - 1 + 1
    <3> HIDE DEF n
    <3> QED BY <2>1, FS_Interval
  <2> HIDE DEF n
  <2> QED BY <1>1, <2>1, <2>2
<1>6. s \in Surjection(1..n, S)
  BY <1>4, <1>5, FS_Injection
<1>7. \A x \in S : \E i \in 1..n : s[i] = x
  BY <1>6 DEF Surjection
<1> QED BY <1>2, <1>3, <1>7

(* Each row is loaded into the vector it belongs to. *)
LEMMA LoadedFacts ==
    ASSUME NEW ids, ids \subseteq Machines, IsFiniteSet(ids), IsTable(rows), NEW ms \in Loaded(ids)
    PROVE  Lists(ms, ids) /\ Holds(ms, ids, rows)
<1> DEFINE T == {m \in ids : rows[m] # NoRow}
<1>1. PICK s \in SetToSeqs(T) : ms = [i \in 1..Len(s) |-> rows[s[i]]]
  BY DEF Loaded
<1>2. IsFiniteSet(T)
  BY FS_Subset
<1>3. /\ s \in Seq(T) /\ Len(s) \in Nat
      /\ \A i, j \in 1..Len(s) : s[i] = s[j] => i = j
      /\ \A x \in T : \E i \in 1..Len(s) : s[i] = x
  <2> HIDE DEF T
  <2> QED BY <1>2, SetToSeqsFacts
<1>4. \A i \in 1..Len(s) : s[i] \in ids /\ rows[s[i]] # NoRow
  BY <1>3
<1>5. \A i \in 1..Len(s) : /\ ms[i] = rows[s[i]] /\ ms[i] # NoRow
                          /\ ms[i] \in MachineRecords /\ ms[i].id = s[i]
  BY <1>1, <1>4 DEF IsTable
<1>6. ms \in Seq(MachineRecords) /\ Len(ms) = Len(s)
  BY <1>1, <1>3, <1>5
<1>7. Lists(ms, ids)
  BY <1>3, <1>4, <1>5, <1>6 DEF Lists
<1>8. Holds(ms, ids, rows)
  BY <1>3, <1>5, <1>6 DEF Holds, Same
<1> QED BY <1>7, <1>8

(* The kickoffs that a round machine found are sent, and nothing else. *)
LEMMA KickoffMessagesFacts ==
    ASSUME NEW X, IsFiniteSet(X), NEW found, found \subseteq X \X Kickoffs, NEW ms \in KickoffMessages(found)
    PROVE  /\ ms \in Seq(Messages)
           /\ \A i \in 1..Len(ms) : ms[i].type = "NewKickoff"
           /\ \A x \in found : \E i \in 1..Len(ms) : ms[i] = NewKickoff(x[2])
<1>1. PICK s \in SetToSeqs(found) : ms = [i \in 1..Len(s) |-> NewKickoff(s[i][2])]
  BY DEF KickoffMessages
<1>2. IsFiniteSet(found)
  <2>1. IsFiniteSet(Kickoffs)
    BY ManagerAssumption
  <2>2. IsFiniteSet(X \X Kickoffs)
    BY <2>1, FS_Product
  <2> QED BY <2>2, FS_Subset
<1>3. /\ s \in Seq(found) /\ Len(s) \in Nat
      /\ \A x \in found : \E i \in 1..Len(s) : s[i] = x
  BY <1>2, SetToSeqsFacts
<1>4. \A i \in 1..Len(s) : s[i] \in found /\ s[i][2] \in Kickoffs
  BY <1>3
<1>5. \A i \in 1..Len(s) : ms[i] = NewKickoff(s[i][2]) /\ ms[i] \in Messages /\ ms[i].type = "NewKickoff"
  <2> SUFFICES ASSUME NEW i \in 1..Len(s)
               PROVE  ms[i] = NewKickoff(s[i][2]) /\ ms[i] \in Messages /\ ms[i].type = "NewKickoff"
    OBVIOUS
  <2>1. ms[i] = NewKickoff(s[i][2])
    BY <1>1
  <2>2. NewKickoff(s[i][2]) \in Messages
    BY <1>4 DEF Messages
  <2>3. NewKickoff(s[i][2]).type = "NewKickoff"
    BY DEF NewKickoff
  <2> QED BY <2>1, <2>2, <2>3
<1>6. ms \in Seq(Messages) /\ Len(ms) = Len(s)
  <2>1. ms = [i \in 1..Len(s) |-> ms[i]]
    BY <1>1
  <2> QED BY <1>3, <1>5, <2>1
<1>7. ASSUME NEW x \in found PROVE \E i \in 1..Len(ms) : ms[i] = NewKickoff(x[2])
  <2>1. PICK i \in 1..Len(s) : s[i] = x
    BY <1>3
  <2> QED BY <1>5, <1>6, <2>1
<1> QED BY <1>5, <1>6, <1>7

-----------------------------------------------------------------------------
(* The core: memory and tables agree, and are up to date. *)

(* What one message, handled and committed, leaves behind. *)
LEMMA HandledCore ==
    ASSUME Core, pc = "run", pc' = "run", queue # << >>,
           NEW round, NEW kickoff, NEW lcp \in Int, NEW block \in Nat, NEW messages \in Seq(Messages),
           NEW challenged \in SUBSET Kickoffs,
           Handled(round, kickoff, lcp, block, messages, challenged),
           Lists(round, Operators), Lists(kickoff, Kickoffs),
           Savable(round, Operators), Savable(kickoff, Kickoffs),
           dbNextHeight <= block + 1,
           \A i \in 1..Len(round) : HasSeen(round[i], block + 1),
           \A i \in 1..Len(kickoff) : HasSeen(kickoff[i], block + 1)
    PROVE  /\ Core'
           /\ dbNextHeight' = block + 1 /\ dbLcp' = lcp /\ challenges' = challenged
           /\ queue' = Tail(queue) \o messages
           /\ Holds(round, Operators, rows') /\ Holds(kickoff, Kickoffs, rows')
<1>1. /\ next_height_to_process' =
            IF block + 1 > next_height_to_process THEN block + 1 ELSE next_height_to_process
      /\ last_processed_lcp' = lcp /\ last_finalized_block' = block
      /\ queue' = Tail(queue) \o messages
      /\ rows' = SaveRows(round \o kickoff)
      /\ dbNextHeight' = block + 1 /\ dbLcp' = lcp /\ challenges' = challenged
      /\ round_machines' = SavedToDb(round) /\ kickoff_machines' = SavedToDb(kickoff)
      /\ pc' = pc
  BY DEF Handled, HeightToSave
<1>2. IsTable(rows) /\ dbNextHeight \in Nat /\ dbNextHeight >= StartHeight /\ queue \in Seq(Messages)
      /\ next_height_to_process = dbNextHeight /\ StartHeight \in Nat
  BY ManagerAssumption DEF Core, RowsInv, MemoryInv
<1>3. IsTable(rows') /\ Holds(round, Operators, rows') /\ Holds(kickoff, Kickoffs, rows')
  BY <1>1, <1>2, SaveBothFacts
<1>4. /\ Lists(round_machines', Operators) /\ Holds(round_machines', Operators, rows')
      /\ Lists(kickoff_machines', Kickoffs) /\ Holds(kickoff_machines', Kickoffs, rows')
  BY <1>1, <1>3, SavedToDbFacts
<1>5. ASSUME NEW m \in Machines, rows'[m] # NoRow PROVE HasSeen(rows'[m], block + 1)
  <2>1. CASE m \in Operators
    <3>1. PICK i \in 1..Len(round) : round[i].id = m
      BY <1>3, <1>5, <2>1 DEF Holds
    <3>2. Same(round[i], rows'[m]) /\ HasSeen(round[i], block + 1)
      BY <1>3, <3>1 DEF Holds
    <3> QED BY <3>2 DEF Same, HasSeen
  <2>2. CASE m \in Kickoffs
    <3>1. PICK i \in 1..Len(kickoff) : kickoff[i].id = m
      BY <1>3, <1>5, <2>2 DEF Holds
    <3>2. Same(kickoff[i], rows'[m]) /\ HasSeen(kickoff[i], block + 1)
      BY <1>3, <3>1 DEF Holds
    <3> QED BY <3>2 DEF Same, HasSeen
  <2> QED BY <2>1, <2>2 DEF Machines
<1>6. next_height_to_process' = block + 1 /\ block + 1 \in Nat /\ block + 1 >= StartHeight /\ (block + 1) - 1 = block
  BY <1>1, <1>2
<1>7. queue' \in Seq(Messages)
  BY <1>1, <1>2
<1>8. RowsInv'
  <2>1. \A m \in Machines : rows'[m] # NoRow => HasSeen(rows'[m], dbNextHeight')
    BY <1>1, <1>5
  <2> QED BY <1>1, <1>3, <1>6, <2>1 DEF RowsInv, HasSeen
<1>9. MemoryInv'
  BY <1>1, <1>4, <1>6 DEF MemoryInv
<1> QED BY <1>1, <1>3, <1>7, <1>8, <1>9 DEF Core

(* The machines in memory have seen what the saved ones have. *)
LEMMA MemoryIsCurrent ==
    ASSUME Core, NEW S, S \subseteq Machines, NEW ms, Lists(ms, S), Holds(ms, S, rows)
    PROVE  \A i \in 1..Len(ms) : HasSeen(ms[i], dbNextHeight)
<1> SUFFICES ASSUME NEW i \in 1..Len(ms) PROVE HasSeen(ms[i], dbNextHeight)
  OBVIOUS
<1>1. ms[i].id \in Machines
  BY DEF Lists
<1>2. Same(ms[i], rows[ms[i].id]) /\ HasSeen(rows[ms[i].id], dbNextHeight)
  BY <1>1 DEF Core, RowsInv, Holds
<1> QED BY <1>2 DEF Same, HasSeen

(* The heights that concern a machine. *)
LEMMA Heights ==
    /\ StartHeight \in Nat \ {0}
    /\ \A m \in Machines : Activity[m] \subseteq Nat /\ \A h \in Activity[m] : h >= StartHeight
    /\ \A k \in Kickoffs : KickoffHeight[k] \in Nat /\ KickoffHeight[k] >= StartHeight
    /\ \A k \in Kickoffs : KickoffHeight[k] \in Activity[OperatorOf[k]] /\ OperatorOf[k] \in Operators
    /\ \A k \in Kickoffs : k \in Machines /\ k \notin Operators
    /\ Operators \subseteq Machines /\ Kickoffs \subseteq Machines
<1>1. StartHeight \in Nat \ {0} /\ MaxHeight \in Nat
  BY ManagerAssumption
<1>2. \A m \in Machines : Activity[m] \subseteq StartHeight..MaxHeight
  BY ManagerAssumption
<1>3. \A k \in Kickoffs : KickoffHeight[k] \in StartHeight..MaxHeight
  BY ManagerAssumption
<1>4. \A h \in StartHeight..MaxHeight : h \in Nat /\ h >= StartHeight
  BY <1>1
<1> QED BY <1>1, <1>2, <1>3, <1>4, ManagerAssumption DEF Machines

(* A machine that has seen the blocks before h has, after it, seen h too. *)
LEMMA HasSeenNext ==
    ASSUME NEW m \in MachineRecords, NEW h \in Nat, h >= StartHeight, HasSeen(m, h)
    PROVE  HasSeen(After(m, h), h + 1)
<1> DEFINE first == IF m.id \in Operators THEN StartHeight ELSE KickoffHeight[m.id]
           A == Activity[m.id]
<1>1. m.id \in Machines /\ A \subseteq Nat /\ first \in Nat /\ StartHeight \in Nat
  BY Heights DEF MachineRecords, Machines
<1>2. A \cap (first..h - 1) \subseteq m.seen /\ m.seen \subseteq A \cap (StartHeight..h - 1)
  BY DEF HasSeen
<1> HIDE DEF first, A
<1>3. \A x \in Nat : x \in first..h => x \in first..h - 1 \/ x = h
  BY <1>1
<1>4. \A x \in StartHeight..h - 1 : x \in StartHeight..h
  BY <1>1
<1>5. h \in StartHeight..h /\ (h + 1) - 1 = h
  BY <1>1
<1>6. CASE Moves(m, h)
  <2>1. After(m, h).id = m.id /\ After(m, h).seen = m.seen \cup {h}
    BY <1>6, MovedFacts DEF After
  <2>2. h \in A
    BY <1>6 DEF Moves, A
  <2>3. A \cap (first..h) \subseteq m.seen \cup {h}
    BY <1>1, <1>2, <1>3
  <2>4. m.seen \cup {h} \subseteq A \cap (StartHeight..h)
    BY <1>2, <1>4, <1>5, <2>2
  <2> QED BY <1>5, <2>1, <2>3, <2>4 DEF HasSeen, first, A
<1>7. CASE ~Moves(m, h)
  <2>1. After(m, h) = m
    BY <1>7 DEF After
  <2>2. h \in A => h \in m.seen
    BY <1>7 DEF Moves, A
  <2>3. A \cap (first..h) \subseteq m.seen
    BY <1>1, <1>2, <1>3, <2>2
  <2>4. m.seen \subseteq A \cap (StartHeight..h)
    BY <1>2, <1>4
  <2> QED BY <1>5, <2>1, <2>3, <2>4 DEF HasSeen, first, A
<1> QED BY <1>6, <1>7

(* The vectors after a block. *)
LEMMA AdvanceSavable ==
    ASSUME Core, NEW S, S \subseteq Machines, NEW ms, Lists(ms, S), Holds(ms, S, rows)
    PROVE  /\ Lists(Advance(ms, dbNextHeight), S) /\ Savable(Advance(ms, dbNextHeight), S)
           /\ \A j \in 1..Len(Advance(ms, dbNextHeight)) :
                 HasSeen(Advance(ms, dbNextHeight)[j], dbNextHeight + 1)
           /\ \A j \in 1..Len(Advance(ms, dbNextHeight)) : \E i \in 1..Len(ms) :
                 /\ Advance(ms, dbNextHeight)[j].id = ms[i].id
                 /\ Advance(ms, dbNextHeight)[j].challenged = ms[i].challenged
<1> DEFINE h == dbNextHeight
           new == Advance(ms, h)
<1>1. h \in Nat /\ h >= StartHeight
  BY DEF Core, RowsInv
<1>2. /\ Lists(new, S)
      /\ \A j \in 1..Len(new) : \E i \in 1..Len(ms) : new[j] = After(ms[i], h)
      /\ \A i \in 1..Len(ms) : \E j \in 1..Len(new) : new[j] = After(ms[i], h)
  <2>1. Vector(ms, S)
    BY DEF Lists, Vector
  <2> QED BY <2>1, AdvanceFacts
<1>3. \A i \in 1..Len(ms) : HasSeen(ms[i], h) /\ ms[i] \in MachineRecords
  BY MemoryIsCurrent DEF Lists
<1>4. \A i \in 1..Len(ms) : HasSeen(After(ms[i], h), h + 1)
  BY <1>1, <1>3, HasSeenNext
<1>5. ASSUME NEW i \in 1..Len(ms)
      PROVE  /\ After(ms[i], h).id = ms[i].id /\ After(ms[i], h).challenged = ms[i].challenged
             /\ After(ms[i], h).dirty \/ After(ms[i], h) = ms[i]
  <2>1. CASE Moves(ms[i], h)
    BY <1>3, <2>1, MovedFacts DEF After
  <2>2. CASE ~Moves(ms[i], h)
    BY <2>2 DEF After
  <2> QED BY <2>1, <2>2
<1> HIDE DEF new
<1>6. ASSUME NEW j \in 1..Len(new)
      PROVE  new[j].dirty \/ (rows[new[j].id] # NoRow /\ Same(new[j], rows[new[j].id]))
  <2>1. PICK i \in 1..Len(ms) : new[j] = After(ms[i], h)
    BY <1>2
  <2>2. rows[ms[i].id] # NoRow /\ Same(ms[i], rows[ms[i].id])
    BY DEF Holds
  <2> QED BY <1>5, <2>1, <2>2
<1>7. ASSUME NEW m \in S, rows[m] # NoRow PROVE \E j \in 1..Len(new) : new[j].id = m
  <2>1. PICK i \in 1..Len(ms) : ms[i].id = m
    BY <1>7 DEF Holds
  <2>2. PICK j \in 1..Len(new) : new[j] = After(ms[i], h)
    BY <1>2
  <2> QED BY <1>5, <2>1, <2>2
<1>8. Savable(new, S)
  BY <1>6, <1>7 DEF Savable
<1>9. \A j \in 1..Len(new) : HasSeen(new[j], h + 1)
  BY <1>2, <1>4
<1>10. \A j \in 1..Len(new) : \E i \in 1..Len(ms) : new[j].id = ms[i].id /\ new[j].challenged = ms[i].challenged
  <2> TAKE j \in 1..Len(new)
  <2>1. PICK i \in 1..Len(ms) : new[j] = After(ms[i], h)
    BY <1>2
  <2>2. new[j].id = ms[i].id /\ new[j].challenged = ms[i].challenged
    BY <1>5, <2>1
  <2> QED BY <2>2
<1> QED BY <1>2, <1>8, <1>9, <1>10 DEF new

(* A vector that did not change. *)
LEMMA HoldsSavable ==
    ASSUME NEW S, NEW ms, Holds(ms, S, rows)
    PROVE  Savable(ms, S)
  BY DEF Holds, Savable

(* A new machine at the end of a vector. *)
LEMMA AppendSavable ==
    ASSUME NEW S, NEW ms, Lists(ms, S), Holds(ms, S, rows), NEW m \in MachineRecords,
           m.id \in S, m.dirty, \A i \in 1..Len(ms) : ms[i].id # m.id
    PROVE  Lists(Append(ms, m), S) /\ Savable(Append(ms, m), S)
<1> DEFINE new == Append(ms, m)
           l == Len(ms)
<1>1. /\ new \in Seq(MachineRecords) /\ l \in Nat /\ Len(new) = l + 1 /\ new[l + 1] = m
      /\ \A i \in 1..l : new[i] = ms[i] /\ i \in 1..Len(new)
  BY DEF Lists
<1>2. \A i \in 1..Len(new) : i \in 1..l \/ i = l + 1
  BY <1>1
<1> HIDE DEF new, l
<1>3. \A i, j \in 1..l : ms[i].id = ms[j].id => i = j
  BY DEF Lists, l
<1>4. \A i \in 1..l : ms[i].id \in S /\ ms[i].id # m.id
  BY DEF Lists, l
<1>5. \A i \in 1..Len(new) : new[i].id \in S
  BY <1>1, <1>2, <1>4
<1>6. ASSUME NEW i \in 1..Len(new), NEW j \in 1..Len(new), new[i].id = new[j].id PROVE i = j
  <2>1. CASE i \in 1..l /\ j \in 1..l
    BY <1>1, <1>3, <1>6, <2>1
  <2>2. CASE i = l + 1 /\ j \in 1..l
    BY <1>1, <1>4, <1>6, <2>2
  <2>3. CASE i \in 1..l /\ j = l + 1
    BY <1>1, <1>4, <1>6, <2>3
  <2> QED BY <1>2, <2>1, <2>2, <2>3
<1>7. Lists(new, S)
  BY <1>1, <1>5, <1>6 DEF Lists
<1>8. \A i \in 1..Len(new) : new[i].dirty \/ (rows[new[i].id] # NoRow /\ Same(new[i], rows[new[i].id]))
  <2>1. \A i \in 1..l : rows[ms[i].id] # NoRow /\ Same(ms[i], rows[ms[i].id])
    BY DEF Holds, l
  <2>2. \A i \in 1..l : rows[new[i].id] # NoRow /\ Same(new[i], rows[new[i].id])
    BY <1>1, <2>1
  <2>3. new[l + 1].dirty
    BY <1>1
  <2> QED BY <1>2, <2>2, <2>3
<1>9. \A x \in S : rows[x] # NoRow => \E i \in 1..Len(new) : new[i].id = x
  BY <1>1 DEF Holds, l
<1> QED BY <1>7, <1>8, <1>9 DEF Savable, new

(* The round machines after checks. *)
LEMMA ExtendsSavable ==
    ASSUME NEW S, NEW ms, Lists(ms, S), Holds(ms, S, rows), NEW new, Lists(new, S), Extends(ms, new), NEW n,
           \A i \in 1..Len(ms) : HasSeen(ms[i], n)
    PROVE  Savable(new, S) /\ \A i \in 1..Len(new) : HasSeen(new[i], n)
<1>1. \A i \in 1..Len(new) : HasSeen(new[i], n)
  BY DEF Extends, HasSeen
<1> QED BY <1>1 DEF Extends, Savable, Holds

-----------------------------------------------------------------------------
(* What the handler of each message does to the database. *)

LEMMA MessageFields ==
    ASSUME NEW m \in Messages
    PROVE  /\ m.type \in {"NewFinalizedBlock", "LCPProcessed"} => m.height \in Nat
           /\ m.type = "NewFinalizedBlock" => m = NewFinalizedBlock(m.height)
           /\ m.type = "NewOperator" => m.operator \in Operators
           /\ m.type = "NewKickoff" => m.kickoff \in Kickoffs /\ m = NewKickoff(m.kickoff)
<1>1. ASSUME NEW h \in Nat, m = NewFinalizedBlock(h) PROVE m.type = "NewFinalizedBlock" /\ m.height = h
  BY <1>1 DEF NewFinalizedBlock
<1>2. ASSUME NEW h \in Nat, m = LCPProcessed(h) PROVE m.type = "LCPProcessed" /\ m.height = h
  BY <1>2 DEF LCPProcessed
<1>3. ASSUME NEW o \in Operators, m = NewOperator(o) PROVE m.type = "NewOperator" /\ m.operator = o
  BY <1>3 DEF NewOperator
<1>4. ASSUME NEW k \in Kickoffs, m = NewKickoff(k) PROVE m.type = "NewKickoff" /\ m.kickoff = k
  BY <1>4 DEF NewKickoff
<1> QED BY <1>1, <1>2, <1>3, <1>4 DEF Messages

(* What the manager knows when it reads a message. *)
LEMMA ReadsFacts ==
    ASSUME Core, NEW t \in {"NewFinalizedBlock", "LCPProcessed", "NewOperator", "NewKickoff"}, Reads(t)
    PROVE  /\ pc = "run" /\ queue # << >> /\ Head(queue) \in Messages /\ Head(queue).type = t
           /\ next_height_to_process = dbNextHeight /\ dbNextHeight \in Nat /\ dbNextHeight >= StartHeight
           /\ last_processed_lcp = dbLcp /\ dbLcp \in Int /\ challenges \in SUBSET Kickoffs
           /\ last_finalized_block = dbNextHeight - 1 /\ last_finalized_block \in Nat
           /\ last_finalized_block + 1 = dbNextHeight
           /\ Lists(round_machines, Operators) /\ Holds(round_machines, Operators, rows)
           /\ Lists(kickoff_machines, Kickoffs) /\ Holds(kickoff_machines, Kickoffs, rows)
           /\ \A i \in 1..Len(round_machines) : HasSeen(round_machines[i], dbNextHeight)
           /\ \A i \in 1..Len(kickoff_machines) : HasSeen(kickoff_machines[i], dbNextHeight)
<1>1. /\ pc = "run" /\ queue # << >> /\ Head(queue) \in Messages /\ Head(queue).type = t
  BY DEF Reads, Core
<1>2. /\ next_height_to_process = dbNextHeight /\ dbNextHeight \in Nat /\ dbNextHeight >= StartHeight
      /\ last_processed_lcp = dbLcp /\ dbLcp \in Int /\ challenges \in SUBSET Kickoffs
      /\ last_finalized_block = dbNextHeight - 1
      /\ Lists(round_machines, Operators) /\ Holds(round_machines, Operators, rows)
      /\ Lists(kickoff_machines, Kickoffs) /\ Holds(kickoff_machines, Kickoffs, rows)
  BY <1>1 DEF Core, MemoryInv, RowsInv
<1>3. last_finalized_block \in Nat /\ last_finalized_block + 1 = dbNextHeight
  BY <1>2, Heights
<1>4. /\ \A i \in 1..Len(round_machines) : HasSeen(round_machines[i], dbNextHeight)
      /\ \A i \in 1..Len(kickoff_machines) : HasSeen(kickoff_machines[i], dbNextHeight)
  BY <1>2, MemoryIsCurrent, Heights
<1> QED BY <1>1, <1>2, <1>3, <1>4

(* A process keeps its row, or its lack of one, and its challenged rounds. *)
Kept(table, m) ==
    /\ (table[m] # NoRow) <=> (rows[m] # NoRow)
    /\ (rows[m] # NoRow) => (table[m].challenged = rows[m].challenged)

(* The rows of the processes of S after a vector was saved that has the *)
(* same processes and challenged rounds.                                *)
LEMMA SameRows ==
    ASSUME NEW S, NEW ms, Lists(ms, S), Holds(ms, S, rows), NEW new, Lists(new, S), NEW table,
           Holds(new, S, table), Savable(new, S),
           \A j \in 1..Len(new) : \E i \in 1..Len(ms) :
                 new[j].id = ms[i].id /\ new[j].challenged = ms[i].challenged
    PROVE  \A m \in S : Kept(table, m)
<1> SUFFICES ASSUME NEW m \in S PROVE Kept(table, m)
  OBVIOUS
<1>1. ASSUME NEW j \in 1..Len(new), new[j].id = m
      PROVE  rows[m] # NoRow /\ table[m] # NoRow /\ table[m].challenged = rows[m].challenged
  <2>1. PICK i \in 1..Len(ms) : new[j].id = ms[i].id /\ new[j].challenged = ms[i].challenged
    OBVIOUS
  <2>2. rows[m] # NoRow /\ Same(ms[i], rows[m])
    BY <1>1, <2>1 DEF Holds
  <2>3. table[m] # NoRow /\ Same(new[j], table[m])
    BY <1>1 DEF Holds
  <2> QED BY <2>1, <2>2, <2>3 DEF Same
<1>2. rows[m] # NoRow => \E j \in 1..Len(new) : new[j].id = m
  BY DEF Savable
<1>3. table[m] # NoRow => \E j \in 1..Len(new) : new[j].id = m
  BY DEF Holds
<1> QED BY <1>1, <1>2, <1>3 DEF Kept

(* A block: the known kickoffs in it are sent. *)
LEMMA FinalizedBlockStep ==
    ASSUME Core, HandleFinalizedBlock, pc' = "run"
    PROVE  /\ Core' /\ UNCHANGED ownerVars
           /\ Head(queue) \in Messages /\ Head(queue).type = "NewFinalizedBlock" /\ queue # << >>
           /\ Head(queue).height = dbNextHeight /\ dbNextHeight' = dbNextHeight + 1
           /\ dbLcp' = dbLcp /\ challenges' = challenges
           /\ \A m \in Machines : Kept(rows', m)
           /\ \E ms \in Seq(Messages) :
                 /\ queue' = Tail(queue) \o ms
                 /\ \A i \in 1..Len(ms) : ms[i].type = "NewKickoff"
                 /\ \A k \in Kickoffs :
                       rows[OperatorOf[k]] # NoRow /\ KickoffHeight[k] = dbNextHeight /\ deposit[k] = "signed"
                          => \E i \in 1..Len(ms) : ms[i] = NewKickoff(k)
<1> DEFINE h == dbNextHeight
           round == Advance(round_machines, h)
           kickoff == Advance(kickoff_machines, h)
           found == CheckIfKickoff(round_machines, h)
<1>1. Reads("NewFinalizedBlock") /\ Head(queue).height = next_height_to_process /\ UNCHANGED ownerVars
  BY DEF HandleFinalizedBlock
<1>2. /\ pc = "run" /\ queue # << >> /\ Head(queue) \in Messages /\ Head(queue).type = "NewFinalizedBlock"
      /\ next_height_to_process = h /\ h \in Nat /\ h >= StartHeight
      /\ last_processed_lcp = dbLcp /\ dbLcp \in Int /\ challenges \in SUBSET Kickoffs
      /\ Lists(round_machines, Operators) /\ Holds(round_machines, Operators, rows)
      /\ Lists(kickoff_machines, Kickoffs) /\ Holds(kickoff_machines, Kickoffs, rows)
      /\ \A i \in 1..Len(round_machines) : HasSeen(round_machines[i], h)
  BY <1>1, ReadsFacts
<1>3. PICK ms \in KickoffMessages(found) : Handled(round, kickoff, dbLcp, h, ms, challenges)
  BY <1>1, <1>2 DEF HandleFinalizedBlock
<1>4. /\ Lists(round, Operators) /\ Savable(round, Operators)
      /\ \A j \in 1..Len(round) : HasSeen(round[j], h + 1)
      /\ \A j \in 1..Len(round) : \E i \in 1..Len(round_machines) :
            round[j].id = round_machines[i].id /\ round[j].challenged = round_machines[i].challenged
  BY <1>2, AdvanceSavable, Heights
<1>5. /\ Lists(kickoff, Kickoffs) /\ Savable(kickoff, Kickoffs)
      /\ \A j \in 1..Len(kickoff) : HasSeen(kickoff[j], h + 1)
      /\ \A j \in 1..Len(kickoff) : \E i \in 1..Len(kickoff_machines) :
            kickoff[j].id = kickoff_machines[i].id /\ kickoff[j].challenged = kickoff_machines[i].challenged
  BY <1>2, AdvanceSavable, Heights
<1> DEFINE X == 1..Len(round_machines)
<1>6. /\ ms \in Seq(Messages)
      /\ \A i \in 1..Len(ms) : ms[i].type = "NewKickoff"
      /\ \A x \in found : \E i \in 1..Len(ms) : ms[i] = NewKickoff(x[2])
  <2>1. found \subseteq X \X Kickoffs
    BY DEF CheckIfKickoff
  <2>2. IsFiniteSet(X)
    <3>1. 1 \in Int /\ Len(round_machines) \in Int
      BY <1>2 DEF Lists
    <3> QED BY <3>1, FS_Interval
  <2> HIDE DEF X, found
  <2> QED BY <1>3, <2>1, <2>2, KickoffMessagesFacts
<1>7. /\ Core'
      /\ dbNextHeight' = h + 1 /\ dbLcp' = dbLcp /\ challenges' = challenges
      /\ queue' = Tail(queue) \o ms
      /\ Holds(round, Operators, rows') /\ Holds(kickoff, Kickoffs, rows')
  <2>1. h <= h + 1
    BY <1>2
  <2> HIDE DEF round, kickoff
  <2> QED BY <1>2, <1>3, <1>4, <1>5, <1>6, <2>1, HandledCore
<1> HIDE DEF round, kickoff
<1>8. \A m \in Operators : Kept(rows', m)
  BY <1>2, <1>4, <1>7, SameRows
<1>9. \A m \in Kickoffs : Kept(rows', m)
  BY <1>2, <1>5, <1>7, SameRows
<1>10. ASSUME NEW k \in Kickoffs, rows[OperatorOf[k]] # NoRow, KickoffHeight[k] = h, deposit[k] = "signed"
       PROVE  \E i \in 1..Len(ms) : ms[i] = NewKickoff(k)
  <2>1. OperatorOf[k] \in Operators
    BY Heights
  <2>2. PICK i \in X : round_machines[i].id = OperatorOf[k]
    BY <1>2, <1>10, <2>1 DEF Holds
  <2>3. h \notin round_machines[i].seen
    <3>1. round_machines[i].seen \subseteq StartHeight..h - 1
      BY <1>2 DEF HasSeen
    <3>2. h \notin StartHeight..h - 1
      BY <1>2
    <3> QED BY <3>1, <3>2
  <2>4. <<i, k>> \in found
    BY <1>10, <2>2, <2>3 DEF CheckIfKickoff
  <2> HIDE DEF found
  <2>5. \E j \in 1..Len(ms) : ms[j] = NewKickoff(<<i, k>>[2])
    BY <1>6, <2>4
  <2> QED BY <2>5
<1>11. \A m \in Machines : Kept(rows', m)
  BY <1>8, <1>9 DEF Machines
<1>12. Head(queue).height = h
  BY <1>1, <1>2
<1> HIDE DEF h
<1>13. \A k \in Kickoffs :
          rows[OperatorOf[k]] # NoRow /\ KickoffHeight[k] = h /\ deposit[k] = "signed"
             => \E i \in 1..Len(ms) : ms[i] = NewKickoff(k)
  BY <1>10
<1>14. \E s \in Seq(Messages) :
          /\ queue' = Tail(queue) \o s
          /\ \A i \in 1..Len(s) : s[i].type = "NewKickoff"
          /\ \A k \in Kickoffs :
                rows[OperatorOf[k]] # NoRow /\ KickoffHeight[k] = h /\ deposit[k] = "signed"
                   => \E i \in 1..Len(s) : s[i] = NewKickoff(k)
  BY <1>6, <1>7, <1>13
<1> QED BY <1>1, <1>2, <1>7, <1>11, <1>12, <1>14 DEF h

(* A new machine has seen the old blocks. *)
LEMMA ReplayedFacts ==
    ASSUME NEW m \in Machines, NEW first \in Nat, first >= StartHeight, next_height_to_process \in Nat,
           first = IF m \in Operators THEN StartHeight ELSE KickoffHeight[m]
    PROVE  /\ Replayed(m, first) \in MachineRecords
           /\ Replayed(m, first).id = m /\ Replayed(m, first).dirty
           /\ Replayed(m, first).challenged = {}
           /\ Replayed(m, first).seen = Activity[m] \cap (first..next_height_to_process - 1)
           /\ HasSeen(Replayed(m, first), next_height_to_process)
<1> DEFINE r == Replayed(m, first)
           n == next_height_to_process
<1>1. /\ r.id = m /\ r.dirty /\ r.challenged = {} /\ r.seen = Activity[m] \cap (first..n - 1)
  BY DEF Replayed
<1>2. Activity[m] \in SUBSET (StartHeight..MaxHeight) /\ StartHeight \in Nat
  BY ManagerAssumption
<1>3. r \in MachineRecords
  <2>1. Activity[m] \cap (first..n - 1) \in SUBSET (StartHeight..MaxHeight)
    BY <1>2
  <2> QED BY <2>1 DEF Replayed, MachineRecords
<1>4. first..n - 1 \subseteq StartHeight..n - 1
  BY <1>2
<1>5. HasSeen(r, n)
  <2> HIDE DEF r
  <2> QED BY <1>1, <1>4 DEF HasSeen
<1> QED BY <1>1, <1>3, <1>5

(* The rows after a vector with a new machine was saved. *)
LEMMA AppendRows ==
    ASSUME NEW S, NEW ms, Lists(ms, S), Holds(ms, S, rows), NEW m \in MachineRecords, m.id \in S,
           NEW table, Holds(Append(ms, m), S, table), \A i \in 1..Len(ms) : ms[i].id # m.id
    PROVE  /\ rows[m.id] = NoRow /\ table[m.id] # NoRow /\ table[m.id].challenged = m.challenged
           /\ \A x \in S \ {m.id} : Kept(table, x)
<1> DEFINE new == Append(ms, m)
           l == Len(ms)
<1>1. /\ l \in Nat /\ Len(new) = l + 1 /\ new[l + 1] = m /\ l + 1 \in 1..Len(new)
      /\ \A i \in 1..l : new[i] = ms[i] /\ i \in 1..Len(new)
  BY DEF Lists
<1>2. \A i \in 1..Len(new) : i \in 1..l \/ i = l + 1
  BY <1>1
<1> HIDE DEF new, l
<1>3. rows[m.id] = NoRow
  BY DEF Holds
<1>4. \A i \in 1..Len(new) : table[new[i].id] # NoRow /\ Same(new[i], table[new[i].id])
  BY DEF Holds, new
<1>5. table[m.id] # NoRow /\ table[m.id].challenged = m.challenged
  BY <1>1, <1>4 DEF Same
<1>6. ASSUME NEW x \in S \ {m.id} PROVE Kept(table, x)
  <2>1. ASSUME NEW i \in 1..l, ms[i].id = x
        PROVE  rows[x] # NoRow /\ table[x] # NoRow /\ table[x].challenged = rows[x].challenged
    <3>1. rows[x] # NoRow /\ Same(ms[i], rows[x])
      BY <2>1 DEF Holds, l
    <3>2. table[x] # NoRow /\ Same(ms[i], table[x])
      BY <1>1, <1>4, <2>1
    <3> QED BY <3>1, <3>2 DEF Same
  <2>2. rows[x] # NoRow => \E i \in 1..l : ms[i].id = x
    BY DEF Holds, l
  <2>3. table[x] # NoRow => \E i \in 1..l : ms[i].id = x
    <3>1. table[x] # NoRow => \E i \in 1..Len(new) : new[i].id = x
      BY DEF Holds, new
    <3> QED BY <1>1, <1>2, <3>1
  <2> QED BY <2>1, <2>2, <2>3 DEF Kept
<1> QED BY <1>3, <1>5, <1>6

(* The rows of a vector that is saved as it is. *)
LEMMA UnchangedRows ==
    ASSUME NEW S, NEW ms, Lists(ms, S), Holds(ms, S, rows), NEW table, Holds(ms, S, table)
    PROVE  \A m \in S : Kept(table, m)
<1>1. Savable(ms, S)
  BY HoldsSavable
<1>2. \A j \in 1..Len(ms) : \E i \in 1..Len(ms) :
         ms[j].id = ms[i].id /\ ms[j].challenged = ms[i].challenged
  OBVIOUS
<1> QED BY <1>1, <1>2, SameRows

(* A new operator: the known kickoffs that its machine meets are sent. *)
LEMMA NewOperatorStep ==
    ASSUME Core, HandleNewOperator, pc' = "run"
    PROVE  /\ Core' /\ UNCHANGED ownerVars
           /\ Head(queue) \in Messages /\ Head(queue).type = "NewOperator" /\ queue # << >>
           /\ dbNextHeight' = dbNextHeight /\ dbLcp' = dbLcp /\ challenges' = challenges
           /\ Head(queue).operator \in Operators
           /\ rows[Head(queue).operator] = NoRow /\ rows'[Head(queue).operator] # NoRow
           /\ rows'[Head(queue).operator].challenged = {}
           /\ \A m \in Machines \ {Head(queue).operator} : Kept(rows', m)
           /\ \E ms \in Seq(Messages) :
                 /\ queue' = Tail(queue) \o ms
                 /\ \A i \in 1..Len(ms) : ms[i].type = "NewKickoff"
                 /\ \A k \in Kickoffs :
                       /\ OperatorOf[k] = Head(queue).operator
                       /\ KickoffHeight[k] < dbNextHeight /\ deposit[k] = "signed"
                       => \E i \in 1..Len(ms) : ms[i] = NewKickoff(k)
<1> DEFINE o == Head(queue).operator
           h == last_finalized_block
           new == Replayed(o, StartHeight)
           round == Append(round_machines, new)
           found == {x \in {<<1, k>> : k \in Kickoffs} :
                        /\ OperatorOf[x[2]] = o
                        /\ KickoffHeight[x[2]] \in new.seen
                        /\ deposit[x[2]] = "signed"}
<1>1. /\ Reads("NewOperator") /\ RoundMachine(round_machines, o) = 0 /\ UNCHANGED ownerVars
  BY DEF HandleNewOperator
<1>2. /\ pc = "run" /\ queue # << >> /\ Head(queue) \in Messages /\ Head(queue).type = "NewOperator"
      /\ next_height_to_process = dbNextHeight /\ dbNextHeight \in Nat /\ dbNextHeight >= StartHeight
      /\ last_processed_lcp = dbLcp /\ dbLcp \in Int /\ challenges \in SUBSET Kickoffs
      /\ h \in Nat /\ h + 1 = dbNextHeight
      /\ Lists(round_machines, Operators) /\ Holds(round_machines, Operators, rows)
      /\ Lists(kickoff_machines, Kickoffs) /\ Holds(kickoff_machines, Kickoffs, rows)
      /\ \A i \in 1..Len(round_machines) : HasSeen(round_machines[i], h + 1)
      /\ \A i \in 1..Len(kickoff_machines) : HasSeen(kickoff_machines[i], h + 1)
  BY <1>1, ReadsFacts
<1>3. PICK ms \in KickoffMessages(found) :
         Handled(round, kickoff_machines, dbLcp, h, ms, challenges)
  BY <1>1, <1>2 DEF HandleNewOperator
<1>4. o \in Operators /\ o \in Machines /\ StartHeight \in Nat
  BY <1>2, MessageFields, Heights
<1> HIDE DEF o, found
<1>5. /\ new \in MachineRecords /\ new.id = o /\ new.dirty /\ new.challenged = {}
      /\ new.seen = Activity[o] \cap (StartHeight..dbNextHeight - 1) /\ HasSeen(new, h + 1)
  BY <1>2, <1>4, ReplayedFacts
<1> HIDE DEF new
<1>6. \A i \in 1..Len(round_machines) : round_machines[i].id # new.id
  BY <1>1, <1>2, <1>5, RoundMachineFacts DEF Lists
<1>7. Lists(round, Operators) /\ Savable(round, Operators)
  BY <1>2, <1>4, <1>5, <1>6, AppendSavable
<1>8. \A i \in 1..Len(round) : HasSeen(round[i], h + 1)
  <2>1. \A i \in 1..Len(round) :
           (i \in 1..Len(round_machines) /\ round[i] = round_machines[i]) \/ round[i] = new
    BY <1>2, <1>5 DEF Lists
  <2> HIDE DEF round
  <2> QED BY <1>2, <1>5, <2>1
<1>9. Savable(kickoff_machines, Kickoffs)
  BY <1>2, HoldsSavable
<1>10. /\ ms \in Seq(Messages)
       /\ \A i \in 1..Len(ms) : ms[i].type = "NewKickoff"
       /\ \A x \in found : \E i \in 1..Len(ms) : ms[i] = NewKickoff(x[2])
  <2>1. found \subseteq {1} \X Kickoffs
    BY DEF found
  <2>2. IsFiniteSet({1})
    BY FS_Singleton
  <2> QED BY <1>3, <2>1, <2>2, KickoffMessagesFacts
<1>11. /\ Core'
       /\ dbNextHeight' = h + 1 /\ dbLcp' = dbLcp /\ challenges' = challenges
       /\ queue' = Tail(queue) \o ms
       /\ Holds(round, Operators, rows') /\ Holds(kickoff_machines, Kickoffs, rows')
  <2>1. dbNextHeight <= h + 1
    BY <1>2
  <2> HIDE DEF round, h
  <2> QED BY <1>2, <1>3, <1>7, <1>8, <1>9, <1>10, <2>1, HandledCore
<1>12. /\ rows[o] = NoRow /\ rows'[o] # NoRow /\ rows'[o].challenged = {}
       /\ \A x \in Operators \ {o} : Kept(rows', x)
  <2>1. Holds(Append(round_machines, new), Operators, rows')
    BY <1>11
  <2>2. new.id \in Operators
    BY <1>4, <1>5
  <2>3. /\ rows[new.id] = NoRow /\ rows'[new.id] # NoRow /\ rows'[new.id].challenged = new.challenged
        /\ \A x \in Operators \ {new.id} : Kept(rows', x)
    BY <1>2, <1>5, <1>6, <2>1, <2>2, AppendRows
  <2> QED BY <1>5, <2>3
<1>13. \A x \in Kickoffs : Kept(rows', x)
  BY <1>2, <1>11, UnchangedRows
<1>14. \A x \in Machines \ {o} : Kept(rows', x)
  BY <1>12, <1>13 DEF Machines
<1>15. ASSUME NEW k \in Kickoffs, OperatorOf[k] = o, KickoffHeight[k] < dbNextHeight, deposit[k] = "signed"
       PROVE  \E i \in 1..Len(ms) : ms[i] = NewKickoff(k)
  <2>1. KickoffHeight[k] \in new.seen
    <3>1. KickoffHeight[k] \in Nat /\ KickoffHeight[k] >= StartHeight /\ KickoffHeight[k] \in Activity[o]
      BY <1>15, Heights
    <3>2. KickoffHeight[k] \in StartHeight..dbNextHeight - 1
      BY <1>2, <1>4, <1>15, <3>1
    <3> QED BY <1>5, <3>1, <3>2
  <2>2. <<1, k>> \in found
    BY <1>15, <2>1 DEF found
  <2>3. \E j \in 1..Len(ms) : ms[j] = NewKickoff(<<1, k>>[2])
    BY <1>10, <2>2
  <2> QED BY <2>3
<1>16. \A k \in Kickoffs :
          OperatorOf[k] = o /\ KickoffHeight[k] < dbNextHeight /\ deposit[k] = "signed"
             => \E i \in 1..Len(ms) : ms[i] = NewKickoff(k)
  BY <1>15
<1>17. \E s \in Seq(Messages) :
          /\ queue' = Tail(queue) \o s
          /\ \A i \in 1..Len(s) : s[i].type = "NewKickoff"
          /\ \A k \in Kickoffs :
                OperatorOf[k] = o /\ KickoffHeight[k] < dbNextHeight /\ deposit[k] = "signed"
                   => \E i \in 1..Len(s) : s[i] = NewKickoff(k)
  BY <1>10, <1>11, <1>16
<1> HIDE DEF round, h
<1> QED BY <1>1, <1>2, <1>4, <1>11, <1>12, <1>14, <1>17 DEF o

(* A process keeps its row, or its lack of one, and its challenged rounds stay challenged. *)
Grows(table, m) ==
    /\ (table[m] # NoRow) <=> (rows[m] # NoRow)
    /\ (rows[m] # NoRow) => (rows[m].challenged \subseteq table[m].challenged)

IsChallengedRow(table, k) == table[OperatorOf[k]] # NoRow /\ RoundOf[k] \in table[OperatorOf[k]].challenged

LEMMA GrownRows ==
    ASSUME NEW S, NEW ms, Lists(ms, S), Holds(ms, S, rows), NEW new, Extends(ms, new), NEW table,
           Holds(new, S, table)
    PROVE  \A m \in S : Grows(table, m)
<1> SUFFICES ASSUME NEW m \in S PROVE Grows(table, m)
  OBVIOUS
<1>1. ASSUME NEW i \in 1..Len(ms), ms[i].id = m
      PROVE  rows[m] # NoRow /\ table[m] # NoRow /\ rows[m].challenged \subseteq table[m].challenged
  <2>1. i \in 1..Len(new) /\ new[i].id = m /\ ms[i].challenged \subseteq new[i].challenged
    BY <1>1 DEF Extends
  <2>2. rows[m] # NoRow /\ Same(ms[i], rows[m])
    BY <1>1 DEF Holds
  <2>3. table[m] # NoRow /\ Same(new[i], table[m])
    BY <2>1 DEF Holds
  <2> QED BY <2>1, <2>2, <2>3 DEF Same
<1>2. rows[m] # NoRow => \E i \in 1..Len(ms) : ms[i].id = m
  BY DEF Holds
<1>3. table[m] # NoRow => \E i \in 1..Len(ms) : ms[i].id = m
  <2>1. table[m] # NoRow => \E i \in 1..Len(new) : new[i].id = m
    BY DEF Holds
  <2> QED BY <2>1 DEF Extends
<1> QED BY <1>1, <1>2, <1>3 DEF Grows

(* The challenged rounds of the memory are the ones of the tables. *)
LEMMA ChallengedRows ==
    ASSUME NEW ms, Lists(ms, Operators), NEW table, Holds(ms, Operators, table), NEW k \in Kickoffs
    PROVE  IsChallenged(ms, k) <=> IsChallengedRow(table, k)
<1>1. OperatorOf[k] \in Operators
  BY Heights
<1>2. ASSUME NEW i \in 1..Len(ms), ms[i].id = OperatorOf[k]
      PROVE  table[OperatorOf[k]] # NoRow /\ ms[i].challenged = table[OperatorOf[k]].challenged
  BY <1>2 DEF Holds, Same
<1>3. table[OperatorOf[k]] # NoRow => \E i \in 1..Len(ms) : ms[i].id = OperatorOf[k]
  BY <1>1 DEF Holds
<1> QED BY <1>2, <1>3 DEF IsChallenged, IsChallengedRow

LEMMA ChallengesOfRows ==
    ASSUME NEW ms, Lists(ms, Operators), NEW table, Holds(ms, Operators, table), NEW cs \in SUBSET Kickoffs
    PROVE  ChallengesIn(ms, cs) <=> ChallengesInv(table, cs)
<1>1. \A c \in cs : IsChallenged(ms, c) <=> IsChallengedRow(table, c)
  BY ChallengedRows
<1>2. (\A i \in 1..Len(ms) : \A r \in ms[i].challenged :
          \E c \in cs : OperatorOf[c] = ms[i].id /\ RoundOf[c] = r)
      <=> (\A o \in Operators : table[o] # NoRow =>
              \A r \in table[o].challenged : \E c \in cs : OperatorOf[c] = o /\ RoundOf[c] = r)
  <2>1. ASSUME NEW i \in 1..Len(ms)
        PROVE  /\ ms[i].id \in Operators /\ table[ms[i].id] # NoRow
               /\ ms[i].challenged = table[ms[i].id].challenged
    BY DEF Lists, Holds, Same
  <2>2. ASSUME NEW o \in Operators, table[o] # NoRow PROVE \E i \in 1..Len(ms) : ms[i].id = o
    BY <2>2 DEF Holds
  <2> DEFINE P(o, r) == \E c \in cs : OperatorOf[c] = o /\ RoundOf[c] = r
  <2> HIDE DEF P
  <2>3. (\A i \in 1..Len(ms) : \A r \in ms[i].challenged : P(ms[i].id, r))
        <=> (\A o \in Operators : table[o] # NoRow => \A r \in table[o].challenged : P(o, r))
    BY <2>1, <2>2
  <2> QED BY <2>3 DEF P
<1> QED BY <1>1, <1>2 DEF ChallengesIn, ChallengesInv, IsChallenged, IsChallengedRow

(* A new kickoff: it gets a machine, and is checked if the LCP of its block *)
(* was processed.                                                           *)
LEMMA NewKickoffStep ==
    ASSUME Core, HandleNewKickoff, pc' = "run"
    PROVE  /\ Core' /\ UNCHANGED ownerVars
           /\ Head(queue) \in Messages /\ Head(queue).type = "NewKickoff" /\ queue # << >>
           /\ Head(queue).kickoff \in Kickoffs
           /\ queue' = Tail(queue) /\ dbNextHeight' = dbNextHeight /\ dbLcp' = dbLcp
           /\ rows'[Head(queue).kickoff] # NoRow
           /\ \A m \in Operators : Grows(rows', m)
           /\ \A m \in Kickoffs \ {Head(queue).kickoff} : Kept(rows', m)
           /\ ChallengesInv(rows, challenges) => ChallengesInv(rows', challenges')
           /\ Head(queue).kickoff \in Malicious /\ dbLcp >= KickoffHeight[Head(queue).kickoff]
                 => IsChallengedRow(rows', Head(queue).kickoff)
<1> DEFINE k == Head(queue).kickoff
           h == last_finalized_block
           new == Replayed(k, KickoffHeight[k])
           kickoff == Append(kickoff_machines, new)
           st == [round_machines |-> round_machines, challenges |-> challenges]
           checked == IF LcpCovers(k) THEN CheckIfKickoffMalicious(st, k) ELSE st
           round == checked.round_machines
           cs == checked.challenges
<1>1. /\ Reads("NewKickoff") /\ UNCHANGED ownerVars
      /\ \A i \in DOMAIN kickoff_machines : kickoff_machines[i].id # k
      /\ LcpCovers(k) => RoundMachine(round_machines, OperatorOf[k]) # 0
  BY DEF HandleNewKickoff
<1>2. /\ pc = "run" /\ queue # << >> /\ Head(queue) \in Messages /\ Head(queue).type = "NewKickoff"
      /\ next_height_to_process = dbNextHeight /\ dbNextHeight \in Nat /\ dbNextHeight >= StartHeight
      /\ last_processed_lcp = dbLcp /\ dbLcp \in Int /\ challenges \in SUBSET Kickoffs
      /\ h \in Nat /\ h + 1 = dbNextHeight
      /\ Lists(round_machines, Operators) /\ Holds(round_machines, Operators, rows)
      /\ Lists(kickoff_machines, Kickoffs) /\ Holds(kickoff_machines, Kickoffs, rows)
      /\ \A i \in 1..Len(round_machines) : HasSeen(round_machines[i], h + 1)
      /\ \A i \in 1..Len(kickoff_machines) : HasSeen(kickoff_machines[i], h + 1)
  BY <1>1, ReadsFacts
<1>3. Handled(round, kickoff, dbLcp, h, << >>, cs)
  BY <1>1, <1>2 DEF HandleNewKickoff
<1>4. /\ k \in Kickoffs /\ k \in Machines /\ k \notin Operators
      /\ KickoffHeight[k] \in Nat /\ KickoffHeight[k] >= StartHeight /\ StartHeight \in Nat
  BY <1>2, MessageFields, Heights
<1>5. \A i \in 1..Len(kickoff_machines) : kickoff_machines[i].id # k
  BY <1>1, <1>2 DEF Lists
<1> HIDE DEF k
<1>6. /\ new \in MachineRecords /\ new.id = k /\ new.dirty /\ HasSeen(new, h + 1)
  BY <1>2, <1>4, ReplayedFacts
<1> HIDE DEF new
<1>7. Lists(kickoff, Kickoffs) /\ Savable(kickoff, Kickoffs)
  BY <1>2, <1>4, <1>5, <1>6, AppendSavable
<1>8. \A i \in 1..Len(kickoff) : HasSeen(kickoff[i], h + 1)
  <2>1. \A i \in 1..Len(kickoff) :
           (i \in 1..Len(kickoff_machines) /\ kickoff[i] = kickoff_machines[i]) \/ kickoff[i] = new
    BY <1>2, <1>6 DEF Lists
  <2> HIDE DEF kickoff
  <2> QED BY <1>2, <1>6, <2>1
<1>9. /\ Lists(round, Operators) /\ Extends(round_machines, round) /\ cs \in SUBSET Kickoffs
      /\ ChallengesIn(round_machines, challenges) => ChallengesIn(round, cs)
      /\ LcpCovers(k) /\ k \in Malicious => IsChallenged(round, k)
  <2>1. st \in CheckStates /\ st.round_machines = round_machines /\ st.challenges = challenges
    BY <1>2 DEF CheckStates, Lists
  <2>2. CASE LcpCovers(k)
    <3>1. checked = CheckIfKickoffMalicious(st, k)
      BY <2>2
    <3> HIDE DEF st, checked
    <3>2. RoundMachine(st.round_machines, OperatorOf[k]) # 0 /\ Lists(st.round_machines, Operators)
      BY <1>1, <1>2, <2>1, <2>2 DEF k
    <3>3. /\ checked \in CheckStates
          /\ Lists(checked.round_machines, Operators)
          /\ Extends(st.round_machines, checked.round_machines)
          /\ k \in Malicious => IsChallenged(checked.round_machines, k)
          /\ Lists(st.round_machines, Operators) /\ ChallengesIn(st.round_machines, st.challenges) =>
                ChallengesIn(checked.round_machines, checked.challenges)
      BY <1>4, <2>1, <3>1, <3>2, CheckFacts
    <3>4. checked.challenges \in SUBSET Kickoffs
      BY <3>3 DEF CheckStates
    <3>5. ChallengesIn(round_machines, challenges) => ChallengesIn(round, cs)
      BY <2>1, <3>2, <3>3
    <3> QED BY <2>1, <3>3, <3>4, <3>5
  <2>3. CASE ~LcpCovers(k)
    <3>1. round = round_machines /\ cs = challenges
      BY <2>3
    <3> HIDE DEF round, cs
    <3> QED BY <1>2, <2>3, <3>1 DEF Extends
  <2> QED BY <2>2, <2>3
<1> HIDE DEF round, cs, kickoff
<1>10. Savable(round, Operators) /\ \A i \in 1..Len(round) : HasSeen(round[i], h + 1)
  BY <1>2, <1>9, ExtendsSavable
<1>11. /\ Core'
       /\ dbNextHeight' = h + 1 /\ dbLcp' = dbLcp /\ challenges' = cs
       /\ queue' = Tail(queue) \o << >>
       /\ Holds(round, Operators, rows') /\ Holds(kickoff, Kickoffs, rows')
  <2>1. dbNextHeight <= h + 1 /\ << >> \in Seq(Messages)
    BY <1>2
  <2> HIDE DEF h
  <2> QED BY <1>2, <1>3, <1>7, <1>8, <1>9, <1>10, <2>1, HandledCore
<1>12. queue' = Tail(queue)
  BY <1>2, <1>11 DEF Core
<1>13. rows'[k] # NoRow /\ \A x \in Kickoffs \ {k} : Kept(rows', x)
  <2>1. Holds(Append(kickoff_machines, new), Kickoffs, rows')
    BY <1>11 DEF kickoff
  <2>2. new.id \in Kickoffs /\ \A i \in 1..Len(kickoff_machines) : kickoff_machines[i].id # new.id
    BY <1>4, <1>5, <1>6
  <2>3. rows'[new.id] # NoRow /\ \A x \in Kickoffs \ {new.id} : Kept(rows', x)
    BY <1>2, <1>6, <2>1, <2>2, AppendRows
  <2> QED BY <1>6, <2>3
<1>14. \A x \in Operators : Grows(rows', x)
  BY <1>2, <1>9, <1>11, GrownRows
<1>15. ChallengesInv(rows, challenges) => ChallengesInv(rows', challenges')
  <2>1. ChallengesIn(round_machines, challenges) <=> ChallengesInv(rows, challenges)
    BY <1>2, ChallengesOfRows
  <2>2. ChallengesIn(round, cs) <=> ChallengesInv(rows', cs)
    BY <1>9, <1>11, ChallengesOfRows
  <2> QED BY <1>9, <1>11, <2>1, <2>2
<1>16. k \in Malicious /\ dbLcp >= KickoffHeight[k] => IsChallengedRow(rows', k)
  <2>1. dbLcp >= KickoffHeight[k] => LcpCovers(k)
    BY <1>2, <1>4 DEF LcpCovers, NoLcp
  <2>2. IsChallenged(round, k) <=> IsChallengedRow(rows', k)
    BY <1>4, <1>9, <1>11, ChallengedRows
  <2> QED BY <1>9, <2>1, <2>2
<1>17. dbNextHeight' = dbNextHeight
  BY <1>2, <1>11
<1> HIDE DEF h
<1> QED BY <1>1, <1>2, <1>4, <1>11, <1>12, <1>13, <1>14, <1>15, <1>16, <1>17 DEF k

(* The LCP of a block: the kickoffs in it are checked. *)
LEMMA LcpStep ==
    ASSUME Core, HandleLCPProcessed, pc' = "run"
    PROVE  /\ Core' /\ UNCHANGED ownerVars
           /\ Head(queue) \in Messages /\ Head(queue).type = "LCPProcessed" /\ queue # << >>
           /\ queue' = Tail(queue) /\ dbNextHeight' = dbNextHeight /\ dbLcp' = Head(queue).height
           /\ \A m \in Operators : Grows(rows', m)
           /\ \A m \in Kickoffs : Kept(rows', m)
           /\ ChallengesInv(rows, challenges) => ChallengesInv(rows', challenges')
           /\ \A k \in Malicious : rows[k] # NoRow /\ KickoffHeight[k] = Head(queue).height
                 => IsChallengedRow(rows', k)
<1> DEFINE lcp == Head(queue).height
           h == last_finalized_block
           checked == CheckKickoffsAt(lcp, Len(kickoff_machines))
           round == checked.round_machines
           cs == checked.challenges
<1>1. Reads("LCPProcessed") /\ UNCHANGED ownerVars /\ Checkable(lcp, Len(kickoff_machines))
  BY DEF HandleLCPProcessed
<1>2. /\ pc = "run" /\ queue # << >> /\ Head(queue) \in Messages /\ Head(queue).type = "LCPProcessed"
      /\ next_height_to_process = dbNextHeight /\ dbNextHeight \in Nat /\ dbNextHeight >= StartHeight
      /\ last_processed_lcp = dbLcp /\ dbLcp \in Int /\ challenges \in SUBSET Kickoffs
      /\ h \in Nat /\ h + 1 = dbNextHeight
      /\ Lists(round_machines, Operators) /\ Holds(round_machines, Operators, rows)
      /\ Lists(kickoff_machines, Kickoffs) /\ Holds(kickoff_machines, Kickoffs, rows)
      /\ \A i \in 1..Len(round_machines) : HasSeen(round_machines[i], h + 1)
      /\ \A i \in 1..Len(kickoff_machines) : HasSeen(kickoff_machines[i], h + 1)
  BY <1>1, ReadsFacts
<1>3. Handled(round, kickoff_machines, lcp, h, << >>, cs)
  BY <1>1, <1>2 DEF HandleLCPProcessed
<1>4. lcp \in Nat
  BY <1>2, MessageFields
<1> HIDE DEF lcp
<1>5. /\ Lists(round, Operators) /\ Extends(round_machines, round) /\ cs \in SUBSET Kickoffs
      /\ ChallengesIn(round_machines, challenges) => ChallengesIn(round, cs)
      /\ \A i \in 1..Len(kickoff_machines) :
            KickoffHeight[kickoff_machines[i].id] = lcp /\ kickoff_machines[i].id \in Malicious =>
               IsChallenged(round, kickoff_machines[i].id)
  <2>1. /\ checked \in CheckStates
        /\ Lists(checked.round_machines, Operators)
        /\ Extends(round_machines, checked.round_machines)
        /\ \A i \in 1..Len(kickoff_machines) :
              KickoffHeight[kickoff_machines[i].id] = lcp /\ kickoff_machines[i].id \in Malicious =>
                 IsChallenged(checked.round_machines, kickoff_machines[i].id)
        /\ ChallengesIn(round_machines, challenges) =>
              ChallengesIn(checked.round_machines, checked.challenges)
    <3>1. Vector(round_machines, Operators) /\ Vector(kickoff_machines, Kickoffs)
      BY <1>2 DEF Lists, Vector
    <3>2. Len(kickoff_machines) \in 0..Len(kickoff_machines)
      BY <3>1 DEF Vector
    <3> QED BY <1>1, <1>2, <3>1, <3>2, CheckAllFacts DEF lcp
  <2> HIDE DEF checked
  <2>2. checked.challenges \in SUBSET Kickoffs
    BY <2>1 DEF CheckStates
  <2> QED BY <2>1, <2>2
<1> HIDE DEF round, cs, checked
<1>6. Savable(round, Operators) /\ \A i \in 1..Len(round) : HasSeen(round[i], h + 1)
  BY <1>2, <1>5, ExtendsSavable
<1>7. Savable(kickoff_machines, Kickoffs)
  BY <1>2, HoldsSavable
<1>8. /\ Core'
      /\ dbNextHeight' = h + 1 /\ dbLcp' = lcp /\ challenges' = cs
      /\ queue' = Tail(queue) \o << >>
      /\ Holds(round, Operators, rows') /\ Holds(kickoff_machines, Kickoffs, rows')
  <2>1. dbNextHeight <= h + 1 /\ << >> \in Seq(Messages) /\ lcp \in Int
    BY <1>2, <1>4
  <2> HIDE DEF h
  <2> QED BY <1>2, <1>3, <1>5, <1>6, <1>7, <2>1, HandledCore
<1>9. queue' = Tail(queue)
  BY <1>2, <1>8 DEF Core
<1>10. \A x \in Kickoffs : Kept(rows', x)
  BY <1>2, <1>8, UnchangedRows
<1>11. \A x \in Operators : Grows(rows', x)
  BY <1>2, <1>5, <1>8, GrownRows
<1>12. ChallengesInv(rows, challenges) => ChallengesInv(rows', challenges')
  <2>1. ChallengesIn(round_machines, challenges) <=> ChallengesInv(rows, challenges)
    BY <1>2, ChallengesOfRows
  <2>2. ChallengesIn(round, cs) <=> ChallengesInv(rows', cs)
    BY <1>5, <1>8, ChallengesOfRows
  <2> QED BY <1>5, <1>8, <2>1, <2>2
<1>13. ASSUME NEW k \in Malicious, rows[k] # NoRow, KickoffHeight[k] = lcp PROVE IsChallengedRow(rows', k)
  <2>1. k \in Kickoffs
    BY ManagerAssumption
  <2>2. PICK i \in 1..Len(kickoff_machines) : kickoff_machines[i].id = k
    BY <1>2, <1>13, <2>1 DEF Holds
  <2>3. IsChallenged(round, k)
    BY <1>5, <1>13, <2>2
  <2> QED BY <1>5, <1>8, <2>1, <2>3, ChallengedRows
<1>14. dbNextHeight' = dbNextHeight
  BY <1>2, <1>8
<1> HIDE DEF h
<1> QED BY <1>1, <1>2, <1>8, <1>9, <1>10, <1>11, <1>12, <1>13, <1>14 DEF lcp

-----------------------------------------------------------------------------
(* The core is an invariant. *)

(* The heights of the producers. *)
OwnerInv == nextBlock \in Nat /\ nextLcp \in Nat

(* The variables of the database other than the queue. *)
savedVars == <<rows, dbNextHeight, dbLcp, challenges>>

LEMMA QueueCore ==
    ASSUME Core, queue' \in Seq(Messages), UNCHANGED savedVars, UNCHANGED memVars
    PROVE  Core'
<1>1. /\ rows' = rows /\ dbNextHeight' = dbNextHeight /\ dbLcp' = dbLcp /\ challenges' = challenges
      /\ pc' = pc /\ round_machines' = round_machines /\ kickoff_machines' = kickoff_machines
      /\ next_height_to_process' = next_height_to_process
      /\ last_processed_lcp' = last_processed_lcp /\ last_finalized_block' = last_finalized_block
  BY DEF savedVars, memVars
<1>2. RowsInv'
  <2>1. \A m \in Machines : rows'[m] # NoRow => HasSeen(rows'[m], dbNextHeight')
    BY <1>1 DEF Core, RowsInv
  <2> QED BY <1>1, <2>1 DEF Core, RowsInv, HasSeen
<1>3. MemoryInv'
  BY <1>1 DEF Core, MemoryInv
<1> QED BY <1>2, <1>3 DEF Core

LEMMA RowsCore ==
    ASSUME Core, UNCHANGED dbVars PROVE queue' \in Seq(Messages) /\ RowsInv'
<1>1. /\ rows' = rows /\ dbNextHeight' = dbNextHeight /\ dbLcp' = dbLcp /\ challenges' = challenges
      /\ queue' = queue
  BY DEF dbVars
<1>2. \A m \in Machines : rows'[m] # NoRow => HasSeen(rows'[m], dbNextHeight')
  BY <1>1 DEF Core, RowsInv
<1> QED BY <1>1, <1>2 DEF Core, RowsInv, HasSeen

(* The manager is not running. *)
LEMMA StoppedCore ==
    ASSUME Core, UNCHANGED dbVars, pc' \in {"down", "recover"}
    PROVE  Core'
<1>1. MemoryInv'
  BY DEF MemoryInv
<1> QED BY <1>1, RowsCore DEF Core

(* The memory is loaded. *)
LEMMA ReloadCore ==
    ASSUME Core, UNCHANGED dbVars, pc' = "run", ReloadFromDb(<< >>, << >>)
    PROVE  Core'
<1>1. PICK r \in Loaded(Operators) : round_machines' = << >> \o r
  BY DEF ReloadFromDb
<1>2. PICK k \in Loaded(Kickoffs) : kickoff_machines' = << >> \o k
  BY DEF ReloadFromDb
<1>3. /\ IsTable(rows) /\ dbNextHeight \in Nat /\ dbNextHeight >= StartHeight /\ StartHeight \in Nat \ {0}
      /\ Operators \subseteq Machines /\ Kickoffs \subseteq Machines
      /\ IsFiniteSet(Operators) /\ IsFiniteSet(Kickoffs)
  BY Heights, ManagerAssumption DEF Core, RowsInv
<1>4. Lists(r, Operators) /\ Holds(r, Operators, rows)
  BY <1>3, LoadedFacts
<1>5. Lists(k, Kickoffs) /\ Holds(k, Kickoffs, rows)
  BY <1>3, LoadedFacts
<1>6. round_machines' = r /\ kickoff_machines' = k
  BY <1>1, <1>2, <1>4, <1>5 DEF Lists
<1>7. /\ next_height_to_process' = dbNextHeight' /\ last_processed_lcp' = dbLcp'
      /\ last_finalized_block' = dbNextHeight' - 1 /\ rows' = rows
  BY <1>3 DEF ReloadFromDb, dbVars
<1>8. MemoryInv'
  BY <1>4, <1>5, <1>6, <1>7 DEF MemoryInv
<1> QED BY <1>8, RowsCore DEF Core

(* The steps of the manager that leave the database alone: also a message *)
(* whose transaction fails.                                               *)
OnlyMemory ==
    \/ Start \/ Recover \/ Crash \/ PollEmptyQueue \/ UNCHANGED vars
    \/ FailInBlock \/ FailOutsideBlock \/ FailInCheckOfNewKickoff \/ FailInCheckOfLCP
    \/ pc' # "run" /\ (HandleFinalizedBlock \/ HandleNewOperator \/ HandleNewKickoff \/ HandleLCPProcessed)

(* A message that is not committed. *)
LEMMA FailedStep ==
    ASSUME \/ FailInBlock \/ FailOutsideBlock \/ FailInCheckOfNewKickoff \/ FailInCheckOfLCP
           \/ pc' # "run" /\ (HandleFinalizedBlock \/ HandleNewOperator \/ HandleNewKickoff \/ HandleLCPProcessed)
    PROVE  pc' = "recover" /\ UNCHANGED ownerVars /\ UNCHANGED dbVars /\ overlaid' = overlaid
<1>1. ASSUME NEW round, NEW kickoff, NEW lcp, NEW block, NEW messages, NEW challenged, pc = "run", pc' # "run",
             Handled(round, kickoff, lcp, block, messages, challenged)
      PROVE  pc' = "recover" /\ UNCHANGED dbVars /\ overlaid' = overlaid
  BY <1>1 DEF Handled
<1>2. CASE FailInBlock
  BY <1>2 DEF FailInBlock
<1>3. CASE FailOutsideBlock
  BY <1>3 DEF FailOutsideBlock
<1>4. CASE FailInCheckOfNewKickoff
  BY <1>4 DEF FailInCheckOfNewKickoff, CheckFails
<1>5. CASE FailInCheckOfLCP
  BY <1>5 DEF FailInCheckOfLCP, CheckFails
<1>6. CASE pc' # "run" /\ HandleFinalizedBlock
  BY <1>1, <1>6 DEF HandleFinalizedBlock, Reads
<1>7. CASE pc' # "run" /\ HandleNewOperator
  BY <1>1, <1>7 DEF HandleNewOperator, Reads
<1>8. CASE pc' # "run" /\ HandleNewKickoff
  BY <1>1, <1>8 DEF HandleNewKickoff, Reads
<1>9. CASE pc' # "run" /\ HandleLCPProcessed
  BY <1>1, <1>9 DEF HandleLCPProcessed, Reads
<1> QED BY <1>2, <1>3, <1>4, <1>5, <1>6, <1>7, <1>8, <1>9

LEMMA MemoryStep ==
    ASSUME Core, OnlyMemory, ~overlaid'
    PROVE  Core' /\ UNCHANGED ownerVars /\ UNCHANGED dbVars
<1>1. CASE Start
  <2>1. UNCHANGED dbVars /\ UNCHANGED ownerVars /\ pc' = "run" /\ ReloadFromDb(<< >>, << >>)
    BY <1>1 DEF Start
  <2> QED BY <2>1, ReloadCore
<1>2. CASE Recover
  <2>1. /\ UNCHANGED dbVars /\ UNCHANGED ownerVars /\ pc' \in {"run", "recover"}
        /\ ReloadFromDb(round_machines, kickoff_machines)
    BY <1>2 DEF Recover
  <2>2. overlaid' = (overlaid \/ round_machines # << >> \/ kickoff_machines # << >>)
    BY <1>2 DEF Recover
  <2>3. round_machines = << >> /\ kickoff_machines = << >>
    BY <2>2, Zenon
  <2>4. CASE pc' = "recover"
    BY <2>1, <2>4, StoppedCore
  <2>5. CASE pc' = "run"
    <3>1. ReloadFromDb(<< >>, << >>)
      BY <2>1, <2>3
    <3> QED BY <2>1, <2>5, <3>1, ReloadCore
  <2> QED BY <2>1, <2>4, <2>5
<1>3. CASE PollEmptyQueue \/ UNCHANGED vars
  <2>1. /\ UNCHANGED dbVars /\ UNCHANGED ownerVars /\ UNCHANGED memVars /\ UNCHANGED savedVars
        /\ queue' = queue
    BY <1>3 DEF PollEmptyQueue, vars, dbVars, savedVars
  <2>2. queue' \in Seq(Messages)
    BY <2>1 DEF Core
  <2> QED BY <2>1, <2>2, QueueCore
<1>4. CASE Crash
  <2>1. UNCHANGED dbVars /\ UNCHANGED ownerVars /\ pc' = "down"
    BY <1>4 DEF Crash
  <2> QED BY <2>1, StoppedCore
<1>5. CASE \/ FailInBlock \/ FailOutsideBlock \/ FailInCheckOfNewKickoff \/ FailInCheckOfLCP
           \/ pc' # "run" /\ (HandleFinalizedBlock \/ HandleNewOperator \/ HandleNewKickoff \/ HandleLCPProcessed)
  BY <1>5, FailedStep, StoppedCore
<1> QED BY <1>1, <1>2, <1>3, <1>4, <1>5 DEF OnlyMemory

(* Once machines were loaded on top of others, that remains so. *)
LEMMA OverlaidStays ==
    ASSUME overlaid, [Next]_vars PROVE overlaid'
<1>1. CASE Recover
  BY <1>1, Zenon DEF Recover
<1>2. CASE Produce
  <2>1. overlaid' = overlaid
    BY <1>2 DEF Produce, Finalize, SendFinalizedBlock, SendLCPProcessed, SetOperator, OpenDeposit,
                CommitDeposit, memVars
  <2> QED BY <2>1, Zenon
<1>3. CASE Start \/ Crash \/ SkipMessage \/ PollEmptyQueue \/ UNCHANGED vars
  <2>1. overlaid' = overlaid
    BY <1>3 DEF Start, Crash, SkipMessage, PollEmptyQueue, memVars, vars
  <2> QED BY <2>1, Zenon
<1>4. CASE FailInBlock \/ FailOutsideBlock \/ FailInCheckOfNewKickoff \/ FailInCheckOfLCP
  <2>1. overlaid' = overlaid
    BY <1>4, FailedStep
  <2> QED BY <2>1, Zenon
<1>5. CASE HandleFinalizedBlock \/ HandleNewOperator \/ HandleNewKickoff \/ HandleLCPProcessed
  <2>1. overlaid' = overlaid
    BY <1>5 DEF HandleFinalizedBlock, HandleNewOperator, HandleNewKickoff, HandleLCPProcessed, Handled
  <2> QED BY <2>1, Zenon
<1> QED BY <1>1, <1>2, <1>3, <1>4, <1>5 DEF Next, Consume

(* The cases of a step. *)
LEMMA Steps ==
    ASSUME [Next]_vars
    PROVE  \/ Produce \/ SkipMessage \/ OnlyMemory
           \/ HandleFinalizedBlock /\ pc' = "run"
           \/ HandleNewOperator /\ pc' = "run"
           \/ HandleNewKickoff /\ pc' = "run"
           \/ HandleLCPProcessed /\ pc' = "run"
  BY DEF Next, Consume, OnlyMemory

(* The steps of the producers. *)
LEMMA ProduceFacts ==
    ASSUME OwnerInv, Produce
    PROVE  /\ OwnerInv' /\ UNCHANGED savedVars /\ UNCHANGED memVars
           /\ queue' = queue \/ \E m \in Messages : queue' = Append(queue, m)
<1>1. UNCHANGED savedVars /\ UNCHANGED memVars
  BY DEF Produce, Finalize, SendFinalizedBlock, SendLCPProcessed, SetOperator, OpenDeposit, CommitDeposit,
         savedVars, dbVars
<1>2. /\ OwnerInv'
      /\ queue' = queue \/ \E m \in Messages : queue' = Append(queue, m)
  <2>1. CASE Finalize \/ \E k \in Kickoffs : OpenDeposit(k)
    BY <2>1 DEF Finalize, OpenDeposit, OwnerInv, dbVars
  <2>2. CASE SendFinalizedBlock
    BY <2>2 DEF SendFinalizedBlock, OwnerInv, Messages
  <2>3. CASE SendLCPProcessed
    BY <2>3 DEF SendLCPProcessed, OwnerInv, Messages
  <2>4. ASSUME NEW o \in Operators, SetOperator(o)
        PROVE  OwnerInv' /\ (queue' = queue \/ \E m \in Messages : queue' = Append(queue, m))
    BY <2>4 DEF SetOperator, OwnerInv, Messages
  <2>5. ASSUME NEW k \in Kickoffs, CommitDeposit(k)
        PROVE  OwnerInv' /\ (queue' = queue \/ \E m \in Messages : queue' = Append(queue, m))
    BY <2>5 DEF CommitDeposit, OwnerInv, Messages
  <2> QED BY <2>1, <2>2, <2>3, <2>4, <2>5 DEF Produce
<1> QED BY <1>1, <1>2

LEMMA ProduceStep ==
    ASSUME Core, OwnerInv, Produce
    PROVE  /\ Core' /\ OwnerInv' /\ UNCHANGED savedVars
           /\ queue' = queue \/ \E m \in Messages : queue' = Append(queue, m)
<1>1. /\ OwnerInv' /\ UNCHANGED savedVars /\ UNCHANGED memVars
      /\ queue' = queue \/ \E m \in Messages : queue' = Append(queue, m)
  BY ProduceFacts
<1>2. queue' \in Seq(Messages)
  BY <1>1 DEF Core
<1> QED BY <1>1, <1>2, QueueCore

(* A message that needs no work. *)
LEMMA SkipStep ==
    ASSUME Core, SkipMessage
    PROVE  /\ Core' /\ UNCHANGED ownerVars /\ UNCHANGED savedVars
           /\ queue # << >> /\ queue' = Tail(queue) /\ Head(queue) \in Messages
           /\ \/ Head(queue).type = "NewOperator"
              \/ Head(queue).type = "NewKickoff" /\ Head(queue).kickoff \notin Relevant
              \/ Head(queue).type = "NewKickoff" /\ rows[Head(queue).kickoff] # NoRow
<1>1. /\ UNCHANGED ownerVars /\ UNCHANGED savedVars /\ UNCHANGED memVars
      /\ queue # << >> /\ queue' = Tail(queue) /\ pc = "run"
  BY DEF SkipMessage, Reads, savedVars
<1>2. Head(queue) \in Messages /\ queue' \in Seq(Messages)
  BY <1>1 DEF Core
<1>3. \/ Head(queue).type = "NewOperator"
      \/ Head(queue).type = "NewKickoff" /\ Head(queue).kickoff \notin Relevant
      \/ /\ Head(queue).type = "NewKickoff"
         /\ \E i \in DOMAIN kickoff_machines : kickoff_machines[i].id = Head(queue).kickoff
  BY DEF SkipMessage, Reads
<1>4. ASSUME NEW i \in DOMAIN kickoff_machines PROVE rows[kickoff_machines[i].id] # NoRow
  <2>1. Lists(kickoff_machines, Kickoffs) /\ Holds(kickoff_machines, Kickoffs, rows)
    BY <1>1 DEF Core, MemoryInv
  <2>2. i \in 1..Len(kickoff_machines)
    BY <2>1 DEF Lists
  <2> QED BY <2>1, <2>2 DEF Holds
<1> QED BY <1>1, <1>2, <1>3, <1>4, QueueCore

LEMMA CoreInit ==
    ASSUME Init PROVE Core /\ OwnerInv
<1>1. RowsInv
  <2>1. \A m \in Machines : rows[m] = NoRow
    BY DEF Init
  <2>2. StartHeight \in Nat /\ dbNextHeight = StartHeight /\ dbLcp \in Int /\ challenges \in SUBSET Kickoffs
    BY Heights DEF Init, NoLcp
  <2>3. rows = [m \in Machines |-> rows[m]]
    BY DEF Init
  <2> QED BY <2>1, <2>2, <2>3 DEF RowsInv, IsTable
<1>2. MemoryInv
  BY DEF Init, MemoryInv
<1> QED BY <1>1, <1>2, Heights DEF Core, OwnerInv, Init

LEMMA CoreStep ==
    ASSUME Core, OwnerInv, [Next]_vars, ~overlaid' PROVE Core' /\ OwnerInv'
<1>1. ASSUME UNCHANGED ownerVars PROVE OwnerInv'
  BY <1>1 DEF ownerVars, OwnerInv
<1>2. CASE Produce
  BY <1>2, ProduceStep
<1>3. CASE HandleFinalizedBlock /\ pc' = "run"
  BY <1>1, <1>3, FinalizedBlockStep
<1>4. CASE HandleNewOperator /\ pc' = "run"
  BY <1>1, <1>4, NewOperatorStep
<1>5. CASE HandleNewKickoff /\ pc' = "run"
  BY <1>1, <1>5, NewKickoffStep
<1>6. CASE HandleLCPProcessed /\ pc' = "run"
  BY <1>1, <1>6, LcpStep
<1>7. CASE SkipMessage
  BY <1>1, <1>7, SkipStep
<1>8. CASE OnlyMemory
  BY <1>1, <1>8, MemoryStep
<1> QED BY <1>2, <1>3, <1>4, <1>5, <1>6, <1>7, <1>8, Steps

-----------------------------------------------------------------------------
LEMMA CoreIsOnePerProcess ==
    ASSUME Core PROVE OneMachinePerProcess
<1> SUFFICES ASSUME pc = "run"
             PROVE  LET all == round_machines \o kickoff_machines
                    IN  /\ \A i, j \in DOMAIN all : all[i].id = all[j].id => i = j
                        /\ {[x EXCEPT !.dirty = FALSE] : x \in Range(all)}
                           = {[rows[m] EXCEPT !.dirty = FALSE] : m \in {m \in Machines : rows[m] # NoRow}}
  BY DEF OneMachinePerProcess
<1> DEFINE all == round_machines \o kickoff_machines
           l == Len(round_machines)
           n == Len(kickoff_machines)
           Clean(x) == [x EXCEPT !.dirty = FALSE]
<1>1. /\ Lists(round_machines, Operators) /\ Holds(round_machines, Operators, rows)
      /\ Lists(kickoff_machines, Kickoffs) /\ Holds(kickoff_machines, Kickoffs, rows)
      /\ IsTable(rows)
  BY DEF Core, MemoryInv, RowsInv
<1>2. /\ all \in Seq(MachineRecords) /\ l \in Nat /\ n \in Nat
      /\ \A j \in 1..l : all[j] = round_machines[j] /\ j \in 1..Len(all)
      /\ \A j \in 1..n : all[l + j] = kickoff_machines[j] /\ l + j \in 1..Len(all)
      /\ \A j \in 1..Len(all) : j \in 1..l \/ \E k \in 1..n : j = l + k
  BY <1>1, JoinFacts DEF Lists
<1>3. DOMAIN all = 1..Len(all) /\ Range(all) = {all[i] : i \in 1..Len(all)}
  <2> HIDE DEF all
  <2>1. DOMAIN all = 1..Len(all)
    BY <1>2
  <2>2. Range(all) = {all[i] : i \in DOMAIN all}
    BY Zenon DEF Range
  <2> QED BY <2>1, <2>2, Zenon
<1>4. Operators \cap Kickoffs = {}
  BY ManagerAssumption
<1> HIDE DEF all
<1>5. ASSUME NEW i \in 1..Len(all), NEW j \in 1..Len(all), all[i].id = all[j].id PROVE i = j
  <2>1. CASE i \in 1..l /\ j \in 1..l
    BY <1>1, <1>2, <1>5, <2>1 DEF Lists
  <2>2. ASSUME NEW a \in 1..n, i = l + a, j \in 1..l PROVE FALSE
    <3>1. all[i].id \in Kickoffs /\ all[j].id \in Operators
      BY <1>1, <1>2, <2>2 DEF Lists
    <3> QED BY <1>4, <1>5, <3>1
  <2>3. ASSUME NEW b \in 1..n, i \in 1..l, j = l + b PROVE FALSE
    <3>1. all[j].id \in Kickoffs /\ all[i].id \in Operators
      BY <1>1, <1>2, <2>3 DEF Lists
    <3> QED BY <1>4, <1>5, <3>1
  <2>4. ASSUME NEW a \in 1..n, NEW b \in 1..n, i = l + a, j = l + b PROVE i = j
    <3>1. a = b
      BY <1>1, <1>2, <1>5, <2>4 DEF Lists
    <3> QED BY <2>4, <3>1
  <2> QED BY <1>2, <2>1, <2>2, <2>3, <2>4
<1>6. \A i \in 1..Len(all) : /\ all[i] \in MachineRecords /\ all[i].id \in Machines
                             /\ rows[all[i].id] # NoRow /\ Same(all[i], rows[all[i].id])
  <2>1. \A i \in 1..l : round_machines[i].id \in Operators /\ rows[round_machines[i].id] # NoRow
                        /\ Same(round_machines[i], rows[round_machines[i].id])
    BY <1>1 DEF Lists, Holds
  <2>2. \A i \in 1..n : kickoff_machines[i].id \in Kickoffs /\ rows[kickoff_machines[i].id] # NoRow
                        /\ Same(kickoff_machines[i], rows[kickoff_machines[i].id])
    BY <1>1 DEF Lists, Holds
  <2>3. \A i \in 1..Len(all) : /\ all[i].id \in Machines
                               /\ rows[all[i].id] # NoRow /\ Same(all[i], rows[all[i].id])
    <3> SUFFICES ASSUME NEW i \in 1..Len(all)
                 PROVE  /\ all[i].id \in Machines
                        /\ rows[all[i].id] # NoRow /\ Same(all[i], rows[all[i].id])
      OBVIOUS
    <3>1. CASE i \in 1..l
      <4>1. all[i] = round_machines[i]
        BY <1>2, <3>1
      <4> QED BY <2>1, <3>1, <4>1 DEF Machines
    <3>2. ASSUME NEW k \in 1..n, i = l + k
          PROVE  all[i].id \in Machines /\ rows[all[i].id] # NoRow /\ Same(all[i], rows[all[i].id])
      <4>1. all[i] = kickoff_machines[k]
        BY <1>2, <3>2
      <4> QED BY <2>2, <4>1 DEF Machines
    <3> QED BY <1>2, <3>1, <3>2
  <2> QED BY <1>2, <2>3
<1>7. \A m \in Machines : rows[m] # NoRow => \E i \in 1..Len(all) : all[i].id = m
  <2>1. \A m \in Operators : rows[m] # NoRow => \E i \in 1..l : round_machines[i].id = m
    BY <1>1 DEF Holds
  <2>2. \A m \in Kickoffs : rows[m] # NoRow => \E i \in 1..n : kickoff_machines[i].id = m
    BY <1>1 DEF Holds
  <2>3. ASSUME NEW m \in Operators, rows[m] # NoRow PROVE \E i \in 1..Len(all) : all[i].id = m
    <3>1. PICK i \in 1..l : round_machines[i].id = m
      BY <2>1, <2>3
    <3>2. i \in 1..Len(all) /\ all[i].id = m
      BY <1>2, <3>1
    <3> QED BY <3>2
  <2>4. ASSUME NEW m \in Kickoffs, rows[m] # NoRow PROVE \E i \in 1..Len(all) : all[i].id = m
    <3>1. PICK i \in 1..n : kickoff_machines[i].id = m
      BY <2>2, <2>4
    <3>2. l + i \in 1..Len(all) /\ all[l + i].id = m
      BY <1>2, <3>1
    <3> QED BY <3>2
  <2> QED BY <2>3, <2>4 DEF Machines
<1>8. ASSUME NEW i \in 1..Len(all) PROVE Clean(all[i]) = Clean(rows[all[i].id])
  <2> DEFINE a == all[i]
             b == rows[a.id]
  <2>1. a \in MachineRecords /\ b \in MachineRecords /\ Same(a, b)
    BY <1>1, <1>6 DEF IsTable
  <2> HIDE DEF a, b
  <2>2. ASSUME NEW x \in MachineRecords
        PROVE  Clean(x) = [id |-> x.id, seen |-> x.seen, challenged |-> x.challenged, dirty |-> FALSE]
    <3> DEFINE c == Clean(x)
    <3>1. c \in MachineRecords
      BY DEF MachineRecords
    <3>2. c.id = x.id /\ c.seen = x.seen /\ c.challenged = x.challenged /\ c.dirty = FALSE
      BY DEF MachineRecords
    <3> HIDE DEF c
    <3>3. c = [id |-> c.id, seen |-> c.seen, challenged |-> c.challenged, dirty |-> c.dirty]
      BY <3>1 DEF MachineRecords
    <3> QED BY <3>2, <3>3 DEF c
  <2> HIDE DEF Clean
  <2>3. Clean(a) = Clean(b)
    <3>1. Clean(a) = [id |-> a.id, seen |-> a.seen, challenged |-> a.challenged, dirty |-> FALSE]
      BY <2>1, <2>2
    <3>2. Clean(b) = [id |-> b.id, seen |-> b.seen, challenged |-> b.challenged, dirty |-> FALSE]
      BY <2>1, <2>2
    <3> QED BY <2>1, <3>1, <3>2 DEF Same
  <2> QED BY <2>3 DEF a, b
<1> DEFINE T == {m \in Machines : rows[m] # NoRow}
<1> HIDE DEF Clean
<1>9. {Clean(x) : x \in Range(all)} = {Clean(rows[m]) : m \in T}
  <2>1. {Clean(x) : x \in Range(all)} = {Clean(all[i]) : i \in 1..Len(all)}
    BY <1>3
  <2>2. \A i \in 1..Len(all) : all[i].id \in T /\ Clean(all[i]) = Clean(rows[all[i].id])
    BY <1>6, <1>8
  <2>3. \A m \in T : \E i \in 1..Len(all) : all[i].id = m
    BY <1>7
  <2> HIDE DEF T
  <2>4. {Clean(all[i]) : i \in 1..Len(all)} \subseteq {Clean(rows[m]) : m \in T}
    BY <2>2
  <2>5. {Clean(rows[m]) : m \in T} \subseteq {Clean(all[i]) : i \in 1..Len(all)}
    <3> SUFFICES ASSUME NEW m \in T PROVE \E i \in 1..Len(all) : Clean(rows[m]) = Clean(all[i])
      OBVIOUS
    <3>1. PICK i \in 1..Len(all) : all[i].id = m
      BY <2>3
    <3>2. Clean(rows[m]) = Clean(all[i])
      BY <2>2, <3>1
    <3> QED BY <3>2
  <2> QED BY <2>1, <2>4, <2>5
<1> QED BY <1>3, <1>5, <1>9 DEF all, Clean

(* "Each operator and kickoff process has its own state machine" in        *)
(* memory, which is the saved one: whatever fails, unless a recovery puts  *)
(* the saved machines on top of those that an error left in memory.        *)
THEOREM OneMachineEach == Spec => []OneMachineUnlessOverlaid
<1> DEFINE Inv == overlaid \/ (Core /\ OwnerInv)
<1>1. Init => Inv
  BY CoreInit
<1>2. Inv /\ [Next]_vars => Inv'
  BY CoreStep, OverlaidStays
<1>3. Inv => OneMachineUnlessOverlaid
  BY CoreIsOnePerProcess DEF OneMachineUnlessOverlaid
<1> QED BY <1>1, <1>2, <1>3, PTL DEF Spec

-----------------------------------------------------------------------------
(* No known kickoff is lost. *)

(* The queue after a message is read and others are sent. *)
LEMMA TailJoinFacts ==
    ASSUME NEW X, NEW q \in Seq(X), q # << >>, NEW ms \in Seq(X), NEW new, new = Tail(q) \o ms
    PROVE  /\ Len(q) \in Nat /\ Len(new) \in Nat /\ 1 \in 1..Len(q) /\ Head(q) = q[1]
           /\ \A i \in 1..Len(q) : i = 1 \/ (i - 1 \in 1..Len(new) /\ new[i - 1] = q[i])
           /\ \A j \in 1..Len(ms) : \E i \in 1..Len(new) : new[i] = ms[j]
           /\ \A i \in 1..Len(new) : \/ i + 1 \in 1..Len(q) /\ new[i] = q[i + 1]
                                     \/ \E j \in 1..Len(ms) : new[i] = ms[j]
<1> DEFINE t == Tail(q)
           l == Len(q)
<1>1. /\ t \in Seq(X) /\ l \in Nat /\ l >= 1 /\ Head(q) = q[1] /\ Len(t) = l - 1
      /\ \A i \in 1..l - 1 : t[i] = q[i + 1]
  OBVIOUS
<1> HIDE DEF t
<1>2. /\ new \in Seq(X) /\ Len(new) = (l - 1) + Len(ms) /\ Len(ms) \in Nat
      /\ \A i \in 1..l - 1 : new[i] = t[i] /\ i \in 1..Len(new)
      /\ \A j \in 1..Len(ms) : new[(l - 1) + j] = ms[j] /\ (l - 1) + j \in 1..Len(new)
      /\ \A i \in 1..Len(new) : i \in 1..l - 1 \/ \E j \in 1..Len(ms) : i = (l - 1) + j
  <2>1. new = t \o ms
    BY DEF t
  <2> QED BY <1>1, <2>1, JoinFacts
<1> HIDE DEF l
<1>3. ASSUME NEW i \in 1..l, i # 1 PROVE i - 1 \in 1..Len(new) /\ new[i - 1] = q[i]
  <2>1. i - 1 \in 1..l - 1 /\ (i - 1) + 1 = i
    BY <1>1, <1>3
  <2>2. new[i - 1] = t[i - 1] /\ t[i - 1] = q[(i - 1) + 1]
    BY <1>1, <1>2, <2>1
  <2> QED BY <1>2, <2>1, <2>2
<1>4. ASSUME NEW j \in 1..Len(ms) PROVE \E i \in 1..Len(new) : new[i] = ms[j]
  <2>1. (l - 1) + j \in 1..Len(new) /\ new[(l - 1) + j] = ms[j]
    BY <1>2
  <2> QED BY <2>1
<1>5. ASSUME NEW i \in 1..Len(new)
      PROVE  \/ i + 1 \in 1..l /\ new[i] = q[i + 1]
             \/ \E j \in 1..Len(ms) : new[i] = ms[j]
  <2>1. CASE i \in 1..l - 1
    <3>1. i + 1 \in 1..l
      BY <1>1, <2>1
    <3> QED BY <1>1, <1>2, <2>1, <3>1
  <2>2. ASSUME NEW j \in 1..Len(ms), i = (l - 1) + j PROVE new[i] = ms[j]
    BY <1>2, <2>2
  <2> QED BY <1>2, <2>1, <2>2
<1>6. l \in Nat /\ Len(new) \in Nat /\ 1 \in 1..l /\ Head(q) = q[1]
  BY <1>1, <1>2
<1>7. \A i \in 1..l : i = 1 \/ (i - 1 \in 1..Len(new) /\ new[i - 1] = q[i])
  BY <1>3
<1>8. \A i \in 1..Len(new) : \/ i + 1 \in 1..l /\ new[i] = q[i + 1]
                             \/ \E j \in 1..Len(ms) : new[i] = ms[j]
  BY <1>5
<1> QED BY <1>4, <1>6, <1>7, <1>8, Zenon DEF l

LEMMA AppendQueueFacts ==
    ASSUME NEW X, NEW q \in Seq(X), NEW m \in X, NEW new, new = Append(q, m)
    PROVE  /\ Len(q) \in Nat /\ Len(new) = Len(q) + 1 /\ Len(new) \in 1..Len(new) /\ new[Len(new)] = m
           /\ \A i \in 1..Len(q) : i \in 1..Len(new) /\ new[i] = q[i]
           /\ \A i \in 1..Len(new) : (i \in 1..Len(q) /\ new[i] = q[i]) \/ (i = Len(new) /\ new[i] = m)
  OBVIOUS

(* A message in the queue. *)
InQueue(q, m) == \E i \in 1..Len(q) : q[i] = m

(* A message stays in the queue until it is read. *)
LEMMA InQueueFacts ==
    ASSUME NEW q \in Seq(Messages), NEW m \in Messages, InQueue(q, m)
    PROVE  /\ \A x \in Messages : InQueue(Append(q, x), m)
           /\ \A ms \in Seq(Messages) : q # << >> /\ Head(q) # m => InQueue(Tail(q) \o ms, m)
<1>1. PICK i \in 1..Len(q) : q[i] = m
  BY DEF InQueue
<1>2. ASSUME NEW x \in Messages PROVE InQueue(Append(q, x), m)
  <2> DEFINE new == Append(q, x)
  <2>1. i \in 1..Len(new) /\ new[i] = q[i]
    BY AppendQueueFacts
  <2> HIDE DEF new
  <2>2. InQueue(new, m)
    BY <1>1, <2>1 DEF InQueue
  <2> QED BY <2>2 DEF new
<1>3. ASSUME NEW ms \in Seq(Messages), q # << >>, Head(q) # m PROVE InQueue(Tail(q) \o ms, m)
  <2> DEFINE new == Tail(q) \o ms
  <2>1. /\ Head(q) = q[1]
        /\ \A a \in 1..Len(q) : a = 1 \/ (a - 1 \in 1..Len(new) /\ new[a - 1] = q[a])
    BY <1>3, TailJoinFacts
  <2> HIDE DEF new
  <2>2. i - 1 \in 1..Len(new) /\ new[i - 1] = m
    BY <1>1, <1>3, <2>1
  <2>3. InQueue(new, m)
    BY <2>2 DEF InQueue
  <2> QED BY <2>3 DEF new
<1> QED BY <1>2, <1>3

LEMMA SentInQueue ==
    ASSUME NEW q \in Seq(Messages), q # << >>, NEW ms \in Seq(Messages), NEW m, InQueue(ms, m)
    PROVE  InQueue(Tail(q) \o ms, m)
<1> DEFINE new == Tail(q) \o ms
<1>1. PICK j \in 1..Len(ms) : ms[j] = m
  BY DEF InQueue
<1>2. \E i \in 1..Len(new) : new[i] = ms[j]
  <2> DEFINE t == Tail(q)
  <2>1. t \in Seq(Messages)
    OBVIOUS
  <2> HIDE DEF t
  <2>2. (t \o ms)[Len(t) + j] = ms[j] /\ Len(t) + j \in 1..Len(t \o ms)
    BY <2>1, JoinFacts
  <2> QED BY <2>2 DEF t
<1> HIDE DEF new
<1>3. InQueue(new, m)
  BY <1>1, <1>2 DEF InQueue
<1> QED BY <1>3 DEF new

(* A kickoff that is known and processed. *)
Known(k) == deposit[k] = "signed" /\ rows[OperatorOf[k]] # NoRow /\ KickoffHeight[k] < dbNextHeight
KnownInv == \A k \in Relevant \ overtaken : Known(k) => rows[k] # NoRow \/ InQueue(queue, NewKickoff(k))

LEMMA KickoffMessage ==
    ASSUME NEW k \in Kickoffs
    PROVE  /\ NewKickoff(k) \in Messages /\ NewKickoff(k).type = "NewKickoff"
           /\ NewKickoff(k).kickoff = k
  BY DEF Messages, NewKickoff

LEMMA KnownIsTracked ==
    ASSUME Core PROVE KnownInv <=> \A k \in Relevant \ overtaken : IsTracked(k)
<1>1. DOMAIN queue = 1..Len(queue)
  BY DEF Core
<1>2. \A k : NewKickoff(k) \in Range(queue) <=> InQueue(queue, NewKickoff(k))
  BY <1>1 DEF Range, InQueue
<1> QED BY <1>2 DEF KnownInv, Known, IsTracked

(* The blocks of the queue after a step of the manager. *)
LEMMA BlocksTail ==
    ASSUME Core, BlocksInv, UNCHANGED ownerVars, queue # << >>, NEW ms \in Seq(Messages),
           queue' = Tail(queue) \o ms, \A i \in 1..Len(ms) : ms[i].type = "NewKickoff",
           dbNextHeight' \in Nat, dbNextHeight' <= nextBlock
    PROVE  BlocksInv'
<1>1. /\ finalTip' = finalTip /\ nextBlock' = nextBlock /\ deposit' = deposit
  BY DEF ownerVars
<1>2. \A i \in 1..Len(queue') : \/ i + 1 \in 1..Len(queue) /\ queue'[i] = queue[i + 1]
                                \/ \E j \in 1..Len(ms) : queue'[i] = ms[j]
  BY TailJoinFacts DEF Core
<1>3. \A i \in 1..Len(queue') : queue'[i].type = "NewFinalizedBlock" => queue'[i].height < nextBlock
  BY <1>2 DEF BlocksInv
<1> QED BY <1>1, <1>3 DEF BlocksInv

LEMMA BlocksSame ==
    ASSUME BlocksInv, UNCHANGED ownerVars, UNCHANGED dbVars
    PROVE  BlocksInv'
<1>1. /\ finalTip' = finalTip /\ nextBlock' = nextBlock /\ deposit' = deposit
      /\ queue' = queue /\ dbNextHeight' = dbNextHeight
  BY DEF ownerVars, dbVars
<1> QED BY <1>1 DEF BlocksInv

(* A step of the producers other than a deposit's. *)
LEMMA KnownProduced ==
    ASSUME Core, KnownInv, deposit' = deposit, overtaken' = overtaken, UNCHANGED savedVars,
           queue' = queue \/ \E m \in Messages : queue' = Append(queue, m)
    PROVE  KnownInv'
<1>1. rows' = rows /\ dbNextHeight' = dbNextHeight
  BY DEF savedVars
<1>2. ASSUME NEW k \in Relevant, InQueue(queue, NewKickoff(k)) PROVE InQueue(queue', NewKickoff(k))
  <2>1. k \in Kickoffs
    BY DEF Relevant
  <2> QED BY <1>2, <2>1, InQueueFacts, KickoffMessage DEF Core
<1> QED BY <1>1, <1>2 DEF KnownInv, Known

(* The inductive invariant of the tracking of kickoffs. *)
TrackingInv == Core /\ OwnerInv /\ BlocksInv /\ KnownInv

LEMMA ProduceTracking ==
    ASSUME TrackingInv, Produce PROVE BlocksInv' /\ KnownInv'
<1>1. /\ UNCHANGED savedVars
      /\ queue' = queue \/ \E m \in Messages : queue' = Append(queue, m)
  BY ProduceStep DEF TrackingInv
<1>2. /\ Core /\ OwnerInv /\ KnownInv /\ queue \in Seq(Messages) /\ dbNextHeight' = dbNextHeight
      /\ finalTip \in Int /\ nextBlock \in Nat /\ nextBlock <= finalTip + 1 /\ dbNextHeight <= nextBlock
      /\ dbNextHeight \in Nat
      /\ \A i \in 1..Len(queue) : queue[i].type = "NewFinalizedBlock" => queue[i].height < nextBlock
      /\ deposit \in [Kickoffs -> {"none", "open_final", "open_not_final", "signed"}]
  BY <1>1 DEF TrackingInv, BlocksInv, Core, OwnerInv, savedVars, RowsInv
<1>3. ASSUME NEW m \in Messages, queue' = Append(queue, m), m.type # "NewFinalizedBlock"
      PROVE  \A i \in 1..Len(queue') : queue'[i].type = "NewFinalizedBlock" => queue'[i].height < nextBlock
  <2>1. \A i \in 1..Len(queue') : (i \in 1..Len(queue) /\ queue'[i] = queue[i]) \/ queue'[i] = m
    BY <1>2, <1>3, AppendQueueFacts
  <2> QED BY <1>2, <1>3, <2>1
<1>4. CASE Finalize
  <2>1. /\ finalTip' = finalTip + 1 /\ deposit' = deposit /\ overtaken' = overtaken
        /\ nextBlock' = nextBlock /\ queue' = queue
    BY <1>4 DEF Finalize, dbVars
  <2>2. KnownInv'
    BY <1>1, <1>2, <2>1, KnownProduced
  <2> QED BY <1>2, <2>1, <2>2 DEF BlocksInv
<1>5. CASE SendFinalizedBlock
  <2> DEFINE m == NewFinalizedBlock(nextBlock)
  <2>1. /\ nextBlock <= finalTip /\ nextBlock' = nextBlock + 1 /\ queue' = Append(queue, m)
        /\ finalTip' = finalTip /\ deposit' = deposit /\ overtaken' = overtaken
    BY <1>5 DEF SendFinalizedBlock
  <2>2. m \in Messages /\ m.height = nextBlock
    BY <1>2 DEF Messages, NewFinalizedBlock
  <2> HIDE DEF m
  <2>3. \A i \in 1..Len(queue') : (i \in 1..Len(queue) /\ queue'[i] = queue[i]) \/ queue'[i] = m
    BY <1>2, <2>1, <2>2, AppendQueueFacts
  <2>4. ASSUME NEW i \in 1..Len(queue'), queue'[i].type = "NewFinalizedBlock" PROVE queue'[i].height < nextBlock + 1
    <3>1. CASE i \in 1..Len(queue) /\ queue'[i] = queue[i]
      <4>1. queue[i].height < nextBlock
        BY <1>2, <2>4, <3>1
      <4>2. queue[i].height \in Nat
        <5>1. queue[i] \in Messages /\ queue[i].type = "NewFinalizedBlock"
          BY <1>2, <2>4, <3>1
        <5> QED BY <5>1, MessageFields
      <4> QED BY <1>2, <3>1, <4>1, <4>2
    <3>2. CASE queue'[i] = m
      BY <1>2, <2>2, <3>2
    <3> QED BY <2>3, <3>1, <3>2
  <2>5. KnownInv'
    BY <1>1, <1>2, <2>1, KnownProduced
  <2>6. nextBlock + 1 \in Int /\ nextBlock + 1 <= finalTip + 1 /\ dbNextHeight <= nextBlock + 1
    BY <1>2, <2>1
  <2> QED BY <1>2, <2>1, <2>4, <2>5, <2>6 DEF BlocksInv
<1>6. CASE SendLCPProcessed
  <2>1. /\ queue' = Append(queue, LCPProcessed(nextLcp))
        /\ nextBlock' = nextBlock /\ finalTip' = finalTip /\ deposit' = deposit
        /\ overtaken' = overtaken
    BY <1>6 DEF SendLCPProcessed
  <2>2. LCPProcessed(nextLcp) \in Messages /\ LCPProcessed(nextLcp).type # "NewFinalizedBlock"
    BY <1>2 DEF Messages, LCPProcessed, OwnerInv
  <2>3. KnownInv'
    BY <1>1, <1>2, <2>1, KnownProduced
  <2> QED BY <1>2, <1>3, <2>1, <2>2, <2>3 DEF BlocksInv
<1>7. ASSUME NEW o \in Operators, SetOperator(o) PROVE BlocksInv' /\ KnownInv'
  <2>1. /\ queue' = queue \/ queue' = Append(queue, NewOperator(o))
        /\ nextBlock' = nextBlock /\ finalTip' = finalTip /\ deposit' = deposit
        /\ overtaken' = overtaken
    BY <1>7 DEF SetOperator
  <2>2. NewOperator(o) \in Messages /\ NewOperator(o).type # "NewFinalizedBlock"
    BY DEF Messages, NewOperator
  <2>3. KnownInv'
    BY <1>1, <1>2, <2>1, KnownProduced
  <2>4. \A i \in 1..Len(queue') : queue'[i].type = "NewFinalizedBlock" => queue'[i].height < nextBlock
    <3>1. CASE queue' = queue
      BY <1>2, <3>1
    <3>2. CASE queue' = Append(queue, NewOperator(o))
      BY <1>3, <2>2, <3>2
    <3> QED BY <2>1, <3>1, <3>2
  <2> QED BY <1>2, <2>1, <2>3, <2>4 DEF BlocksInv
<1>8. ASSUME NEW k \in Kickoffs, OpenDeposit(k) PROVE BlocksInv' /\ KnownInv'
  <2>1. /\ queue' = queue /\ nextBlock' = nextBlock /\ finalTip' = finalTip /\ overtaken' = overtaken
        /\ deposit' = [deposit EXCEPT ![k] =
              IF KickoffHeight[k] <= finalTip THEN "open_final" ELSE "open_not_final"]
    BY <1>8 DEF OpenDeposit, dbVars
  <2>3. deposit' \in [Kickoffs -> {"none", "open_final", "open_not_final", "signed"}]
    BY <1>2, <2>1
  <2>4. \A c \in Kickoffs : deposit'[c] = "signed" => deposit[c] = "signed"
    BY <1>2, <2>1
  <2>5. KnownInv'
    BY <1>1, <1>2, <2>1, <2>4 DEF KnownInv, Known, savedVars, Relevant
  <2> QED BY <1>2, <2>1, <2>3, <2>5 DEF BlocksInv
<1>9. ASSUME NEW k \in Kickoffs, CommitDeposit(k) PROVE BlocksInv' /\ KnownInv'
  <2>1. /\ deposit[k] \in {"open_final", "open_not_final"}
        /\ deposit' = [deposit EXCEPT ![k] = "signed"]
        /\ queue' = IF deposit[k] = "open_final" THEN Append(queue, NewKickoff(k)) ELSE queue
        /\ nextBlock' = nextBlock /\ finalTip' = finalTip
        /\ overtaken' = overtaken \cup Overtaken(k)
    BY <1>9 DEF CommitDeposit
  <2>2. NewKickoff(k) \in Messages /\ NewKickoff(k).type # "NewFinalizedBlock"
    BY KickoffMessage
  <2>3. \A i \in 1..Len(queue') : queue'[i].type = "NewFinalizedBlock" => queue'[i].height < nextBlock
    <3>1. CASE queue' = queue
      BY <1>2, <3>1
    <3>2. CASE queue' = Append(queue, NewKickoff(k))
      BY <1>3, <2>2, <3>2
    <3> QED BY <2>1, <3>1, <3>2
  <2>4. deposit' \in [Kickoffs -> {"none", "open_final", "open_not_final", "signed"}]
    BY <1>2, <2>1
  <2>5. BlocksInv'
    BY <1>2, <2>1, <2>3, <2>4 DEF BlocksInv
  <2>6. ASSUME NEW c \in Relevant \ overtaken', Known(c)'
        PROVE  rows'[c] # NoRow \/ InQueue(queue', NewKickoff(c))
    <3>0. c \in Kickoffs /\ rows' = rows /\ NewKickoff(c) \in Messages
      BY <1>1, KickoffMessage DEF Relevant, savedVars
    <3>1. CASE c # k
      <4>1. Known(c)
        BY <1>1, <1>2, <2>1, <2>6, <3>0, <3>1 DEF Known, savedVars
      <4>2. CASE rows[c] # NoRow
        BY <3>0, <4>2
      <4>3. CASE InQueue(queue, NewKickoff(c))
        <5>1. InQueue(Append(queue, NewKickoff(k)), NewKickoff(c))
          BY <1>2, <2>2, <3>0, <4>3, InQueueFacts
        <5> QED BY <2>1, <4>3, <5>1
      <4> QED BY <1>2, <2>1, <2>6, <4>1, <4>2, <4>3 DEF KnownInv
    <3>2. CASE c = k /\ deposit[k] = "open_final"
      <4>1. queue' = Append(queue, NewKickoff(k))
        BY <2>1, <3>2
      <4>2. Len(queue') \in 1..Len(queue') /\ queue'[Len(queue')] = NewKickoff(k)
        BY <1>2, <2>2, <4>1, AppendQueueFacts
      <4> QED BY <3>2, <4>2 DEF InQueue
    <3>3. CASE c = k /\ deposit[k] = "open_not_final"
      <4>1. KickoffHeight[k] < dbNextHeight
        BY <1>2, <2>6, <3>3 DEF Known
      <4>2. k \in overtaken'
        BY <2>1, <3>3, <4>1 DEF Overtaken
      <4> QED BY <2>6, <3>3, <4>2
    <3> QED BY <2>1, <3>1, <3>2, <3>3
  <2>7. KnownInv'
    BY <2>6 DEF KnownInv
  <2> QED BY <2>5, <2>7
<1> QED BY <1>4, <1>5, <1>6, <1>7, <1>8, <1>9 DEF Produce

(* The kickoffs after the manager has read a message and sent others: the   *)
(* ones that were known are tracked, and the message was not theirs or gave *)
(* them a machine; the others are among the messages sent.                  *)
LEMMA KnownRead ==
    ASSUME Core, KnownInv, queue # << >>, NEW ms \in Seq(Messages), queue' = Tail(queue) \o ms,
           \A k \in Kickoffs : rows[k] # NoRow => rows'[k] # NoRow,
           \A k \in Relevant : Head(queue) = NewKickoff(k) => rows'[k] # NoRow,
           overtaken' = overtaken,
           \A k \in Relevant : Known(k)' => Known(k) \/ InQueue(ms, NewKickoff(k))
    PROVE  KnownInv'
<1> SUFFICES ASSUME NEW k \in Relevant \ overtaken, Known(k)'
             PROVE  rows'[k] # NoRow \/ InQueue(queue', NewKickoff(k))
  BY DEF KnownInv
<1>1. k \in Kickoffs /\ NewKickoff(k) \in Messages /\ queue \in Seq(Messages)
  BY KickoffMessage DEF Relevant, Core
<1>2. CASE InQueue(ms, NewKickoff(k))
  BY <1>1, <1>2, SentInQueue
<1>3. CASE Known(k)
  <2>1. CASE rows[k] # NoRow \/ Head(queue) = NewKickoff(k)
    BY <1>1, <2>1
  <2>2. CASE rows[k] = NoRow /\ Head(queue) # NewKickoff(k)
    <3>1. InQueue(queue, NewKickoff(k))
      BY <1>3, <2>2 DEF KnownInv
    <3>2. InQueue(Tail(queue) \o ms, NewKickoff(k))
      BY <1>1, <2>2, <3>1, InQueueFacts
    <3> QED BY <3>2
  <2> QED BY <2>1, <2>2
<1> QED BY <1>2, <1>3

LEMMA TrackingInit ==
    ASSUME Init PROVE TrackingInv
<1>1. BlocksInv
  <2>1. finalTip = StartHeight - 1 /\ nextBlock = StartHeight /\ dbNextHeight = StartHeight
        /\ queue = << >> /\ deposit = [k \in Kickoffs |-> "none"] /\ StartHeight \in Nat
    BY Heights DEF Init
  <2> QED BY <2>1 DEF BlocksInv
<1>2. KnownInv
  BY DEF Init, KnownInv, Known, Relevant
<1> QED BY <1>1, <1>2, CoreInit DEF TrackingInv

LEMMA TrackingStep ==
    ASSUME TrackingInv, [Next]_vars, ~overlaid' PROVE TrackingInv'
<1>1. Core /\ OwnerInv /\ BlocksInv /\ KnownInv /\ queue \in Seq(Messages)
      /\ dbNextHeight \in Nat /\ nextBlock \in Nat /\ dbNextHeight <= nextBlock
  BY DEF TrackingInv, Core, OwnerInv, BlocksInv, RowsInv
<1>2. Core' /\ OwnerInv'
  BY <1>1, CoreStep
<1>3. \A k \in Relevant : k \in Kickoffs /\ k \in Machines
                         /\ OperatorOf[k] \in Operators /\ OperatorOf[k] \in Machines
  BY Heights DEF Relevant
<1>4. \A k \in Kickoffs : NewKickoff(k).type = "NewKickoff" /\ NewKickoff(k).kickoff = k
  BY KickoffMessage
<1>5. CASE Produce
  BY <1>2, <1>5, ProduceTracking DEF TrackingInv
<1>6. CASE HandleFinalizedBlock /\ pc' = "run"
  <2>1. /\ UNCHANGED ownerVars
        /\ Head(queue) \in Messages /\ Head(queue).type = "NewFinalizedBlock" /\ queue # << >>
        /\ Head(queue).height = dbNextHeight /\ dbNextHeight' = dbNextHeight + 1
        /\ \A m \in Machines : Kept(rows', m)
    BY <1>1, <1>6, FinalizedBlockStep
  <2>2. PICK ms \in Seq(Messages) :
           /\ queue' = Tail(queue) \o ms
           /\ \A i \in 1..Len(ms) : ms[i].type = "NewKickoff"
           /\ \A k \in Kickoffs :
                 rows[OperatorOf[k]] # NoRow /\ KickoffHeight[k] = dbNextHeight /\ deposit[k] = "signed"
                    => \E i \in 1..Len(ms) : ms[i] = NewKickoff(k)
    BY <1>1, <1>6, FinalizedBlockStep
  <2>3. dbNextHeight < nextBlock
    <3>1. 1 \in 1..Len(queue) /\ Head(queue) = queue[1]
      BY <1>1, <2>1
    <3> QED BY <1>1, <2>1, <3>1 DEF BlocksInv
  <2>4. BlocksInv'
    <3>1. dbNextHeight' \in Nat /\ dbNextHeight' <= nextBlock
      BY <1>1, <2>1, <2>3
    <3> QED BY <1>1, <2>1, <2>2, <3>1, BlocksTail
  <2>5. ASSUME NEW k \in Relevant, Known(k)' PROVE Known(k) \/ InQueue(ms, NewKickoff(k))
    <3>1. rows[OperatorOf[k]] # NoRow /\ deposit[k] = "signed" /\ KickoffHeight[k] < dbNextHeight + 1
      BY <1>3, <2>1, <2>5 DEF Known, Kept, ownerVars
    <3>2. KickoffHeight[k] \in Nat
      BY <1>3, Heights
    <3>3. KickoffHeight[k] < dbNextHeight \/ KickoffHeight[k] = dbNextHeight
      BY <1>1, <3>1, <3>2
    <3> QED BY <1>3, <2>2, <3>1, <3>3 DEF Known, InQueue
  <2>6. /\ \A k \in Kickoffs : rows[k] # NoRow => rows'[k] # NoRow
        /\ \A k \in Relevant : Head(queue) # NewKickoff(k)
    BY <1>3, <1>4, <2>1, Heights DEF Kept
  <2>7. KnownInv'
    BY <1>1, <2>1, <2>2, <2>5, <2>6, KnownRead DEF ownerVars
  <2> QED BY <1>2, <2>4, <2>7 DEF TrackingInv
<1>7. CASE HandleNewOperator /\ pc' = "run"
  <2> DEFINE o == Head(queue).operator
  <2>1. /\ UNCHANGED ownerVars
        /\ Head(queue) \in Messages /\ Head(queue).type = "NewOperator" /\ queue # << >>
        /\ dbNextHeight' = dbNextHeight /\ o \in Operators
        /\ \A m \in Machines \ {o} : Kept(rows', m)
    BY <1>1, <1>7, NewOperatorStep
  <2>2. PICK ms \in Seq(Messages) :
           /\ queue' = Tail(queue) \o ms
           /\ \A i \in 1..Len(ms) : ms[i].type = "NewKickoff"
           /\ \A k \in Kickoffs :
                 OperatorOf[k] = o /\ KickoffHeight[k] < dbNextHeight /\ deposit[k] = "signed"
                    => \E i \in 1..Len(ms) : ms[i] = NewKickoff(k)
    BY <1>1, <1>7, NewOperatorStep
  <2> HIDE DEF o
  <2>3. BlocksInv'
    <3>1. dbNextHeight' \in Nat /\ dbNextHeight' <= nextBlock
      BY <1>1, <2>1
    <3> QED BY <1>1, <2>1, <2>2, <3>1, BlocksTail
  <2>4. ASSUME NEW k \in Relevant, Known(k)' PROVE Known(k) \/ InQueue(ms, NewKickoff(k))
    <3>1. rows'[OperatorOf[k]] # NoRow /\ deposit[k] = "signed" /\ KickoffHeight[k] < dbNextHeight
      BY <1>3, <2>1, <2>4 DEF Known, ownerVars
    <3>2. CASE OperatorOf[k] = o
      BY <1>3, <2>2, <3>1, <3>2 DEF InQueue
    <3>3. CASE OperatorOf[k] # o
      BY <1>3, <2>1, <3>1, <3>3 DEF Known, Kept
    <3> QED BY <3>2, <3>3
  <2>5. /\ \A k \in Kickoffs : rows[k] # NoRow => rows'[k] # NoRow
        /\ \A k \in Relevant : Head(queue) # NewKickoff(k)
    <3>1. \A k \in Kickoffs : k \in Machines \ {o}
      BY <2>1, Heights
    <3> QED BY <1>3, <1>4, <2>1, <3>1 DEF Kept
  <2>6. KnownInv'
    BY <1>1, <2>1, <2>2, <2>4, <2>5, KnownRead DEF ownerVars
  <2> QED BY <1>2, <2>3, <2>6 DEF TrackingInv
<1>8. ASSUME UNCHANGED ownerVars, queue # << >>, queue' = Tail(queue), dbNextHeight' = dbNextHeight,
             \A k \in Kickoffs : rows[k] # NoRow => rows'[k] # NoRow,
             \A m \in Operators : rows'[m] # NoRow => rows[m] # NoRow,
             \A k \in Relevant : Head(queue) = NewKickoff(k) => rows'[k] # NoRow
      PROVE  TrackingInv'
  <2> DEFINE ms == << >>
  <2>1. /\ ms \in Seq(Messages) /\ queue' = Tail(queue) \o ms
        /\ \A i \in 1..Len(ms) : ms[i].type = "NewKickoff"
    BY <1>1, <1>8
  <2> HIDE DEF ms
  <2>2. dbNextHeight' \in Nat /\ dbNextHeight' <= nextBlock
    BY <1>1, <1>8
  <2>3. BlocksInv'
    BY <1>1, <1>8, <2>1, <2>2, BlocksTail
  <2>4. \A k \in Relevant : Known(k)' => Known(k)
    BY <1>3, <1>8 DEF Known, ownerVars
  <2>5. KnownInv'
    BY <1>1, <1>8, <2>1, <2>4, KnownRead DEF ownerVars
  <2> QED BY <1>2, <2>3, <2>5 DEF TrackingInv
<1>9. CASE HandleNewKickoff /\ pc' = "run"
  <2> DEFINE c == Head(queue).kickoff
  <2>1. /\ UNCHANGED ownerVars /\ queue # << >> /\ Head(queue).type = "NewKickoff" /\ c \in Kickoffs
        /\ queue' = Tail(queue) /\ dbNextHeight' = dbNextHeight /\ rows'[c] # NoRow
        /\ \A m \in Operators : Grows(rows', m)
        /\ \A m \in Kickoffs \ {c} : Kept(rows', m)
    BY <1>1, <1>9, NewKickoffStep
  <2>2. \A k \in Relevant : Head(queue) = NewKickoff(k) => c = k
    BY <1>3, <1>4
  <2> HIDE DEF c
  <2>3. \A k \in Kickoffs : rows[k] # NoRow => rows'[k] # NoRow
    BY <2>1 DEF Kept
  <2>4. \A m \in Operators : rows'[m] # NoRow => rows[m] # NoRow
    BY <2>1 DEF Grows
  <2>5. \A k \in Relevant : Head(queue) = NewKickoff(k) => rows'[k] # NoRow
    BY <2>1, <2>2
  <2> QED BY <1>8, <2>1, <2>3, <2>4, <2>5
<1>10. CASE HandleLCPProcessed /\ pc' = "run"
  <2>1. /\ UNCHANGED ownerVars /\ queue # << >> /\ Head(queue).type = "LCPProcessed"
        /\ queue' = Tail(queue) /\ dbNextHeight' = dbNextHeight
        /\ \A m \in Operators : Grows(rows', m)
        /\ \A m \in Kickoffs : Kept(rows', m)
    BY <1>1, <1>10, LcpStep
  <2>2. \A k \in Kickoffs : rows[k] # NoRow => rows'[k] # NoRow
    BY <2>1 DEF Kept
  <2>3. \A m \in Operators : rows'[m] # NoRow => rows[m] # NoRow
    BY <2>1 DEF Grows
  <2>4. \A k \in Relevant : Head(queue) # NewKickoff(k)
    BY <1>3, <1>4, <2>1
  <2> QED BY <1>8, <2>1, <2>2, <2>3, <2>4
<1>11. CASE SkipMessage
  <2>1. /\ UNCHANGED ownerVars /\ rows' = rows /\ dbNextHeight' = dbNextHeight
        /\ queue # << >> /\ queue' = Tail(queue)
        /\ \/ Head(queue).type = "NewOperator"
           \/ Head(queue).type = "NewKickoff" /\ Head(queue).kickoff \notin Relevant
           \/ Head(queue).type = "NewKickoff" /\ rows[Head(queue).kickoff] # NoRow
    BY <1>1, <1>11, SkipStep DEF savedVars
  <2>2. \A k \in Relevant : Head(queue) = NewKickoff(k) => rows'[k] # NoRow
    BY <1>3, <1>4, <2>1
  <2> QED BY <1>8, <2>1, <2>2
<1>12. CASE OnlyMemory
  <2>1. UNCHANGED ownerVars /\ UNCHANGED dbVars
    BY <1>1, <1>12, MemoryStep
  <2>2. BlocksInv'
    BY <1>1, <2>1, BlocksSame
  <2>3. KnownInv'
    <3>1. /\ rows' = rows /\ queue' = queue /\ dbNextHeight' = dbNextHeight /\ deposit' = deposit
          /\ overtaken' = overtaken
      BY <2>1 DEF dbVars, ownerVars
    <3> QED BY <1>1, <3>1 DEF KnownInv, Known
  <2> QED BY <1>2, <2>2, <2>3 DEF TrackingInv
<1> QED BY <1>5, <1>6, <1>7, <1>9, <1>10, <1>11, <1>12, Steps

(* No kickoff of the owner's operators is lost: once its deposit is signed, *)
(* its operator registered and its block processed, in any order and with   *)
(* any failures, it has a machine or a message is on its way; unless its    *)
(* block was processed while the transaction of its deposit was open, or a  *)
(* recovery put the saved machines on top of others.                        *)
THEOREM KickoffsAreTracked == Spec => []KickoffsTrackedUnlessOvertaken
<1> DEFINE Inv == overlaid \/ TrackingInv
<1>1. Init => Inv
  BY TrackingInit
<1>2. Inv /\ [Next]_vars => Inv'
  BY TrackingStep, OverlaidStays
<1>3. Inv => KickoffsTrackedUnlessOvertaken
  BY KnownIsTracked DEF TrackingInv, KickoffsTrackedUnlessOvertaken
<1> QED BY <1>1, <1>2, <1>3, PTL DEF Spec

-----------------------------------------------------------------------------
(* Malicious rounds are challenged, once. *)

(* The message that the manager reads is no LCP message. *)
LEMMA LcpTail ==
    ASSUME Core, LcpInv, nextLcp' = nextLcp, dbLcp' = dbLcp, queue # << >>,
           Head(queue).type # "LCPProcessed", NEW ms \in Seq(Messages), queue' = Tail(queue) \o ms,
           \A i \in 1..Len(ms) : ms[i].type = "NewKickoff"
    PROVE  LcpInv'
<1>1. /\ Head(queue) = queue[1]
      /\ \A i \in 1..Len(queue) : i = 1 \/ (i - 1 \in 1..Len(queue') /\ queue'[i - 1] = queue[i])
      /\ \A i \in 1..Len(queue') : \/ i + 1 \in 1..Len(queue) /\ queue'[i] = queue[i + 1]
                                   \/ \E j \in 1..Len(ms) : queue'[i] = ms[j]
  <2>1. queue \in Seq(Messages)
    BY DEF Core
  <2>2. \A i \in 1..Len(queue') : \/ i + 1 \in 1..Len(queue) /\ queue'[i] = queue[i + 1]
                                  \/ \E j \in 1..Len(ms) : queue'[i] = ms[j]
    BY <2>1, TailJoinFacts
  <2>3. \A i \in 1..Len(queue) : i = 1 \/ (i - 1 \in 1..Len(queue') /\ queue'[i - 1] = queue[i])
    BY <2>1, TailJoinFacts
  <2>4. Head(queue) = queue[1]
    BY <2>1
  <2> QED BY <2>2, <2>3, <2>4, Zenon
<1>2. ASSUME NEW i \in 1..Len(queue'), queue'[i].type = "LCPProcessed"
      PROVE  i + 1 \in 1..Len(queue) /\ queue'[i] = queue[i + 1] /\ IsLcp(i + 1)
  BY <1>1, <1>2 DEF IsLcp
<1>3. NextLcp' = NextLcp
  BY DEF NextLcp
<1>4. ASSUME NEW i \in 1..Len(queue'), IsLcp(i)'
      PROVE  NextLcp <= queue'[i].height /\ queue'[i].height < nextLcp
  BY <1>2, <1>4 DEF IsLcp, LcpInv
<1>5. ASSUME NEW i \in 1..Len(queue'), NEW j \in 1..Len(queue'), IsLcp(i)', IsLcp(j)', i < j
      PROVE  queue'[i].height < queue'[j].height
  <2>1. /\ i + 1 \in 1..Len(queue) /\ queue'[i] = queue[i + 1] /\ IsLcp(i + 1)
        /\ j + 1 \in 1..Len(queue) /\ queue'[j] = queue[j + 1] /\ IsLcp(j + 1) /\ i + 1 < j + 1
    BY <1>2, <1>5 DEF IsLcp
  <2> QED BY <2>1 DEF LcpInv
<1>6. ASSUME NEW h \in NextLcp..nextLcp - 1 PROVE \E i \in 1..Len(queue') : IsLcp(i)' /\ queue'[i].height = h
  <2>1. PICK i \in 1..Len(queue) : IsLcp(i) /\ queue[i].height = h
    BY <1>6 DEF LcpInv
  <2>2. i # 1
    BY <1>1, <2>1 DEF IsLcp
  <2>3. i - 1 \in 1..Len(queue') /\ queue'[i - 1] = queue[i]
    BY <1>1, <2>2
  <2> QED BY <2>1, <2>3 DEF IsLcp
<1> QED BY <1>3, <1>4, <1>5, <1>6 DEF LcpInv

(* Another message is sent, or none. *)
LEMMA LcpAppend ==
    ASSUME Core, LcpInv, nextLcp' = nextLcp, dbLcp' = dbLcp,
           queue' = queue \/ \E m \in Messages : m.type # "LCPProcessed" /\ queue' = Append(queue, m)
    PROVE  LcpInv'
<1>1. \A i \in 1..Len(queue) : i \in 1..Len(queue') /\ queue'[i] = queue[i]
  BY AppendQueueFacts DEF Core
<1>2. \A i \in 1..Len(queue') : queue'[i].type = "LCPProcessed" => i \in 1..Len(queue) /\ queue'[i] = queue[i]
  BY AppendQueueFacts DEF Core
<1>3. NextLcp' = NextLcp
  BY DEF NextLcp
<1>4. ASSUME NEW i \in 1..Len(queue'), IsLcp(i)'
      PROVE  NextLcp <= queue'[i].height /\ queue'[i].height < nextLcp
  BY <1>2, <1>4 DEF IsLcp, LcpInv
<1>5. ASSUME NEW i \in 1..Len(queue'), NEW j \in 1..Len(queue'), IsLcp(i)', IsLcp(j)', i < j
      PROVE  queue'[i].height < queue'[j].height
  BY <1>2, <1>5 DEF IsLcp, LcpInv
<1>6. ASSUME NEW h \in NextLcp..nextLcp - 1 PROVE \E i \in 1..Len(queue') : IsLcp(i)' /\ queue'[i].height = h
  <2>1. PICK i \in 1..Len(queue) : IsLcp(i) /\ queue[i].height = h
    BY <1>6 DEF LcpInv
  <2> QED BY <1>1, <2>1 DEF IsLcp
<1> QED BY <1>3, <1>4, <1>5, <1>6 DEF LcpInv

(* The next LCP message is sent. *)
LEMMA LcpSend ==
    ASSUME Core, LcpInv, nextLcp' = nextLcp + 1, dbLcp' = dbLcp, queue' = Append(queue, LCPProcessed(nextLcp))
    PROVE  LcpInv'
<1> DEFINE m == LCPProcessed(nextLcp)
           l == Len(queue')
<1>1. m \in Messages /\ m.type = "LCPProcessed" /\ m.height = nextLcp /\ nextLcp \in Nat
      /\ (dbLcp = NoLcp \/ dbLcp \in Nat) /\ NextLcp <= nextLcp /\ queue \in Seq(Messages)
  BY DEF LcpInv, Messages, LCPProcessed, Core
<1> HIDE DEF m
<1>2. /\ Len(queue) \in Nat /\ l = Len(queue) + 1 /\ l \in 1..l /\ queue'[l] = m
      /\ \A i \in 1..Len(queue) : i \in 1..l /\ queue'[i] = queue[i]
      /\ \A i \in 1..l : (i \in 1..Len(queue) /\ queue'[i] = queue[i]) \/ (i = l /\ queue'[i] = m)
  BY <1>1, AppendQueueFacts DEF m
<1> HIDE DEF l
<1>3. NextLcp' = NextLcp /\ NextLcp \in Nat
  BY <1>1, Heights DEF NextLcp
<1>4. \A i \in 1..Len(queue) : IsLcp(i) =>
         queue[i].height \in Nat /\ NextLcp <= queue[i].height /\ queue[i].height < nextLcp
  <2>1. \A i \in 1..Len(queue) : queue[i] \in Messages
    BY <1>1
  <2> QED BY <2>1, MessageFields DEF IsLcp, LcpInv
<1>5. ASSUME NEW i \in 1..l, IsLcp(i)'
      PROVE  NextLcp <= queue'[i].height /\ queue'[i].height < nextLcp + 1
  <2>1. CASE i \in 1..Len(queue) /\ queue'[i] = queue[i]
    <3>1. queue[i].height \in Nat /\ NextLcp <= queue[i].height /\ queue[i].height < nextLcp
      BY <1>4, <1>5, <2>1 DEF IsLcp
    <3> QED BY <1>1, <2>1, <3>1
  <2>2. CASE queue'[i] = m
    BY <1>1, <1>3, <2>2
  <2> QED BY <1>2, <2>1, <2>2
<1>6. ASSUME NEW i \in 1..l, NEW j \in 1..l, IsLcp(i)', IsLcp(j)', i < j
      PROVE  queue'[i].height < queue'[j].height
  <2>1. i \in 1..Len(queue) /\ queue'[i] = queue[i] /\ IsLcp(i)
    BY <1>2, <1>6 DEF IsLcp
  <2>2. CASE j \in 1..Len(queue) /\ queue'[j] = queue[j]
    BY <1>6, <2>1, <2>2 DEF IsLcp, LcpInv
  <2>3. CASE queue'[j] = m
    BY <1>1, <1>4, <2>1, <2>3
  <2> QED BY <1>2, <2>2, <2>3
<1>7. ASSUME NEW h \in NextLcp..(nextLcp + 1) - 1 PROVE \E i \in 1..l : IsLcp(i)' /\ queue'[i].height = h
  <2>1. h \in NextLcp..nextLcp - 1 \/ h = nextLcp
    BY <1>1, <1>3
  <2>2. CASE h \in NextLcp..nextLcp - 1
    <3>1. PICK i \in 1..Len(queue) : IsLcp(i) /\ queue[i].height = h
      BY <2>2 DEF LcpInv
    <3> QED BY <1>2, <3>1 DEF IsLcp
  <2>3. CASE h = nextLcp
    BY <1>1, <1>2, <2>3 DEF IsLcp
  <2> QED BY <2>1, <2>2, <2>3
<1>8. nextLcp + 1 \in Nat /\ NextLcp <= nextLcp + 1
  BY <1>1, <1>3
<1> QED BY <1>1, <1>3, <1>5, <1>6, <1>7, <1>8 DEF LcpInv, l

(* An LCP message is read: it is the next one. *)
LEMMA LcpRead ==
    ASSUME Core, LcpInv, nextLcp' = nextLcp, queue # << >>, Head(queue).type = "LCPProcessed",
           dbLcp' = Head(queue).height, queue' = Tail(queue)
    PROVE  LcpInv' /\ Head(queue).height = NextLcp
<1> DEFINE n == NextLcp
           ms == << >>
<1>1. nextLcp \in Nat /\ n \in Nat /\ queue \in Seq(Messages) /\ (dbLcp = NoLcp \/ dbLcp \in Nat)
  BY Heights DEF LcpInv, Core, NextLcp
<1>2. ms \in Seq(Messages) /\ queue' = Tail(queue) \o ms /\ Len(ms) = 0
  BY <1>1
<1> HIDE DEF ms
<1>3. /\ Head(queue) = queue[1] /\ 1 \in 1..Len(queue) /\ Len(queue) \in Nat
      /\ \A i \in 1..Len(queue) : i = 1 \/ (i - 1 \in 1..Len(queue') /\ queue'[i - 1] = queue[i])
      /\ \A i \in 1..Len(queue') : \/ i + 1 \in 1..Len(queue) /\ queue'[i] = queue[i + 1]
                                   \/ \E j \in 1..Len(ms) : queue'[i] = ms[j]
  BY <1>1, <1>2, TailJoinFacts
<1>4. \A i \in 1..Len(queue') : i + 1 \in 1..Len(queue) /\ queue'[i] = queue[i + 1]
  BY <1>2, <1>3
<1>5. /\ \A i \in 1..Len(queue) : IsLcp(i) =>
            queue[i].height \in Nat /\ n <= queue[i].height /\ queue[i].height < nextLcp
      /\ \A i, j \in 1..Len(queue) : IsLcp(i) /\ IsLcp(j) /\ i < j => queue[i].height < queue[j].height
      /\ \A h \in n..nextLcp - 1 : \E i \in 1..Len(queue) : IsLcp(i) /\ queue[i].height = h
  <2>1. \A i \in 1..Len(queue) : queue[i] \in Messages
    BY <1>1
  <2> QED BY <2>1, MessageFields DEF IsLcp, LcpInv
<1>6. IsLcp(1)
  BY <1>3 DEF IsLcp
<1>7. queue[1].height = n
  <2>1. queue[1].height \in Nat /\ n <= queue[1].height /\ queue[1].height < nextLcp
    BY <1>3, <1>5, <1>6
  <2>2. n \in n..nextLcp - 1
    BY <1>1, <2>1
  <2>3. PICK i \in 1..Len(queue) : IsLcp(i) /\ queue[i].height = n
    BY <1>5, <2>2
  <2>4. CASE i = 1
    BY <2>3, <2>4
  <2>5. CASE 1 < i
    <3>1. queue[1].height < queue[i].height
      BY <1>3, <1>5, <1>6, <2>3, <2>5
    <3> QED BY <1>1, <2>1, <2>3, <3>1
  <2>6. i = 1 \/ 1 < i
    BY <1>3
  <2> QED BY <2>4, <2>5, <2>6
<1>8. dbLcp' = n /\ dbLcp' \in Nat /\ NextLcp' = n + 1
  <2>1. dbLcp' = n
    BY <1>3, <1>7
  <2>2. n # NoLcp
    BY <1>1 DEF NoLcp
  <2> HIDE DEF n
  <2> QED BY <1>1, <2>1, <2>2 DEF NextLcp
<1> HIDE DEF n
<1>9. ASSUME NEW i \in 1..Len(queue'), IsLcp(i)'
      PROVE  n + 1 <= queue'[i].height /\ queue'[i].height < nextLcp
  <2>1. i + 1 \in 1..Len(queue) /\ queue'[i] = queue[i + 1] /\ IsLcp(i + 1) /\ 1 < i + 1
    BY <1>4, <1>9 DEF IsLcp
  <2>2. queue[1].height < queue[i + 1].height
    BY <1>3, <1>5, <1>6, <2>1
  <2>3. queue[i + 1].height \in Nat /\ queue[i + 1].height < nextLcp
    BY <1>5, <2>1
  <2> QED BY <1>1, <1>7, <2>1, <2>2, <2>3
<1>10. ASSUME NEW i \in 1..Len(queue'), NEW j \in 1..Len(queue'), IsLcp(i)', IsLcp(j)', i < j
       PROVE  queue'[i].height < queue'[j].height
  <2>1. /\ i + 1 \in 1..Len(queue) /\ queue'[i] = queue[i + 1] /\ IsLcp(i + 1)
        /\ j + 1 \in 1..Len(queue) /\ queue'[j] = queue[j + 1] /\ IsLcp(j + 1) /\ i + 1 < j + 1
    BY <1>4, <1>10 DEF IsLcp
  <2> QED BY <1>5, <2>1
<1>11. ASSUME NEW h \in n + 1..nextLcp - 1 PROVE \E i \in 1..Len(queue') : IsLcp(i)' /\ queue'[i].height = h
  <2>1. h \in n..nextLcp - 1 /\ h # n
    BY <1>1
  <2>2. PICK i \in 1..Len(queue) : IsLcp(i) /\ queue[i].height = h
    BY <1>5, <2>1
  <2>3. i # 1
    BY <1>7, <2>1, <2>2
  <2>4. i - 1 \in 1..Len(queue') /\ queue'[i - 1] = queue[i]
    BY <1>3, <2>3
  <2> QED BY <2>2, <2>4 DEF IsLcp
<1>12. n + 1 <= nextLcp
  BY <1>1, <1>3, <1>5, <1>6, <1>7
<1>13. LcpInv'
  BY <1>1, <1>8, <1>9, <1>10, <1>11, <1>12 DEF LcpInv
<1> QED BY <1>3, <1>7, <1>13 DEF n

(* The challenges of rows that keep their challenged rounds. *)
LEMMA ChallengesKept ==
    ASSUME NEW table, NEW cs, ChallengesInv(rows, cs), \A m \in Operators : Kept(table, m)
    PROVE  ChallengesInv(table, cs)
<1>1. \A c \in cs : OperatorOf[c] \in Operators
  BY Heights DEF ChallengesInv
<1>2. \A c \in cs : table[OperatorOf[c]] # NoRow /\ RoundOf[c] \in table[OperatorOf[c]].challenged
  BY <1>1 DEF ChallengesInv, Kept
<1>3. ASSUME NEW o \in Operators, table[o] # NoRow, NEW r \in table[o].challenged
      PROVE  \E c \in cs : OperatorOf[c] = o /\ RoundOf[c] = r
  BY <1>3 DEF ChallengesInv, Kept
<1> QED BY <1>2, <1>3 DEF ChallengesInv

(* The inductive invariant of the challenges. *)
ChallengingInv == Core /\ OwnerInv /\ LcpInv /\ ChallengesInv(rows, challenges) /\ CoveredInv

LEMMA ChallengingInit ==
    ASSUME Init PROVE ChallengingInv
<1>1. /\ nextLcp = StartHeight /\ dbLcp = NoLcp /\ queue = << >> /\ challenges = {} /\ StartHeight \in Nat
      /\ \A m \in Machines : rows[m] = NoRow
  BY Heights DEF Init
<1>2. LcpInv
  <2>1. NextLcp = StartHeight
    BY <1>1 DEF NextLcp
  <2>2. Len(queue) = 0 /\ NextLcp <= nextLcp /\ NextLcp..nextLcp - 1 = {}
    BY <1>1, <2>1
  <2> QED BY <1>1, <2>2 DEF LcpInv
<1>3. ChallengesInv(rows, challenges)
  BY <1>1, Heights DEF ChallengesInv
<1>4. CoveredInv
  <2>1. \A k \in Malicious : k \in Machines
    BY ManagerAssumption DEF Machines
  <2> QED BY <1>1, <2>1 DEF CoveredInv
<1> QED BY <1>2, <1>3, <1>4, CoreInit DEF ChallengingInv

LEMMA ChallengingStep ==
    ASSUME ChallengingInv, [Next]_vars, ~overlaid' PROVE ChallengingInv'
<1>1. /\ Core /\ OwnerInv /\ LcpInv /\ ChallengesInv(rows, challenges) /\ CoveredInv
      /\ queue \in Seq(Messages) /\ dbLcp \in Int
  BY DEF ChallengingInv, Core, RowsInv
<1>2. Core' /\ OwnerInv'
  BY <1>1, CoreStep
<1>3. \A k \in Malicious : /\ k \in Kickoffs /\ k \in Machines /\ KickoffHeight[k] \in Nat
                          /\ OperatorOf[k] \in Operators /\ OperatorOf[k] \in Machines
  <2>1. Malicious \subseteq Kickoffs
    BY ManagerAssumption
  <2> QED BY <2>1, Heights
<1>4. ASSUME UNCHANGED savedVars PROVE ChallengesInv(rows', challenges') /\ CoveredInv'
  BY <1>1, <1>4 DEF savedVars, CoveredInv
<1>5. CASE Produce
  <2>1. UNCHANGED savedVars
    BY <1>1, <1>5, ProduceStep
  <2>2. dbLcp' = dbLcp
    BY <2>1 DEF savedVars
  <2>3. LcpInv'
    <3>1. CASE SendLCPProcessed
      BY <1>1, <2>2, <3>1, LcpSend DEF SendLCPProcessed
    <3>2. CASE Finalize \/ \E k \in Kickoffs : OpenDeposit(k)
      BY <1>1, <2>2, <3>2, LcpAppend DEF Finalize, OpenDeposit, dbVars
    <3>3. CASE SendFinalizedBlock
      <4>1. NewFinalizedBlock(nextBlock) \in Messages /\ NewFinalizedBlock(nextBlock).type # "LCPProcessed"
        BY <1>1 DEF Messages, NewFinalizedBlock, OwnerInv
      <4>2. nextLcp' = nextLcp /\ queue' = Append(queue, NewFinalizedBlock(nextBlock))
        BY <3>3 DEF SendFinalizedBlock
      <4> QED BY <1>1, <2>2, <4>1, <4>2, LcpAppend
    <3>4. ASSUME NEW o \in Operators, SetOperator(o) PROVE LcpInv'
      <4>1. NewOperator(o) \in Messages /\ NewOperator(o).type # "LCPProcessed"
        BY DEF Messages, NewOperator
      <4>2. nextLcp' = nextLcp /\ (queue' = queue \/ queue' = Append(queue, NewOperator(o)))
        BY <3>4 DEF SetOperator
      <4> QED BY <1>1, <2>2, <4>1, <4>2, LcpAppend
    <3>5. ASSUME NEW k \in Kickoffs, CommitDeposit(k) PROVE LcpInv'
      <4>1. NewKickoff(k) \in Messages /\ NewKickoff(k).type # "LCPProcessed"
        BY KickoffMessage
      <4>2. nextLcp' = nextLcp /\ (queue' = queue \/ queue' = Append(queue, NewKickoff(k)))
        BY <3>5 DEF CommitDeposit
      <4> QED BY <1>1, <2>2, <4>1, <4>2, LcpAppend
    <3> QED BY <1>5, <3>1, <3>2, <3>3, <3>4, <3>5 DEF Produce
  <2> QED BY <1>2, <1>4, <2>1, <2>3 DEF ChallengingInv
<1>6. CASE HandleFinalizedBlock /\ pc' = "run"
  <2>1. /\ UNCHANGED ownerVars /\ queue # << >> /\ Head(queue).type = "NewFinalizedBlock"
        /\ dbLcp' = dbLcp /\ challenges' = challenges
        /\ \A m \in Machines : Kept(rows', m)
    BY <1>1, <1>6, FinalizedBlockStep
  <2>2. PICK ms \in Seq(Messages) :
           queue' = Tail(queue) \o ms /\ \A i \in 1..Len(ms) : ms[i].type = "NewKickoff"
    BY <1>1, <1>6, FinalizedBlockStep
  <2>3. LcpInv'
    <3>1. nextLcp' = nextLcp /\ Head(queue).type # "LCPProcessed"
      BY <2>1 DEF ownerVars
    <3> QED BY <1>1, <2>1, <2>2, <3>1, LcpTail
  <2>4. ChallengesInv(rows', challenges')
    <3>1. \A m \in Operators : Kept(rows', m)
      BY <2>1, Heights
    <3> QED BY <1>1, <2>1, <3>1, ChallengesKept
  <2>5. CoveredInv'
    <3>1. ASSUME NEW k \in Malicious, rows'[k] # NoRow, dbLcp >= KickoffHeight[k]
          PROVE  rows'[OperatorOf[k]] # NoRow /\ RoundOf[k] \in rows'[OperatorOf[k]].challenged
      <4>1. Kept(rows', k) /\ Kept(rows', OperatorOf[k])
        BY <1>3, <2>1
      <4>2. rows[OperatorOf[k]] # NoRow /\ RoundOf[k] \in rows[OperatorOf[k]].challenged
        BY <1>1, <3>1, <4>1 DEF CoveredInv, Kept
      <4> QED BY <4>1, <4>2 DEF Kept
    <3> QED BY <2>1, <3>1 DEF CoveredInv
  <2> QED BY <1>2, <2>3, <2>4, <2>5 DEF ChallengingInv
<1>7. CASE HandleNewOperator /\ pc' = "run"
  <2> DEFINE o == Head(queue).operator
  <2>1. /\ UNCHANGED ownerVars /\ queue # << >> /\ Head(queue).type = "NewOperator"
        /\ dbLcp' = dbLcp /\ challenges' = challenges /\ o \in Operators
        /\ rows[o] = NoRow /\ rows'[o] # NoRow /\ rows'[o].challenged = {}
        /\ \A m \in Machines \ {o} : Kept(rows', m)
    BY <1>1, <1>7, NewOperatorStep
  <2>2. PICK ms \in Seq(Messages) :
           queue' = Tail(queue) \o ms /\ \A i \in 1..Len(ms) : ms[i].type = "NewKickoff"
    BY <1>1, <1>7, NewOperatorStep
  <2>3. LcpInv'
    <3>1. nextLcp' = nextLcp /\ Head(queue).type # "LCPProcessed"
      BY <2>1 DEF ownerVars
    <3> QED BY <1>1, <2>1, <2>2, <3>1, LcpTail
  <2> HIDE DEF o
  <2>4. ChallengesInv(rows', challenges)
    <3>1. /\ challenges \subseteq Kickoffs
          /\ \A c \in challenges : /\ rows[OperatorOf[c]] # NoRow
                                   /\ RoundOf[c] \in rows[OperatorOf[c]].challenged
          /\ \A x \in Operators : rows[x] # NoRow =>
                \A r \in rows[x].challenged : \E c \in challenges : OperatorOf[c] = x /\ RoundOf[c] = r
          /\ \A c, d \in challenges : OperatorOf[c] = OperatorOf[d] /\ RoundOf[c] = RoundOf[d] => c = d
      BY <1>1 DEF ChallengesInv
    <3>2. ASSUME NEW c \in challenges
          PROVE  rows'[OperatorOf[c]] # NoRow /\ RoundOf[c] \in rows'[OperatorOf[c]].challenged
      <4>1. rows[OperatorOf[c]] # NoRow /\ RoundOf[c] \in rows[OperatorOf[c]].challenged
        BY <3>1
      <4>2. OperatorOf[c] \in Machines \ {o}
        BY <2>1, <3>1, <4>1, Heights
      <4> QED BY <2>1, <4>1, <4>2 DEF Kept
    <3>3. ASSUME NEW x \in Operators, rows'[x] # NoRow, NEW r \in rows'[x].challenged
          PROVE  \E c \in challenges : OperatorOf[c] = x /\ RoundOf[c] = r
      <4>1. x \in Machines \ {o}
        BY <2>1, <3>3, Heights
      <4>2. rows[x] # NoRow /\ r \in rows[x].challenged
        BY <2>1, <3>3, <4>1 DEF Kept
      <4> QED BY <3>1, <4>2
    <3> QED BY <3>1, <3>2, <3>3 DEF ChallengesInv
  <2>5. CoveredInv'
    <3>1. ASSUME NEW k \in Malicious, rows'[k] # NoRow, dbLcp >= KickoffHeight[k]
          PROVE  rows'[OperatorOf[k]] # NoRow /\ RoundOf[k] \in rows'[OperatorOf[k]].challenged
      <4>1. k \in Machines \ {o}
        BY <1>3, <2>1, Heights
      <4>2. rows[OperatorOf[k]] # NoRow /\ RoundOf[k] \in rows[OperatorOf[k]].challenged
        BY <1>1, <2>1, <3>1, <4>1 DEF CoveredInv, Kept
      <4>3. OperatorOf[k] \in Machines \ {o}
        BY <1>3, <2>1, <4>2
      <4> QED BY <2>1, <4>2, <4>3 DEF Kept
    <3> QED BY <2>1, <3>1 DEF CoveredInv
  <2> QED BY <1>2, <2>1, <2>3, <2>4, <2>5 DEF ChallengingInv
<1>8. ASSUME NEW k \in Malicious, \A m \in Operators : Grows(rows', m),
             rows[OperatorOf[k]] # NoRow, RoundOf[k] \in rows[OperatorOf[k]].challenged
      PROVE  rows'[OperatorOf[k]] # NoRow /\ RoundOf[k] \in rows'[OperatorOf[k]].challenged
  BY <1>3, <1>8 DEF Grows
<1>9. CASE HandleNewKickoff /\ pc' = "run"
  <2> DEFINE c == Head(queue).kickoff
  <2>1. /\ UNCHANGED ownerVars /\ queue # << >> /\ Head(queue).type = "NewKickoff" /\ c \in Kickoffs
        /\ queue' = Tail(queue) /\ dbLcp' = dbLcp
        /\ \A m \in Operators : Grows(rows', m)
        /\ \A m \in Kickoffs \ {c} : Kept(rows', m)
        /\ ChallengesInv(rows', challenges')
        /\ c \in Malicious /\ dbLcp >= KickoffHeight[c] => IsChallengedRow(rows', c)
    BY <1>1, <1>9, NewKickoffStep
  <2>2. LcpInv'
    <3> DEFINE ms == << >>
    <3>1. nextLcp' = nextLcp /\ Head(queue).type # "LCPProcessed"
      BY <2>1 DEF ownerVars
    <3>2. ms \in Seq(Messages) /\ queue' = Tail(queue) \o ms /\ \A i \in 1..Len(ms) : ms[i].type = "NewKickoff"
      BY <1>1, <2>1
    <3> HIDE DEF ms
    <3> QED BY <1>1, <2>1, <3>1, <3>2, LcpTail
  <2> HIDE DEF c
  <2>3. CoveredInv'
    <3>1. ASSUME NEW k \in Malicious, rows'[k] # NoRow, dbLcp >= KickoffHeight[k]
          PROVE  rows'[OperatorOf[k]] # NoRow /\ RoundOf[k] \in rows'[OperatorOf[k]].challenged
      <4>1. CASE k = c
        BY <2>1, <3>1, <4>1 DEF IsChallengedRow
      <4>2. CASE k # c
        <5>1. rows[OperatorOf[k]] # NoRow /\ RoundOf[k] \in rows[OperatorOf[k]].challenged
          BY <1>1, <1>3, <2>1, <3>1, <4>2 DEF CoveredInv, Kept
        <5> QED BY <1>8, <2>1, <5>1
      <4> QED BY <4>1, <4>2
    <3> QED BY <2>1, <3>1 DEF CoveredInv
  <2> QED BY <1>2, <2>1, <2>2, <2>3 DEF ChallengingInv
<1>10. CASE HandleLCPProcessed /\ pc' = "run"
  <2> DEFINE h == Head(queue).height
  <2>1. /\ UNCHANGED ownerVars /\ queue # << >> /\ Head(queue).type = "LCPProcessed"
        /\ queue' = Tail(queue) /\ dbLcp' = h
        /\ \A m \in Operators : Grows(rows', m)
        /\ \A m \in Kickoffs : Kept(rows', m)
        /\ ChallengesInv(rows', challenges')
        /\ \A k \in Malicious : rows[k] # NoRow /\ KickoffHeight[k] = h => IsChallengedRow(rows', k)
    BY <1>1, <1>10, LcpStep
  <2>2. LcpInv' /\ h = NextLcp
    <3>1. nextLcp' = nextLcp
      BY <2>1 DEF ownerVars
    <3> QED BY <1>1, <2>1, <3>1, LcpRead
  <2> HIDE DEF h
  <2>3. CoveredInv'
    <3>1. ASSUME NEW k \in Malicious, rows'[k] # NoRow, h >= KickoffHeight[k]
          PROVE  rows'[OperatorOf[k]] # NoRow /\ RoundOf[k] \in rows'[OperatorOf[k]].challenged
      <4>1. rows[k] # NoRow /\ KickoffHeight[k] \in Nat /\ KickoffHeight[k] >= StartHeight /\ StartHeight \in Nat
        BY <1>3, <2>1, <3>1, Heights DEF Kept
      <4>2. CASE KickoffHeight[k] = h
        BY <2>1, <4>1, <4>2 DEF IsChallengedRow
      <4>3. CASE KickoffHeight[k] # h
        <5>1. dbLcp >= KickoffHeight[k]
          BY <1>1, <2>2, <3>1, <4>1, <4>3 DEF NextLcp
        <5>2. rows[OperatorOf[k]] # NoRow /\ RoundOf[k] \in rows[OperatorOf[k]].challenged
          BY <1>1, <4>1, <5>1 DEF CoveredInv
        <5> QED BY <1>8, <2>1, <5>2
      <4> QED BY <4>2, <4>3
    <3> QED BY <2>1, <3>1 DEF CoveredInv
  <2> QED BY <1>2, <2>1, <2>2, <2>3 DEF ChallengingInv
<1>11. CASE SkipMessage
  <2>1. /\ UNCHANGED ownerVars /\ UNCHANGED savedVars /\ queue # << >> /\ queue' = Tail(queue)
        /\ Head(queue).type \in {"NewOperator", "NewKickoff"}
    BY <1>1, <1>11, SkipStep
  <2>2. LcpInv'
    <3> DEFINE ms == << >>
    <3>1. nextLcp' = nextLcp /\ dbLcp' = dbLcp /\ Head(queue).type # "LCPProcessed"
      BY <2>1 DEF ownerVars, savedVars
    <3>2. ms \in Seq(Messages) /\ queue' = Tail(queue) \o ms /\ \A i \in 1..Len(ms) : ms[i].type = "NewKickoff"
      BY <1>1, <2>1
    <3> HIDE DEF ms
    <3> QED BY <1>1, <2>1, <3>1, <3>2, LcpTail
  <2> QED BY <1>2, <1>4, <2>1, <2>2 DEF ChallengingInv
<1>12. CASE OnlyMemory
  <2>1. UNCHANGED ownerVars /\ UNCHANGED dbVars
    BY <1>1, <1>12, MemoryStep
  <2>2. UNCHANGED savedVars /\ nextLcp' = nextLcp /\ dbLcp' = dbLcp /\ queue' = queue
    BY <2>1 DEF ownerVars, dbVars, savedVars
  <2>3. LcpInv'
    BY <1>1, <2>2, LcpAppend
  <2> QED BY <1>2, <1>4, <2>2, <2>3 DEF ChallengingInv
<1> QED BY <1>5, <1>6, <1>7, <1>9, <1>10, <1>11, <1>12, Steps

LEMMA ChallengedOnce ==
    ASSUME ChallengingInv PROVE MaliciousRoundsChallengedOnce
<1> DEFINE SameRound(c, k) == OperatorOf[c] = OperatorOf[k] /\ RoundOf[c] = RoundOf[k]
<1>1. ChallengesInv(rows, challenges) /\ CoveredInv
  BY DEF ChallengingInv
<1>2. ASSUME NEW k \in Malicious, rows[k] # NoRow, dbLcp >= KickoffHeight[k]
      PROVE  \E c \in challenges : SameRound(c, k)
  <2>1. rows[OperatorOf[k]] # NoRow /\ RoundOf[k] \in rows[OperatorOf[k]].challenged
    BY <1>1, <1>2 DEF CoveredInv
  <2>2. OperatorOf[k] \in Operators
    BY Heights, ManagerAssumption
  <2> QED BY <1>1, <2>1, <2>2 DEF ChallengesInv
<1>3. \A c, d \in challenges : SameRound(c, d) => c = d
  BY <1>1 DEF ChallengesInv
<1> QED BY <1>2, <1>3 DEF MaliciousRoundsChallengedOnce

(* A round with a malicious kickoff is challenged when the LCP of the       *)
(* kickoff's block is processed or, when the kickoff comes later, at once;  *)
(* and the verifier never pays for a second challenge of the same round:    *)
(* whatever fails, unless a recovery put the saved machines on top of       *)
(* those that an error left in memory.                                      *)
THEOREM RoundsAreChallengedOnce == Spec => []ChallengedOnceUnlessOverlaid
<1> DEFINE Inv == overlaid \/ ChallengingInv
<1>1. Init => Inv
  BY ChallengingInit
<1>2. Inv /\ [Next]_vars => Inv'
  BY ChallengingStep, OverlaidStays
<1>3. Inv => ChallengedOnceUnlessOverlaid
  BY ChallengedOnce DEF ChallengedOnceUnlessOverlaid
<1> QED BY <1>1, <1>2, <1>3, PTL DEF Spec

-----------------------------------------------------------------------------
(* The machines are up to date, with any number of copies in memory. *)

(* A machine in memory has seen what the saved height says, or one block    *)
(* more when the transaction of that block failed; then the block is still  *)
(* the next message.                                                        *)
IsCurrent(m) ==
    \/ HasSeen(m, dbNextHeight)
    \/ HasSeen(m, dbNextHeight + 1) /\ queue # << >> /\ Head(queue) = NewFinalizedBlock(dbNextHeight)

AreCurrent(ms, S) == Vector(ms, S) /\ \A i \in 1..Len(ms) : IsCurrent(ms[i])

(* Every saved machine of S has a copy in the vector. *)
HasCopies(ms, S, table) ==
    \A m \in S : table[m] # NoRow => \E i \in 1..Len(ms) : ms[i].id = m /\ ms[i].seen = table[m].seen

(* It had one before the vector changed: a machine that changed is dirty. *)
HadCopies(ms, S) ==
    \A m \in S : rows[m] # NoRow =>
        \E i \in 1..Len(ms) : ms[i].id = m /\ (ms[i].dirty \/ ms[i].seen = rows[m].seen)

(* All machines of a vector have seen the blocks below a height. *)
SeenBefore(ms, S, h) == Vector(ms, S) /\ \A i \in 1..Len(ms) : HasSeen(ms[i], h)

CurrentInv ==
    /\ queue \in Seq(Messages) /\ RowsInv /\ OwnerInv
    /\ AreCurrent(round_machines, Operators) /\ AreCurrent(kickoff_machines, Kickoffs)
    /\ pc = "run" =>
          /\ next_height_to_process = dbNextHeight
          /\ last_processed_lcp = dbLcp
          /\ last_finalized_block = dbNextHeight - 1
          /\ HasCopies(round_machines, Operators, rows)
          /\ HasCopies(kickoff_machines, Kickoffs, rows)

LEMMA SameHasSeen ==
    ASSUME NEW a, NEW b, a.id = b.id, a.seen = b.seen, NEW h, HasSeen(a, h) PROVE HasSeen(b, h)
  BY DEF HasSeen

(* Also a machine that has already seen the block has seen it afterwards. *)
LEMMA HasSeenAgain ==
    ASSUME NEW m \in MachineRecords, NEW h \in Nat, h >= StartHeight, HasSeen(m, h + 1)
    PROVE  HasSeen(After(m, h), h + 1)
<1> DEFINE first == IF m.id \in Operators THEN StartHeight ELSE KickoffHeight[m.id]
           A == Activity[m.id]
<1>1. m.id \in Machines /\ A \subseteq Nat /\ StartHeight \in Nat
  BY Heights DEF MachineRecords
<1>2. A \cap (first..(h + 1) - 1) \subseteq m.seen /\ m.seen \subseteq A \cap (StartHeight..(h + 1) - 1)
  BY DEF HasSeen
<1>3. CASE Moves(m, h)
  <2>1. After(m, h).id = m.id /\ After(m, h).seen = m.seen \cup {h}
    BY <1>3, MovedFacts DEF After
  <2>2. h \in A /\ h \in StartHeight..(h + 1) - 1
    BY <1>1, <1>3 DEF Moves
  <2> HIDE DEF first, A
  <2>3. /\ A \cap (first..(h + 1) - 1) \subseteq m.seen \cup {h}
        /\ m.seen \cup {h} \subseteq A \cap (StartHeight..(h + 1) - 1)
    BY <1>2, <2>2
  <2> QED BY <2>1, <2>3 DEF HasSeen, first, A
<1>4. CASE ~Moves(m, h)
  BY <1>4 DEF After
<1> QED BY <1>3, <1>4

(* What is saved of a vector with any number of copies: a dirty one, or *)
(* nothing when none is dirty.                                          *)
Saves(ms, t, m) ==
    \/ \E i \in 1..Len(ms) : ms[i].id = m /\ ms[i].dirty /\ t[m] = ms[i]
    \/ (\A i \in 1..Len(ms) : ms[i].id = m => ~ms[i].dirty) /\ t[m] = rows[m]

LEMMA SaveAnyFacts ==
    ASSUME NEW ms, Vector(ms, Machines), NEW m \in Machines
    PROVE  Saves(ms, SaveRows(ms), m)
<1> DEFINE I == {i \in 1..Len(ms) : ms[i].id = m /\ ms[i].dirty}
           last == IF I # {} THEN Max(I) ELSE 0
<1>1. SaveRows(ms)[m] = IF last = 0 THEN rows[m] ELSE ms[last]
  BY DEF SaveRows, SelectLastInSeq
<1>2. CASE I = {}
  <2>1. last = 0
    BY <1>2
  <2> QED BY <1>1, <1>2, <2>1 DEF Saves
<1>3. CASE I # {}
  <2>1. Len(ms) \in Nat /\ I \subseteq 1..Len(ms)
    BY DEF Vector
  <2>2. Max(I) \in I
    <3> HIDE DEF I
    <3> QED BY <1>3, <2>1, MaxFacts
  <2>3. last = Max(I)
    BY <1>3
  <2>4. last \in I
    BY <2>2, <2>3
  <2> HIDE DEF last
  <2>5. last \in 1..Len(ms) /\ last # 0 /\ ms[last].id = m /\ ms[last].dirty
    BY <2>4
  <2>6. SaveRows(ms)[m] = ms[last]
    BY <1>1, <2>5
  <2> QED BY <2>5, <2>6 DEF Saves
<1> QED BY <1>2, <1>3

LEMMA SaveAnyTable ==
    ASSUME NEW ms, Vector(ms, Machines), IsTable(rows)
    PROVE  IsTable(SaveRows(ms))
<1> DEFINE t == SaveRows(ms)
<1>1. t = [m \in Machines |-> t[m]]
  BY DEF SaveRows
<1>2. ASSUME NEW m \in Machines, t[m] # NoRow PROVE t[m] \in MachineRecords /\ t[m].id = m /\ t[m].dirty
  <2>1. CASE \E i \in 1..Len(ms) : ms[i].id = m /\ ms[i].dirty /\ t[m] = ms[i]
    <3>1. PICK i \in 1..Len(ms) : ms[i].id = m /\ ms[i].dirty /\ t[m] = ms[i]
      BY <2>1
    <3>2. ms[i] \in MachineRecords
      BY DEF Vector
    <3> HIDE DEF t
    <3> QED BY <3>1, <3>2
  <2>2. CASE t[m] = rows[m]
    <3> HIDE DEF t
    <3> QED BY <1>2, <2>2 DEF IsTable
  <2>3. Saves(ms, t, m)
    BY SaveAnyFacts
  <2> HIDE DEF t
  <2> QED BY <2>1, <2>2, <2>3 DEF Saves
<1> HIDE DEF t
<1>3. IsTable(t)
  BY <1>1, <1>2 DEF IsTable
<1> QED BY <1>3 DEF t

(* SavedToDb leaves any vector what it is. *)
LEMMA SavedToDbKeeps ==
    ASSUME NEW S, NEW ms, Vector(ms, S)
    PROVE  /\ Vector(SavedToDb(ms), S) /\ Len(SavedToDb(ms)) = Len(ms)
           /\ \A i \in 1..Len(ms) : SavedToDb(ms)[i].id = ms[i].id /\ SavedToDb(ms)[i].seen = ms[i].seen
<1> DEFINE new == SavedToDb(ms)
<1>1. ms \in Seq(MachineRecords) /\ Len(ms) \in Nat /\ \A i \in 1..Len(ms) : ms[i] \in MachineRecords
  BY DEF Vector
<1>2. \A i \in 1..Len(ms) : new[i] = [ms[i] EXCEPT !.dirty = FALSE]
  BY DEF SavedToDb
<1>3. ASSUME NEW m \in MachineRecords
      PROVE  /\ [m EXCEPT !.dirty = FALSE] \in MachineRecords
             /\ [m EXCEPT !.dirty = FALSE].id = m.id /\ [m EXCEPT !.dirty = FALSE].seen = m.seen
  BY DEF MachineRecords
<1>4. \A i \in 1..Len(ms) : new[i] \in MachineRecords /\ new[i].id = ms[i].id /\ new[i].seen = ms[i].seen
  BY <1>1, <1>2, <1>3
<1>5. new \in Seq(MachineRecords) /\ Len(new) = Len(ms)
  <2>1. new = [i \in 1..Len(ms) |-> new[i]]
    BY DEF SavedToDb
  <2> HIDE DEF new
  <2> QED BY <1>1, <1>4, <2>1
<1> HIDE DEF new
<1>6. Vector(new, S)
  BY <1>4, <1>5 DEF Vector
<1> QED BY <1>4, <1>5, <1>6 DEF new

(* The two vectors, one after the other. *)
Joins(round, kickoff, all) ==
    /\ Vector(all, Machines)
    /\ \A j \in 1..Len(all) : \/ \E i \in 1..Len(round) : all[j] = round[i]
                              \/ \E i \in 1..Len(kickoff) : all[j] = kickoff[i]
    /\ \A i \in 1..Len(round) : \E j \in 1..Len(all) : all[j] = round[i]
    /\ \A i \in 1..Len(kickoff) : \E j \in 1..Len(all) : all[j] = kickoff[i]

LEMMA JoinVectors ==
    ASSUME NEW round, NEW kickoff, Vector(round, Operators), Vector(kickoff, Kickoffs)
    PROVE  Joins(round, kickoff, round \o kickoff)
<1> DEFINE all == round \o kickoff
           lr == Len(round)
           lk == Len(kickoff)
<1>1. /\ all \in Seq(MachineRecords) /\ lr \in Nat /\ lk \in Nat
      /\ \A j \in 1..lr : all[j] = round[j] /\ j \in 1..Len(all)
      /\ \A j \in 1..lk : all[lr + j] = kickoff[j] /\ lr + j \in 1..Len(all)
      /\ \A j \in 1..Len(all) : j \in 1..lr \/ \E k \in 1..lk : j = lr + k
  <2>1. round \in Seq(MachineRecords) /\ kickoff \in Seq(MachineRecords)
    BY DEF Vector
  <2> QED BY <2>1, JoinFacts
<1> HIDE DEF all
<1>2. \A j \in 1..Len(all) : \/ \E i \in 1..lr : all[j] = round[i]
                             \/ \E i \in 1..lk : all[j] = kickoff[i]
  BY <1>1
<1>3. /\ \A i \in 1..lr : \E j \in 1..Len(all) : all[j] = round[i]
      /\ \A i \in 1..lk : \E j \in 1..Len(all) : all[j] = kickoff[i]
  BY <1>1
<1>4. Vector(all, Machines)
  <2>1. \A j \in 1..Len(all) : all[j].id \in Machines
    BY <1>2 DEF Vector, Machines
  <2> QED BY <1>1, <2>1 DEF Vector
<1>5. Joins(round, kickoff, all)
  BY <1>2, <1>3, <1>4 DEF Joins
<1> QED BY <1>5 DEF all

(* Every saved machine has a copy in the vector of its kind. *)
LEMMA CopiesSaved ==
    ASSUME NEW S, NEW ms, HadCopies(ms, S), S \subseteq Machines, NEW all, NEW t,
           \A m \in Machines : Saves(all, t, m),
           \A i \in 1..Len(ms) : \E j \in 1..Len(all) : all[j] = ms[i],
           \A j \in 1..Len(all) : all[j].id \in S => \E i \in 1..Len(ms) : all[j] = ms[i]
    PROVE  HasCopies(ms, S, t)
<1> SUFFICES ASSUME NEW m \in S, t[m] # NoRow
             PROVE  \E i \in 1..Len(ms) : ms[i].id = m /\ ms[i].seen = t[m].seen
  BY DEF HasCopies
<1>1. CASE \E j \in 1..Len(all) : all[j].id = m /\ all[j].dirty /\ t[m] = all[j]
  <2>1. PICK j \in 1..Len(all) : all[j].id = m /\ t[m] = all[j]
    BY <1>1
  <2>2. PICK i \in 1..Len(ms) : all[j] = ms[i]
    BY <2>1
  <2> QED BY <2>1, <2>2
<1>2. CASE (\A j \in 1..Len(all) : all[j].id = m => ~all[j].dirty) /\ t[m] = rows[m]
  <2>1. PICK i \in 1..Len(ms) : ms[i].id = m /\ (ms[i].dirty \/ ms[i].seen = rows[m].seen)
    BY <1>2 DEF HadCopies
  <2>2. PICK j \in 1..Len(all) : all[j] = ms[i]
    OBVIOUS
  <2>3. ~ms[i].dirty
    BY <1>2, <2>1, <2>2
  <2> QED BY <1>2, <2>1, <2>3
<1> QED BY <1>1, <1>2 DEF Saves

(* What one message, handled and committed, leaves behind. *)
LEMMA HandledCurrent ==
    ASSUME CurrentInv, pc = "run", pc' = "run", queue # << >>,
           NEW round, NEW kickoff, NEW lcp \in Int, NEW block \in Nat, NEW messages \in Seq(Messages),
           NEW challenged \in SUBSET Kickoffs,
           Handled(round, kickoff, lcp, block, messages, challenged), UNCHANGED ownerVars,
           SeenBefore(round, Operators, block + 1), SeenBefore(kickoff, Kickoffs, block + 1),
           HadCopies(round, Operators), HadCopies(kickoff, Kickoffs),
           dbNextHeight <= block + 1
    PROVE  CurrentInv'
<1> DEFINE all == round \o kickoff
           t == SaveRows(all)
<1>1. /\ next_height_to_process' =
            IF block + 1 > next_height_to_process THEN block + 1 ELSE next_height_to_process
      /\ last_processed_lcp' = lcp /\ last_finalized_block' = block
      /\ queue' = Tail(queue) \o messages
      /\ rows' = t
      /\ dbNextHeight' = block + 1 /\ dbLcp' = lcp /\ challenges' = challenged
      /\ round_machines' = SavedToDb(round) /\ kickoff_machines' = SavedToDb(kickoff)
  BY DEF Handled, HeightToSave
<1>2. IsTable(rows) /\ dbNextHeight \in Nat /\ dbNextHeight >= StartHeight /\ queue \in Seq(Messages)
      /\ next_height_to_process = dbNextHeight /\ StartHeight \in Nat
  BY ManagerAssumption DEF CurrentInv, RowsInv
<1>3. Vector(round, Operators) /\ Vector(kickoff, Kickoffs)
  BY DEF SeenBefore
<1>4. /\ Vector(all, Machines)
      /\ \A j \in 1..Len(all) : \/ \E i \in 1..Len(round) : all[j] = round[i]
                                \/ \E i \in 1..Len(kickoff) : all[j] = kickoff[i]
      /\ \A i \in 1..Len(round) : \E j \in 1..Len(all) : all[j] = round[i]
      /\ \A i \in 1..Len(kickoff) : \E j \in 1..Len(all) : all[j] = kickoff[i]
  <2>1. Joins(round, kickoff, all)
    BY <1>3, JoinVectors
  <2> HIDE DEF all
  <2> QED BY <2>1 DEF Joins
<1> HIDE DEF all
<1>5. IsTable(t)
  BY <1>2, <1>4, SaveAnyTable
<1>6. \A m \in Machines : Saves(all, t, m)
  BY <1>4, SaveAnyFacts
<1> HIDE DEF t
<1>7. \A j \in 1..Len(all) : HasSeen(all[j], block + 1)
  BY <1>4 DEF SeenBefore
<1>9. /\ \A i \in 1..Len(round) : round[i].id \in Operators /\ round[i].id \notin Kickoffs
      /\ \A i \in 1..Len(kickoff) : kickoff[i].id \in Kickoffs /\ kickoff[i].id \notin Operators
      /\ Operators \subseteq Machines /\ Kickoffs \subseteq Machines
  BY <1>3, ManagerAssumption DEF Vector, Machines
<1>10. HasCopies(round, Operators, t)
  <2>1. \A j \in 1..Len(all) : all[j].id \in Operators => \E i \in 1..Len(round) : all[j] = round[i]
    BY <1>4, <1>9
  <2> QED BY <1>4, <1>6, <1>9, <2>1, CopiesSaved
<1>11. HasCopies(kickoff, Kickoffs, t)
  <2>1. \A j \in 1..Len(all) : all[j].id \in Kickoffs => \E i \in 1..Len(kickoff) : all[j] = kickoff[i]
    BY <1>4, <1>9
  <2> QED BY <1>4, <1>6, <1>9, <2>1, CopiesSaved
<1>12. ASSUME NEW m \in Machines, t[m] # NoRow PROVE HasSeen(t[m], block + 1)
  <2>1. t[m].id = m
    BY <1>5, <1>12 DEF IsTable
  <2>2. CASE m \in Operators
    <3>1. PICK i \in 1..Len(round) : round[i].id = m /\ round[i].seen = t[m].seen
      BY <1>10, <1>12, <2>2 DEF HasCopies
    <3>2. HasSeen(round[i], block + 1)
      BY DEF SeenBefore
    <3> QED BY <2>1, <3>1, <3>2, SameHasSeen
  <2>3. CASE m \in Kickoffs
    <3>1. PICK i \in 1..Len(kickoff) : kickoff[i].id = m /\ kickoff[i].seen = t[m].seen
      BY <1>11, <1>12, <2>3 DEF HasCopies
    <3>2. HasSeen(kickoff[i], block + 1)
      BY DEF SeenBefore
    <3> QED BY <2>1, <3>1, <3>2, SameHasSeen
  <2> QED BY <2>2, <2>3 DEF Machines
<1>13. next_height_to_process' = block + 1 /\ block + 1 \in Nat /\ block + 1 >= StartHeight /\ (block + 1) - 1 = block
  BY <1>1, <1>2
<1>14. queue' \in Seq(Messages)
  BY <1>1, <1>2
<1>15. RowsInv'
  <2>1. \A m \in Machines : rows'[m] # NoRow => HasSeen(rows'[m], dbNextHeight')
    BY <1>1, <1>12
  <2>2. dbLcp' \in Int /\ challenges' \in SUBSET Kickoffs
    BY <1>1
  <2> QED BY <1>1, <1>5, <1>13, <2>1, <2>2 DEF RowsInv, HasSeen
<1>16. ASSUME NEW S, NEW ms, SeenBefore(ms, S, block + 1), HasCopies(ms, S, t)
       PROVE  /\ Vector(SavedToDb(ms), S) /\ HasCopies(SavedToDb(ms), S, t)
              /\ \A i \in 1..Len(SavedToDb(ms)) : HasSeen(SavedToDb(ms)[i], block + 1)
  <2> DEFINE new == SavedToDb(ms)
  <2>1. /\ Vector(new, S) /\ Len(new) = Len(ms)
        /\ \A i \in 1..Len(ms) : new[i].id = ms[i].id /\ new[i].seen = ms[i].seen
    BY <1>16, SavedToDbKeeps DEF SeenBefore
  <2> HIDE DEF new
  <2>2. HasCopies(new, S, t)
    BY <1>16, <2>1 DEF HasCopies
  <2>3. \A i \in 1..Len(new) : HasSeen(new[i], block + 1)
    BY <1>16, <2>1, SameHasSeen DEF SeenBefore
  <2> QED BY <2>1, <2>2, <2>3 DEF new
<1>17. /\ Vector(round_machines', Operators) /\ HasCopies(round_machines', Operators, rows')
       /\ \A i \in 1..Len(round_machines') : HasSeen(round_machines'[i], dbNextHeight')
  BY <1>1, <1>10, <1>16
<1>18. /\ Vector(kickoff_machines', Kickoffs) /\ HasCopies(kickoff_machines', Kickoffs, rows')
       /\ \A i \in 1..Len(kickoff_machines') : HasSeen(kickoff_machines'[i], dbNextHeight')
  BY <1>1, <1>11, <1>16
<1>19. AreCurrent(round_machines, Operators)'
  BY <1>17 DEF AreCurrent, IsCurrent, HasSeen
<1>20. AreCurrent(kickoff_machines, Kickoffs)'
  BY <1>18 DEF AreCurrent, IsCurrent, HasSeen
<1>21. OwnerInv'
  BY DEF CurrentInv, OwnerInv, ownerVars
<1>22. next_height_to_process' = dbNextHeight' /\ last_processed_lcp' = dbLcp' /\ last_finalized_block' = dbNextHeight' - 1
  BY <1>1, <1>13
<1> QED BY <1>14, <1>15, <1>17, <1>18, <1>19, <1>20, <1>21, <1>22 DEF CurrentInv

(* The vectors of a message that fails, and of one that does not. *)
LEMMA CopiesHad ==
    ASSUME NEW S, NEW ms, HasCopies(ms, S, rows) PROVE HadCopies(ms, S)
  BY DEF HasCopies, HadCopies

LEMMA AdvanceCurrent ==
    ASSUME NEW S, NEW ms, Vector(ms, S), NEW h \in Nat, h >= StartHeight, HasCopies(ms, S, rows),
           \A i \in 1..Len(ms) : HasSeen(ms[i], h) \/ HasSeen(ms[i], h + 1)
    PROVE  SeenBefore(Advance(ms, h), S, h + 1) /\ HadCopies(Advance(ms, h), S)
<1> DEFINE new == Advance(ms, h)
<1>1. /\ Vector(new, S)
      /\ \A j \in 1..Len(new) : \E i \in 1..Len(ms) : new[j] = After(ms[i], h)
      /\ \A i \in 1..Len(ms) : \E j \in 1..Len(new) : new[j] = After(ms[i], h)
  BY AdvanceFacts
<1> HIDE DEF new
<1>2. \A i \in 1..Len(ms) : ms[i] \in MachineRecords
  BY DEF Vector
<1>3. \A i \in 1..Len(ms) : HasSeen(After(ms[i], h), h + 1)
  BY <1>2, HasSeenNext, HasSeenAgain
<1>4. \A j \in 1..Len(new) : HasSeen(new[j], h + 1)
  <2> SUFFICES ASSUME NEW j \in 1..Len(new) PROVE HasSeen(new[j], h + 1)
    OBVIOUS
  <2>1. PICK i \in 1..Len(ms) : new[j] = After(ms[i], h)
    BY <1>1
  <2> QED BY <1>3, <2>1
<1>5. ASSUME NEW m \in S, rows[m] # NoRow
      PROVE  \E j \in 1..Len(new) : new[j].id = m /\ (new[j].dirty \/ new[j].seen = rows[m].seen)
  <2>1. PICK i \in 1..Len(ms) : ms[i].id = m /\ ms[i].seen = rows[m].seen
    BY <1>5 DEF HasCopies
  <2>2. PICK j \in 1..Len(new) : new[j] = After(ms[i], h)
    BY <1>1
  <2>3. CASE Moves(ms[i], h)
    <3>0. new[j] = Moved(ms[i], h) /\ ms[i] \in MachineRecords
      BY <1>2, <2>2, <2>3 DEF After
    <3>1. new[j].id = m /\ new[j].dirty = TRUE
      <4>1. Moved(ms[i], h).id = ms[i].id /\ Moved(ms[i], h).dirty = TRUE
        BY <2>3, <3>0, MovedFacts, Zenon
      <4> QED BY <2>1, <3>0, <4>1, Zenon
    <3>2. new[j].id = m /\ (new[j].dirty \/ new[j].seen = rows[m].seen)
      BY <3>1, Zenon
    <3> QED BY <3>2, Zenon
  <2>4. CASE ~Moves(ms[i], h)
    BY <2>1, <2>2, <2>4 DEF After
  <2> QED BY <2>3, <2>4
<1>6. SeenBefore(new, S, h + 1) /\ HadCopies(new, S)
  BY <1>1, <1>4, <1>5 DEF SeenBefore, HadCopies
<1> QED BY <1>6 DEF new

LEMMA AppendCurrent ==
    ASSUME NEW S, NEW ms, NEW h, SeenBefore(ms, S, h), HasCopies(ms, S, rows),
           NEW m \in MachineRecords, m.id \in S, HasSeen(m, h)
    PROVE  SeenBefore(Append(ms, m), S, h) /\ HadCopies(Append(ms, m), S)
<1> DEFINE new == Append(ms, m)
<1>1. ms \in Seq(MachineRecords) /\ \A i \in 1..Len(ms) : ms[i].id \in S /\ HasSeen(ms[i], h)
  BY DEF SeenBefore, Vector
<1>2. /\ new \in Seq(MachineRecords)
      /\ \A i \in 1..Len(ms) : i \in 1..Len(new) /\ new[i] = ms[i]
      /\ \A i \in 1..Len(new) : (i \in 1..Len(ms) /\ new[i] = ms[i]) \/ new[i] = m
  BY <1>1
<1> HIDE DEF new
<1>3. SeenBefore(new, S, h)
  BY <1>1, <1>2 DEF SeenBefore, Vector
<1>4. HadCopies(new, S)
  <2> SUFFICES ASSUME NEW x \in S, rows[x] # NoRow
               PROVE  \E i \in 1..Len(new) : new[i].id = x /\ (new[i].dirty \/ new[i].seen = rows[x].seen)
    BY DEF HadCopies
  <2>1. PICK i \in 1..Len(ms) : ms[i].id = x /\ ms[i].seen = rows[x].seen
    BY DEF HasCopies
  <2> QED BY <1>2, <2>1
<1> QED BY <1>3, <1>4 DEF new

LEMMA ExtendsCurrent ==
    ASSUME NEW S, NEW ms, NEW h, SeenBefore(ms, S, h), HasCopies(ms, S, rows),
           NEW new \in Seq(MachineRecords), Extends(ms, new)
    PROVE  SeenBefore(new, S, h) /\ HadCopies(new, S)
<1>1. /\ Len(new) = Len(ms)
      /\ \A i \in 1..Len(ms) : new[i].id = ms[i].id /\ new[i].seen = ms[i].seen
      /\ \A i \in 1..Len(ms) : ms[i].id \in S /\ HasSeen(ms[i], h)
  BY DEF Extends, SeenBefore, Vector
<1>2. \A i \in 1..Len(new) : new[i].id \in S /\ HasSeen(new[i], h)
  BY <1>1, SameHasSeen
<1>3. HadCopies(new, S)
  BY <1>1 DEF HasCopies, HadCopies
<1> QED BY <1>2, <1>3 DEF SeenBefore, Vector

(* What the manager knows when it reads a message. *)
LEMMA ReadsCurrent ==
    ASSUME CurrentInv, NEW t \in {"NewFinalizedBlock", "LCPProcessed", "NewOperator", "NewKickoff"}, Reads(t)
    PROVE  /\ pc = "run" /\ queue # << >> /\ Head(queue) \in Messages /\ Head(queue).type = t
           /\ next_height_to_process = dbNextHeight /\ dbNextHeight \in Nat /\ dbNextHeight >= StartHeight
           /\ last_processed_lcp = dbLcp /\ dbLcp \in Int /\ challenges \in SUBSET Kickoffs
           /\ last_finalized_block \in Nat /\ last_finalized_block + 1 = dbNextHeight
           /\ Vector(round_machines, Operators) /\ Vector(kickoff_machines, Kickoffs)
           /\ HasCopies(round_machines, Operators, rows) /\ HasCopies(kickoff_machines, Kickoffs, rows)
           /\ \A i \in 1..Len(round_machines) :
                 HasSeen(round_machines[i], dbNextHeight) \/ HasSeen(round_machines[i], dbNextHeight + 1)
           /\ \A i \in 1..Len(kickoff_machines) :
                 HasSeen(kickoff_machines[i], dbNextHeight) \/ HasSeen(kickoff_machines[i], dbNextHeight + 1)
           /\ t # "NewFinalizedBlock" => /\ SeenBefore(round_machines, Operators, dbNextHeight)
                                         /\ SeenBefore(kickoff_machines, Kickoffs, dbNextHeight)
<1>1. pc = "run" /\ queue # << >> /\ Head(queue) \in Messages /\ Head(queue).type = t
  BY DEF Reads, CurrentInv
<1>2. /\ next_height_to_process = dbNextHeight /\ dbNextHeight \in Nat /\ dbNextHeight >= StartHeight
      /\ last_processed_lcp = dbLcp /\ dbLcp \in Int /\ challenges \in SUBSET Kickoffs
      /\ last_finalized_block = dbNextHeight - 1
      /\ HasCopies(round_machines, Operators, rows) /\ HasCopies(kickoff_machines, Kickoffs, rows)
      /\ AreCurrent(round_machines, Operators) /\ AreCurrent(kickoff_machines, Kickoffs)
  BY <1>1 DEF CurrentInv, RowsInv
<1>3. last_finalized_block \in Nat /\ last_finalized_block + 1 = dbNextHeight
  BY <1>2, Heights
<1>4. t # "NewFinalizedBlock" => Head(queue) # NewFinalizedBlock(dbNextHeight)
  BY <1>1 DEF NewFinalizedBlock
<1>5. ASSUME NEW S, NEW ms, AreCurrent(ms, S)
      PROVE  /\ Vector(ms, S)
             /\ \A i \in 1..Len(ms) : HasSeen(ms[i], dbNextHeight) \/ HasSeen(ms[i], dbNextHeight + 1)
             /\ t # "NewFinalizedBlock" => SeenBefore(ms, S, dbNextHeight)
  BY <1>4, <1>5 DEF AreCurrent, IsCurrent, SeenBefore
<1> QED BY <1>1, <1>2, <1>3, <1>5

(* A step that leaves the database alone and the manager not running. *)
LEMMA StoppedCurrent ==
    ASSUME CurrentInv, UNCHANGED dbVars, UNCHANGED ownerVars, pc' # "run",
           AreCurrent(round_machines', Operators), AreCurrent(kickoff_machines', Kickoffs)
    PROVE  CurrentInv'
<1>1. /\ rows' = rows /\ dbNextHeight' = dbNextHeight /\ dbLcp' = dbLcp /\ challenges' = challenges
      /\ queue' = queue /\ nextBlock' = nextBlock /\ nextLcp' = nextLcp
  BY DEF dbVars, ownerVars
<1>2. RowsInv'
  <2>1. \A m \in Machines : rows'[m] # NoRow => HasSeen(rows'[m], dbNextHeight')
    BY <1>1 DEF CurrentInv, RowsInv
  <2> QED BY <1>1, <2>1 DEF CurrentInv, RowsInv, HasSeen
<1>3. AreCurrent(round_machines, Operators)'
  BY <1>1 DEF AreCurrent, IsCurrent, HasSeen
<1>4. AreCurrent(kickoff_machines, Kickoffs)'
  BY <1>1 DEF AreCurrent, IsCurrent, HasSeen
<1> QED BY <1>1, <1>2, <1>3, <1>4 DEF CurrentInv, OwnerInv

LEMMA SavedToDbCurrent ==
    ASSUME NEW S, NEW ms, AreCurrent(ms, S) PROVE AreCurrent(SavedToDb(ms), S)
<1> DEFINE new == SavedToDb(ms)
<1>1. /\ Vector(new, S) /\ Len(new) = Len(ms)
      /\ \A i \in 1..Len(ms) : new[i].id = ms[i].id /\ new[i].seen = ms[i].seen
  BY SavedToDbKeeps DEF AreCurrent
<1> HIDE DEF new
<1>2. \A i \in 1..Len(new) : IsCurrent(new[i])
  BY <1>1, SameHasSeen DEF AreCurrent, IsCurrent
<1> QED BY <1>1, <1>2 DEF AreCurrent, new

(* A message that was handled but not committed. *)
LEMMA FailedCurrent ==
    ASSUME CurrentInv, pc = "run", pc' # "run", UNCHANGED ownerVars,
           NEW round, NEW kickoff, NEW lcp, NEW block, NEW messages, NEW challenged,
           Handled(round, kickoff, lcp, block, messages, challenged),
           AreCurrent(round, Operators), AreCurrent(kickoff, Kickoffs)
    PROVE  CurrentInv'
<1>1. /\ UNCHANGED dbVars
      /\ \/ round_machines' = round /\ kickoff_machines' = kickoff
         \/ round_machines' = SavedToDb(round) /\ kickoff_machines' = SavedToDb(kickoff)
  BY DEF Handled
<1>2. AreCurrent(round_machines', Operators) /\ AreCurrent(kickoff_machines', Kickoffs)
  BY <1>1, SavedToDbCurrent
<1> QED BY <1>1, <1>2, StoppedCurrent

LEMMA SeenIsCurrent ==
    ASSUME NEW S, NEW ms, SeenBefore(ms, S, dbNextHeight) PROVE AreCurrent(ms, S)
  BY DEF SeenBefore, AreCurrent, IsCurrent

(* A block: committed, or not. *)
LEMMA FinalizedBlockCurrent ==
    ASSUME CurrentInv, HandleFinalizedBlock PROVE CurrentInv'
<1> DEFINE h == dbNextHeight
           round == Advance(round_machines, h)
           kickoff == Advance(kickoff_machines, h)
           found == CheckIfKickoff(round_machines, h)
           X == 1..Len(round_machines)
<1>1. Reads("NewFinalizedBlock") /\ Head(queue).height = next_height_to_process /\ UNCHANGED ownerVars
  BY DEF HandleFinalizedBlock
<1>2. /\ pc = "run" /\ queue # << >> /\ Head(queue) \in Messages /\ Head(queue).type = "NewFinalizedBlock"
      /\ next_height_to_process = h /\ h \in Nat /\ h >= StartHeight
      /\ last_processed_lcp = dbLcp /\ dbLcp \in Int /\ challenges \in SUBSET Kickoffs
      /\ Vector(round_machines, Operators) /\ Vector(kickoff_machines, Kickoffs)
      /\ HasCopies(round_machines, Operators, rows) /\ HasCopies(kickoff_machines, Kickoffs, rows)
      /\ \A i \in 1..Len(round_machines) : HasSeen(round_machines[i], h) \/ HasSeen(round_machines[i], h + 1)
      /\ \A i \in 1..Len(kickoff_machines) : HasSeen(kickoff_machines[i], h) \/ HasSeen(kickoff_machines[i], h + 1)
  BY <1>1, ReadsCurrent
<1>3. PICK ms \in KickoffMessages(found) : Handled(round, kickoff, dbLcp, h, ms, challenges)
  BY <1>1, <1>2 DEF HandleFinalizedBlock
<1>4. SeenBefore(round, Operators, h + 1) /\ HadCopies(round, Operators)
  BY <1>2, AdvanceCurrent
<1>5. SeenBefore(kickoff, Kickoffs, h + 1) /\ HadCopies(kickoff, Kickoffs)
  BY <1>2, AdvanceCurrent
<1>6. ms \in Seq(Messages)
  <2>1. found \subseteq X \X Kickoffs
    BY DEF CheckIfKickoff
  <2>2. IsFiniteSet(X)
    <3>1. 1 \in Int /\ Len(round_machines) \in Int
      BY <1>2 DEF Vector
    <3> QED BY <3>1, FS_Interval
  <2> HIDE DEF X, found
  <2> QED BY <1>3, <2>1, <2>2, KickoffMessagesFacts
<1> HIDE DEF round, kickoff
<1>7. CASE pc' = "run"
  <2>1. dbNextHeight <= h + 1
    BY <1>2
  <2> HIDE DEF h
  <2> QED BY <1>1, <1>2, <1>3, <1>4, <1>5, <1>6, <1>7, <2>1, HandledCurrent
<1>8. CASE pc' # "run"
  <2>1. Head(queue) = NewFinalizedBlock(h)
    BY <1>1, <1>2, MessageFields
  <2>2. AreCurrent(round, Operators) /\ AreCurrent(kickoff, Kickoffs)
    BY <1>2, <1>4, <1>5, <2>1 DEF SeenBefore, AreCurrent, IsCurrent
  <2> QED BY <1>1, <1>2, <1>3, <1>8, <2>2, FailedCurrent
<1> QED BY <1>7, <1>8

(* Any other message, of which the machines are known. *)
LEMMA MessageCurrent ==
    ASSUME CurrentInv, NEW t \in {"LCPProcessed", "NewOperator", "NewKickoff"}, Reads(t), UNCHANGED ownerVars,
           NEW round, NEW kickoff, NEW lcp \in Int, NEW messages \in Seq(Messages), NEW cs \in SUBSET Kickoffs,
           Handled(round, kickoff, lcp, last_finalized_block, messages, cs),
           SeenBefore(round, Operators, dbNextHeight), SeenBefore(kickoff, Kickoffs, dbNextHeight),
           HadCopies(round, Operators), HadCopies(kickoff, Kickoffs)
    PROVE  CurrentInv'
<1>1. /\ pc = "run" /\ queue # << >> /\ dbNextHeight \in Nat
      /\ last_finalized_block \in Nat /\ last_finalized_block + 1 = dbNextHeight
  BY ReadsCurrent
<1>2. CASE pc' = "run"
  <2>1. dbNextHeight <= last_finalized_block + 1
    BY <1>1
  <2>2. /\ SeenBefore(round, Operators, last_finalized_block + 1)
        /\ SeenBefore(kickoff, Kickoffs, last_finalized_block + 1)
    BY <1>1
  <2> QED BY <1>1, <1>2, <2>1, <2>2, HandledCurrent
<1>3. CASE pc' # "run"
  <2>1. AreCurrent(round, Operators) /\ AreCurrent(kickoff, Kickoffs)
    BY SeenIsCurrent
  <2> QED BY <1>1, <1>3, <2>1, FailedCurrent
<1> QED BY <1>2, <1>3

LEMMA NewOperatorCurrent ==
    ASSUME CurrentInv, HandleNewOperator PROVE CurrentInv'
<1> DEFINE o == Head(queue).operator
           new == Replayed(o, StartHeight)
           round == Append(round_machines, new)
           found == {x \in {<<1, k>> : k \in Kickoffs} :
                        /\ OperatorOf[x[2]] = o
                        /\ KickoffHeight[x[2]] \in new.seen
                        /\ deposit[x[2]] = "signed"}
<1>1. Reads("NewOperator") /\ UNCHANGED ownerVars
  BY DEF HandleNewOperator
<1>2. /\ Head(queue) \in Messages /\ Head(queue).type = "NewOperator"
      /\ next_height_to_process = dbNextHeight /\ dbNextHeight \in Nat
      /\ last_processed_lcp = dbLcp /\ dbLcp \in Int /\ challenges \in SUBSET Kickoffs
      /\ HasCopies(round_machines, Operators, rows) /\ HasCopies(kickoff_machines, Kickoffs, rows)
      /\ SeenBefore(round_machines, Operators, dbNextHeight)
      /\ SeenBefore(kickoff_machines, Kickoffs, dbNextHeight)
  BY <1>1, ReadsCurrent
<1>3. PICK ms \in KickoffMessages(found) :
         Handled(round, kickoff_machines, dbLcp, last_finalized_block, ms, challenges)
  BY <1>2 DEF HandleNewOperator
<1>4. o \in Operators /\ o \in Machines /\ StartHeight \in Nat
  BY <1>2, MessageFields, Heights
<1> HIDE DEF o, found
<1>5. new \in MachineRecords /\ new.id = o /\ HasSeen(new, dbNextHeight)
  BY <1>2, <1>4, ReplayedFacts
<1> HIDE DEF new
<1>6. SeenBefore(round, Operators, dbNextHeight) /\ HadCopies(round, Operators)
  BY <1>2, <1>4, <1>5, AppendCurrent
<1>7. ms \in Seq(Messages)
  <2>1. found \subseteq {1} \X Kickoffs
    BY DEF found
  <2>2. IsFiniteSet({1})
    BY FS_Singleton
  <2> QED BY <1>3, <2>1, <2>2, KickoffMessagesFacts
<1>8. HadCopies(kickoff_machines, Kickoffs)
  BY <1>2, CopiesHad
<1> HIDE DEF round
<1> QED BY <1>1, <1>2, <1>3, <1>6, <1>7, <1>8, MessageCurrent

(* The machine of a new kickoff. *)
LEMMA NewMachineCurrent ==
    ASSUME CurrentInv, Reads("NewKickoff")
    PROVE  /\ Head(queue).kickoff \in Kickoffs
           /\ LET new == Append(kickoff_machines,
                                Replayed(Head(queue).kickoff, KickoffHeight[Head(queue).kickoff]))
              IN  SeenBefore(new, Kickoffs, dbNextHeight) /\ HadCopies(new, Kickoffs)
<1> DEFINE k == Head(queue).kickoff
           new == Replayed(k, KickoffHeight[k])
<1>1. /\ Head(queue) \in Messages /\ Head(queue).type = "NewKickoff"
      /\ next_height_to_process = dbNextHeight /\ dbNextHeight \in Nat
      /\ HasCopies(kickoff_machines, Kickoffs, rows)
      /\ SeenBefore(kickoff_machines, Kickoffs, dbNextHeight)
  BY ReadsCurrent
<1>2. /\ k \in Kickoffs /\ k \in Machines /\ k \notin Operators
      /\ KickoffHeight[k] \in Nat /\ KickoffHeight[k] >= StartHeight
  BY <1>1, MessageFields, Heights
<1> HIDE DEF k
<1>3. new \in MachineRecords /\ new.id = k /\ HasSeen(new, dbNextHeight)
  BY <1>1, <1>2, ReplayedFacts
<1> HIDE DEF new
<1>4. SeenBefore(Append(kickoff_machines, new), Kickoffs, dbNextHeight) /\ HadCopies(Append(kickoff_machines, new), Kickoffs)
  BY <1>1, <1>2, <1>3, AppendCurrent
<1> QED BY <1>2, <1>4 DEF new, k

LEMMA NewKickoffCurrent ==
    ASSUME CurrentInv, HandleNewKickoff PROVE CurrentInv'
<1> DEFINE k == Head(queue).kickoff
           kickoff == Append(kickoff_machines, Replayed(k, KickoffHeight[k]))
           st == [round_machines |-> round_machines, challenges |-> challenges]
           checked == IF LcpCovers(k) THEN CheckIfKickoffMalicious(st, k) ELSE st
           round == checked.round_machines
           cs == checked.challenges
<1>1. /\ Reads("NewKickoff") /\ UNCHANGED ownerVars
      /\ LcpCovers(k) => RoundMachine(round_machines, OperatorOf[k]) # 0
  BY DEF HandleNewKickoff
<1>2. /\ last_processed_lcp = dbLcp /\ dbLcp \in Int /\ challenges \in SUBSET Kickoffs
      /\ Vector(round_machines, Operators) /\ HasCopies(round_machines, Operators, rows)
      /\ SeenBefore(round_machines, Operators, dbNextHeight)
  BY <1>1, ReadsCurrent
<1>3. Handled(round, kickoff, dbLcp, last_finalized_block, << >>, cs)
  BY <1>2 DEF HandleNewKickoff
<1>4. k \in Kickoffs /\ SeenBefore(kickoff, Kickoffs, dbNextHeight) /\ HadCopies(kickoff, Kickoffs)
  BY <1>1, NewMachineCurrent
<1> HIDE DEF k
<1>5. /\ SeenBefore(round, Operators, dbNextHeight) /\ HadCopies(round, Operators)
      /\ cs \in SUBSET Kickoffs
  <2>1. st \in CheckStates /\ st.round_machines = round_machines /\ st.challenges = challenges
    BY <1>2 DEF CheckStates, Vector
  <2>2. CASE LcpCovers(k)
    <3>1. checked = CheckIfKickoffMalicious(st, k)
      BY <2>2
    <3> HIDE DEF st, checked
    <3>2. RoundMachine(st.round_machines, OperatorOf[k]) # 0
      BY <1>1, <2>1, <2>2 DEF k
    <3>3. checked \in CheckStates /\ Extends(st.round_machines, checked.round_machines)
      BY <1>4, <2>1, <3>1, <3>2, CheckFacts
    <3>4. checked.round_machines \in Seq(MachineRecords) /\ checked.challenges \in SUBSET Kickoffs
      BY <3>3 DEF CheckStates
    <3>5. Extends(round_machines, round) /\ round \in Seq(MachineRecords)
      BY <2>1, <3>3, <3>4
    <3> HIDE DEF round
    <3>6. SeenBefore(round, Operators, dbNextHeight) /\ HadCopies(round, Operators)
      BY <1>2, <3>5, ExtendsCurrent
    <3> QED BY <3>4, <3>6
  <2>3. CASE ~LcpCovers(k)
    <3>1. round = round_machines /\ cs = challenges
      BY <2>3
    <3>2. HadCopies(round_machines, Operators)
      BY <1>2, CopiesHad
    <3> HIDE DEF round, cs
    <3> QED BY <1>2, <3>1, <3>2
  <2> QED BY <2>2, <2>3
<1>6. << >> \in Seq(Messages)
  OBVIOUS
<1> HIDE DEF round, cs, kickoff
<1> QED BY <1>1, <1>2, <1>3, <1>4, <1>5, <1>6, MessageCurrent

(* The round machines after the first n kickoffs were checked. *)
LEMMA CheckedCurrent ==
    ASSUME CurrentInv, Reads("LCPProcessed"), NEW h, NEW n \in 0..Len(kickoff_machines), Checkable(h, n)
    PROVE  /\ SeenBefore(CheckKickoffsAt(h, n).round_machines, Operators, dbNextHeight)
           /\ HadCopies(CheckKickoffsAt(h, n).round_machines, Operators)
           /\ CheckKickoffsAt(h, n).challenges \in SUBSET Kickoffs
<1> DEFINE checked == CheckKickoffsAt(h, n)
<1>1. /\ challenges \in SUBSET Kickoffs
      /\ Vector(round_machines, Operators) /\ Vector(kickoff_machines, Kickoffs)
      /\ HasCopies(round_machines, Operators, rows) /\ SeenBefore(round_machines, Operators, dbNextHeight)
  BY ReadsCurrent
<1>2. checked \in CheckStates /\ Extends(round_machines, checked.round_machines)
  BY <1>1, CheckAllFacts
<1> HIDE DEF checked
<1>3. checked.round_machines \in Seq(MachineRecords) /\ checked.challenges \in SUBSET Kickoffs
  BY <1>2 DEF CheckStates
<1>4. SeenBefore(checked.round_machines, Operators, dbNextHeight) /\ HadCopies(checked.round_machines, Operators)
  BY <1>1, <1>2, <1>3, ExtendsCurrent
<1> QED BY <1>3, <1>4 DEF checked

LEMMA LcpCurrent ==
    ASSUME CurrentInv, HandleLCPProcessed PROVE CurrentInv'
<1> DEFINE lcp == Head(queue).height
           n == Len(kickoff_machines)
           round == CheckKickoffsAt(lcp, n).round_machines
           cs == CheckKickoffsAt(lcp, n).challenges
<1>1. Reads("LCPProcessed") /\ UNCHANGED ownerVars /\ Checkable(lcp, n)
  BY DEF HandleLCPProcessed
<1>2. /\ Head(queue) \in Messages /\ Head(queue).type = "LCPProcessed"
      /\ Vector(kickoff_machines, Kickoffs)
      /\ HasCopies(kickoff_machines, Kickoffs, rows) /\ SeenBefore(kickoff_machines, Kickoffs, dbNextHeight)
  BY <1>1, ReadsCurrent
<1>3. Handled(round, kickoff_machines, lcp, last_finalized_block, << >>, cs)
  BY DEF HandleLCPProcessed
<1>4. lcp \in Int
  <2>1. lcp \in Nat
    BY <1>2, MessageFields
  <2> QED BY <2>1
<1>5. n \in 0..Len(kickoff_machines)
  BY <1>2 DEF Vector
<1>6. SeenBefore(round, Operators, dbNextHeight) /\ HadCopies(round, Operators) /\ cs \in SUBSET Kickoffs
  <2> HIDE DEF lcp, n
  <2> QED BY <1>1, <1>5, CheckedCurrent
<1>7. HadCopies(kickoff_machines, Kickoffs)
  BY <1>2, CopiesHad
<1>8. << >> \in Seq(Messages)
  OBVIOUS
<1> HIDE DEF round, cs, lcp
<1> QED BY <1>1, <1>2, <1>3, <1>4, <1>6, <1>7, <1>8, MessageCurrent

(* Only the queue changes: its head stays, or no machine is ahead. *)
LEMMA QueueCurrent ==
    ASSUME CurrentInv, queue' \in Seq(Messages), OwnerInv', UNCHANGED savedVars, UNCHANGED memVars,
           \/ queue # << >> => queue' # << >> /\ Head(queue') = Head(queue)
           \/ /\ SeenBefore(round_machines, Operators, dbNextHeight)
              /\ SeenBefore(kickoff_machines, Kickoffs, dbNextHeight)
    PROVE  CurrentInv'
<1>1. /\ rows' = rows /\ dbNextHeight' = dbNextHeight /\ dbLcp' = dbLcp /\ challenges' = challenges
      /\ pc' = pc /\ round_machines' = round_machines /\ kickoff_machines' = kickoff_machines
      /\ next_height_to_process' = next_height_to_process
      /\ last_processed_lcp' = last_processed_lcp /\ last_finalized_block' = last_finalized_block
  BY DEF savedVars, memVars
<1>2. RowsInv'
  <2>1. \A m \in Machines : rows'[m] # NoRow => HasSeen(rows'[m], dbNextHeight')
    BY <1>1 DEF CurrentInv, RowsInv
  <2> QED BY <1>1, <2>1 DEF CurrentInv, RowsInv, HasSeen
<1>3. ASSUME NEW S, NEW ms, AreCurrent(ms, S),
             \/ queue # << >> => queue' # << >> /\ Head(queue') = Head(queue)
             \/ SeenBefore(ms, S, dbNextHeight)
      PROVE  /\ Vector(ms, S)
             /\ \A i \in 1..Len(ms) :
                   \/ HasSeen(ms[i], dbNextHeight)
                   \/ /\ HasSeen(ms[i], dbNextHeight + 1)
                      /\ queue' # << >> /\ Head(queue') = NewFinalizedBlock(dbNextHeight)
  BY <1>3 DEF AreCurrent, IsCurrent, SeenBefore
<1>4. AreCurrent(round_machines, Operators) /\ AreCurrent(kickoff_machines, Kickoffs)
  BY DEF CurrentInv
<1>5. AreCurrent(round_machines, Operators)'
  <2>1. /\ Vector(round_machines, Operators)
        /\ \A i \in 1..Len(round_machines) :
              \/ HasSeen(round_machines[i], dbNextHeight)
              \/ /\ HasSeen(round_machines[i], dbNextHeight + 1)
                 /\ queue' # << >> /\ Head(queue') = NewFinalizedBlock(dbNextHeight)
    BY <1>3, <1>4
  <2> QED BY <1>1, <2>1 DEF AreCurrent, IsCurrent, HasSeen
<1>6. AreCurrent(kickoff_machines, Kickoffs)'
  <2>1. /\ Vector(kickoff_machines, Kickoffs)
        /\ \A i \in 1..Len(kickoff_machines) :
              \/ HasSeen(kickoff_machines[i], dbNextHeight)
              \/ /\ HasSeen(kickoff_machines[i], dbNextHeight + 1)
                 /\ queue' # << >> /\ Head(queue') = NewFinalizedBlock(dbNextHeight)
    BY <1>3, <1>4
  <2> QED BY <1>1, <2>1 DEF AreCurrent, IsCurrent, HasSeen
<1> QED BY <1>1, <1>2, <1>5, <1>6 DEF CurrentInv

LEMMA ProduceCurrent ==
    ASSUME CurrentInv, Produce PROVE CurrentInv'
<1>1. /\ OwnerInv' /\ UNCHANGED savedVars /\ UNCHANGED memVars
      /\ queue' = queue \/ \E m \in Messages : queue' = Append(queue, m)
  BY ProduceFacts DEF CurrentInv
<1>2. queue \in Seq(Messages)
  BY DEF CurrentInv
<1>3. queue' \in Seq(Messages) /\ (queue # << >> => queue' # << >> /\ Head(queue') = Head(queue))
  <2>1. CASE queue' = queue
    BY <1>2, <2>1
  <2>2. ASSUME NEW m \in Messages, queue' = Append(queue, m)
        PROVE  queue' \in Seq(Messages) /\ (queue # << >> => queue' # << >> /\ Head(queue') = Head(queue))
    BY <1>2, <2>2
  <2> QED BY <1>1, <2>1, <2>2
<1> QED BY <1>1, <1>3, QueueCurrent

LEMMA SkipCurrent ==
    ASSUME CurrentInv, SkipMessage PROVE CurrentInv'
<1>1. /\ UNCHANGED ownerVars /\ UNCHANGED savedVars /\ UNCHANGED memVars /\ queue' = Tail(queue)
      /\ Reads("NewOperator") \/ Reads("NewKickoff")
  BY DEF SkipMessage, savedVars
<1>2. /\ queue # << >>
      /\ SeenBefore(round_machines, Operators, dbNextHeight)
      /\ SeenBefore(kickoff_machines, Kickoffs, dbNextHeight)
  BY <1>1, ReadsCurrent
<1>3. queue' \in Seq(Messages) /\ OwnerInv'
  BY <1>1, <1>2 DEF CurrentInv, OwnerInv, ownerVars
<1> QED BY <1>1, <1>2, <1>3, QueueCurrent

(* The saved machines behind those of the memory. *)
LEMMA LoadedCurrent ==
    ASSUME CurrentInv, NEW S, S \subseteq Machines, IsFiniteSet(S), NEW ms, AreCurrent(ms, S), NEW r \in Loaded(S)
    PROVE  AreCurrent(ms \o r, S) /\ HasCopies(ms \o r, S, rows)
<1> DEFINE all == ms \o r
           l == Len(ms)
<1>1. IsTable(rows) /\ \A m \in Machines : rows[m] # NoRow => HasSeen(rows[m], dbNextHeight)
  BY DEF CurrentInv, RowsInv
<1>2. Lists(r, S) /\ Holds(r, S, rows)
  BY <1>1, LoadedFacts
<1>3. ms \in Seq(MachineRecords) /\ r \in Seq(MachineRecords)
  BY <1>2 DEF AreCurrent, Vector, Lists
<1>4. /\ all \in Seq(MachineRecords) /\ l \in Nat /\ Len(r) \in Nat
      /\ \A j \in 1..l : all[j] = ms[j] /\ j \in 1..Len(all)
      /\ \A j \in 1..Len(r) : all[l + j] = r[j] /\ l + j \in 1..Len(all)
      /\ \A j \in 1..Len(all) : j \in 1..l \/ \E k \in 1..Len(r) : j = l + k
  BY <1>3, JoinFacts
<1> HIDE DEF all
<1>5. \A i \in 1..Len(r) : /\ r[i].id \in S /\ rows[r[i].id] # NoRow /\ rows[r[i].id].id = r[i].id
                           /\ r[i].seen = rows[r[i].id].seen
  BY <1>1, <1>2 DEF Lists, Holds, Same, IsTable
<1>6. \A i \in 1..Len(r) : HasSeen(r[i], dbNextHeight)
  <2> SUFFICES ASSUME NEW i \in 1..Len(r) PROVE HasSeen(r[i], dbNextHeight)
    OBVIOUS
  <2>1. HasSeen(rows[r[i].id], dbNextHeight)
    BY <1>1, <1>5
  <2> QED BY <1>5, <2>1, SameHasSeen
<1>7. \A j \in 1..Len(all) : all[j].id \in S /\ IsCurrent(all[j])
  <2> SUFFICES ASSUME NEW j \in 1..Len(all) PROVE all[j].id \in S /\ IsCurrent(all[j])
    OBVIOUS
  <2>1. CASE j \in 1..l
    BY <1>4, <2>1 DEF AreCurrent, Vector
  <2>2. ASSUME NEW k \in 1..Len(r), j = l + k PROVE all[j].id \in S /\ IsCurrent(all[j])
    BY <1>4, <1>5, <1>6, <2>2 DEF IsCurrent
  <2> QED BY <1>4, <2>1, <2>2
<1>8. HasCopies(all, S, rows)
  <2> SUFFICES ASSUME NEW m \in S, rows[m] # NoRow
               PROVE  \E j \in 1..Len(all) : all[j].id = m /\ all[j].seen = rows[m].seen
    BY DEF HasCopies
  <2>1. PICK i \in 1..Len(r) : r[i].id = m
    BY <1>2 DEF Holds
  <2>2. all[l + i] = r[i] /\ l + i \in 1..Len(all)
    BY <1>4
  <2> QED BY <1>5, <2>1, <2>2
<1> QED BY <1>4, <1>7, <1>8 DEF AreCurrent, Vector, all

LEMMA ReloadCurrent ==
    ASSUME CurrentInv, UNCHANGED dbVars, UNCHANGED ownerVars,
           NEW round, NEW kickoff, AreCurrent(round, Operators), AreCurrent(kickoff, Kickoffs),
           ReloadFromDb(round, kickoff)
    PROVE  CurrentInv'
<1>1. PICK r \in Loaded(Operators) : round_machines' = round \o r
  BY DEF ReloadFromDb
<1>2. PICK k \in Loaded(Kickoffs) : kickoff_machines' = kickoff \o k
  BY DEF ReloadFromDb
<1>3. /\ dbNextHeight \in Nat /\ dbNextHeight >= StartHeight /\ StartHeight \in Nat \ {0}
      /\ Operators \subseteq Machines /\ Kickoffs \subseteq Machines
      /\ IsFiniteSet(Operators) /\ IsFiniteSet(Kickoffs)
  BY Heights, ManagerAssumption DEF CurrentInv, RowsInv
<1>4. AreCurrent(round_machines', Operators) /\ HasCopies(round_machines', Operators, rows)
  BY <1>1, <1>3, LoadedCurrent
<1>5. AreCurrent(kickoff_machines', Kickoffs) /\ HasCopies(kickoff_machines', Kickoffs, rows)
  BY <1>2, <1>3, LoadedCurrent
<1>6. /\ rows' = rows /\ dbNextHeight' = dbNextHeight /\ dbLcp' = dbLcp /\ challenges' = challenges
      /\ queue' = queue /\ nextBlock' = nextBlock /\ nextLcp' = nextLcp
  BY DEF dbVars, ownerVars
<1>7. RowsInv'
  <2>1. \A m \in Machines : rows'[m] # NoRow => HasSeen(rows'[m], dbNextHeight')
    BY <1>6 DEF CurrentInv, RowsInv
  <2> QED BY <1>6, <2>1 DEF CurrentInv, RowsInv, HasSeen
<1>8. AreCurrent(round_machines, Operators)' /\ AreCurrent(kickoff_machines, Kickoffs)'
  BY <1>4, <1>5, <1>6 DEF AreCurrent, IsCurrent, HasSeen
<1>9. /\ next_height_to_process' = dbNextHeight' /\ last_processed_lcp' = dbLcp'
      /\ last_finalized_block' = dbNextHeight' - 1
  BY <1>3, <1>6 DEF ReloadFromDb
<1> QED BY <1>4, <1>5, <1>6, <1>7, <1>8, <1>9 DEF CurrentInv, OwnerInv

LEMMA EmptyIsCurrent == \A S : AreCurrent(<< >>, S)
  BY DEF AreCurrent, Vector

(* An error, a crash, a start or a recovery. *)
LEMMA MemoryCurrent ==
    ASSUME CurrentInv, Start \/ Recover \/ Crash \/ FailInBlock \/ FailOutsideBlock
    PROVE  CurrentInv'
<1>1. AreCurrent(round_machines, Operators) /\ AreCurrent(kickoff_machines, Kickoffs)
  BY DEF CurrentInv
<1>2. CASE Start
  BY <1>2, EmptyIsCurrent, ReloadCurrent DEF Start
<1>3. CASE Recover
  BY <1>1, <1>3, ReloadCurrent DEF Recover
<1>4. CASE Crash \/ FailInBlock
  <2>1. /\ UNCHANGED dbVars /\ UNCHANGED ownerVars /\ pc' # "run"
        /\ round_machines' = << >> /\ kickoff_machines' = << >>
    BY <1>4 DEF Crash, FailInBlock
  <2> QED BY <2>1, EmptyIsCurrent, StoppedCurrent
<1>5. CASE FailOutsideBlock
  BY <1>1, <1>5, StoppedCurrent DEF FailOutsideBlock
<1> QED BY <1>2, <1>3, <1>4, <1>5

(* An error in the check of a kickoff. *)
LEMMA CheckFailedCurrent ==
    ASSUME CurrentInv, FailInCheckOfNewKickoff \/ FailInCheckOfLCP
    PROVE  CurrentInv'
<1>1. AreCurrent(round_machines, Operators) /\ AreCurrent(kickoff_machines, Kickoffs)
  BY DEF CurrentInv
<1>2. UNCHANGED dbVars /\ UNCHANGED ownerVars /\ pc' # "run"
  BY DEF FailInCheckOfNewKickoff, FailInCheckOfLCP, CheckFails
<1>3. CASE FailInCheckOfNewKickoff
  <2> DEFINE new == Append(kickoff_machines,
                           Replayed(Head(queue).kickoff, KickoffHeight[Head(queue).kickoff]))
  <2>1. Reads("NewKickoff") /\ kickoff_machines' = new /\ round_machines' = round_machines
    BY <1>3 DEF FailInCheckOfNewKickoff
  <2>2. SeenBefore(new, Kickoffs, dbNextHeight)
    BY <2>1, NewMachineCurrent
  <2> HIDE DEF new
  <2>3. AreCurrent(new, Kickoffs)
    BY <2>2, SeenIsCurrent
  <2> QED BY <1>1, <1>2, <2>1, <2>3, StoppedCurrent
<1>4. CASE FailInCheckOfLCP
  <2> DEFINE h == Head(queue).height
  <2>1. Reads("LCPProcessed") /\ kickoff_machines' = kickoff_machines
    BY <1>4 DEF FailInCheckOfLCP
  <2>2. PICK i \in DOMAIN kickoff_machines :
           Checkable(h, i - 1) /\ round_machines' = CheckKickoffsAt(h, i - 1).round_machines
    BY <1>4 DEF FailInCheckOfLCP
  <2>3. i - 1 \in 0..Len(kickoff_machines)
    <3>1. kickoff_machines \in Seq(MachineRecords)
      BY <1>1 DEF AreCurrent, Vector
    <3> QED BY <3>1
  <2> HIDE DEF h
  <2>4. SeenBefore(CheckKickoffsAt(h, i - 1).round_machines, Operators, dbNextHeight)
    BY <2>1, <2>2, <2>3, CheckedCurrent
  <2>5. AreCurrent(round_machines', Operators)
    BY <2>2, <2>4, SeenIsCurrent
  <2> QED BY <1>1, <1>2, <2>1, <2>5, StoppedCurrent
<1> QED BY <1>3, <1>4

LEMMA CurrentInit ==
    ASSUME Init PROVE CurrentInv
<1>1. Core /\ OwnerInv
  BY CoreInit
<1>2. round_machines = << >> /\ kickoff_machines = << >> /\ pc # "run"
  BY DEF Init
<1> QED BY <1>1, <1>2, EmptyIsCurrent DEF CurrentInv, Core

LEMMA CurrentStep ==
    ASSUME CurrentInv, [Next]_vars PROVE CurrentInv'
<1>1. CASE Produce
  BY <1>1, ProduceCurrent
<1>2. CASE HandleFinalizedBlock
  BY <1>2, FinalizedBlockCurrent
<1>3. CASE HandleNewOperator
  BY <1>3, NewOperatorCurrent
<1>4. CASE HandleNewKickoff
  BY <1>4, NewKickoffCurrent
<1>5. CASE HandleLCPProcessed
  BY <1>5, LcpCurrent
<1>6. CASE SkipMessage
  BY <1>6, SkipCurrent
<1>7. CASE PollEmptyQueue \/ UNCHANGED vars
  <2>1. UNCHANGED savedVars /\ UNCHANGED memVars /\ UNCHANGED ownerVars /\ queue' = queue
    BY <1>7 DEF PollEmptyQueue, vars, dbVars, savedVars
  <2>2. queue' \in Seq(Messages) /\ OwnerInv'
    BY <2>1 DEF CurrentInv, OwnerInv, ownerVars
  <2> QED BY <2>1, <2>2, QueueCurrent
<1>8. CASE Start \/ Recover \/ Crash \/ FailInBlock \/ FailOutsideBlock
  BY <1>8, MemoryCurrent
<1>9. CASE FailInCheckOfNewKickoff \/ FailInCheckOfLCP
  BY <1>9, CheckFailedCurrent
<1> QED BY <1>1, <1>2, <1>3, <1>4, <1>5, <1>6, <1>7, <1>8, <1>9 DEF Next, Consume

LEMMA CurrentIsCurrent ==
    ASSUME CurrentInv PROVE MachinesAreCurrent
<1> DEFINE all == round_machines \o kickoff_machines
<1>1. SavedMachinesAreCurrent
  BY DEF CurrentInv, RowsInv, SavedMachinesAreCurrent
<1>2. ASSUME pc = "run"
      PROVE  /\ \A m \in Machines : rows[m] # NoRow =>
                    \E i \in DOMAIN all : all[i].id = m /\ all[i].seen = rows[m].seen
             /\ \A i \in DOMAIN all : IsCurrent(all[i])
  <2>1. /\ AreCurrent(round_machines, Operators) /\ AreCurrent(kickoff_machines, Kickoffs)
        /\ HasCopies(round_machines, Operators, rows) /\ HasCopies(kickoff_machines, Kickoffs, rows)
    BY <1>2 DEF CurrentInv
  <2>2. Joins(round_machines, kickoff_machines, all)
    BY <2>1, JoinVectors DEF AreCurrent
  <2> HIDE DEF all
  <2>3. DOMAIN all = 1..Len(all)
    BY <2>2 DEF Joins, Vector
  <2>4. \A i \in 1..Len(all) : IsCurrent(all[i])
    BY <2>1, <2>2 DEF Joins, AreCurrent
  <2>5. ASSUME NEW m \in Machines, rows[m] # NoRow
        PROVE  \E i \in 1..Len(all) : all[i].id = m /\ all[i].seen = rows[m].seen
    <3>1. CASE m \in Operators
      <4>1. PICK i \in 1..Len(round_machines) :
               round_machines[i].id = m /\ round_machines[i].seen = rows[m].seen
        BY <2>1, <2>5, <3>1 DEF HasCopies
      <4>2. PICK j \in 1..Len(all) : all[j] = round_machines[i]
        BY <2>2 DEF Joins
      <4> QED BY <4>1, <4>2
    <3>2. CASE m \in Kickoffs
      <4>1. PICK i \in 1..Len(kickoff_machines) :
               kickoff_machines[i].id = m /\ kickoff_machines[i].seen = rows[m].seen
        BY <2>1, <2>5, <3>2 DEF HasCopies
      <4>2. PICK j \in 1..Len(all) : all[j] = kickoff_machines[i]
        BY <2>2 DEF Joins
      <4> QED BY <4>1, <4>2
    <3> QED BY <3>1, <3>2 DEF Machines
  <2> QED BY <2>3, <2>4, <2>5
<1>3. pc = "run" => next_height_to_process = dbNextHeight
  BY DEF CurrentInv
<1> HIDE DEF all
<1>4. LoadedMachinesAreCurrent
  BY <1>2, <1>3 DEF LoadedMachinesAreCurrent, IsCurrent, all
<1> QED BY <1>1, <1>4 DEF MachinesAreCurrent

(* For any number of operators and kickoffs, any order of the messages and *)
(* any failure of the code, a recovery on top of machines in memory        *)
(* included: the saved machines have seen exactly the blocks below the     *)
(* saved height that concern them, and those in memory the same, or the    *)
(* one block more that is the next message (handle_event,                  *)
(* save_state_to_db, recover_from_error).                                  *)
THEOREM MachinesStayCurrent == Spec => []MachinesAreCurrent
<1>1. Init => CurrentInv
  BY CurrentInit
<1>2. CurrentInv /\ [Next]_vars => CurrentInv'
  BY CurrentStep
<1>3. CurrentInv => MachinesAreCurrent
  BY CurrentIsCurrent
<1> QED BY <1>1, <1>2, <1>3, PTL DEF Spec
=============================================================================
