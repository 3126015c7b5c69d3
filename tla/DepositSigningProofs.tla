------------------------ MODULE DepositSigningProofs ------------------------
(***************************************************************************)
(* A secret nonce signs once, a signed move transaction is protected, and  *)
(* the signatures of an attempt that uses its own sessions fit: for every  *)
(* number of verifiers, attempts, transactions and session ids, whatever   *)
(* the limits of the table evict, and after any number of restarts.        *)
(***************************************************************************)
EXTENDS DepositSigning, SequenceTheorems, TLAPS

Nonces == Attempts \X (1..(N + 2))

SignStates == {"none", "open", "signing", "signed", "done", "failed"}

FinStates == {"none", "verified", "signed", "returned", "failed"}

Partials == [attempt : Attempts, verifier : Verifiers, nonce : Nonces, msg : 1..(N + 2)]

IsTable(t) == DOMAIN t \subseteq Ids /\ t \in [DOMAIN t -> Seq(Nonces)]

SigningTypeOK ==
    /\ data \in [Attempts -> Data \cup {"payout"}]
    /\ ids \in [Attempts -> [Verifiers -> Ids \cup {None}]]
    /\ calls \in [Attempts -> [Verifiers -> Ids \cup {None}]]
    /\ phase \in [Attempts -> {"nonces", "signing", "over"}]
    /\ agg \in [Attempts -> 0..N]
    /\ final \in [Attempts -> 0..N]
    /\ sessions = [v \in Verifiers |-> sessions[v]]
    /\ \A v \in Verifiers : IsTable(sessions[v])
    /\ usedIds \in [Verifiers -> SUBSET Ids]
    /\ oldIds \in [Verifiers -> SUBSET Ids]
    /\ sign \in [Attempts -> [Verifiers -> SignStates]]
    /\ held \in [Attempts -> [Verifiers -> Seq(Nonces)]]
    /\ fin \in [Attempts -> [Verifiers -> FinStates]]
    /\ popped \in [Attempts -> [Verifiers -> Seq(Nonces)]]
    /\ deposit \in [Verifiers -> Data \cup {None}]
    /\ saved \in [Verifiers -> Data \cup {None}]
    /\ partials \in SUBSET Partials

-----------------------------------------------------------------------------
(* Where the unused nonces of a verifier are: a session of its table, the  *)
(* session a task of deposit_sign took, or what deposit_finalize popped.   *)
Holders == ({"table"} \X Ids) \cup ({"held", "popped"} \X Attempts)

Places(table, taken, kept) ==
    [h \in Holders |->
        IF h[1] = "table" THEN (IF h[2] \in DOMAIN table THEN table[h[2]] ELSE <<>>)
        ELSE IF h[1] = "held" THEN taken[h[2]] ELSE kept[h[2]]]

NoncesAt(v) ==
    Places(sessions[v], [a \in Attempts |-> held[a][v]], [a \in Attempts |-> popped[a][v]])

UsedNonces(v) == {n \in Nonces : \E p \in partials : p.verifier = v /\ p.nonce = n}

Generated(v) == {n \in Nonces : ids[n[1]][v] # None}

(* An unused nonce, one of H, was generated (G), is at one place, and is   *)
(* not among the used ones (U).                                            *)
Placed(H, U, G) ==
    /\ \A h, g \in Holders : \A i \in 1..Len(H[h]), j \in 1..Len(H[g]) :
          H[h][i] = H[g][j] => h = g /\ i = j
    /\ \A h \in Holders : \A i \in 1..Len(H[h]) : H[h][i] \in G \ U
    /\ U \subseteq G

PlacedInv == \A v \in Verifiers : Placed(NoncesAt(v), UsedNonces(v), Generated(v))

(* What a task holds in each of its states. *)
HeldOk(state, nonces) ==
    /\ state = "signing" => Len(nonces) \in 3..(N + 2)
    /\ state = "signed" => Len(nonces) = 2
    /\ state \notin {"signing", "signed"} => nonces = <<>>

PoppedOk(state, nonces) ==
    /\ Len(nonces) \in {0, 1}
    /\ state # "verified" => nonces = <<>>

(* How far the tasks of an attempt are. *)
TaskInv ==
    \A a \in Attempts, v \in Verifiers :
        /\ phase[a] = "nonces" => calls[a][v] = None
        /\ sign[a][v] # "none" => calls[a][v] # None
        /\ HeldOk(sign[a][v], held[a][v])
        /\ final[a] # 0 => IsDeposit(a)
        /\ fin[a][v] # "none" => calls[a][v] # None /\ final[a] = N
        /\ PoppedOk(fin[a][v], popped[a][v])

-----------------------------------------------------------------------------
(* Whoever signed for an attempt has its data, and whoever answered        *)
(* deposit_finalize has stored its signatures.                             *)
DataInv ==
    /\ \A a \in Attempts, v \in Verifiers :
          /\ IsDeposit(a) /\ sign[a][v] \in {"open", "signing", "signed", "done"}
                => deposit[v] = data[a]
          /\ ~IsDeposit(a) => sign[a][v] \in {"none", "done", "failed"}
          /\ final[a] # 0 => deposit[v] = data[a]
          /\ fin[a][v] = "returned" => saved[v] = data[a]
    /\ \A p \in partials : IsDeposit(p.attempt) => deposit[p.verifier] = data[p.attempt]
    /\ \A d \in moved, v \in Verifiers : d \in Data /\ saved[v] = d /\ deposit[v] = d

-----------------------------------------------------------------------------
(* Without a borrower an attempt is alone with its session: the session is *)
(* as generated until the attempt signs with it, and afterwards holds the  *)
(* last two nonces, less those that deposit_finalize popped.               *)
HasSigned(a, v) == \E p \in partials : p.attempt = a /\ p.verifier = v

(* The nonces of attempt a from the last one down, as deposit_sign holds   *)
(* them and puts them back.                                                *)
Descending(a, s) == \A i \in 1..Len(s) : s[i] = <<a, N + 3 - i>>

(* The nonces of attempt a as nonce_gen made them. *)
Fresh(a, isDeposit, s) ==
    /\ Len(s) = IF isDeposit THEN N + 2 ELSE 1
    /\ \A i \in 1..Len(s) : s[i] = <<a, i>>

TableFit(a, isDeposit, hasSigned, signState, finState, kept, s) ==
    \/ ~hasSigned /\ signState \in {"none", "open", "failed"} /\ Fresh(a, isDeposit, s)
    \/ /\ isDeposit /\ signState = "done"
       /\ Descending(a, s) /\ Len(s) <= 2
       /\ finState \in {"none", "verified"} => Len(s) = 2 - Len(kept)
    \/ ~isDeposit /\ s = <<>>

FitOf(a, v) ==
    /\ calls[a][v] \in {None, ids[a][v]}
    /\ ids[a][v] # None => ids[a][v] \in usedIds[v] \cup oldIds[v]
    /\ final[a] # 0 => HasSigned(a, v)
    /\ Descending(a, held[a][v])
    /\ popped[a][v] # <<>> => sign[a][v] = "done" /\ popped[a][v][1] = <<a, Move>>
    /\ sign[a][v] \in {"none", "open"} => ~HasSigned(a, v)
    /\ sign[a][v] \in {"open", "signing", "signed"} => IsDeposit(a)
    /\ sign[a][v] \in {"signing", "signed"} => ids[a][v] \notin DOMAIN sessions[v]
    /\ ids[a][v] \in DOMAIN sessions[v] =>
          TableFit(a, IsDeposit(a), HasSigned(a, v), sign[a][v], fin[a][v], popped[a][v],
                   sessions[v][ids[a][v]])

IdsDiffer ==
    \A a, b \in Attempts, v \in Verifiers :
        ids[a][v] = ids[b][v] /\ ids[a][v] # None => a = b

FitInv ==
    borrower = None =>
        /\ \A a \in Attempts, v \in Verifiers : FitOf(a, v)
        /\ IdsDiffer
        /\ SignaturesFit

-----------------------------------------------------------------------------
(* Sequences. *)

(* What Front and Last give. *)
LEMMA FrontFacts ==
    ASSUME NEW S, NEW s \in Seq(S), s # <<>>
    PROVE  /\ Len(s) \in Nat \ {0}
           /\ Front(s) \in Seq(S) /\ Len(Front(s)) = Len(s) - 1
           /\ \A i \in 1..(Len(s) - 1) : Front(s)[i] = s[i]
           /\ Last(s) \in S /\ Last(s) = s[Len(s)]
<1> DEFINE n == Len(s) - 1
<1>1. Len(s) \in Nat \ {0}
  BY EmptySeq
<1>2. n \in Int /\ n \in Nat /\ \A i \in 1..n : s[i] \in S
  BY <1>1
<1>3. Len(s) \in 1..Len(s)
  BY <1>1
<1>4. Last(s) \in S /\ Last(s) = s[Len(s)]
  BY <1>3 DEF Last
<1>5. Front(s) = SubSeq(s, 1, n) /\ n = Len(s) - 1
  BY DEF Front
<1> HIDE DEF n
<1>6. /\ SubSeq(s, 1, n) \in Seq(S)
      /\ Len(SubSeq(s, 1, n)) = IF 1 <= n THEN n - 1 + 1 ELSE 0
      /\ \A i \in 1..(n - 1 + 1) : SubSeq(s, 1, n)[i] = s[1 + i - 1]
  BY <1>2, SubSeqProperties
<1>7. Len(SubSeq(s, 1, n)) = n /\ n - 1 + 1 = n /\ \A i \in 1..n : 1 + i - 1 = i
  BY <1>2, <1>6
<1> QED BY <1>1, <1>2, <1>4, <1>5, <1>6, <1>7

(* Reverse, element by element. *)
LEMMA ReverseFacts ==
    ASSUME NEW S, NEW s \in Seq(S)
    PROVE  /\ Reverse(s) \in Seq(S) /\ Len(Reverse(s)) = Len(s)
           /\ \A i \in 1..Len(s) : Reverse(s)[i] = s[Len(s) - i + 1]
  BY DEF Reverse

-----------------------------------------------------------------------------
(* How nonces may move. *)

(* The three kinds of places. *)
LEMMA HolderKinds ==
    /\ \A id \in Ids : <<"table", id>> \in Holders
    /\ \A a \in Attempts : <<"held", a>> \in Holders /\ <<"popped", a>> \in Holders
    /\ \A h \in Holders : \/ \E id \in Ids : h = <<"table", id>>
                          \/ \E a \in Attempts : h = <<"held", a>>
                          \/ \E a \in Attempts : h = <<"popped", a>>
    /\ \A x, y : /\ <<"table", x>> # <<"held", y>> /\ <<"table", x>> # <<"popped", y>>
                 /\ <<"held", x>> # <<"popped", y>>
                 /\ <<"table", x>> = <<"table", y>> => x = y
                 /\ <<"held", x>> = <<"held", y>> => x = y
                 /\ <<"popped", x>> = <<"popped", y>> => x = y
  BY DEF Holders

(* What is at each of them. *)
LEMMA PlacesFacts ==
    ASSUME NEW table, NEW taken, NEW kept
    PROVE  /\ \A id \in Ids :
                 Places(table, taken, kept)[<<"table", id>>] =
                    IF id \in DOMAIN table THEN table[id] ELSE <<>>
           /\ \A a \in Attempts :
                 /\ Places(table, taken, kept)[<<"held", a>>] = taken[a]
                 /\ Places(table, taken, kept)[<<"popped", a>>] = kept[a]
  BY DEF Places, Holders

(* s is what is left of t after something was taken from its end. *)
Begins(s, t) ==
    /\ Len(s) \in Nat /\ Len(t) \in Nat /\ Len(s) <= Len(t)
    /\ \A i \in 1..Len(s) : s[i] = t[i]

(* Nonces that leave their place are forgotten, or used. *)
LEMMA PlacedShrink ==
    ASSUME NEW H, NEW H2, NEW U, NEW U2, NEW G, Placed(H, U, G),
           \A h \in Holders : Begins(H2[h], H[h]),
           \A n \in U2 : n \in U \/ \E h \in Holders : \E i \in 1..Len(H[h]) :
                                       i > Len(H2[h]) /\ n = H[h][i]
    PROVE  Placed(H2, U2, G)
<1>1. \A h \in Holders : \A i \in 1..Len(H2[h]) : i \in 1..Len(H[h]) /\ H2[h][i] = H[h][i]
  BY DEF Begins
<1>2. \A h, g \in Holders : \A i \in 1..Len(H2[h]), j \in 1..Len(H2[g]) :
         H2[h][i] = H2[g][j] => h = g /\ i = j
  BY <1>1 DEF Placed
<1>3. \A h \in Holders : \A i \in 1..Len(H2[h]) : H2[h][i] \in G \ U2
  <2> SUFFICES ASSUME NEW h \in Holders, NEW i \in 1..Len(H2[h])
               PROVE  H2[h][i] \in G /\ H2[h][i] \notin U2
    OBVIOUS
  <2>1. H2[h][i] \in G /\ H2[h][i] \notin U
    BY <1>1 DEF Placed
  <2>2. ASSUME NEW g \in Holders, NEW j \in 1..Len(H[g]), j > Len(H2[g]), H2[h][i] = H[g][j]
        PROVE  FALSE
    <3>1. h = g /\ i = j
      BY <1>1, <2>2 DEF Placed
    <3> QED BY <2>2, <3>1 DEF Begins
  <2> QED BY <2>1, <2>2
<1>4. U2 \subseteq G
  BY DEF Placed
<1> QED BY <1>2, <1>3, <1>4 DEF Placed

(* The nonces at the end of one list become the list of an empty place, in *)

(* the order j, while others may be forgotten.                             *)
LEMMA PlacedMove ==
    ASSUME NEW H, NEW H2, NEW U, NEW G, Placed(H, U, G),
           NEW g \in Holders, NEW h \in Holders, g # h,
           \A f \in Holders \ {g} : Begins(H2[f], H[f]),
           NEW j \in [1..Len(H2[g]) -> 1..Len(H[h])],
           \A i, k \in 1..Len(H2[g]) : j[i] = j[k] => i = k,
           \A i \in 1..Len(H2[g]) : j[i] > Len(H2[h]) /\ H2[g][i] = H[h][j[i]]
    PROVE  Placed(H2, U, G)
<1>1. \A f \in Holders \ {g} : \A i \in 1..Len(H2[f]) : i \in 1..Len(H[f]) /\ H2[f][i] = H[f][i]
  BY DEF Begins
<1>2. \A i \in 1..Len(H2[g]) : j[i] \in 1..Len(H[h]) /\ H2[g][i] = H[h][j[i]]
  OBVIOUS
<1>3. ASSUME NEW e \in Holders, NEW f \in Holders,
             NEW i \in 1..Len(H2[e]), NEW k \in 1..Len(H2[f]), H2[e][i] = H2[f][k]
      PROVE  e = f /\ i = k
  <2>1. CASE e # g /\ f # g
    BY <2>1, <1>1, <1>3 DEF Placed
  <2>2. CASE e = g /\ f = g
    <3> DEFINE x == j[i]
               y == j[k]
    <3>1. x \in 1..Len(H[h]) /\ y \in 1..Len(H[h]) /\ H[h][x] = H[h][y]
      BY <2>2, <1>2, <1>3
    <3>2. x = y => i = k
      BY <2>2
    <3> HIDE DEF x, y
    <3> QED BY <2>2, <3>1, <3>2 DEF Placed
  <2>3. CASE e = g /\ f # g
    <3> DEFINE x == j[i]
    <3>1. x \in 1..Len(H[h]) /\ k \in 1..Len(H[f]) /\ H[h][x] = H[f][k] /\ x > Len(H2[h])
      BY <2>3, <1>1, <1>2, <1>3
    <3> HIDE DEF x
    <3>2. f = h /\ x = k
      BY <3>1 DEF Placed
    <3> QED BY <2>3, <3>1, <3>2
  <2>4. CASE e # g /\ f = g
    <3> DEFINE x == j[k]
    <3>1. x \in 1..Len(H[h]) /\ i \in 1..Len(H[e]) /\ H[h][x] = H[e][i] /\ x > Len(H2[h])
      BY <2>4, <1>1, <1>2, <1>3
    <3> HIDE DEF x
    <3>2. e = h /\ x = i
      BY <3>1 DEF Placed
    <3> QED BY <2>4, <3>1, <3>2
  <2> QED BY <2>1, <2>2, <2>3, <2>4
<1>4. ASSUME NEW f \in Holders, NEW i \in 1..Len(H2[f])
      PROVE  H2[f][i] \in G \ U
  <2>1. CASE f # g
    BY <2>1, <1>1 DEF Placed
  <2>2. CASE f = g
    BY <2>2, <1>2 DEF Placed
  <2> QED BY <2>1, <2>2
<1> QED BY <1>3, <1>4 DEF Placed

(* New nonces are put into an empty place. *)
LEMMA PlacedAdd ==
    ASSUME NEW H, NEW H2, NEW U, NEW G, NEW G2, Placed(H, U, G), G \subseteq G2,
           NEW g \in Holders,
           \A f \in Holders \ {g} : Begins(H2[f], H[f]),
           \A i, k \in 1..Len(H2[g]) : H2[g][i] = H2[g][k] => i = k,
           \A i \in 1..Len(H2[g]) : H2[g][i] \in G2 \ G
    PROVE  Placed(H2, U, G2)
<1>1. \A f \in Holders \ {g} : \A i \in 1..Len(H2[f]) : i \in 1..Len(H[f]) /\ H2[f][i] = H[f][i]
  BY DEF Begins
<1>2. \A f \in Holders \ {g} : \A i \in 1..Len(H2[f]) : H2[f][i] \in G \ U
  BY <1>1 DEF Placed
<1>3. ASSUME NEW e \in Holders, NEW f \in Holders,
             NEW i \in 1..Len(H2[e]), NEW k \in 1..Len(H2[f]), H2[e][i] = H2[f][k]
      PROVE  e = f /\ i = k
  <2>1. CASE e # g /\ f # g
    BY <2>1, <1>1, <1>3 DEF Placed
  <2>2. CASE e = g /\ f = g
    BY <2>2, <1>3
  <2>3. CASE (e = g /\ f # g) \/ (e # g /\ f = g)
    BY <2>3, <1>2, <1>3
  <2> QED BY <2>1, <2>2, <2>3
<1>4. \A f \in Holders : \A i \in 1..Len(H2[f]) : H2[f][i] \in G2 \ U
  BY <1>2 DEF Placed
<1> QED BY <1>3, <1>4 DEF Placed

-----------------------------------------------------------------------------
(* What the operations on the table do to it. *)

(* add_new_session_with_id: the new session, and some of the others. *)
LEMMA AddFacts ==
    ASSUME SigningTypeOK, NEW v \in Verifiers, NEW id \in Ids, NEW nonces \in Seq(Nonces),
           AddSession(v, id, nonces)
    PROVE  /\ sessions' = [w \in Verifiers |-> sessions'[w]]
           /\ usedIds' \in [Verifiers -> SUBSET Ids]
           /\ \A w \in Verifiers \ {v} : sessions'[w] = sessions[w] /\ usedIds'[w] = usedIds[w]
           /\ IsTable(sessions'[v]) /\ usedIds'[v] = usedIds[v] \cup {id}
           /\ id \in DOMAIN sessions'[v] /\ sessions'[v][id] = nonces
           /\ \A i \in DOMAIN sessions'[v] \ {id} :
                 i \in DOMAIN sessions[v] /\ sessions'[v][i] = sessions[v][i]
<1> DEFINE K == Kept(v, Evicted(v, nonces))
<1>1. K \subseteq DOMAIN sessions[v]
  BY DEF Kept
<1>2. /\ sessions' = [sessions EXCEPT ![v] = [i \in K \cup {id} |-> IF i = id THEN nonces ELSE @[i]]]
      /\ usedIds' = [usedIds EXCEPT ![v] = @ \cup {id}]
  BY DEF AddSession
<1> HIDE DEF K
<1>3. /\ sessions = [w \in Verifiers |-> sessions[w]] /\ usedIds \in [Verifiers -> SUBSET Ids]
      /\ DOMAIN sessions[v] \subseteq Ids /\ sessions[v] \in [DOMAIN sessions[v] -> Seq(Nonces)]
  BY DEF SigningTypeOK, IsTable
<1>4. sessions'[v] = [i \in K \cup {id} |-> IF i = id THEN nonces ELSE sessions[v][i]]
  BY <1>2, <1>3
<1>5. IsTable(sessions'[v])
  BY <1>1, <1>3, <1>4 DEF IsTable
<1> QED BY <1>1, <1>2, <1>3, <1>4, <1>5

(* remove_session_with_id *)
LEMMA RemoveFacts ==
    ASSUME SigningTypeOK, NEW v \in Verifiers, NEW id, RemoveSession(v, id)
    PROVE  /\ sessions' = [w \in Verifiers |-> sessions'[w]] /\ usedIds' = usedIds
           /\ \A w \in Verifiers \ {v} : sessions'[w] = sessions[w]
           /\ IsTable(sessions'[v])
           /\ DOMAIN sessions'[v] = DOMAIN sessions[v] \ {id}
           /\ \A i \in DOMAIN sessions'[v] : sessions'[v][i] = sessions[v][i]
<1>1. /\ sessions = [w \in Verifiers |-> sessions[w]]
      /\ DOMAIN sessions[v] \subseteq Ids /\ sessions[v] \in [DOMAIN sessions[v] -> Seq(Nonces)]
  BY DEF SigningTypeOK, IsTable
<1>2. sessions'[v] = [i \in DOMAIN sessions[v] \ {id} |-> sessions[v][i]]
  BY <1>1 DEF RemoveSession
<1>3. IsTable(sessions'[v])
  BY <1>1, <1>2 DEF IsTable
<1> QED BY <1>1, <1>2, <1>3 DEF RemoveSession

(* The last nonce of a session is popped. *)
LEMMA PopFacts ==
    ASSUME SigningTypeOK, NEW v \in Verifiers, NEW id, HasNonce(v, id), PopNonce(v, id)
    PROVE  /\ sessions' = [w \in Verifiers |-> sessions'[w]] /\ usedIds' = usedIds
           /\ \A w \in Verifiers \ {v} : sessions'[w] = sessions[w]
           /\ IsTable(sessions'[v]) /\ DOMAIN sessions'[v] = DOMAIN sessions[v]
           /\ \A i \in DOMAIN sessions[v] \ {id} : sessions'[v][i] = sessions[v][i]
           /\ id \in DOMAIN sessions[v] /\ sessions[v][id] \in Seq(Nonces)
           /\ sessions[v][id] # <<>>
           /\ sessions'[v][id] = Front(sessions[v][id])
           /\ Last(sessions[v][id]) \in Nonces
<1>1. /\ sessions = [w \in Verifiers |-> sessions[w]]
      /\ DOMAIN sessions[v] \subseteq Ids /\ sessions[v] \in [DOMAIN sessions[v] -> Seq(Nonces)]
  BY DEF SigningTypeOK, IsTable
<1>2. id \in DOMAIN sessions[v] /\ sessions[v][id] \in Seq(Nonces) /\ sessions[v][id] # <<>>
  BY <1>1 DEF HasNonce
<1>3. sessions'[v] = [sessions[v] EXCEPT ![id] = Front(@)]
  BY <1>1 DEF PopNonce
<1>4. Front(sessions[v][id]) \in Seq(Nonces) /\ Last(sessions[v][id]) \in Nonces
  BY <1>2, FrontFacts
<1>5. IsTable(sessions'[v])
  BY <1>1, <1>2, <1>3, <1>4 DEF IsTable
<1> QED BY <1>1, <1>2, <1>3, <1>4, <1>5 DEF PopNonce

-----------------------------------------------------------------------------
(* Types, and how far the tasks are. *)

Base == SigningTypeOK /\ TaskInv

(* The arithmetic of the constants. *)
LEMMA ConstantFacts ==
    /\ N \in Nat \ {0} /\ N + 2 \in Nat /\ Move \in 1..(N + 2) /\ EmergencyStop \in 1..(N + 2)
    /\ Move # EmergencyStop /\ None \notin Ids /\ None \notin Attempts /\ None \notin Data
    /\ "payout" \notin Data
  BY SigningAssumption DEF Move, EmergencyStop

(* The nonces nonce_gen makes. *)
LEMMA NewNonces ==
    ASSUME SigningTypeOK, NEW a \in Attempts
    PROVE  /\ NumNonces(a) \in 1..(N + 2)
           /\ [i \in 1..NumNonces(a) |-> <<a, i>>] \in Seq(Nonces)
           /\ Len([i \in 1..NumNonces(a) |-> <<a, i>>]) = NumNonces(a)
<1>1. NumNonces(a) \in 1..(N + 2)
  BY ConstantFacts DEF NumNonces
<1>2. \A i \in 1..NumNonces(a) : <<a, i>> \in Nonces
  BY <1>1, ConstantFacts DEF Nonces
<1> QED BY <1>1, <1>2

(* The aggregator changes none of the verifiers' state. *)
LEMMA AggregatorBase ==
    ASSUME Base, NEW a \in Attempts,
           \/ \E b \in Attempts : OpenStreams(a, b)
           \/ DistributeNonce(a) \/ AggregateSignature(a) \/ CreateMoveTx(a)
    PROVE  Base'
<1> USE ConstantFacts DEF Base
<1>0. UNCHANGED <<data, borrower, ids, memory, tasks, db, partials, oldIds>>
  BY DEF OpenStreams, DistributeNonce, AggregateSignature, CreateMoveTx, history
<1>1. /\ data \in [Attempts -> Data \cup {"payout"}]
      /\ ids \in [Attempts -> [Verifiers -> Ids \cup {None}]]
      /\ calls \in [Attempts -> [Verifiers -> Ids \cup {None}]]
      /\ phase \in [Attempts -> {"nonces", "signing", "over"}]
      /\ agg \in [Attempts -> 0..N] /\ final \in [Attempts -> 0..N]
  BY DEF SigningTypeOK
<1>2. /\ calls' \in [Attempts -> [Verifiers -> Ids \cup {None}]]
      /\ phase' \in [Attempts -> {"nonces", "signing", "over"}]
      /\ agg' \in [Attempts -> 0..N] /\ final' \in [Attempts -> 0..N]
  <2>1. ASSUME NEW b \in Attempts, OpenStreams(a, b) 
        PROVE  /\ calls' \in [Attempts -> [Verifiers -> Ids \cup {None}]]
               /\ phase' \in [Attempts -> {"nonces", "signing", "over"}]
               /\ agg' = agg /\ final' = final
    BY <1>1, <2>1 DEF OpenStreams
  <2>2. CASE DistributeNonce(a)
    BY <1>1, <2>2 DEF DistributeNonce
  <2>3. CASE AggregateSignature(a)
    <3>1. /\ final[a] + 1 <= N /\ calls' = calls /\ agg' = agg
          /\ \/ final' = [final EXCEPT ![a] = final[a] + 1] /\ phase' = phase
             \/ phase' = [phase EXCEPT ![a] = "over"] /\ final' = final
      BY <2>3 DEF AggregateSignature
    <3>2. final[a] + 1 \in 0..N
      BY <1>1, <3>1
    <3>3. [final EXCEPT ![a] = final[a] + 1] \in [Attempts -> 0..N]
      BY <1>1, <3>2
    <3>4. [phase EXCEPT ![a] = "over"] \in [Attempts -> {"nonces", "signing", "over"}]
      BY <1>1
    <3> QED BY <1>1, <3>1, <3>3, <3>4
  <2>4. CASE CreateMoveTx(a)
    BY <1>1, <2>4 DEF CreateMoveTx
  <2> QED BY <1>1, <2>1, <2>2, <2>3, <2>4
<1>3. SigningTypeOK'
  BY <1>0, <1>2 DEF SigningTypeOK, memory, tasks, db
<1>4. TaskInv'
  <2> SUFFICES ASSUME NEW c \in Attempts, NEW v \in Verifiers
               PROVE  /\ phase'[c] = "nonces" => calls'[c][v] = None
                      /\ sign[c][v] # "none" => calls'[c][v] # None
                      /\ final'[c] # 0 => IsDeposit(c)
                      /\ fin[c][v] # "none" => calls'[c][v] # None /\ final'[c] = N
    BY <1>0 DEF TaskInv, tasks, IsDeposit
  <2>1. ASSUME NEW b \in Attempts, OpenStreams(a, b)
        PROVE  /\ phase'[c] = "nonces" => calls'[c][v] = None
               /\ sign[c][v] # "none" => calls'[c][v] # None
               /\ final'[c] # 0 => IsDeposit(c)
               /\ fin[c][v] # "none" => calls'[c][v] # None /\ final'[c] = N
    BY <1>1, <2>1 DEF OpenStreams, TaskInv, HasNonces
  <2>2. CASE DistributeNonce(a)
    BY <1>1, <2>2 DEF DistributeNonce, TaskInv
  <2>3. CASE AggregateSignature(a)
    <3>1. /\ final[a] + 1 <= N /\ calls' = calls /\ IsDeposit(a) /\ phase[a] = "signing"
          /\ \/ final' = [final EXCEPT ![a] = final[a] + 1] /\ phase' = phase
             \/ phase' = [phase EXCEPT ![a] = "over"] /\ final' = final
      BY <2>3 DEF AggregateSignature
    <3>2. final[a] \in Nat /\ final[a] # N
      BY <1>1, <3>1
    <3>3. CASE c = a
      BY <1>1, <3>1, <3>2, <3>3 DEF TaskInv
    <3>4. CASE c # a
      <4>1. phase'[c] = phase[c] /\ final'[c] = final[c]
        BY <1>1, <3>1, <3>4
      <4> QED BY <3>1, <4>1 DEF TaskInv
    <3> QED BY <3>3, <3>4
  <2>4. CASE CreateMoveTx(a)
    BY <1>1, <2>4 DEF CreateMoveTx, TaskInv
  <2> QED BY <2>1, <2>2, <2>3, <2>4
<1> QED BY <1>3, <1>4

(* The verifiers' table changes with nonce_gen. *)
LEMMA NonceGenBase ==
    ASSUME Base, NEW a \in Attempts, NEW v \in Verifiers, NEW id \in Ids, NonceGen(a, v, id)
    PROVE  Base'
<1> DEFINE s == [i \in 1..NumNonces(a) |-> <<a, i>>]
<1>1. s \in Seq(Nonces)
  BY NewNonces DEF Base
<1>2. AddSession(v, id, s) /\ ids' = [ids EXCEPT ![a][v] = id]
  BY DEF NonceGen
<1> HIDE DEF s
<1>3. /\ sessions' = [w \in Verifiers |-> sessions'[w]]
      /\ usedIds' \in [Verifiers -> SUBSET Ids]
      /\ \A w \in Verifiers : IsTable(sessions'[w])
  <2>1. \A w \in Verifiers \ {v} : sessions'[w] = sessions[w] /\ IsTable(sessions[w])
    BY <1>1, <1>2, AddFacts DEF Base, SigningTypeOK
  <2> QED BY <1>1, <1>2, <2>1, AddFacts DEF Base
<1>4. ids' \in [Attempts -> [Verifiers -> Ids \cup {None}]]
  BY <1>2 DEF Base, SigningTypeOK
<1>5. UNCHANGED <<data, calls, phase, agg, final, tasks, db, partials, oldIds>>
  BY DEF NonceGen, history
<1>6. SigningTypeOK'
  BY <1>3, <1>4, <1>5 DEF Base, SigningTypeOK, tasks, db
<1>7. TaskInv'
  BY <1>5 DEF Base, TaskInv, tasks, IsDeposit
<1> QED BY <1>6, <1>7 DEF Base

(* What the task of deposit_sign does. *)
LEMMA SignBase ==
    ASSUME Base, NEW a \in Attempts, NEW v \in Verifiers,
           BeginSign(a, v) \/ TakeSession(a, v) \/ SignNext(a, v) \/ PutBack(a, v) \/ SignPayout(a, v)
    PROVE  Base'
<1>0. /\ data \in [Attempts -> Data \cup {"payout"}]
      /\ calls \in [Attempts -> [Verifiers -> Ids \cup {None}]]
      /\ agg \in [Attempts -> 0..N]
      /\ sign \in [Attempts -> [Verifiers -> SignStates]]
      /\ held \in [Attempts -> [Verifiers -> Seq(Nonces)]]
      /\ deposit \in [Verifiers -> Data \cup {None}]
      /\ partials \in SUBSET Partials
      /\ \A w \in Verifiers : IsTable(sessions[w])
      /\ sessions = [w \in Verifiers |-> sessions[w]] /\ usedIds \in [Verifiers -> SUBSET Ids]
  BY DEF Base, SigningTypeOK
<1>1. UNCHANGED <<aggregator, fin, popped, saved, oldIds>>
  BY DEF BeginSign, TakeSession, SignNext, PutBack, SignPayout, db, history
<1>2. /\ sessions' = [w \in Verifiers |-> sessions'[w]]
      /\ \A w \in Verifiers : IsTable(sessions'[w])
      /\ usedIds' \in [Verifiers -> SUBSET Ids]
  <2>1. CASE UNCHANGED memory
    BY <1>0, <2>1 DEF memory
  <2>2. CASE RemoveSession(v, calls[a][v])
    <3>1. \A w \in Verifiers \ {v} : sessions'[w] = sessions[w]
      BY <2>2, RemoveFacts DEF Base
    <3> QED BY <1>0, <2>2, <3>1, RemoveFacts DEF Base
  <2>3. CASE PutBack(a, v)
    <3>1. calls[a][v] \in Ids /\ held[a][v] \in Seq(Nonces)
      BY <1>0, <2>3 DEF PutBack, Base, TaskInv
    <3>2. \A w \in Verifiers \ {v} : sessions'[w] = sessions[w]
      BY <2>3, <3>1, AddFacts DEF Base, PutBack
    <3> QED BY <1>0, <2>3, <3>1, <3>2, AddFacts DEF Base, PutBack
  <2>4. CASE HasNonce(v, calls[a][v]) /\ PopNonce(v, calls[a][v])
    <3>1. \A w \in Verifiers \ {v} : sessions'[w] = sessions[w]
      BY <2>4, PopFacts DEF Base
    <3> QED BY <1>0, <2>4, <3>1, PopFacts DEF Base
  <2> QED BY <2>1, <2>2, <2>3, <2>4 DEF BeginSign, TakeSession, SignNext, SignPayout
<1>3. /\ sign' \in [Attempts -> [Verifiers -> SignStates]]
      /\ \A c \in Attempts, w \in Verifiers : sign'[c][w] # "none" => calls[c][w] # None
  <2>1. \A t \in SignStates : [sign EXCEPT ![a][v] = t] \in [Attempts -> [Verifiers -> SignStates]]
    BY <1>0
  <2>2. \E t \in SignStates : sign' = [sign EXCEPT ![a][v] = t]
    <3>1. sign[a][v] \in SignStates
      BY <1>0
    <3> QED BY <3>1 DEF BeginSign, TakeSession, SignNext, PutBack, SignPayout, SignStates
  <2>3. calls[a][v] # None
    BY DEF BeginSign, TakeSession, SignNext, PutBack, SignPayout, Called, Base, TaskInv
  <2> QED BY <1>0, <2>1, <2>2, <2>3 DEF Base, TaskInv
<1>4. /\ held' \in [Attempts -> [Verifiers -> Seq(Nonces)]]
      /\ \A c \in Attempts, w \in Verifiers : HeldOk(sign'[c][w], held'[c][w])
      /\ partials' \in SUBSET Partials
  <2>0. N \in Nat \ {0} /\ <<>> \in Seq(Nonces) /\ held[a][v] \in Seq(Nonces)
        /\ HeldOk(sign[a][v], held[a][v])
    BY <1>0, ConstantFacts DEF Base, TaskInv
  <2> SUFFICES /\ partials' \in SUBSET Partials
               /\ \E t : \E s \in Seq(Nonces) :
                     /\ HeldOk(t, s) /\ sign' = [sign EXCEPT ![a][v] = t]
                     /\ held' = [held EXCEPT ![a][v] = s]
    <3>0. PICK t : \E s \in Seq(Nonces) :
             /\ HeldOk(t, s) /\ sign' = [sign EXCEPT ![a][v] = t]
             /\ held' = [held EXCEPT ![a][v] = s]
      OBVIOUS
    <3>1. PICK s \in Seq(Nonces) :
             /\ HeldOk(t, s) /\ sign' = [sign EXCEPT ![a][v] = t]
             /\ held' = [held EXCEPT ![a][v] = s]
      BY <3>0
    <3>2. \A c \in Attempts, w \in Verifiers :
             \/ sign'[c][w] = t /\ held'[c][w] = s
             \/ sign'[c][w] = sign[c][w] /\ held'[c][w] = held[c][w]
      BY <1>0, <3>1
    <3>3. \A c \in Attempts, w \in Verifiers : HeldOk(sign'[c][w], held'[c][w])
      BY <3>1, <3>2 DEF Base, TaskInv
    <3> QED BY <1>0, <3>1, <3>3
  <2>1. CASE BeginSign(a, v)
    <3>1. held' = held /\ partials' = partials /\ sign[a][v] = "none"
      BY <2>1 DEF BeginSign, history
    <3>2. sign' = [sign EXCEPT ![a][v] = "open"] \/ sign' = [sign EXCEPT ![a][v] = "failed"]
      BY <2>1 DEF BeginSign
    <3>3. held' = [held EXCEPT ![a][v] = <<>>]
      BY <1>0, <2>0, <3>1 DEF HeldOk
    <3>4. HeldOk("open", <<>>) /\ HeldOk("failed", <<>>)
      BY DEF HeldOk
    <3> QED BY <1>0, <2>0, <3>1, <3>2, <3>3, <3>4
  <2>2. CASE SignPayout(a, v)
    <3>1. held' = held /\ sign[a][v] = "none"
      BY <2>2 DEF SignPayout
    <3>2. sign' = [sign EXCEPT ![a][v] = "done"] \/ sign' = [sign EXCEPT ![a][v] = "failed"]
      BY <2>2 DEF SignPayout
    <3>3. partials' \in SUBSET Partials
      <4>1. CASE HasNonce(v, calls[a][v])
        <5>1. Last(sessions[v][calls[a][v]]) \in Nonces
          BY <2>2, <4>1, PopFacts DEF SignPayout, Base
        <5>2. partials' = partials \cup {Partial(a, v, Last(sessions[v][calls[a][v]]), 1)}
          BY <2>2, <4>1 DEF SignPayout
        <5> QED BY <1>0, <2>0, <5>1, <5>2 DEF Partial, Partials
      <4> QED BY <1>0, <2>2, <4>1 DEF SignPayout
    <3>4. held' = [held EXCEPT ![a][v] = <<>>]
      BY <1>0, <2>0, <3>1 DEF HeldOk
    <3>5. HeldOk("done", <<>>) /\ HeldOk("failed", <<>>)
      BY DEF HeldOk
    <3> QED BY <2>0, <3>2, <3>3, <3>4, <3>5
  <2>3. CASE TakeSession(a, v)
    <3> DEFINE s == sessions[v][calls[a][v]]
    <3>1. partials' = partials /\ sign[a][v] = "open"
      BY <2>3 DEF TakeSession, history
    <3>2. \/ sign' = [sign EXCEPT ![a][v] = "failed"] /\ held' = held
          \/ /\ sign' = [sign EXCEPT ![a][v] = "signing"] /\ held' = [held EXCEPT ![a][v] = Reverse(s)]
             /\ calls[a][v] \in DOMAIN sessions[v] /\ Len(s) = N + 2
      BY <2>3 DEF TakeSession
    <3>3. CASE sign' = [sign EXCEPT ![a][v] = "failed"] /\ held' = held
      <4>1. held' = [held EXCEPT ![a][v] = <<>>]
        BY <1>0, <2>0, <3>1, <3>3 DEF HeldOk
      <4>2. HeldOk("failed", <<>>)
        BY DEF HeldOk
      <4> QED BY <1>0, <2>0, <3>1, <3>3, <4>1, <4>2
    <3>4. CASE /\ sign' = [sign EXCEPT ![a][v] = "signing"] /\ held' = [held EXCEPT ![a][v] = Reverse(s)]
               /\ calls[a][v] \in DOMAIN sessions[v] /\ Len(s) = N + 2
      <4>1. s \in Seq(Nonces)
        BY <1>0, <3>4 DEF IsTable
      <4> HIDE DEF s
      <4>2. Reverse(s) \in Seq(Nonces) /\ Len(Reverse(s)) = N + 2
        BY <3>4, <4>1, ReverseFacts
      <4>3. HeldOk("signing", Reverse(s))
        BY <2>0, <4>2 DEF HeldOk
      <4> QED BY <1>0, <3>1, <3>4, <4>2, <4>3
    <3> QED BY <3>2, <3>3, <3>4
  <2>4. CASE SignNext(a, v)
    <3> DEFINE s == held[a][v]
               k == N + 3 - Len(s)
               t == IF k = N THEN "signed" ELSE "signing"
    <3>1. /\ sign[a][v] = "signing" /\ k <= agg[a]
          /\ partials' = partials \cup {Partial(a, v, Last(s), k)}
          /\ held' = [held EXCEPT ![a][v] = Front(s)]
          /\ sign' = [sign EXCEPT ![a][v] = t]
      BY <1>0, <2>4 DEF SignNext
    <3>2. Len(s) \in 3..(N + 2) /\ s \in Seq(Nonces)
      BY <2>0, <3>1 DEF HeldOk
    <3>3. s # <<>> /\ k \in 1..N
      BY <1>0, <2>0, <3>1, <3>2
    <3>4. Front(s) \in Seq(Nonces) /\ Len(Front(s)) = Len(s) - 1 /\ Last(s) \in Nonces
      BY <3>2, <3>3, FrontFacts
    <3>5. HeldOk(t, Front(s))
      <4> DEFINE l == Len(s)
                 m == Len(Front(s))
      <4>1. l \in 3..(N + 2) /\ m = l - 1 /\ k = N + 3 - l
        BY <3>2, <3>4
      <4> HIDE DEF l, m, k
      <4>2. CASE k = N
        <5>1. m = 2
          BY <2>0, <4>1, <4>2
        <5> QED BY <4>2, <5>1 DEF HeldOk, m
      <4>3. CASE k # N
        <5>1. m \in 3..(N + 2)
          BY <2>0, <4>1, <4>3
        <5> QED BY <4>3, <5>1 DEF HeldOk, m
      <4> QED BY <4>2, <4>3
    <3>6. partials' \in SUBSET Partials
      BY <1>0, <2>0, <3>1, <3>3, <3>4 DEF Partial, Partials
    <3> HIDE DEF s, k, t
    <3> QED BY <3>1, <3>4, <3>5, <3>6
  <2>5. CASE PutBack(a, v)
    <3>1. partials' = partials /\ held' = [held EXCEPT ![a][v] = <<>>]
          /\ sign' = [sign EXCEPT ![a][v] = "done"]
      BY <2>5 DEF PutBack, history
    <3>2. HeldOk("done", <<>>)
      BY DEF HeldOk
    <3> QED BY <1>0, <2>0, <3>1, <3>2
  <2> QED BY <2>1, <2>2, <2>3, <2>4, <2>5
<1>5. deposit' \in [Verifiers -> Data \cup {None}]
  <2>1. CASE BeginSign(a, v)
    <3>1. IsDeposit(a) => data[a] \in Data
      BY <1>0 DEF IsDeposit
    <3> QED BY <1>0, <2>1, <3>1 DEF BeginSign
  <2> QED BY <1>0, <2>1 DEF TakeSession, SignNext, PutBack, SignPayout, db
<1>6. SigningTypeOK'
  BY <1>1, <1>2, <1>3, <1>4, <1>5 DEF Base, SigningTypeOK, aggregator
<1>7. TaskInv'
  BY <1>1, <1>3, <1>4 DEF Base, TaskInv, aggregator, IsDeposit
<1> QED BY <1>6, <1>7 DEF Base

(* What the task of deposit_finalize does. *)
LEMMA FinalizeBase ==
    ASSUME Base, NEW a \in Attempts, NEW v \in Verifiers,
           VerifySignatures(a, v) \/ PopFinalNonce(a, v) \/ SaveSignatures(a, v)
    PROVE  Base'
<1>0. /\ data \in [Attempts -> Data \cup {"payout"}]
      /\ calls \in [Attempts -> [Verifiers -> Ids \cup {None}]]
      /\ fin \in [Attempts -> [Verifiers -> FinStates]]
      /\ popped \in [Attempts -> [Verifiers -> Seq(Nonces)]]
      /\ saved \in [Verifiers -> Data \cup {None}]
      /\ partials \in SUBSET Partials
      /\ \A w \in Verifiers : IsTable(sessions[w])
      /\ sessions = [w \in Verifiers |-> sessions[w]] /\ usedIds \in [Verifiers -> SUBSET Ids]
      /\ popped[a][v] \in Seq(Nonces) /\ <<>> \in Seq(Nonces)
      /\ PoppedOk(fin[a][v], popped[a][v])
  BY DEF Base, SigningTypeOK, TaskInv
<1>1. UNCHANGED <<aggregator, sign, held, deposit, oldIds>>
  BY DEF VerifySignatures, PopFinalNonce, SaveSignatures, db, history
<1>2. /\ sessions' = [w \in Verifiers |-> sessions'[w]]
      /\ \A w \in Verifiers : IsTable(sessions'[w])
      /\ usedIds' \in [Verifiers -> SUBSET Ids]
  <2>1. CASE UNCHANGED memory
    BY <1>0, <2>1 DEF memory
  <2>2. CASE HasNonce(v, calls[a][v]) /\ PopNonce(v, calls[a][v])
    <3>1. \A w \in Verifiers \ {v} : sessions'[w] = sessions[w]
      BY <2>2, PopFacts DEF Base
    <3> QED BY <1>0, <2>2, <3>1, PopFacts DEF Base
  <2> QED BY <2>1, <2>2 DEF VerifySignatures, PopFinalNonce, SaveSignatures
<1>3. calls[a][v] # None /\ final[a] = N
  BY DEF VerifySignatures, PopFinalNonce, SaveSignatures, Called, SignaturesSent, Base, TaskInv
<1>4. /\ partials' \in SUBSET Partials
      /\ saved' \in [Verifiers -> Data \cup {None}]
      /\ \E t \in FinStates : \E s \in Seq(Nonces) :
            /\ PoppedOk(t, s) /\ fin' = [fin EXCEPT ![a][v] = t]
            /\ popped' = [popped EXCEPT ![a][v] = s]
  <2>1. CASE VerifySignatures(a, v)
    <3>1. fin[a][v] = "none" /\ fin' = [fin EXCEPT ![a][v] = "verified"]
          /\ popped' = popped /\ partials' = partials /\ saved' = saved
      BY <2>1 DEF VerifySignatures, db, history
    <3>2. popped' = [popped EXCEPT ![a][v] = <<>>] /\ PoppedOk("verified", <<>>)
      BY <1>0, <3>1 DEF PoppedOk
    <3>3. "verified" \in FinStates
      BY DEF FinStates
    <3> QED BY <1>0, <3>1, <3>2, <3>3
  <2>2. CASE SaveSignatures(a, v)
    <3> DEFINE ok == saved[v] \in {None, data[a]}
               t == IF ok THEN "returned" ELSE "failed"
    <3>1. fin[a][v] = "signed" /\ fin' = [fin EXCEPT ![a][v] = t]
          /\ popped' = popped /\ partials' = partials
      BY <2>2 DEF SaveSignatures, history
    <3>2. popped' = [popped EXCEPT ![a][v] = <<>>] /\ PoppedOk(t, <<>>)
      BY <1>0, <3>1 DEF PoppedOk
    <3>3. t \in FinStates
      BY DEF FinStates
    <3>4. IsDeposit(a)
      BY <1>3, ConstantFacts DEF Base, TaskInv
    <3>5. saved' \in [Verifiers -> Data \cup {None}]
      BY <1>0, <2>2, <3>4 DEF SaveSignatures, IsDeposit
    <3> HIDE DEF t
    <3> QED BY <1>0, <3>1, <3>2, <3>3, <3>5
  <2>3. CASE PopFinalNonce(a, v)
    <3> DEFINE id == calls[a][v]
               nonce == Last(sessions[v][id])
    <3>0. saved' = saved /\ fin[a][v] = "verified"
      BY <2>3 DEF PopFinalNonce, db
    <3>1. CASE HasNonce(v, id) /\ popped[a][v] = <<>>
      <4>1. popped' = [popped EXCEPT ![a][v] = <<nonce>>] /\ fin' = fin /\ partials' = partials
        BY <2>3, <3>1 DEF PopFinalNonce
      <4>2. nonce \in Nonces
        BY <2>3, <3>1, PopFacts DEF PopFinalNonce, Base
      <4> HIDE DEF nonce
      <4>3. <<nonce>> \in Seq(Nonces) /\ PoppedOk("verified", <<nonce>>)
        BY <4>2 DEF PoppedOk
      <4>4. fin' = [fin EXCEPT ![a][v] = "verified"] /\ "verified" \in FinStates
        BY <1>0, <3>0, <4>1 DEF FinStates
      <4> QED BY <1>0, <3>0, <4>1, <4>3, <4>4
    <3>2. CASE HasNonce(v, id) /\ popped[a][v] # <<>>
      <4>1. /\ partials' = partials \cup {Partial(a, v, popped[a][v][1], Move),
                                          Partial(a, v, nonce, EmergencyStop)}
            /\ popped' = [popped EXCEPT ![a][v] = <<>>]
            /\ fin' = [fin EXCEPT ![a][v] = "signed"]
        BY <2>3, <3>2 DEF PopFinalNonce
      <4>2. nonce \in Nonces
        BY <2>3, <3>2, PopFacts DEF PopFinalNonce, Base
      <4>3. popped[a][v][1] \in Nonces
        BY <1>0, <3>2
      <4> HIDE DEF nonce
      <4>4. partials' \in SUBSET Partials
        BY <1>0, <4>1, <4>2, <4>3, ConstantFacts DEF Partial, Partials
      <4>5. PoppedOk("signed", <<>>) /\ "signed" \in FinStates
        BY DEF PoppedOk, FinStates
      <4> QED BY <1>0, <3>0, <4>1, <4>4, <4>5
    <3>3. CASE ~HasNonce(v, id)
      <4>1. partials' = partials /\ popped' = [popped EXCEPT ![a][v] = <<>>]
            /\ fin' = [fin EXCEPT ![a][v] = "failed"]
        BY <2>3, <3>3 DEF PopFinalNonce
      <4>2. PoppedOk("failed", <<>>) /\ "failed" \in FinStates
        BY DEF PoppedOk, FinStates
      <4> QED BY <1>0, <3>0, <4>1, <4>2
    <3> QED BY <3>1, <3>2, <3>3
  <2> QED BY <2>1, <2>2, <2>3
<1>5. PICK t \in FinStates : \E s \in Seq(Nonces) :
            /\ PoppedOk(t, s) /\ fin' = [fin EXCEPT ![a][v] = t]
            /\ popped' = [popped EXCEPT ![a][v] = s]
  BY <1>4
<1>6. PICK s \in Seq(Nonces) :
            /\ PoppedOk(t, s) /\ fin' = [fin EXCEPT ![a][v] = t]
            /\ popped' = [popped EXCEPT ![a][v] = s]
  BY <1>5
<1>7. \A c \in Attempts, w \in Verifiers :
         \/ fin'[c][w] = t /\ popped'[c][w] = s /\ c = a /\ w = v
         \/ fin'[c][w] = fin[c][w] /\ popped'[c][w] = popped[c][w]
  BY <1>0, <1>6
<1>8. /\ fin' \in [Attempts -> [Verifiers -> FinStates]]
      /\ popped' \in [Attempts -> [Verifiers -> Seq(Nonces)]]
  BY <1>0, <1>6
<1>9. SigningTypeOK'
  BY <1>1, <1>2, <1>4, <1>8 DEF Base, SigningTypeOK, aggregator
<1>10. TaskInv'
  BY <1>1, <1>3, <1>6, <1>7 DEF Base, TaskInv, aggregator, IsDeposit
<1> QED BY <1>9, <1>10 DEF Base

(* A restart empties the memory of one verifier. *)
LEMMA RestartBase ==
    ASSUME Base, NEW v \in Verifiers, Restart(v)
    PROVE  Base'
<1>0. /\ sign \in [Attempts -> [Verifiers -> SignStates]]
      /\ held \in [Attempts -> [Verifiers -> Seq(Nonces)]]
      /\ fin \in [Attempts -> [Verifiers -> FinStates]]
      /\ popped \in [Attempts -> [Verifiers -> Seq(Nonces)]]
      /\ sessions = [w \in Verifiers |-> sessions[w]]
      /\ usedIds \in [Verifiers -> SUBSET Ids] /\ oldIds \in [Verifiers -> SUBSET Ids]
      /\ <<>> \in Seq(Nonces)
  BY DEF Base, SigningTypeOK
<1>1. UNCHANGED <<aggregator, db, partials>>
  BY DEF Restart
<1>2. /\ sessions' = [w \in Verifiers |-> sessions'[w]]
      /\ \A w \in Verifiers : IsTable(sessions'[w])
  <2>1. sessions' = [sessions EXCEPT ![v] = EmptyTable]
    BY DEF Restart
  <2>2. IsTable(EmptyTable)
    BY DEF EmptyTable, IsTable
  <2> QED BY <1>0, <2>1, <2>2 DEF Base, SigningTypeOK
<1>3. usedIds' \in [Verifiers -> SUBSET Ids] /\ oldIds' \in [Verifiers -> SUBSET Ids]
  BY <1>0 DEF Restart
<1>4. \A c \in Attempts, w \in Verifiers :
         /\ sign'[c][w] = IF w = v /\ sign[c][v] \in {"open", "signing", "signed"}
                          THEN "failed" ELSE sign[c][w]
         /\ held'[c][w] = IF w = v THEN <<>> ELSE held[c][w]
         /\ fin'[c][w] = IF w = v /\ fin[c][v] \in {"verified", "signed"}
                         THEN "failed" ELSE fin[c][w]
         /\ popped'[c][w] = IF w = v THEN <<>> ELSE popped[c][w]
  <2> SUFFICES ASSUME NEW c \in Attempts
               PROVE  \A w \in Verifiers :
                        /\ sign'[c][w] = IF w = v /\ sign[c][v] \in {"open", "signing", "signed"}
                                         THEN "failed" ELSE sign[c][w]
                        /\ held'[c][w] = IF w = v THEN <<>> ELSE held[c][w]
                        /\ fin'[c][w] = IF w = v /\ fin[c][v] \in {"verified", "signed"}
                                        THEN "failed" ELSE fin[c][w]
                        /\ popped'[c][w] = IF w = v THEN <<>> ELSE popped[c][w]
    OBVIOUS
  <2>1. /\ sign[c] \in [Verifiers -> SignStates] /\ fin[c] \in [Verifiers -> FinStates]
        /\ held[c] \in [Verifiers -> Seq(Nonces)] /\ popped[c] \in [Verifiers -> Seq(Nonces)]
    BY <1>0
  <2> QED BY <2>1 DEF Restart
<1>5. /\ sign' = [c \in Attempts |-> [w \in Verifiers |-> sign'[c][w]]]
      /\ held' = [c \in Attempts |-> [w \in Verifiers |-> held'[c][w]]]
      /\ fin' = [c \in Attempts |-> [w \in Verifiers |-> fin'[c][w]]]
      /\ popped' = [c \in Attempts |-> [w \in Verifiers |-> popped'[c][w]]]
  <2>1. \A c \in Attempts :
           /\ sign[c] \in [Verifiers -> SignStates] /\ fin[c] \in [Verifiers -> FinStates]
           /\ held[c] \in [Verifiers -> Seq(Nonces)] /\ popped[c] \in [Verifiers -> Seq(Nonces)]
    BY <1>0
  <2> QED BY <2>1 DEF Restart
<1>6. /\ sign' \in [Attempts -> [Verifiers -> SignStates]]
      /\ held' \in [Attempts -> [Verifiers -> Seq(Nonces)]]
      /\ fin' \in [Attempts -> [Verifiers -> FinStates]]
      /\ popped' \in [Attempts -> [Verifiers -> Seq(Nonces)]]
  <2>1. ASSUME NEW c \in Attempts, NEW w \in Verifiers
        PROVE  /\ sign'[c][w] \in SignStates /\ fin'[c][w] \in FinStates
               /\ held'[c][w] \in Seq(Nonces) /\ popped'[c][w] \in Seq(Nonces)
    <3>1. /\ sign[c][w] \in SignStates /\ fin[c][w] \in FinStates
          /\ held[c][w] \in Seq(Nonces) /\ popped[c][w] \in Seq(Nonces)
      BY <1>0
    <3>2. "failed" \in SignStates /\ "failed" \in FinStates
      BY DEF SignStates, FinStates
    <3> QED BY <1>0, <1>4, <3>1, <3>2
  <2> QED BY <1>5, <2>1
<1>7. \A c \in Attempts, w \in Verifiers :
         /\ HeldOk(sign'[c][w], held'[c][w]) /\ PoppedOk(fin'[c][w], popped'[c][w])
         /\ sign'[c][w] # "none" => sign[c][w] # "none"
         /\ fin'[c][w] # "none" => fin[c][w] # "none"
  <2> SUFFICES ASSUME NEW c \in Attempts, NEW w \in Verifiers
               PROVE  /\ HeldOk(sign'[c][w], held'[c][w]) /\ PoppedOk(fin'[c][w], popped'[c][w])
                      /\ sign'[c][w] # "none" => sign[c][w] # "none"
                      /\ fin'[c][w] # "none" => fin[c][w] # "none"
    OBVIOUS
  <2>1. CASE w # v
    <3>1. /\ sign'[c][w] = sign[c][w] /\ held'[c][w] = held[c][w]
          /\ fin'[c][w] = fin[c][w] /\ popped'[c][w] = popped[c][w]
      BY <1>4, <2>1
    <3> QED BY <3>1 DEF Base, TaskInv
  <2>2. CASE w = v
    <3>1. /\ sign'[c][w] = (IF sign[c][w] \in {"open", "signing", "signed"} THEN "failed" ELSE sign[c][w])
          /\ held'[c][w] = <<>> /\ popped'[c][w] = <<>>
          /\ fin'[c][w] = (IF fin[c][w] \in {"verified", "signed"} THEN "failed" ELSE fin[c][w])
      BY <1>4, <2>2
    <3>2. sign'[c][w] \notin {"signing", "signed"}
      BY <3>1
    <3> QED BY <3>1, <3>2 DEF HeldOk, PoppedOk
  <2> QED BY <2>1, <2>2
<1>8. SigningTypeOK'
  BY <1>1, <1>2, <1>3, <1>6 DEF Base, SigningTypeOK, aggregator, db
<1>9. TaskInv'
  BY <1>1, <1>7 DEF Base, TaskInv, aggregator, IsDeposit
<1> QED BY <1>8, <1>9 DEF Base

(* Types and tasks stay in order: what deposit_sign and deposit_finalize   *)

(* hold in memory at every await is of the size the code after it expects. *)
LEMMA BaseInvariant == Spec => []Base
<1>1. Init => Base
  <2> SUFFICES ASSUME Init PROVE Base
    OBVIOUS
  <2>1. SigningTypeOK
    <3>1. /\ \A v \in Verifiers : IsTable(sessions[v])
          /\ sessions = [v \in Verifiers |-> sessions[v]]
      BY DEF Init, IsTable, EmptyTable
    <3>2. 0 \in 0..N
      BY ConstantFacts
    <3>3. <<>> \in Seq(Nonces)
      OBVIOUS
    <3>4. partials \in SUBSET Partials
      BY DEF Init
    <3> QED BY <3>1, <3>2, <3>3, <3>4 DEF Init, SigningTypeOK, SignStates, FinStates
  <2>2. TaskInv
    BY DEF Init, TaskInv, HeldOk, PoppedOk
  <2> QED BY <2>1, <2>2 DEF Base
<1>2. Base /\ [Next]_vars => Base'
  <2> SUFFICES ASSUME Base, [Next]_vars PROVE Base'
    OBVIOUS
  <2>1. CASE UNCHANGED vars
    BY <2>1 DEF vars, aggregator, memory, tasks, db, history, Base, SigningTypeOK, TaskInv, IsDeposit
  <2>2. CASE Next
    BY <2>2, AggregatorBase, NonceGenBase, SignBase, FinalizeBase, RestartBase DEF Next
  <2> QED BY <2>1, <2>2
<1> QED BY <1>1, <1>2, PTL DEF Spec

-----------------------------------------------------------------------------
(* A nonce is at one place. *)

(* The places hold sequences of nonces. *)
LEMMA PlacesType ==
    ASSUME NEW table, IsTable(table), NEW taken \in [Attempts -> Seq(Nonces)],
           NEW kept \in [Attempts -> Seq(Nonces)]
    PROVE  \A h \in Holders : /\ Places(table, taken, kept)[h] \in Seq(Nonces)
                              /\ Len(Places(table, taken, kept)[h]) \in Nat
<1> DEFINE P == Places(table, taken, kept)
<1> SUFFICES ASSUME NEW h \in Holders PROVE P[h] \in Seq(Nonces)
  OBVIOUS
<1>0. /\ \A id \in Ids : P[<<"table", id>>] = IF id \in DOMAIN table THEN table[id] ELSE <<>>
      /\ \A a \in Attempts : P[<<"held", a>>] = taken[a] /\ P[<<"popped", a>>] = kept[a]
      /\ \/ \E id \in Ids : h = <<"table", id>>
         \/ \E a \in Attempts : h = <<"held", a>>
         \/ \E a \in Attempts : h = <<"popped", a>>
  BY DEF Places, Holders
<1> HIDE DEF P
<1>1. <<>> \in Seq(Nonces) /\ \A id \in DOMAIN table : table[id] \in Seq(Nonces)
  BY DEF IsTable
<1>2. ASSUME NEW id \in Ids, h = <<"table", id>> PROVE P[h] \in Seq(Nonces)
  BY <1>0, <1>1, <1>2
<1>3. ASSUME NEW a \in Attempts, h = <<"held", a>> \/ h = <<"popped", a>> PROVE P[h] \in Seq(Nonces)
  <2>1. P[<<"held", a>>] = taken[a] /\ P[<<"popped", a>>] = kept[a]
    BY <1>0
  <2>2. taken[a] \in Seq(Nonces) /\ kept[a] \in Seq(Nonces)
    OBVIOUS
  <2> QED BY <1>3, <2>1, <2>2
<1> QED BY <1>0, <1>2, <1>3

(* What the places of a verifier are, now and in the next state. *)
LEMMA NoncesAtFacts ==
    ASSUME Base, Base', NEW v \in Verifiers
    PROVE  /\ \A id \in Ids :
                 /\ NoncesAt(v)[<<"table", id>>] = IF id \in DOMAIN sessions[v] THEN sessions[v][id] ELSE <<>>
                 /\ NoncesAt(v)'[<<"table", id>>] = IF id \in DOMAIN sessions'[v] THEN sessions'[v][id] ELSE <<>>
           /\ \A a \in Attempts :
                 /\ NoncesAt(v)[<<"held", a>>] = held[a][v]
                 /\ NoncesAt(v)'[<<"held", a>>] = held'[a][v]
                 /\ NoncesAt(v)[<<"popped", a>>] = popped[a][v]
                 /\ NoncesAt(v)'[<<"popped", a>>] = popped'[a][v]
           /\ \A h \in Holders : /\ NoncesAt(v)[h] \in Seq(Nonces) /\ Len(NoncesAt(v)[h]) \in Nat
                                 /\ NoncesAt(v)'[h] \in Seq(Nonces) /\ Len(NoncesAt(v)'[h]) \in Nat
<1> DEFINE t1 == sessions[v]
           t2 == sessions'[v]
           x1 == [a \in Attempts |-> held[a][v]]
           x2 == [a \in Attempts |-> held'[a][v]]
           y1 == [a \in Attempts |-> popped[a][v]]
           y2 == [a \in Attempts |-> popped'[a][v]]
<1>1. NoncesAt(v) = Places(t1, x1, y1) /\ NoncesAt(v)' = Places(t2, x2, y2)
  BY DEF NoncesAt
<1>2. /\ IsTable(t1) /\ IsTable(t2)
      /\ x1 \in [Attempts -> Seq(Nonces)] /\ x2 \in [Attempts -> Seq(Nonces)]
      /\ y1 \in [Attempts -> Seq(Nonces)] /\ y2 \in [Attempts -> Seq(Nonces)]
  BY DEF Base, SigningTypeOK
<1>3. \A a \in Attempts : /\ x1[a] = held[a][v] /\ x2[a] = held'[a][v]
                          /\ y1[a] = popped[a][v] /\ y2[a] = popped'[a][v]
  OBVIOUS
<1> HIDE DEF t1, t2, x1, x2, y1, y2
<1>4. /\ \A id \in Ids : /\ Places(t1, x1, y1)[<<"table", id>>] = IF id \in DOMAIN t1 THEN t1[id] ELSE <<>>
                         /\ Places(t2, x2, y2)[<<"table", id>>] = IF id \in DOMAIN t2 THEN t2[id] ELSE <<>>
      /\ \A a \in Attempts : /\ Places(t1, x1, y1)[<<"held", a>>] = x1[a]
                             /\ Places(t2, x2, y2)[<<"held", a>>] = x2[a]
                             /\ Places(t1, x1, y1)[<<"popped", a>>] = y1[a]
                             /\ Places(t2, x2, y2)[<<"popped", a>>] = y2[a]
  BY PlacesFacts
<1>5. \A h \in Holders : /\ Places(t1, x1, y1)[h] \in Seq(Nonces) /\ Len(Places(t1, x1, y1)[h]) \in Nat
                         /\ Places(t2, x2, y2)[h] \in Seq(Nonces) /\ Len(Places(t2, x2, y2)[h]) \in Nat
  BY <1>2, PlacesType
<1> QED BY <1>1, <1>3, <1>4, <1>5 DEF t1, t2

(* A step that leaves the memory of a verifier alone. *)
LEMMA SamePlaces ==
    ASSUME PlacedInv, NEW v \in Verifiers,
           sessions'[v] = sessions[v],
           \A c \in Attempts : /\ held'[c][v] = held[c][v] /\ popped'[c][v] = popped[c][v]
                               /\ ids'[c][v] = ids[c][v],
           \A p \in partials : p \in partials',
           \A p \in partials' : p.verifier = v => p \in partials
    PROVE  Placed(NoncesAt(v)', UsedNonces(v)', Generated(v)')
<1>1. NoncesAt(v)' = NoncesAt(v)
  BY DEF NoncesAt
<1>2. UsedNonces(v)' = UsedNonces(v)
  BY DEF UsedNonces
<1>3. Generated(v)' = Generated(v)
  BY DEF Generated, Nonces
<1> QED BY <1>1, <1>2, <1>3 DEF PlacedInv

(* A step at verifier v keeps what the other verifiers hold in place. *)
LEMMA PlacedAt ==
    ASSUME PlacedInv, NEW v \in Verifiers,
           \A w \in Verifiers \ {v} : sessions'[w] = sessions[w],
           \A c \in Attempts, w \in Verifiers :
              ids'[c][w] = ids[c][w] /\ (w # v => held'[c][w] = held[c][w] /\ popped'[c][w] = popped[c][w]),
           partials \subseteq partials',
           \A p \in partials' : p \in partials \/ p.verifier = v,
           Placed(NoncesAt(v)', UsedNonces(v)', Generated(v))
    PROVE  PlacedInv'
<1>1. Generated(v)' = Generated(v)
  BY DEF Generated, Nonces
<1>2. ASSUME NEW w \in Verifiers, w # v PROVE Placed(NoncesAt(w)', UsedNonces(w)', Generated(w)')
  <2>1. /\ sessions'[w] = sessions[w]
        /\ \A c \in Attempts : /\ held'[c][w] = held[c][w] /\ popped'[c][w] = popped[c][w]
                               /\ ids'[c][w] = ids[c][w]
        /\ \A p \in partials : p \in partials'
        /\ \A p \in partials' : p.verifier = w => p \in partials
    BY <1>2
  <2> QED BY <2>1, SamePlaces
<1> QED BY <1>1, <1>2 DEF PlacedInv

(* What the places have lost, from what the lists of nonces have lost. *)
LEMMA BeginsAt ==
    ASSUME Base, Base', NEW v \in Verifiers, NEW X,
           \A id \in Ids : <<"table", id>> \notin X /\ id \in DOMAIN sessions'[v] =>
              id \in DOMAIN sessions[v] /\ Begins(sessions'[v][id], sessions[v][id]),
           \A c \in Attempts : <<"held", c>> \notin X => Begins(held'[c][v], held[c][v]),
           \A c \in Attempts : <<"popped", c>> \notin X => Begins(popped'[c][v], popped[c][v])
    PROVE  \A h \in Holders \ X : Begins(NoncesAt(v)'[h], NoncesAt(v)[h])
<1> DEFINE H == NoncesAt(v)
           H2 == NoncesAt(v)'
<1>1. ASSUME NEW id \in Ids, <<"table", id>> \notin X PROVE Begins(H2[<<"table", id>>], H[<<"table", id>>])
  <2>1. /\ H[<<"table", id>>] = IF id \in DOMAIN sessions[v] THEN sessions[v][id] ELSE <<>>
        /\ H2[<<"table", id>>] = IF id \in DOMAIN sessions'[v] THEN sessions'[v][id] ELSE <<>>
    BY NoncesAtFacts
  <2>2. Len(H[<<"table", id>>]) \in Nat
    BY NoncesAtFacts, HolderKinds
  <2>3. CASE id \in DOMAIN sessions'[v]
    BY <1>1, <2>1, <2>3
  <2>4. CASE id \notin DOMAIN sessions'[v]
    <3>1. H2[<<"table", id>>] = <<>>
      BY <2>1, <2>4
    <3> QED BY <2>2, <3>1 DEF Begins
  <2> QED BY <2>3, <2>4
<1>2. ASSUME NEW c \in Attempts
      PROVE  /\ <<"held", c>> \notin X => Begins(H2[<<"held", c>>], H[<<"held", c>>])
             /\ <<"popped", c>> \notin X => Begins(H2[<<"popped", c>>], H[<<"popped", c>>])
  <2>1. /\ H[<<"held", c>>] = held[c][v] /\ H2[<<"held", c>>] = held'[c][v]
        /\ H[<<"popped", c>>] = popped[c][v] /\ H2[<<"popped", c>>] = popped'[c][v]
    BY NoncesAtFacts
  <2> QED BY <2>1
<1> HIDE DEF H, H2
<1>3. ASSUME NEW h \in Holders \ X PROVE Begins(H2[h], H[h])
  <2>1. CASE \E id \in Ids : h = <<"table", id>>
    BY <1>1, <1>3, <2>1
  <2>2. CASE \E c \in Attempts : h = <<"held", c>> \/ h = <<"popped", c>>
    BY <1>2, <1>3, <2>2
  <2> QED BY <2>1, <2>2, HolderKinds
<1> QED BY <1>3 DEF H, H2

(* What Begins holds of. *)
LEMMA BeginsFacts ==
    ASSUME NEW s \in Seq(Nonces)
    PROVE  Begins(s, s) /\ Begins(<<>>, s) /\ (s # <<>> => Begins(Front(s), s))
<1>1. s # <<>> => /\ Len(s) \in Nat \ {0} /\ Len(Front(s)) = Len(s) - 1
                  /\ \A i \in 1..(Len(s) - 1) : Front(s)[i] = s[i]
  BY FrontFacts
<1>2. s # <<>> => Begins(Front(s), s)
  BY <1>1 DEF Begins
<1> QED BY <1>2 DEF Begins

(* nonce_gen: nonces that were not there before. *)
LEMMA NonceGenPlaced ==
    ASSUME Base, Base', PlacedInv, NEW a \in Attempts, NEW v \in Verifiers, NEW id \in Ids,
           NonceGen(a, v, id)
    PROVE  PlacedInv'
<1> DEFINE s == [i \in 1..NumNonces(a) |-> <<a, i>>]
           g == <<"table", id>>
           H == NoncesAt(v)
           H2 == NoncesAt(v)'
<1>1. s \in Seq(Nonces) /\ Len(s) \in Nat /\ \A i \in 1..Len(s) : s[i] = <<a, i>> /\ s[i] \in Nonces
  <2>1. s \in Seq(Nonces) /\ Len(s) = NumNonces(a) /\ NumNonces(a) \in Nat
    BY NewNonces, ConstantFacts DEF Base
  <2>2. \A i \in 1..NumNonces(a) : s[i] = <<a, i>>
    OBVIOUS
  <2> HIDE DEF s
  <2> QED BY <2>1, <2>2
<1>2. /\ AddSession(v, id, s) /\ ids' = [ids EXCEPT ![a][v] = id] /\ ids[a][v] = None
      /\ UNCHANGED <<held, popped, partials>>
  BY DEF NonceGen, tasks, history
<1>3. /\ \A c \in Attempts, w \in Verifiers : ids'[c][w] = IF c = a /\ w = v THEN id ELSE ids[c][w]
      /\ id # None
  <2>1. ids \in [Attempts -> [Verifiers -> Ids \cup {None}]]
    BY DEF Base, SigningTypeOK
  <2> QED BY <1>2, <2>1, ConstantFacts
<1> HIDE DEF s
<1>4. /\ \A w \in Verifiers \ {v} : sessions'[w] = sessions[w]
      /\ id \in DOMAIN sessions'[v] /\ sessions'[v][id] = s
      /\ \A i \in DOMAIN sessions'[v] \ {id} : i \in DOMAIN sessions[v] /\ sessions'[v][i] = sessions[v][i]
  BY <1>1, <1>2, AddFacts DEF Base
<1>5. ASSUME NEW w \in Verifiers, w # v PROVE Placed(NoncesAt(w)', UsedNonces(w)', Generated(w)')
  <2>1. /\ sessions'[w] = sessions[w] /\ partials' = partials
        /\ \A c \in Attempts : /\ held'[c][w] = held[c][w] /\ popped'[c][w] = popped[c][w]
                               /\ ids'[c][w] = ids[c][w]
    BY <1>2, <1>3, <1>4, <1>5
  <2> QED BY <2>1, SamePlaces
<1>6. H2[g] = s /\ \A f \in Holders \ {g} : H2[f] = H[f] \/ H2[f] = <<>>
  <2>1. H2[g] = s
    BY <1>4, NoncesAtFacts
  <2>2. ASSUME NEW i \in Ids, i # id PROVE H2[<<"table", i>>] \in {H[<<"table", i>>], <<>>}
    <3>1. /\ H[<<"table", i>>] = IF i \in DOMAIN sessions[v] THEN sessions[v][i] ELSE <<>>
          /\ H2[<<"table", i>>] = IF i \in DOMAIN sessions'[v] THEN sessions'[v][i] ELSE <<>>
      BY NoncesAtFacts
    <3> QED BY <1>4, <2>2, <3>1
  <2>3. ASSUME NEW c \in Attempts
        PROVE  H2[<<"held", c>>] = H[<<"held", c>>] /\ H2[<<"popped", c>>] = H[<<"popped", c>>]
    <3>1. /\ H[<<"held", c>>] = held[c][v] /\ H2[<<"held", c>>] = held'[c][v]
          /\ H[<<"popped", c>>] = popped[c][v] /\ H2[<<"popped", c>>] = popped'[c][v]
      BY NoncesAtFacts
    <3> QED BY <1>2, <3>1
  <2> HIDE DEF H, H2
  <2>4. ASSUME NEW f \in Holders \ {g} PROVE H2[f] = H[f] \/ H2[f] = <<>>
    <3>1. CASE \E i \in Ids : f = <<"table", i>>
      BY <2>2, <2>4, <3>1
    <3>2. CASE \E c \in Attempts : f = <<"held", c>> \/ f = <<"popped", c>>
      BY <2>3, <3>2
    <3> QED BY <3>1, <3>2, HolderKinds
  <2> QED BY <2>1, <2>4
<1>7. \A h \in Holders : Len(H[h]) \in Nat /\ Len(H2[h]) \in Nat
  BY NoncesAtFacts
<1>8. UsedNonces(v)' = UsedNonces(v) /\ Placed(H, UsedNonces(v), Generated(v)) /\ g \in Holders
  BY <1>2 DEF UsedNonces, PlacedInv, Holders
<1>9. Generated(v) \subseteq Generated(v)' /\ \A i \in 1..Len(s) : s[i] \in Generated(v)' \ Generated(v)
  BY <1>1, <1>2, <1>3 DEF Generated, Nonces
<1> HIDE DEF H, H2, g
<1>10. Placed(H2, UsedNonces(v), Generated(v)')
  <2>1. \A f \in Holders \ {g} : Begins(H2[f], H[f])
    BY <1>6, <1>7 DEF Begins
  <2>2. \A i, k \in 1..Len(H2[g]) : H2[g][i] = H2[g][k] => i = k
    BY <1>1, <1>6
  <2>3. \A i \in 1..Len(H2[g]) : H2[g][i] \in Generated(v)' \ Generated(v)
    BY <1>6, <1>9
  <2> QED BY <1>8, <1>9, <2>1, <2>2, <2>3, PlacedAdd
<1> QED BY <1>5, <1>8, <1>10 DEF PlacedInv, H2

(* The types of one verifier's memory, and of its places. *)
LEMMA MemoryTypes ==
    ASSUME Base, NEW a \in Attempts, NEW v \in Verifiers
    PROVE  /\ \A c \in Attempts : held[c][v] \in Seq(Nonces) /\ popped[c][v] \in Seq(Nonces)
           /\ DOMAIN sessions[v] \subseteq Ids
           /\ \A id \in DOMAIN sessions[v] : sessions[v][id] \in Seq(Nonces)
           /\ calls[a][v] \in Ids \cup {None}
           /\ held = [c \in Attempts |-> [w \in Verifiers |-> held[c][w]]]
           /\ popped = [c \in Attempts |-> [w \in Verifiers |-> popped[c][w]]]
           /\ ids = [c \in Attempts |-> [w \in Verifiers |-> ids[c][w]]]
           /\ partials \in SUBSET Partials
<1>1. IsTable(sessions[v])
  BY DEF Base, SigningTypeOK
<1> QED BY <1>1 DEF Base, SigningTypeOK, IsTable

(* The spawned task of deposit_sign takes the session, in reverse. *)
LEMMA TakeSessionPlaced ==
    ASSUME Base, Base', PlacedInv, NEW a \in Attempts, NEW v \in Verifiers, TakeSession(a, v)
    PROVE  PlacedInv'
<1> DEFINE id == calls[a][v]
           s == sessions[v][id]
           g == <<"held", a>>
           h == <<"table", id>>
           H == NoncesAt(v)
           H2 == NoncesAt(v)'
<1>0. popped' = popped /\ partials' = partials /\ ids' = ids /\ sign[a][v] = "open"
  BY DEF TakeSession, aggregator, history
<1>1. CASE id \notin DOMAIN sessions[v]
  <2>1. sessions' = sessions /\ held' = held
    BY <1>1 DEF TakeSession, memory
  <2>2. Placed(NoncesAt(v)', UsedNonces(v)', Generated(v)')
    BY <1>0, <2>1, SamePlaces
  <2>3. Generated(v)' = Generated(v)
    BY <1>0 DEF Generated
  <2> QED BY <1>0, <2>1, <2>2, <2>3, PlacedAt
<1>2. CASE id \in DOMAIN sessions[v]
  <2>1. s \in Seq(Nonces) /\ Len(s) \in Nat /\ id \in Ids
    BY <1>2, MemoryTypes
  <2>2. /\ \A w \in Verifiers \ {v} : sessions'[w] = sessions[w]
        /\ DOMAIN sessions'[v] = DOMAIN sessions[v] \ {id}
        /\ \A i \in DOMAIN sessions'[v] : sessions'[v][i] = sessions[v][i]
    BY <1>2, RemoveFacts DEF TakeSession, Base
  <2>3. \A c \in Attempts, w \in Verifiers : c # a \/ w # v => held'[c][w] = held[c][w]
    BY <1>2, MemoryTypes DEF TakeSession
  <2>4. \/ held' = held
        \/ held'[a][v] = Reverse(s)
    BY <1>2, MemoryTypes DEF TakeSession
  <2>5. held[a][v] = <<>>
    BY <1>0 DEF Base, TaskInv, HeldOk
  <2>6. /\ \A c \in Attempts : held[c][v] \in Seq(Nonces) /\ popped[c][v] \in Seq(Nonces)
        /\ \A i \in DOMAIN sessions[v] : sessions[v][i] \in Seq(Nonces)
    BY MemoryTypes
  <2>7. \A f \in Holders \ {g} : Begins(H2[f], H[f])
    <3>1. \A i \in DOMAIN sessions'[v] : i \in DOMAIN sessions[v] /\ Begins(sessions'[v][i], sessions[v][i])
      BY <2>2, <2>6, BeginsFacts
    <3>2. \A c \in Attempts : <<"held", c>> # g => Begins(held'[c][v], held[c][v])
      BY <2>3, <2>6, BeginsFacts
    <3>3. \A c \in Attempts : Begins(popped'[c][v], popped[c][v])
      BY <1>0, <2>6, BeginsFacts
    <3> QED BY <3>1, <3>2, <3>3, BeginsAt
  <2>8. /\ H[h] = s /\ H2[h] = <<>> /\ H2[g] = held'[a][v] /\ H[g] = <<>>
        /\ g \in Holders /\ h \in Holders /\ g # h
    BY <1>2, <2>1, <2>2, <2>5, NoncesAtFacts, HolderKinds
  <2>9. Placed(H, UsedNonces(v), Generated(v)) /\ UsedNonces(v)' = UsedNonces(v)
    BY <1>0 DEF PlacedInv, UsedNonces
  <2>10. Placed(H2, UsedNonces(v), Generated(v))
    <3>1. CASE held' = held
      <4>1. Begins(H2[g], H[g])
        BY <2>5, <2>8, <3>1 DEF Begins
      <4>2. \A f \in Holders : Begins(H2[f], H[f])
        BY <2>7, <4>1
      <4> HIDE DEF H, H2
      <4> QED BY <2>9, <4>2, PlacedShrink
    <3>2. CASE held'[a][v] = Reverse(s)
      <4> DEFINE L == Len(s)
                 j == [i \in 1..Len(H2[g]) |-> L - i + 1]
      <4>1. Len(H2[g]) = L /\ L \in Nat /\ \A i \in 1..L : H2[g][i] = s[L - i + 1]
        <5>1. Len(Reverse(s)) = L /\ L \in Nat /\ \A i \in 1..L : Reverse(s)[i] = s[L - i + 1]
          BY <2>1, ReverseFacts
        <5>2. H2[g] = Reverse(s)
          BY <2>8, <3>2
        <5> HIDE DEF H2, g, s, L
        <5> QED BY <5>1, <5>2
      <4> HIDE DEF L
      <4>2. Len(H[h]) = L /\ Len(H2[h]) = 0
        BY <2>8 DEF L
      <4>3. j \in [1..Len(H2[g]) -> 1..Len(H[h])]
        BY <4>1, <4>2
      <4>4. \A i, k \in 1..Len(H2[g]) : j[i] = j[k] => i = k
        BY <4>1
      <4>5. \A i \in 1..Len(H2[g]) : j[i] > Len(H2[h]) /\ H2[g][i] = H[h][j[i]]
        BY <2>8, <4>1, <4>2
      <4> DEFINE U == UsedNonces(v)
                 G == Generated(v)
      <4>6. /\ Placed(H, U, G) /\ g \in Holders /\ h \in Holders /\ g # h
            /\ \A f \in Holders \ {g} : Begins(H2[f], H[f])
        BY <2>7, <2>8, <2>9
      <4> HIDE DEF H, H2, g, h, j, U, G
      <4>7. Placed(H2, U, G)
        BY <4>3, <4>4, <4>5, <4>6, PlacedMove
      <4> QED BY <4>7 DEF U, G
    <3> QED BY <2>4, <3>1, <3>2
  <2> QED BY <1>0, <2>2, <2>3, <2>9, <2>10, PlacedAt
<1> QED BY <1>1, <1>2

(* Used nonces, after new partial signatures of one verifier. *)
LEMMA UsedFacts ==
    ASSUME Base, Base', NEW v \in Verifiers, partials \subseteq partials'
    PROVE  \A n \in UsedNonces(v)' :
              n \in UsedNonces(v) \/ \E p \in partials' \ partials : p.nonce = n
  BY DEF UsedNonces

(* Partial signatures made with unused, different nonces keep the          *)

(* property.                                                               *)
LEMMA SignsOnceStep ==
    ASSUME Base, NonceSignsOnce, NEW v \in Verifiers,
           \A p \in partials' \ partials : /\ p.verifier = v /\ p.nonce \in Nonces
                                           /\ p.nonce \notin UsedNonces(v),
           \A p, q \in partials' \ partials : p.nonce = q.nonce => p = q
    PROVE  NonceSignsOnce'
<1> SUFFICES ASSUME NEW p \in partials', NEW q \in partials', p.verifier = q.verifier, p.nonce = q.nonce
             PROVE  p = q
  BY DEF NonceSignsOnce
<1>1. CASE p \in partials /\ q \in partials
  BY <1>1 DEF NonceSignsOnce
<1>2. CASE p \notin partials /\ q \notin partials
  BY <1>2
<1>3. CASE p \in partials /\ q \notin partials
  BY <1>3 DEF UsedNonces
<1>4. CASE p \notin partials /\ q \in partials
  BY <1>4 DEF UsedNonces
<1> QED BY <1>1, <1>2, <1>3, <1>4

(* The next sighash is signed with the last nonce the task holds. *)
LEMMA SignNextPlaced ==
    ASSUME Base, Base', PlacedInv, NonceSignsOnce, NEW a \in Attempts, NEW v \in Verifiers,
           SignNext(a, v)
    PROVE  PlacedInv' /\ NonceSignsOnce'
<1> DEFINE s == held[a][v]
           k == N + 3 - Len(s)
           h == <<"held", a>>
           H == NoncesAt(v)
           H2 == NoncesAt(v)'
           new == Partial(a, v, Last(s), k)
<1>1. /\ sign[a][v] = "signing" /\ held' = [held EXCEPT ![a][v] = Front(s)]
      /\ partials' = partials \cup {new}
      /\ popped' = popped /\ sessions' = sessions /\ ids' = ids
  BY MemoryTypes DEF SignNext, aggregator, memory
<1>2. s \in Seq(Nonces) /\ s # <<>>
  BY <1>1, MemoryTypes DEF Base, TaskInv, HeldOk
<1>3. /\ Len(s) \in Nat \ {0} /\ Len(Front(s)) = Len(s) - 1
      /\ Last(s) \in Nonces /\ Last(s) = s[Len(s)] /\ Begins(Front(s), s)
  BY <1>2, FrontFacts, BeginsFacts
<1>4. \A c \in Attempts, w \in Verifiers :
         held'[c][w] = IF c = a /\ w = v THEN Front(s) ELSE held[c][w]
  BY <1>1, MemoryTypes
<1>5. H[h] = s /\ H2[h] = Front(s) /\ h \in Holders
  BY <1>4, NoncesAtFacts, HolderKinds
<1>6. \A f \in Holders : Begins(H2[f], H[f])
  <2>1. /\ \A c \in Attempts : held[c][v] \in Seq(Nonces) /\ popped[c][v] \in Seq(Nonces)
        /\ \A i \in DOMAIN sessions[v] : sessions[v][i] \in Seq(Nonces)
    BY MemoryTypes
  <2>2. \A i \in DOMAIN sessions'[v] : i \in DOMAIN sessions[v] /\ Begins(sessions'[v][i], sessions[v][i])
    BY <1>1, <2>1, BeginsFacts
  <2>3. \A c \in Attempts : Begins(held'[c][v], held[c][v])
    BY <1>3, <1>4, <2>1, BeginsFacts
  <2>4. \A c \in Attempts : Begins(popped'[c][v], popped[c][v])
    BY <1>1, <2>1, BeginsFacts
  <2>5. \A f \in Holders \ {} : Begins(H2[f], H[f])
    BY <2>2, <2>3, <2>4, BeginsAt
  <2> QED BY <2>5
<1>7. new.verifier = v /\ new.nonce = Last(s)
  BY DEF Partial
<1>8. Last(s) \notin UsedNonces(v) /\ Placed(H, UsedNonces(v), Generated(v))
  <2>1. Placed(H, UsedNonces(v), Generated(v)) /\ Len(s) \in 1..Len(H[h])
    BY <1>3, <1>5 DEF PlacedInv
  <2> HIDE DEF H, h
  <2> QED BY <1>3, <1>5, <2>1 DEF Placed
<1> HIDE DEF new
<1>9. Placed(H2, UsedNonces(v)', Generated(v))
  <2>1. \A n \in UsedNonces(v)' : n \in UsedNonces(v) \/ n = Last(s)
    BY <1>1, <1>7, UsedFacts
  <2>2. Len(s) \in 1..Len(H[h]) /\ Len(s) > Len(H2[h]) /\ Last(s) = H[h][Len(s)]
    BY <1>3, <1>5
  <2> HIDE DEF H, H2, h, s
  <2> QED BY <1>5, <1>6, <1>8, <2>1, <2>2, PlacedShrink
<1>10. PlacedInv'
  BY <1>1, <1>4, <1>7, <1>9, PlacedAt
<1>11. NonceSignsOnce'
  BY <1>1, <1>3, <1>7, <1>8, SignsOnceStep
<1> QED BY <1>10, <1>11

(* The two nonces that are left go back to the table; others may go. *)
LEMMA PutBackPlaced ==
    ASSUME Base, Base', PlacedInv, NEW a \in Attempts, NEW v \in Verifiers, PutBack(a, v)
    PROVE  PlacedInv'
<1> DEFINE id == calls[a][v]
           s == held[a][v]
           g == <<"table", id>>
           h == <<"held", a>>
           H == NoncesAt(v)
           H2 == NoncesAt(v)'
<1>1. /\ sign[a][v] = "signed" /\ held' = [held EXCEPT ![a][v] = <<>>]
      /\ popped' = popped /\ partials' = partials /\ ids' = ids
      /\ AddSession(v, id, s)
  BY DEF PutBack, aggregator, history
<1>2. id \in Ids /\ s \in Seq(Nonces) /\ Len(s) \in Nat
  BY <1>1, MemoryTypes DEF Base, TaskInv
<1>3. /\ \A w \in Verifiers \ {v} : sessions'[w] = sessions[w]
      /\ id \in DOMAIN sessions'[v] /\ sessions'[v][id] = s
      /\ \A i \in DOMAIN sessions'[v] \ {id} : i \in DOMAIN sessions[v] /\ sessions'[v][i] = sessions[v][i]
  BY <1>1, <1>2, AddFacts DEF Base
<1>4. \A c \in Attempts, w \in Verifiers :
         held'[c][w] = IF c = a /\ w = v THEN <<>> ELSE held[c][w]
  BY <1>1, MemoryTypes
<1>5. /\ H[h] = s /\ H2[h] = <<>> /\ H2[g] = s
      /\ g \in Holders /\ h \in Holders /\ g # h
  <2>1. H2[g] = IF id \in DOMAIN sessions'[v] THEN sessions'[v][id] ELSE <<>>
    BY <1>2, NoncesAtFacts
  <2>2. H[h] = held[a][v] /\ H2[h] = held'[a][v]
    BY NoncesAtFacts
  <2> QED BY <1>2, <1>3, <1>4, <2>1, <2>2, HolderKinds
<1>6. \A f \in Holders \ {g} : Begins(H2[f], H[f])
  <2>1. /\ \A c \in Attempts : held[c][v] \in Seq(Nonces) /\ popped[c][v] \in Seq(Nonces)
        /\ \A i \in DOMAIN sessions[v] : sessions[v][i] \in Seq(Nonces)
    BY MemoryTypes
  <2>2. \A i \in DOMAIN sessions'[v] : <<"table", i>> # g =>
           i \in DOMAIN sessions[v] /\ Begins(sessions'[v][i], sessions[v][i])
    BY <1>3, <2>1, BeginsFacts
  <2>3. \A c \in Attempts : Begins(held'[c][v], held[c][v])
    BY <1>4, <2>1, BeginsFacts
  <2>4. \A c \in Attempts : Begins(popped'[c][v], popped[c][v])
    BY <1>1, <2>1, BeginsFacts
  <2> QED BY <2>2, <2>3, <2>4, BeginsAt
<1>7. Placed(H, UsedNonces(v), Generated(v)) /\ UsedNonces(v)' = UsedNonces(v)
  BY <1>1 DEF PlacedInv, UsedNonces
<1>8. Placed(H2, UsedNonces(v), Generated(v))
  <2> DEFINE L == Len(s)
             j == [i \in 1..Len(H2[g]) |-> i]
  <2>1. Len(H2[g]) = L /\ L \in Nat /\ Len(H[h]) = L /\ Len(H2[h]) = 0
    BY <1>2, <1>5
  <2>2. j \in [1..Len(H2[g]) -> 1..Len(H[h])]
    BY <2>1
  <2>3. \A i, k \in 1..Len(H2[g]) : j[i] = j[k] => i = k
    OBVIOUS
  <2>4. \A i \in 1..Len(H2[g]) : j[i] > Len(H2[h]) /\ H2[g][i] = H[h][j[i]]
    BY <1>5, <2>1
  <2> HIDE DEF H, H2, g, h, j
  <2> QED BY <1>5, <1>6, <1>7, <2>2, <2>3, <2>4, PlacedMove
<1> QED BY <1>1, <1>3, <1>4, <1>7, <1>8, PlacedAt

(* What the places see of a nonce popped from the table. *)
LEMMA PopPlaces ==
    ASSUME Base, Base', PlacedInv, NEW a \in Attempts, NEW v \in Verifiers,
           HasNonce(v, calls[a][v]), PopNonce(v, calls[a][v])
    PROVE  LET id == calls[a][v]
               s == sessions[v][id]
               h == <<"table", id>>
           IN /\ id \in Ids /\ h \in Holders /\ s \in Seq(Nonces)
              /\ NoncesAt(v)[h] = s /\ NoncesAt(v)'[h] = Front(s)
              /\ Len(s) \in Nat \ {0} /\ Len(Front(s)) = Len(s) - 1
              /\ Last(s) \in Nonces /\ Last(s) = s[Len(s)] /\ Last(s) \notin UsedNonces(v)
              /\ \A w \in Verifiers \ {v} : sessions'[w] = sessions[w]
              /\ \A i \in DOMAIN sessions'[v] :
                    i \in DOMAIN sessions[v] /\ Begins(sessions'[v][i], sessions[v][i])
<1> DEFINE id == calls[a][v]
           s == sessions[v][id]
           h == <<"table", id>>
           H == NoncesAt(v)
<1>1. /\ \A w \in Verifiers \ {v} : sessions'[w] = sessions[w]
      /\ DOMAIN sessions'[v] = DOMAIN sessions[v]
      /\ \A i \in DOMAIN sessions[v] \ {id} : sessions'[v][i] = sessions[v][i]
      /\ id \in DOMAIN sessions[v] /\ s \in Seq(Nonces) /\ s # <<>>
      /\ sessions'[v][id] = Front(s) /\ Last(s) \in Nonces
  BY PopFacts DEF Base
<1>2. id \in Ids /\ \A i \in DOMAIN sessions[v] : sessions[v][i] \in Seq(Nonces)
  BY <1>1, MemoryTypes
<1>3. /\ Len(s) \in Nat \ {0} /\ Len(Front(s)) = Len(s) - 1 /\ Last(s) = s[Len(s)]
      /\ Begins(Front(s), s)
  BY <1>1, FrontFacts, BeginsFacts
<1>4. /\ NoncesAt(v)[h] = IF id \in DOMAIN sessions[v] THEN sessions[v][id] ELSE <<>>
      /\ NoncesAt(v)'[h] = IF id \in DOMAIN sessions'[v] THEN sessions'[v][id] ELSE <<>>
  BY <1>2, NoncesAtFacts
<1>5. NoncesAt(v)[h] = s /\ NoncesAt(v)'[h] = Front(s) /\ h \in Holders
  BY <1>1, <1>2, <1>4, HolderKinds
<1>6. \A i \in DOMAIN sessions'[v] :
         i \in DOMAIN sessions[v] /\ Begins(sessions'[v][i], sessions[v][i])
  BY <1>1, <1>2, <1>3, BeginsFacts
<1>7. Last(s) \notin UsedNonces(v)
  <2>1. Placed(H, UsedNonces(v), Generated(v)) /\ Len(s) \in 1..Len(H[h])
    BY <1>3, <1>5 DEF PlacedInv
  <2>2. H[h] = s
    BY <1>5
  <2> HIDE DEF H, h, s
  <2> QED BY <1>3, <1>5, <2>1, <2>2 DEF Placed
<1> HIDE DEF s, h
<1> QED BY <1>1, <1>2, <1>3, <1>5, <1>6, <1>7 DEF s, h

(* sign_optimistic_payout signs with the last nonce of its session. *)
LEMMA SignPayoutPlaced ==
    ASSUME Base, Base', PlacedInv, NonceSignsOnce, NEW a \in Attempts, NEW v \in Verifiers,
           SignPayout(a, v)
    PROVE  PlacedInv' /\ NonceSignsOnce'
<1> DEFINE id == calls[a][v]
           s == sessions[v][id]
           h == <<"table", id>>
           H == NoncesAt(v)
           H2 == NoncesAt(v)'
           new == Partial(a, v, Last(s), 1)
<1>0. held' = held /\ popped' = popped /\ ids' = ids
  BY DEF SignPayout, aggregator
<1>1. CASE ~HasNonce(v, id)
  <2>1. sessions' = sessions /\ partials' = partials
    BY <1>1 DEF SignPayout, memory
  <2>2. PlacedInv'
    BY <1>0, <2>1, SamePlaces DEF PlacedInv
  <2> QED BY <2>1, <2>2 DEF NonceSignsOnce
<1>2. CASE HasNonce(v, id)
  <2>1. PopNonce(v, id) /\ partials' = partials \cup {new}
    BY <1>2 DEF SignPayout
  <2>2. /\ h \in Holders /\ s \in Seq(Nonces) /\ H[h] = s /\ H2[h] = Front(s)
        /\ Len(s) \in Nat \ {0} /\ Len(Front(s)) = Len(s) - 1
        /\ Last(s) \in Nonces /\ Last(s) = s[Len(s)] /\ Last(s) \notin UsedNonces(v)
        /\ \A w \in Verifiers \ {v} : sessions'[w] = sessions[w]
        /\ \A i \in DOMAIN sessions'[v] :
              i \in DOMAIN sessions[v] /\ Begins(sessions'[v][i], sessions[v][i])
    BY <1>2, <2>1, PopPlaces
  <2>3. \A f \in Holders : Begins(H2[f], H[f])
    <3>1. \A c \in Attempts : Begins(held'[c][v], held[c][v]) /\ Begins(popped'[c][v], popped[c][v])
      BY <1>0, MemoryTypes, BeginsFacts
    <3>2. \A f \in Holders \ {} : Begins(H2[f], H[f])
      BY <2>2, <3>1, BeginsAt
    <3> QED BY <3>2
  <2>4. new.verifier = v /\ new.nonce = Last(s)
    BY DEF Partial
  <2> HIDE DEF new
  <2>5. Placed(H2, UsedNonces(v)', Generated(v))
    <3>1. \A n \in UsedNonces(v)' : n \in UsedNonces(v) \/ n = Last(s)
      BY <2>1, <2>4, UsedFacts
    <3>3. Placed(H, UsedNonces(v), Generated(v)) /\ h \in Holders
      BY <2>2 DEF PlacedInv
    <3> HIDE DEF H, H2, h, s
    <3>2. Len(s) \in 1..Len(H[h]) /\ Len(s) > Len(H2[h]) /\ Last(s) = H[h][Len(s)]
      BY <2>2
    <3> QED BY <2>3, <3>1, <3>2, <3>3, PlacedShrink
  <2>6. PlacedInv'
    BY <1>0, <2>1, <2>2, <2>4, <2>5, PlacedAt
  <2>7. NonceSignsOnce'
    BY <2>1, <2>2, <2>4, SignsOnceStep
  <2> QED BY <2>6, <2>7
<1> QED BY <1>1, <1>2

(* deposit_finalize pops two nonces, one after the other, and signs when   *)

(* it has both.                                                            *)
LEMMA PopFinalPlaced ==
    ASSUME Base, Base', PlacedInv, NonceSignsOnce, NEW a \in Attempts, NEW v \in Verifiers,
           PopFinalNonce(a, v)
    PROVE  PlacedInv' /\ NonceSignsOnce'
<1> DEFINE id == calls[a][v]
           s == sessions[v][id]
           g == <<"popped", a>>
           h == <<"table", id>>
           H == NoncesAt(v)
           H2 == NoncesAt(v)'
<1>0. /\ held' = held /\ ids' = ids /\ Placed(H, UsedNonces(v), Generated(v)) /\ g \in Holders
      /\ H[g] = popped[a][v] /\ H2[g] = popped'[a][v] /\ popped[a][v] \in Seq(Nonces)
  <2>1. held' = held /\ ids' = ids
    BY DEF PopFinalNonce, aggregator
  <2>2. Placed(H, UsedNonces(v), Generated(v)) /\ g \in Holders
    BY HolderKinds DEF PlacedInv
  <2> QED BY <2>1, <2>2, NoncesAtFacts, MemoryTypes
<1>1. \A c \in Attempts, w \in Verifiers : c # a \/ w # v => popped'[c][w] = popped[c][w]
  BY MemoryTypes DEF PopFinalNonce
<1>2. \A c \in Attempts : /\ Begins(held'[c][v], held[c][v])
                          /\ c # a => Begins(popped'[c][v], popped[c][v])
  BY <1>0, <1>1, MemoryTypes, BeginsFacts
<1>3. CASE ~HasNonce(v, id)
  <2>1. sessions' = sessions /\ partials' = partials /\ popped'[a][v] = <<>>
    BY <1>3, MemoryTypes DEF PopFinalNonce, memory
  <2>2. \A i \in DOMAIN sessions'[v] : i \in DOMAIN sessions[v] /\ Begins(sessions'[v][i], sessions[v][i])
    BY <2>1, MemoryTypes, BeginsFacts
  <2>3. \A c \in Attempts : Begins(popped'[c][v], popped[c][v])
    BY <1>0, <1>2, <2>1, BeginsFacts
  <2>4. \A f \in Holders \ {} : Begins(H2[f], H[f])
    BY <1>2, <2>2, <2>3, BeginsAt
  <2>5. UsedNonces(v)' = UsedNonces(v)
    BY <2>1 DEF UsedNonces
  <2>6. Placed(H2, UsedNonces(v), Generated(v))
    <3> HIDE DEF H, H2
    <3> QED BY <1>0, <2>4, PlacedShrink
  <2>7. PlacedInv'
    BY <1>0, <1>1, <2>1, <2>5, <2>6, PlacedAt
  <2> QED BY <2>1, <2>7 DEF NonceSignsOnce
<1>4. CASE HasNonce(v, id)
  <2>0. PopNonce(v, id)
    BY <1>4 DEF PopFinalNonce
  <2>1. /\ h \in Holders /\ s \in Seq(Nonces) /\ H[h] = s /\ H2[h] = Front(s)
        /\ Len(s) \in Nat \ {0} /\ Len(Front(s)) = Len(s) - 1
        /\ Last(s) \in Nonces /\ Last(s) = s[Len(s)] /\ Last(s) \notin UsedNonces(v)
        /\ \A w \in Verifiers \ {v} : sessions'[w] = sessions[w]
        /\ \A i \in DOMAIN sessions'[v] :
              i \in DOMAIN sessions[v] /\ Begins(sessions'[v][i], sessions[v][i])
    BY <1>4, <2>0, PopPlaces
  <2>2. g # h
    BY HolderKinds
  <2>3. CASE popped[a][v] = <<>>
    <3>1. partials' = partials /\ popped'[a][v] = <<Last(s)>>
      BY <1>4, <2>3, MemoryTypes DEF PopFinalNonce
    <3>2. \A f \in Holders \ {g} : Begins(H2[f], H[f])
      BY <1>2, <2>1, BeginsAt
    <3>3. UsedNonces(v)' = UsedNonces(v)
      BY <3>1 DEF UsedNonces
    <3>4. Placed(H2, UsedNonces(v), Generated(v))
      <4> DEFINE L == Len(s)
                 j == [i \in 1..Len(H2[g]) |-> L]
      <4> HIDE DEF H, H2, g, h, s
      <4>1. /\ Len(H2[g]) = 1 /\ L \in Nat \ {0} /\ Len(H[h]) = L /\ Len(H2[h]) = L - 1
            /\ H2[g][1] = H[h][L]
        BY <1>0, <2>1, <3>1
      <4> HIDE DEF L
      <4>2. j \in [1..Len(H2[g]) -> 1..Len(H[h])]
        BY <4>1
      <4>3. \A i, k \in 1..Len(H2[g]) : j[i] = j[k] => i = k
        BY <4>1
      <4>4. \A i \in 1..Len(H2[g]) : j[i] > Len(H2[h]) /\ H2[g][i] = H[h][j[i]]
        BY <4>1
      <4>5. Placed(H, UsedNonces(v), Generated(v)) /\ g \in Holders /\ h \in Holders
        BY <1>0, <2>1
      <4> HIDE DEF j
      <4> QED BY <2>2, <3>2, <4>2, <4>3, <4>4, <4>5, PlacedMove
    <3>5. PlacedInv'
      BY <1>0, <1>1, <2>1, <3>1, <3>3, <3>4, PlacedAt
    <3> QED BY <3>1, <3>5 DEF NonceSignsOnce
  <2>4. CASE popped[a][v] # <<>>
    <3> DEFINE x == popped[a][v][1]
               p1 == Partial(a, v, x, Move)
               p2 == Partial(a, v, Last(s), EmergencyStop)
    <3>1. partials' = partials \cup {p1, p2} /\ popped'[a][v] = <<>>
      BY <1>4, <2>4, MemoryTypes DEF PopFinalNonce
    <3>2. /\ p1.verifier = v /\ p1.nonce = x /\ p2.verifier = v /\ p2.nonce = Last(s)
      BY DEF Partial
    <3>3. Len(popped[a][v]) \in Nat /\ Len(popped[a][v]) > 0 /\ x \in Nonces
      BY <1>0, <2>4
    <3>4. x \notin UsedNonces(v) /\ x # Last(s)
      <4>1. /\ 1 \in 1..Len(H[g]) /\ H[g][1] = x
            /\ Len(s) \in 1..Len(H[h]) /\ H[h][Len(s)] = Last(s)
        BY <1>0, <2>1, <3>3
      <4> HIDE DEF H, g, h, x, s
      <4> QED BY <1>0, <2>1, <2>2, <4>1 DEF Placed
    <3>5. \A f \in Holders : Begins(H2[f], H[f])
      <4>1. Begins(popped'[a][v], popped[a][v])
        BY <1>0, <3>1, BeginsFacts
      <4>2. \A c \in Attempts : Begins(popped'[c][v], popped[c][v])
        BY <1>2, <4>1
      <4>3. \A f \in Holders \ {} : Begins(H2[f], H[f])
        BY <1>2, <2>1, <4>2, BeginsAt
      <4> QED BY <4>3
    <3> HIDE DEF p1, p2
    <3>6. Placed(H2, UsedNonces(v)', Generated(v))
      <4>1. \A n \in UsedNonces(v)' : n \in UsedNonces(v) \/ n = Last(s) \/ n = x
        BY <3>1, <3>2, UsedFacts
      <4>3. 1 \in 1..Len(H[g]) /\ 1 > Len(H2[g]) /\ x = H[g][1]
        BY <1>0, <3>1, <3>3
      <4> HIDE DEF H, H2, g, h, s, x
      <4>2. Len(s) \in 1..Len(H[h]) /\ Len(s) > Len(H2[h]) /\ Last(s) = H[h][Len(s)]
        BY <2>1
      <4> QED BY <1>0, <2>1, <3>5, <4>1, <4>2, <4>3, PlacedShrink
    <3>7. PlacedInv'
      BY <1>0, <1>1, <2>1, <3>1, <3>2, <3>6, PlacedAt
    <3>8. NonceSignsOnce'
      BY <2>1, <3>1, <3>2, <3>3, <3>4, SignsOnceStep
    <3> QED BY <3>7, <3>8
  <2> QED BY <2>3, <2>4
<1> QED BY <1>3, <1>4

(* A restart forgets the nonces of one verifier. *)
LEMMA RestartPlaced ==
    ASSUME Base, Base', PlacedInv, NEW v \in Verifiers, Restart(v)
    PROVE  PlacedInv'
<1> DEFINE H == NoncesAt(v)
           H2 == NoncesAt(v)'
<1>1. /\ sessions' = [sessions EXCEPT ![v] = EmptyTable]
      /\ held' = [a \in Attempts |-> [held[a] EXCEPT ![v] = <<>>]]
      /\ popped' = [a \in Attempts |-> [popped[a] EXCEPT ![v] = <<>>]]
      /\ ids' = ids /\ partials' = partials
  BY DEF Restart, aggregator
<1>2. /\ sessions = [w \in Verifiers |-> sessions[w]]
      /\ held \in [Attempts -> [Verifiers -> Seq(Nonces)]]
      /\ popped \in [Attempts -> [Verifiers -> Seq(Nonces)]]
  BY DEF Base, SigningTypeOK
<1>3. /\ \A w \in Verifiers \ {v} : sessions'[w] = sessions[w]
      /\ sessions'[v] = EmptyTable
  BY <1>1, <1>2
<1>4. \A c \in Attempts, w \in Verifiers :
         /\ held'[c][w] = IF w = v THEN <<>> ELSE held[c][w]
         /\ popped'[c][w] = IF w = v THEN <<>> ELSE popped[c][w]
  BY <1>1, <1>2
<1>5. DOMAIN sessions'[v] = {}
  BY <1>3 DEF EmptyTable
<1>6. \A c \in Attempts : held[c][v] \in Seq(Nonces) /\ popped[c][v] \in Seq(Nonces)
  BY <1>2
<1>7. \A c \in Attempts : Begins(held'[c][v], held[c][v]) /\ Begins(popped'[c][v], popped[c][v])
  BY <1>4, <1>6, BeginsFacts
<1>8. \A f \in Holders \ {} : Begins(H2[f], H[f])
  BY <1>5, <1>7, BeginsAt
<1>9. Placed(H, UsedNonces(v), Generated(v)) /\ UsedNonces(v)' = UsedNonces(v)
  BY <1>1 DEF PlacedInv, UsedNonces
<1>10. Placed(H2, UsedNonces(v), Generated(v))
  <2> HIDE DEF H, H2
  <2> QED BY <1>8, <1>9, PlacedShrink
<1> QED BY <1>1, <1>3, <1>4, <1>9, <1>10, PlacedAt

(* A step that touches no nonce. *)
LEMMA QuietStep ==
    ASSUME PlacedInv, NonceSignsOnce, UNCHANGED <<sessions, held, popped, ids, partials>>
    PROVE  PlacedInv' /\ NonceSignsOnce'
<1>1. PlacedInv'
  BY SamePlaces DEF PlacedInv
<1> QED BY <1>1 DEF NonceSignsOnce

(* Where nothing was generated, no place holds anything. *)
LEMMA EmptyPlaces ==
    ASSUME NEW table, DOMAIN table = {}, NEW taken, NEW kept,
           \A a \in Attempts : taken[a] = <<>> /\ kept[a] = <<>>
    PROVE  \A h \in Holders : Places(table, taken, kept)[h] = <<>>
<1> DEFINE P == Places(table, taken, kept)
<1>1. /\ \A id \in Ids : P[<<"table", id>>] = <<>>
      /\ \A a \in Attempts : P[<<"held", a>>] = <<>> /\ P[<<"popped", a>>] = <<>>
  BY DEF Places, Holders
<1> HIDE DEF P
<1>2. ASSUME NEW h \in Holders PROVE P[h] = <<>>
  <2>1. CASE \E id \in Ids : h = <<"table", id>>
    BY <1>1, <2>1
  <2>2. CASE \E a \in Attempts : h = <<"held", a>> \/ h = <<"popped", a>>
    BY <1>1, <2>2
  <2> QED BY <2>1, <2>2, HolderKinds
<1> QED BY <1>2 DEF P

(* A secret nonce makes at most one partial signature, whatever session    *)
(* ids the calls of deposit_sign, deposit_finalize and the optimistic      *)
(* payout carry, for every limit on the sessions and every order of the    *)
(* tasks, evictions and restarts.                                          *)
THEOREM NonceSafety == Spec => []NonceSignsOnce
<1> DEFINE I == PlacedInv /\ NonceSignsOnce
<1>1. Init => I
  <2> SUFFICES ASSUME Init PROVE I
    OBVIOUS
  <2>1. partials = {}
    BY DEF Init
  <2>2. ASSUME NEW v \in Verifiers PROVE Placed(NoncesAt(v), UsedNonces(v), Generated(v))
    <3>1. DOMAIN sessions[v] = {} /\ UsedNonces(v) = {}
      BY <2>1 DEF Init, EmptyTable, UsedNonces
    <3>2. \A c \in Attempts : held[c][v] = <<>> /\ popped[c][v] = <<>>
      BY DEF Init
    <3>3. \A h \in Holders : NoncesAt(v)[h] = <<>>
      <4> DEFINE x == [c \in Attempts |-> held[c][v]]
                 y == [c \in Attempts |-> popped[c][v]]
      <4>1. \A c \in Attempts : x[c] = <<>> /\ y[c] = <<>>
        BY <3>2
      <4>2. NoncesAt(v) = Places(sessions[v], x, y)
        BY DEF NoncesAt
      <4> HIDE DEF x, y
      <4>3. \A h \in Holders : Places(sessions[v], x, y)[h] = <<>>
        BY <3>1, <4>1, EmptyPlaces
      <4> QED BY <4>2, <4>3
    <3> QED BY <3>1, <3>3 DEF Placed
  <2> QED BY <2>1, <2>2 DEF PlacedInv, NonceSignsOnce
<1>2. Base /\ Base' /\ I /\ [Next]_vars => I'
  <2> SUFFICES ASSUME Base, Base', I, [Next]_vars PROVE I'
    OBVIOUS
  <2>1. ASSUME UNCHANGED <<sessions, held, popped, ids, partials>> PROVE I'
    BY <2>1, QuietStep
  <2>2. ASSUME partials' = partials, PlacedInv' PROVE I'
    BY <2>2 DEF NonceSignsOnce
  <2> HIDE DEF I
  <2>3. ASSUME NEW a \in Attempts, NEW b \in Attempts,
               OpenStreams(a, b) \/ DistributeNonce(a) \/ AggregateSignature(a) \/ CreateMoveTx(a)
        PROVE  I'
    BY <2>1, <2>3 DEF OpenStreams, DistributeNonce, AggregateSignature, CreateMoveTx, memory, tasks, history
  <2>4. ASSUME NEW a \in Attempts, NEW v \in Verifiers,
               BeginSign(a, v) \/ VerifySignatures(a, v) \/ SaveSignatures(a, v)
        PROVE  I'
    BY <2>1, <2>4 DEF BeginSign, VerifySignatures, SaveSignatures, aggregator, memory, history
  <2>5. ASSUME NEW a \in Attempts, NEW v \in Verifiers, NEW id \in Ids, NonceGen(a, v, id) PROVE I'
    BY <2>2, <2>5, NonceGenPlaced DEF I, NonceGen, history
  <2>6. ASSUME NEW a \in Attempts, NEW v \in Verifiers, TakeSession(a, v) PROVE I'
    BY <2>2, <2>6, TakeSessionPlaced DEF I, TakeSession, history
  <2>7. ASSUME NEW a \in Attempts, NEW v \in Verifiers, PutBack(a, v) PROVE I'
    BY <2>2, <2>7, PutBackPlaced DEF I, PutBack, history
  <2>8. ASSUME NEW a \in Attempts, NEW v \in Verifiers,
               SignNext(a, v) \/ PopFinalNonce(a, v) \/ SignPayout(a, v)
        PROVE  I'
    BY <2>8, SignNextPlaced, PopFinalPlaced, SignPayoutPlaced DEF I
  <2>9. ASSUME NEW v \in Verifiers, Restart(v) PROVE I'
    BY <2>2, <2>9, RestartPlaced DEF I, Restart
  <2>10. CASE UNCHANGED vars
    BY <2>1, <2>10 DEF vars, aggregator, memory, tasks, history
  <2> QED BY <2>3, <2>4, <2>5, <2>6, <2>7, <2>8, <2>9, <2>10 DEF Next
<1>3. I => NonceSignsOnce
  OBVIOUS
<1> HIDE DEF I
<1> QED BY <1>1, <1>2, <1>3, BaseInvariant, PTL DEF Spec

-----------------------------------------------------------------------------
(* A signed move transaction is protected. *)

(* The deposit data and the stored signatures of a verifier are written    *)

(* once, and a step only starts what the data in the database allow.       *)
LEMMA DataStep ==
    ASSUME Base, Base', DataInv, data' = data,
           \A v \in Verifiers : /\ deposit[v] # None => deposit'[v] = deposit[v]
                                /\ saved[v] # None => saved'[v] = saved[v],
           \A a \in Attempts, v \in Verifiers :
              /\ sign'[a][v] \in {"open", "signing", "signed", "done"} =>
                    \/ sign[a][v] \in {"open", "signing", "signed", "done"}
                    \/ IsDeposit(a) => deposit'[v] = data[a]
              /\ ~IsDeposit(a) => \/ sign'[a][v] = sign[a][v]
                                  \/ sign'[a][v] \in {"done", "failed"}
              /\ final'[a] # 0 => final[a] # 0 \/ deposit[v] = data[a]
              /\ fin'[a][v] = "returned" => fin[a][v] = "returned" \/ saved'[v] = data[a],
           \A p \in partials' :
              p \in partials \/ (IsDeposit(p.attempt) => deposit[p.verifier] = data[p.attempt]),
           \A d \in moved', v \in Verifiers :
              d \in moved \/ (d \in Data /\ saved[v] = d /\ deposit[v] = d)
    PROVE  DataInv'
<1>1. /\ \A a \in Attempts : /\ IsDeposit(a)' <=> IsDeposit(a)
                             /\ IsDeposit(a) => data[a] \in Data /\ data[a] # None
                             /\ final'[a] # 0 /\ Verifiers # {} => IsDeposit(a)
      /\ None \notin Data
  BY SigningAssumption DEF Base, SigningTypeOK, TaskInv, IsDeposit
<1>2. \A a \in Attempts, v \in Verifiers :
         IsDeposit(a) => /\ deposit[v] = data[a] => deposit'[v] = data[a]
                         /\ saved[v] = data[a] => saved'[v] = data[a]
  BY <1>1
<1>3. ASSUME NEW a \in Attempts, NEW v \in Verifiers
      PROVE  /\ IsDeposit(a) /\ sign'[a][v] \in {"open", "signing", "signed", "done"}
                   => deposit'[v] = data[a]
             /\ ~IsDeposit(a) => sign'[a][v] \in {"none", "done", "failed"}
             /\ final'[a] # 0 => deposit'[v] = data[a]
             /\ fin'[a][v] = "returned" => saved'[v] = data[a]
  <2>1. fin'[a][v] = "returned" => IsDeposit(a)
    BY <1>1, SigningAssumption DEF Base, TaskInv
  <2> QED BY <1>1, <1>2, <2>1 DEF DataInv
<1>4. ASSUME NEW p \in partials', IsDeposit(p.attempt)
      PROVE  deposit'[p.verifier] = data[p.attempt]
  <2>1. p.attempt \in Attempts /\ p.verifier \in Verifiers
    BY DEF Base, SigningTypeOK, Partials
  <2> QED BY <1>2, <1>4, <2>1 DEF DataInv
<1>5. \A d \in moved', v \in Verifiers : d \in Data /\ saved'[v] = d /\ deposit'[v] = d
  BY <1>1 DEF DataInv
<1>6. \A p \in partials' : IsDeposit(p.attempt)' => IsDeposit(p.attempt)
  BY DEF IsDeposit
<1> QED BY <1>1, <1>3, <1>4, <1>5, <1>6 DEF DataInv

(* Whoever made a partial signature of a deposit has its data. *)
LEMMA SignersHaveTheData ==
    ASSUME Base, DataInv, NEW a \in Attempts, IsDeposit(a), NEW k,
           {p.verifier : p \in PartialsOf(a, k)} = Verifiers
    PROVE  \A v \in Verifiers : deposit[v] = data[a]
  BY DEF PartialsOf, DataInv

(* A move transaction signed by all commits the deposit to the bridge only *)
(* when every verifier stored the signatures of its other transactions for *)
(* the data in its database, after any restarts and whatever the attempts. *)
THEOREM MoveSafety == Spec => []MoveTxIsProtected
<1>1. Init => DataInv
  BY DEF Init, DataInv
<1>2. Base /\ Base' /\ DataInv /\ [Next]_vars => DataInv'
  <2> SUFFICES ASSUME Base, Base', DataInv, [Next]_vars PROVE DataInv'
    OBVIOUS
  <2>0. /\ sign \in [Attempts -> [Verifiers -> SignStates]]
        /\ fin \in [Attempts -> [Verifiers -> FinStates]]
        /\ final \in [Attempts -> 0..N]
        /\ deposit \in [Verifiers -> Data \cup {None}]
        /\ saved \in [Verifiers -> Data \cup {None}]
    BY DEF Base, SigningTypeOK
  <2>1. ASSUME UNCHANGED <<data, deposit, saved, sign, final, fin, partials, moved>> PROVE DataInv'
    BY <2>1, DataStep
  <2>2. ASSUME NEW a \in Attempts, NEW v \in Verifiers, NEW id \in Ids, NonceGen(a, v, id)
        PROVE  DataInv'
    BY <2>1, <2>2 DEF NonceGen, tasks, db, history
  <2>14. ASSUME NEW a \in Attempts, NEW b \in Attempts, OpenStreams(a, b) \/ DistributeNonce(a)
        PROVE  DataInv'
    BY <2>1, <2>14 DEF OpenStreams, DistributeNonce, tasks, db, history
  <2>3. ASSUME NEW a \in Attempts, AggregateSignature(a) PROVE DataInv'
    <3>1. UNCHANGED <<data, deposit, saved, sign, fin, partials, moved>>
      BY <2>3 DEF AggregateSignature, memory, tasks, db, history
    <3>2. \A v \in Verifiers : deposit[v] = data[a]
      BY <2>3, SignersHaveTheData DEF AggregateSignature
    <3>3. \A c \in Attempts : c # a => final'[c] = final[c]
      BY <2>0, <2>3 DEF AggregateSignature
    <3> QED BY <3>1, <3>2, <3>3, DataStep
  <2>4. ASSUME NEW a \in Attempts, CreateMoveTx(a) PROVE DataInv'
    <3>1. UNCHANGED <<data, deposit, saved, sign, final, fin, partials>>
      BY <2>4 DEF CreateMoveTx, memory, tasks, db
    <3>2. \A d \in moved' : d \in moved \/ d = data[a]
      BY <2>4 DEF CreateMoveTx
    <3>3. \A v \in Verifiers : data[a] \in Data /\ saved[v] = data[a] /\ deposit[v] = data[a]
      <4> SUFFICES ASSUME NEW v \in Verifiers
                   PROVE  data[a] \in Data /\ saved[v] = data[a] /\ deposit[v] = data[a]
        OBVIOUS
      <4>1. fin[a][v] = "returned"
        BY <2>4 DEF CreateMoveTx
      <4>2. final[a] # 0 /\ IsDeposit(a)
        BY <4>1, SigningAssumption DEF Base, TaskInv
      <4>3. data[a] \in Data
        BY <4>2 DEF IsDeposit, Base, SigningTypeOK
      <4> QED BY <4>1, <4>2, <4>3 DEF DataInv
    <3> QED BY <3>1, <3>2, <3>3, DataStep
  <2>5. ASSUME NEW a \in Attempts, NEW v \in Verifiers, BeginSign(a, v) PROVE DataInv'
    <3>1. UNCHANGED <<data, saved, final, fin, partials, moved>> /\ IsDeposit(a)
      BY <2>5 DEF BeginSign, aggregator, history
    <3>2. \A w \in Verifiers : deposit[w] # None => deposit'[w] = deposit[w]
      BY <2>0, <2>5 DEF BeginSign
    <3>3. \A c \in Attempts, w \in Verifiers : c # a \/ w # v => sign'[c][w] = sign[c][w]
      BY <2>0, <2>5 DEF BeginSign
    <3>4. sign'[a][v] = "failed" \/ deposit'[v] = data[a]
      BY <2>0, <2>5 DEF BeginSign, Matches
    <3> QED BY <3>1, <3>2, <3>3, <3>4, DataStep
  <2>6. ASSUME NEW a \in Attempts, NEW v \in Verifiers, TakeSession(a, v) \/ PutBack(a, v)
        PROVE  DataInv'
    <3>1. UNCHANGED <<data, deposit, saved, final, fin, partials, moved>>
      BY <2>6 DEF TakeSession, PutBack, aggregator, db, history
    <3>2. \A c \in Attempts, w \in Verifiers : c # a \/ w # v => sign'[c][w] = sign[c][w]
      BY <2>0, <2>6 DEF TakeSession, PutBack
    <3>3. sign[a][v] \in {"open", "signed"}
      BY <2>6 DEF TakeSession, PutBack
    <3>4. IsDeposit(a)
      BY <3>3 DEF DataInv
    <3> QED BY <3>1, <3>2, <3>3, <3>4, DataStep
  <2>7. ASSUME NEW a \in Attempts, NEW v \in Verifiers, SignNext(a, v) PROVE DataInv'
    <3>1. UNCHANGED <<data, deposit, saved, final, fin, moved>>
      BY <2>7 DEF SignNext, aggregator, db
    <3>2. \A c \in Attempts, w \in Verifiers : c # a \/ w # v => sign'[c][w] = sign[c][w]
      BY <2>0, <2>7 DEF SignNext
    <3>3. sign[a][v] = "signing"
      BY <2>7 DEF SignNext
    <3>4. IsDeposit(a) /\ deposit[v] = data[a]
      BY <3>3 DEF DataInv
    <3>5. \A p \in partials' : p \in partials \/ (p.attempt = a /\ p.verifier = v)
      BY <2>7 DEF SignNext, Partial
    <3> QED BY <3>1, <3>2, <3>3, <3>4, <3>5, DataStep
  <2>8. ASSUME NEW a \in Attempts, NEW v \in Verifiers, VerifySignatures(a, v) PROVE DataInv'
    <3>1. UNCHANGED <<data, deposit, saved, sign, final, partials, moved>>
      BY <2>8 DEF VerifySignatures, aggregator, db, history
    <3>2. \A c \in Attempts, w \in Verifiers : fin'[c][w] = "returned" => fin[c][w] = "returned"
      BY <2>0, <2>8 DEF VerifySignatures
    <3> QED BY <3>1, <3>2, DataStep
  <2>9. ASSUME NEW a \in Attempts, NEW v \in Verifiers, PopFinalNonce(a, v) PROVE DataInv'
    <3>1. UNCHANGED <<data, deposit, saved, sign, final, moved>> /\ fin[a][v] = "verified"
      BY <2>9 DEF PopFinalNonce, aggregator, db
    <3>0. fin' = fin \/ \E x \in {"signed", "failed"} : fin' = [fin EXCEPT ![a][v] = x]
      BY <2>9 DEF PopFinalNonce
    <3>2. \A c \in Attempts, w \in Verifiers : fin'[c][w] = "returned" => fin[c][w] = "returned"
      BY <2>0, <3>0
    <3>3. deposit[v] = data[a]
      BY <3>1, SigningAssumption DEF DataInv, Base, TaskInv
    <3>4. \A p \in partials' : p \in partials \/ (p.attempt = a /\ p.verifier = v)
      BY <2>9 DEF PopFinalNonce, Partial
    <3> QED BY <3>1, <3>2, <3>3, <3>4, DataStep
  <2>10. ASSUME NEW a \in Attempts, NEW v \in Verifiers, SaveSignatures(a, v) PROVE DataInv'
    <3>1. UNCHANGED <<data, deposit, sign, final, partials, moved>> /\ fin[a][v] = "signed"
      BY <2>10 DEF SaveSignatures, aggregator, history
    <3>2. \A w \in Verifiers : saved[w] # None => saved'[w] = saved[w]
      BY <2>0, <2>10 DEF SaveSignatures
    <3>3. \A c \in Attempts, w \in Verifiers : c # a \/ w # v => fin'[c][w] = fin[c][w]
      BY <2>0, <2>10 DEF SaveSignatures
    <3>4. fin'[a][v] = "returned" => saved'[v] = data[a]
      BY <2>0, <2>10 DEF SaveSignatures
    <3> QED BY <3>1, <3>2, <3>3, <3>4, DataStep
  <2>11. ASSUME NEW a \in Attempts, NEW v \in Verifiers, SignPayout(a, v) PROVE DataInv'
    <3>1. UNCHANGED <<data, deposit, saved, final, fin, moved>> /\ ~IsDeposit(a)
      BY <2>11 DEF SignPayout, aggregator, db
    <3>2. \A c \in Attempts, w \in Verifiers : c # a \/ w # v => sign'[c][w] = sign[c][w]
      BY <2>0, <2>11 DEF SignPayout
    <3>3. sign'[a][v] \in {"done", "failed"}
      BY <2>0, <2>11 DEF SignPayout
    <3>4. \A p \in partials' : p \in partials \/ p.attempt = a
      BY <2>11 DEF SignPayout, Partial
    <3> QED BY <3>1, <3>2, <3>3, <3>4, DataStep
  <2>12. ASSUME NEW v \in Verifiers, Restart(v) PROVE DataInv'
    <3>1. UNCHANGED <<data, deposit, saved, final, partials, moved>>
      BY <2>12 DEF Restart, aggregator, db
    <3>2. \A c \in Attempts, w \in Verifiers : sign'[c][w] \in {sign[c][w], "failed"}
      BY <2>0, <2>12 DEF Restart
    <3>3. \A c \in Attempts, w \in Verifiers : fin'[c][w] \in {fin[c][w], "failed"}
      BY <2>0, <2>12 DEF Restart
    <3> QED BY <3>1, <3>2, <3>3, DataStep
  <2>13. CASE UNCHANGED vars
    BY <2>1, <2>13 DEF vars, aggregator, tasks, db, history
  <2> QED
    BY <2>2, <2>3, <2>4, <2>5, <2>6, <2>7, <2>8, <2>9, <2>10, <2>11, <2>12, <2>13, <2>14
    DEF Next
<1>3. DataInv => MoveTxIsProtected
  BY DEF DataInv, MoveTxIsProtected
<1> QED BY <1>1, <1>2, <1>3, BaseInvariant, PTL DEF Spec

-----------------------------------------------------------------------------
(* Signatures fit. *)

(* A step of attempt a at verifier v, as the other attempts and the other  *)
(* verifiers see it.                                                       *)
OnlyAt(a, v) ==
    /\ data' = data /\ calls' = calls /\ final' = final
    /\ \A c \in Attempts, w \in Verifiers : c # a \/ w # v =>
          /\ ids'[c][w] = ids[c][w] /\ sign'[c][w] = sign[c][w] /\ held'[c][w] = held[c][w]
          /\ fin'[c][w] = fin[c][w] /\ popped'[c][w] = popped[c][w]
    /\ \A w \in Verifiers : usedIds[w] \cup oldIds[w] \subseteq usedIds'[w] \cup oldIds'[w]
    /\ partials \subseteq partials'
    /\ \A p \in partials' : p \in partials \/ (p.attempt = a /\ p.verifier = v)
    /\ \A w \in Verifiers \ {v} : sessions'[w] = sessions[w]
    /\ \A i \in DOMAIN sessions'[v] \ {ids'[a][v]} :
          i \in DOMAIN sessions[v] /\ sessions'[v][i] = sessions[v][i]

(* An attempt at a verifier whose nonces and signatures do not change. *)
LEMMA FitSame ==
    ASSUME NEW c \in Attempts, NEW w \in Verifiers, FitOf(c, w), data' = data,
           calls'[c][w] \in {calls[c][w], ids[c][w]},
           final'[c] # 0 => final[c] # 0 \/ HasSigned(c, w),
           ids'[c][w] = ids[c][w], sign'[c][w] = sign[c][w], held'[c][w] = held[c][w],
           fin'[c][w] \in {"none", "verified"} => fin[c][w] \in {"none", "verified"},
           popped'[c][w] = popped[c][w],
           usedIds[w] \cup oldIds[w] \subseteq usedIds'[w] \cup oldIds'[w],
           partials \subseteq partials',
           \A p \in partials' : p.attempt = c /\ p.verifier = w => p \in partials,
           ids[c][w] \in DOMAIN sessions'[w] =>
              ids[c][w] \in DOMAIN sessions[w] /\ sessions'[w][ids[c][w]] = sessions[w][ids[c][w]]
    PROVE  FitOf(c, w)'
<1>1. (HasSigned(c, w)' <=> HasSigned(c, w)) /\ (IsDeposit(c)' <=> IsDeposit(c))
  BY DEF HasSigned, IsDeposit
<1>2. ASSUME ids[c][w] \in DOMAIN sessions'[w]
      PROVE  TableFit(c, IsDeposit(c), HasSigned(c, w), sign[c][w], fin[c][w], popped[c][w],
                      sessions'[w][ids[c][w]])
  BY <1>2 DEF FitOf
<1>3. ASSUME ids[c][w] \in DOMAIN sessions'[w]
      PROVE  TableFit(c, IsDeposit(c)', HasSigned(c, w)', sign'[c][w], fin'[c][w], popped'[c][w],
                      sessions'[w][ids'[c][w]])
  BY <1>1, <1>2, <1>3 DEF TableFit, Fresh
<1> QED BY <1>1, <1>3 DEF FitOf

(* With ids that differ, only the attempt that makes the step is affected. *)
LEMMA OnlyAtFit ==
    ASSUME NEW a \in Attempts, NEW v \in Verifiers, OnlyAt(a, v), IdsDiffer', Base', FitOf(a, v)',
           \A c \in Attempts, w \in Verifiers : FitOf(c, w)
    PROVE  \A c \in Attempts, w \in Verifiers : FitOf(c, w)'
<1> SUFFICES ASSUME NEW c \in Attempts, NEW w \in Verifiers, c # a \/ w # v PROVE FitOf(c, w)'
  OBVIOUS
<1>1. /\ data' = data /\ calls'[c][w] = calls[c][w] /\ final'[c] = final[c]
      /\ ids'[c][w] = ids[c][w] /\ sign'[c][w] = sign[c][w] /\ held'[c][w] = held[c][w]
      /\ fin'[c][w] = fin[c][w] /\ popped'[c][w] = popped[c][w]
      /\ usedIds[w] \cup oldIds[w] \subseteq usedIds'[w] \cup oldIds'[w]
      /\ partials \subseteq partials'
      /\ \A p \in partials' : p.attempt = c /\ p.verifier = w => p \in partials
  BY DEF OnlyAt
<1>2. ASSUME ids[c][w] \in DOMAIN sessions'[w]
      PROVE  ids[c][w] \in DOMAIN sessions[w] /\ sessions'[w][ids[c][w]] = sessions[w][ids[c][w]]
  <2>1. CASE w # v
    BY <1>2, <2>1 DEF OnlyAt
  <2>2. CASE w = v
    <3>1. IsTable(sessions'[v])
      BY DEF Base, SigningTypeOK
    <3>2. ids[c][v] # None
      BY <1>2, <2>2, <3>1, ConstantFacts DEF IsTable
    <3>3. ids[c][v] # ids'[a][v]
      BY <1>1, <2>2, <3>2 DEF IdsDiffer
    <3> QED BY <1>2, <2>2, <3>3 DEF OnlyAt
  <2> QED BY <2>1, <2>2
<1> QED BY <1>1, <1>2, FitSame

(* New partial signatures that fit. *)
LEMMA FitPartials ==
    ASSUME borrower' = borrower, borrower = None, SignaturesFit,
           \A p \in partials' : p \in partials \/ p.nonce = <<p.attempt, p.msg>>
    PROVE  SignaturesFit'
  BY DEF SignaturesFit

FitAll == (\A a \in Attempts, v \in Verifiers : FitOf(a, v)) /\ IdsDiffer

(* The steps that touch no nonce of the verifiers. *)
LEMMA FitQuiet ==
    ASSUME FitAll, SignaturesFit, borrower' = borrower, borrower = None,
           UNCHANGED <<data, ids, sessions, usedIds, oldIds, sign, held, popped, partials>>,
           \A c \in Attempts, w \in Verifiers :
              /\ calls'[c][w] \in {calls[c][w], ids[c][w]}
              /\ final'[c] # 0 => final[c] # 0 \/ HasSigned(c, w)
              /\ fin'[c][w] \in {"none", "verified"} => fin[c][w] \in {"none", "verified"}
    PROVE  FitAll' /\ SignaturesFit'
<1>1. IdsDiffer'
  BY DEF FitAll, IdsDiffer
<1>2. ASSUME NEW c \in Attempts, NEW w \in Verifiers PROVE FitOf(c, w)'
  <2>1. FitOf(c, w)
    BY DEF FitAll
  <2> QED BY <2>1, FitSame
<1>3. SignaturesFit'
  BY DEF SignaturesFit
<1> QED BY <1>1, <1>2, <1>3 DEF FitAll

(* The steps of the aggregator, the verification and the storing. *)
LEMMA FitAggregator ==
    ASSUME Base, FitAll, SignaturesFit, borrower = None, NEW a \in Attempts,
           \/ \E b \in Attempts : OpenStreams(a, b)
           \/ DistributeNonce(a) \/ AggregateSignature(a) \/ CreateMoveTx(a)
           \/ \E v \in Verifiers : VerifySignatures(a, v) \/ SaveSignatures(a, v)
    PROVE  FitAll' /\ SignaturesFit'
<1>0. /\ calls \in [Attempts -> [Verifiers -> Ids \cup {None}]]
      /\ ids \in [Attempts -> [Verifiers -> Ids \cup {None}]]
      /\ final \in [Attempts -> 0..N]
      /\ fin \in [Attempts -> [Verifiers -> FinStates]]
  BY DEF Base, SigningTypeOK
<1>1. /\ UNCHANGED <<data, ids, sessions, usedIds, oldIds, sign, held, popped, partials>>
      /\ borrower' = borrower
  BY DEF OpenStreams, DistributeNonce, AggregateSignature, CreateMoveTx, VerifySignatures,
         SaveSignatures, aggregator, memory, tasks, history
<1>2. ASSUME calls' = calls, final' = final, fin' = fin PROVE FitAll' /\ SignaturesFit'
  BY <1>1, <1>2, FitQuiet
<1>3. ASSUME NEW b \in Attempts, OpenStreams(a, b) PROVE FitAll' /\ SignaturesFit'
  <2>1. b = a
    BY <1>3, ConstantFacts DEF OpenStreams, Sources
  <2>2. \A c \in Attempts, w \in Verifiers : calls'[c][w] \in {calls[c][w], ids[c][w]}
    BY <1>0, <1>3, <2>1 DEF OpenStreams
  <2>3. final' = final /\ fin' = fin
    BY <1>3 DEF OpenStreams, tasks
  <2> QED BY <1>1, <2>2, <2>3, FitQuiet
<1>4. CASE DistributeNonce(a) \/ CreateMoveTx(a)
  BY <1>2, <1>4 DEF DistributeNonce, CreateMoveTx, tasks
<1>5. CASE AggregateSignature(a)
  <2>1. \A w \in Verifiers : HasSigned(a, w)
    BY <1>5 DEF AggregateSignature, PartialsOf, HasSigned
  <2>2. \A c \in Attempts, w \in Verifiers : final'[c] # 0 => final[c] # 0 \/ HasSigned(c, w)
    BY <1>0, <1>5, <2>1 DEF AggregateSignature
  <2>3. calls' = calls /\ fin' = fin
    BY <1>5 DEF AggregateSignature, tasks
  <2> QED BY <1>1, <2>2, <2>3, FitQuiet
<1>6. ASSUME NEW v \in Verifiers, VerifySignatures(a, v) \/ SaveSignatures(a, v)
      PROVE  FitAll' /\ SignaturesFit'
  <2>1. \A c \in Attempts, w \in Verifiers :
           fin'[c][w] \in {"none", "verified"} => fin[c][w] \in {"none", "verified"}
    BY <1>0, <1>6 DEF VerifySignatures, SaveSignatures
  <2>2. calls' = calls /\ final' = final
    BY <1>6 DEF VerifySignatures, SaveSignatures, aggregator
  <2> QED BY <1>1, <2>1, <2>2, FitQuiet
<1> QED BY <1>3, <1>4, <1>5, <1>6

(* What the invariant says of the session named in a call. *)
LEMMA FitCalled ==
    ASSUME Base, FitAll, NEW a \in Attempts, NEW v \in Verifiers, calls[a][v] # None
    PROVE  /\ calls[a][v] = ids[a][v] /\ ids[a][v] \in Ids /\ ids[a][v] # None /\ FitOf(a, v)
           /\ ids[a][v] \in DOMAIN sessions[v] =>
                 TableFit(a, IsDeposit(a), HasSigned(a, v), sign[a][v], fin[a][v], popped[a][v],
                          sessions[v][ids[a][v]])
<1>1. FitOf(a, v) /\ ids[a][v] \in Ids \cup {None}
  BY DEF FitAll, Base, SigningTypeOK
<1> QED BY <1>1 DEF FitOf

(* nonce_gen: the new id is no one else's, and its session is fresh. *)
LEMMA FitNonceGen ==
    ASSUME Base, Base', FitAll, SignaturesFit, borrower = None, NEW a \in Attempts,
           NEW v \in Verifiers, NEW id \in Ids, NonceGen(a, v, id)
    PROVE  FitAll' /\ SignaturesFit'
<1> DEFINE s == [i \in 1..NumNonces(a) |-> <<a, i>>]
<1>1. /\ s \in Seq(Nonces) /\ Len(s) = NumNonces(a) /\ \A i \in 1..Len(s) : s[i] = <<a, i>>
  BY NewNonces DEF Base
<1>2. /\ AddSession(v, id, s) /\ ids' = [ids EXCEPT ![a][v] = id] /\ ids[a][v] = None
      /\ phase[a] = "nonces" /\ id \notin usedIds[v] \cup oldIds[v]
      /\ UNCHANGED <<data, borrower, calls, final, sign, held, fin, popped, partials, oldIds>>
  BY DEF NonceGen, UnusedIds, tasks, history
<1>3. \A c \in Attempts, w \in Verifiers : ids'[c][w] = IF c = a /\ w = v THEN id ELSE ids[c][w]
  <2>1. ids \in [Attempts -> [Verifiers -> Ids \cup {None}]]
    BY DEF Base, SigningTypeOK
  <2> QED BY <1>2, <2>1
<1> HIDE DEF s
<1>4. /\ \A w \in Verifiers \ {v} : sessions'[w] = sessions[w] /\ usedIds'[w] = usedIds[w]
      /\ usedIds'[v] = usedIds[v] \cup {id}
      /\ id \in DOMAIN sessions'[v] /\ sessions'[v][id] = s
      /\ \A i \in DOMAIN sessions'[v] \ {id} : i \in DOMAIN sessions[v] /\ sessions'[v][i] = sessions[v][i]
  BY <1>1, <1>2, AddFacts DEF Base
<1>5. OnlyAt(a, v)
  BY <1>2, <1>3, <1>4 DEF OnlyAt
<1>6. \A c \in Attempts : ids[c][v] # id
  BY <1>2, ConstantFacts DEF FitAll, FitOf
<1>7. IdsDiffer'
  BY <1>3, <1>6 DEF FitAll, IdsDiffer
<1>8. FitOf(a, v)'
  <2>1. calls[a][v] = None /\ sign[a][v] = "none" /\ fin[a][v] = "none"
    BY <1>2 DEF Base, TaskInv
  <2>2. FitOf(a, v) /\ ~HasSigned(a, v)
    BY <2>1 DEF FitAll, FitOf
  <2>3. ids'[a][v] = id /\ id \in usedIds'[v]
    BY <1>3, <1>4
  <2>4. ~HasSigned(a, v)' /\ (IsDeposit(a)' <=> IsDeposit(a))
    BY <1>2, <2>2 DEF HasSigned, IsDeposit
  <2>5. Fresh(a, IsDeposit(a)', s)
    BY <1>1, <2>4 DEF Fresh, NumNonces
  <2>6. TableFit(a, IsDeposit(a)', HasSigned(a, v)', sign'[a][v], fin'[a][v], popped'[a][v], s)
    BY <1>2, <2>1, <2>4, <2>5 DEF TableFit
  <2> QED BY <1>2, <1>4, <2>1, <2>2, <2>3, <2>4, <2>6 DEF FitOf
<1>9. SignaturesFit'
  BY <1>2, FitPartials
<1> QED BY <1>5, <1>7, <1>8, <1>9, OnlyAtFit DEF FitAll

(* The last of the descending nonces, and the others. *)
LEMMA FrontDescends ==
    ASSUME NEW a, NEW s \in Seq(Nonces), s # <<>>, Descending(a, s)
    PROVE  Last(s) = <<a, N + 3 - Len(s)>> /\ Descending(a, Front(s))
<1>1. /\ Len(s) \in Nat \ {0} /\ Len(Front(s)) = Len(s) - 1 /\ Last(s) = s[Len(s)]
      /\ \A i \in 1..(Len(s) - 1) : Front(s)[i] = s[i]
  BY FrontFacts
<1>2. Len(s) \in 1..Len(s) /\ \A i \in 1..(Len(s) - 1) : i \in 1..Len(s)
  BY <1>1
<1>3. \A i \in 1..Len(s) : s[i] = <<a, N + 3 - i>>
  BY DEF Descending
<1>4. Last(s) = <<a, N + 3 - Len(s)>>
  BY <1>1, <1>2, <1>3
<1>5. \A i \in 1..Len(Front(s)) : Front(s)[i] = <<a, N + 3 - i>>
  BY <1>1, <1>2, <1>3
<1> QED BY <1>4, <1>5 DEF Descending

(* The nonces of a fresh session, in reverse. *)
LEMMA ReverseDescends ==
    ASSUME NEW a, NEW s \in Seq(Nonces), Len(s) = N + 2, \A i \in 1..Len(s) : s[i] = <<a, i>>
    PROVE  Descending(a, Reverse(s))
<1>1. Len(Reverse(s)) = Len(s) /\ \A i \in 1..Len(s) : Reverse(s)[i] = s[Len(s) - i + 1]
  BY ReverseFacts
<1>2. \A i \in 1..Len(s) : Len(s) - i + 1 = N + 3 - i /\ Len(s) - i + 1 \in 1..Len(s)
  BY ConstantFacts
<1>3. ASSUME NEW i \in 1..Len(s) PROVE Reverse(s)[i] = <<a, N + 3 - i>>
  <2> DEFINE j == Len(s) - i + 1
  <2>1. j = N + 3 - i /\ j \in 1..Len(s) /\ Reverse(s)[i] = s[j]
    BY <1>1, <1>2
  <2> HIDE DEF j
  <2> QED BY <2>1
<1> QED BY <1>1, <1>3 DEF Descending

(* A step of attempt a at verifier v that draws no id: what is to be shown *)

(* of it.                                                                  *)
LEMMA FitLocal ==
    ASSUME Base', FitAll, SignaturesFit, borrower = None, NEW a \in Attempts, NEW v \in Verifiers,
           UNCHANGED <<data, borrower, ids, calls, final, usedIds, oldIds>> \/
              (UNCHANGED <<data, borrower, ids, calls, final, oldIds>>
               /\ \A w \in Verifiers : usedIds[w] \subseteq usedIds'[w]),
           \A c \in Attempts, w \in Verifiers : c # a \/ w # v =>
              /\ sign'[c][w] = sign[c][w] /\ held'[c][w] = held[c][w]
              /\ fin'[c][w] = fin[c][w] /\ popped'[c][w] = popped[c][w],
           partials \subseteq partials',
           \A p \in partials' : p \in partials \/ (/\ p.attempt = a /\ p.verifier = v
                                                   /\ p.nonce = <<a, p.msg>>),
           \A w \in Verifiers \ {v} : sessions'[w] = sessions[w],
           \A i \in DOMAIN sessions'[v] \ {ids[a][v]} :
              i \in DOMAIN sessions[v] /\ sessions'[v][i] = sessions[v][i],
           FitOf(a, v)'
    PROVE  FitAll' /\ SignaturesFit'
<1>1. OnlyAt(a, v)
  BY DEF OnlyAt
<1>2. IdsDiffer'
  BY DEF FitAll, IdsDiffer
<1>3. SignaturesFit'
  BY FitPartials
<1> QED BY <1>1, <1>2, <1>3, OnlyAtFit DEF FitAll

(* deposit_sign begins. *)
LEMMA FitBeginSign ==
    ASSUME Base, Base', FitAll, SignaturesFit, borrower = None, NEW a \in Attempts,
           NEW v \in Verifiers, BeginSign(a, v)
    PROVE  FitAll' /\ SignaturesFit'
<1>1. /\ IsDeposit(a) /\ sign[a][v] = "none" /\ calls[a][v] # None
      /\ UNCHANGED <<data, borrower, ids, calls, final, sessions, usedIds, oldIds, held, fin, popped, partials>>
  BY DEF BeginSign, Called, aggregator, memory, history
<1>2. /\ sign'[a][v] \in {"open", "failed"}
      /\ \A c \in Attempts, w \in Verifiers : c # a \/ w # v => sign'[c][w] = sign[c][w]
  <2>1. sign \in [Attempts -> [Verifiers -> SignStates]]
    BY DEF Base, SigningTypeOK
  <2> QED BY <2>1 DEF BeginSign
<1>3. FitOf(a, v)
  BY DEF FitAll
<1>4. /\ ~HasSigned(a, v) /\ popped[a][v] = <<>>
      /\ ids[a][v] \in DOMAIN sessions[v] => Fresh(a, IsDeposit(a), sessions[v][ids[a][v]])
  BY <1>1, <1>3 DEF FitOf, TableFit
<1>5. ~HasSigned(a, v)' /\ (IsDeposit(a)' <=> IsDeposit(a))
  BY <1>1, <1>4 DEF HasSigned, IsDeposit
<1>6. ids[a][v] \in DOMAIN sessions[v] => Fresh(a, IsDeposit(a)', sessions[v][ids[a][v]])
  BY <1>4, <1>5 DEF Fresh
<1>7. FitOf(a, v)'
  BY <1>1, <1>2, <1>3, <1>4, <1>5, <1>6 DEF FitOf, TableFit
<1> QED BY <1>1, <1>2, <1>7, FitLocal

(* The session that is taken is fresh, and is held in reverse. *)
LEMMA FitTakeSession ==
    ASSUME Base, Base', FitAll, SignaturesFit, borrower = None, NEW a \in Attempts,
           NEW v \in Verifiers, TakeSession(a, v)
    PROVE  FitAll' /\ SignaturesFit'
<1> DEFINE id == calls[a][v]
           s == sessions[v][id]
<1>1. /\ sign[a][v] = "open"
      /\ UNCHANGED <<data, borrower, ids, calls, final, usedIds, oldIds, fin, popped, partials>>
  BY DEF TakeSession, RemoveSession, aggregator, memory, history
<1>2. /\ sign'[a][v] \in {"signing", "failed"}
      /\ \A c \in Attempts, w \in Verifiers : c # a \/ w # v =>
            sign'[c][w] = sign[c][w] /\ held'[c][w] = held[c][w]
      /\ sign'[a][v] = "failed" => held'[a][v] = held[a][v]
      /\ sign'[a][v] = "signing" => id \in DOMAIN sessions[v] /\ held'[a][v] = Reverse(s)
  <2>1. sign \in [Attempts -> [Verifiers -> SignStates]]
    BY DEF Base, SigningTypeOK
  <2>2. held = [c \in Attempts |-> [w \in Verifiers |-> held[c][w]]]
    BY MemoryTypes
  <2>3. \/ /\ id \in DOMAIN sessions[v] /\ sign' = [sign EXCEPT ![a][v] = "signing"]
           /\ held' = [held EXCEPT ![a][v] = Reverse(s)]
        \/ sign' = [sign EXCEPT ![a][v] = "failed"] /\ held' = held
    BY DEF TakeSession
  <2> HIDE DEF id, s
  <2>4. CASE /\ id \in DOMAIN sessions[v] /\ sign' = [sign EXCEPT ![a][v] = "signing"]
             /\ held' = [held EXCEPT ![a][v] = Reverse(s)]
    BY <2>1, <2>2, <2>4
  <2>5. CASE sign' = [sign EXCEPT ![a][v] = "failed"] /\ held' = held
    BY <2>1, <2>5
  <2> QED BY <2>3, <2>4, <2>5
<1>3. calls[a][v] # None
  BY <1>1 DEF Base, TaskInv
<1>4. /\ id = ids[a][v] /\ FitOf(a, v)
      /\ id \in DOMAIN sessions[v] =>
            TableFit(a, IsDeposit(a), HasSigned(a, v), sign[a][v], fin[a][v], popped[a][v], s)
  BY <1>3, FitCalled
<1>5. ~HasSigned(a, v) /\ popped[a][v] = <<>> /\ IsDeposit(a)
  BY <1>1, <1>4 DEF FitOf
<1>6. id \in DOMAIN sessions[v] => Fresh(a, IsDeposit(a), s)
  BY <1>1, <1>4, <1>5 DEF TableFit
<1>7. /\ \A w \in Verifiers \ {v} : sessions'[w] = sessions[w]
      /\ id \notin DOMAIN sessions'[v]
      /\ \A i \in DOMAIN sessions'[v] : i \in DOMAIN sessions[v] /\ sessions'[v][i] = sessions[v][i]
  <2>1. CASE id \in DOMAIN sessions[v]
    BY <2>1, RemoveFacts DEF TakeSession, Base
  <2>2. CASE id \notin DOMAIN sessions[v]
    BY <2>2 DEF TakeSession, memory
  <2> QED BY <2>1, <2>2
<1>8. Descending(a, held'[a][v])
  <2>1. CASE sign'[a][v] = "failed"
    BY <1>2, <1>4, <2>1 DEF FitOf
  <2>2. CASE sign'[a][v] = "signing"
    <3>1. id \in DOMAIN sessions[v] /\ held'[a][v] = Reverse(s)
      BY <1>2, <2>2
    <3>2. Len(s) = N + 2 /\ \A i \in 1..Len(s) : s[i] = <<a, i>>
      BY <1>5, <1>6, <3>1 DEF Fresh
    <3>3. s \in Seq(Nonces)
      BY <3>1, MemoryTypes
    <3> HIDE DEF s
    <3> QED BY <3>1, <3>2, <3>3, ReverseDescends
  <2> QED BY <1>2, <2>1, <2>2
<1>9. ~HasSigned(a, v)' /\ IsDeposit(a)'
  BY <1>1, <1>5 DEF HasSigned, IsDeposit
<1>10. FitOf(a, v)'
  BY <1>1, <1>2, <1>4, <1>5, <1>7, <1>8, <1>9 DEF FitOf
<1> QED BY <1>1, <1>2, <1>7, <1>10, FitLocal

(* The next sighash is signed with the nonce of the same number. *)
LEMMA FitSignNext ==
    ASSUME Base, Base', FitAll, SignaturesFit, borrower = None, NEW a \in Attempts,
           NEW v \in Verifiers, SignNext(a, v)
    PROVE  FitAll' /\ SignaturesFit'
<1> DEFINE s == held[a][v]
           k == N + 3 - Len(s)
           new == Partial(a, v, Last(s), k)
<1>1. /\ sign[a][v] = "signing" /\ partials' = partials \cup {new}
      /\ UNCHANGED <<data, borrower, ids, calls, final, sessions, usedIds, oldIds, fin, popped>>
  BY DEF SignNext, aggregator, memory
<1>2. /\ sign'[a][v] \in {"signing", "signed"} /\ held'[a][v] = Front(s)
      /\ \A c \in Attempts, w \in Verifiers : c # a \/ w # v =>
            sign'[c][w] = sign[c][w] /\ held'[c][w] = held[c][w]
  <2>1. sign \in [Attempts -> [Verifiers -> SignStates]]
    BY DEF Base, SigningTypeOK
  <2> QED BY <1>1, <2>1, MemoryTypes DEF SignNext
<1>3. s \in Seq(Nonces) /\ s # <<>>
  BY <1>1, MemoryTypes DEF Base, TaskInv, HeldOk
<1>5. FitOf(a, v) /\ IsDeposit(a)
  BY <1>1 DEF FitAll, FitOf
<1>6. Last(s) = <<a, k>> /\ Descending(a, Front(s))
  <2>1. Descending(a, s)
    BY <1>5 DEF FitOf
  <2> QED BY <1>3, <2>1, FrontDescends
<1>7. new.attempt = a /\ new.verifier = v /\ new.nonce = <<a, new.msg>>
  BY <1>6 DEF Partial
<1> HIDE DEF new
<1>8. HasSigned(a, v)' /\ IsDeposit(a)'
  BY <1>1, <1>5, <1>7 DEF HasSigned, IsDeposit
<1>9. popped[a][v] = <<>> /\ ids[a][v] \notin DOMAIN sessions[v]
  BY <1>1, <1>5 DEF FitOf
<1>10. FitOf(a, v)'
  BY <1>1, <1>2, <1>5, <1>6, <1>8, <1>9 DEF FitOf
<1> QED BY <1>1, <1>2, <1>7, <1>10, FitLocal

(* What is put back are the last two nonces, that of the move transaction  *)

(* at the end.                                                             *)
LEMMA FitPutBack ==
    ASSUME Base, Base', FitAll, SignaturesFit, borrower = None, NEW a \in Attempts,
           NEW v \in Verifiers, PutBack(a, v)
    PROVE  FitAll' /\ SignaturesFit'
<1> DEFINE id == calls[a][v]
           s == held[a][v]
<1>1. /\ sign[a][v] = "signed" /\ AddSession(v, id, s)
      /\ UNCHANGED <<data, borrower, ids, calls, final, oldIds, fin, popped, partials>>
  BY DEF PutBack, aggregator, history
<1>2. /\ sign'[a][v] = "done" /\ held'[a][v] = <<>>
      /\ \A c \in Attempts, w \in Verifiers : c # a \/ w # v =>
            sign'[c][w] = sign[c][w] /\ held'[c][w] = held[c][w]
  <2>1. sign \in [Attempts -> [Verifiers -> SignStates]]
    BY DEF Base, SigningTypeOK
  <2> QED BY <2>1, MemoryTypes DEF PutBack
<1>3. calls[a][v] # None /\ Len(s) = 2 /\ s \in Seq(Nonces)
  BY <1>1, MemoryTypes DEF Base, TaskInv, HeldOk
<1>4. id = ids[a][v] /\ id \in Ids /\ FitOf(a, v)
  BY <1>3, FitCalled
<1>5. /\ \A w \in Verifiers \ {v} : sessions'[w] = sessions[w] /\ usedIds'[w] = usedIds[w]
      /\ usedIds'[v] = usedIds[v] \cup {id}
      /\ id \in DOMAIN sessions'[v] /\ sessions'[v][id] = s
      /\ \A i \in DOMAIN sessions'[v] \ {id} : i \in DOMAIN sessions[v] /\ sessions'[v][i] = sessions[v][i]
  BY <1>1, <1>3, <1>4, AddFacts DEF Base
<1>6. popped[a][v] = <<>> /\ IsDeposit(a) /\ Descending(a, s)
  BY <1>1, <1>4 DEF FitOf
<1>7. (HasSigned(a, v)' <=> HasSigned(a, v)) /\ IsDeposit(a)' /\ Descending(a, <<>>)
  BY <1>1, <1>6 DEF HasSigned, IsDeposit, Descending
<1>8. Len(popped'[a][v]) = 0
  BY <1>1, <1>6
<1>9. TableFit(a, IsDeposit(a)', HasSigned(a, v)', sign'[a][v], fin'[a][v], popped'[a][v], s)
  BY <1>2, <1>3, <1>6, <1>7, <1>8 DEF TableFit
<1>10. FitOf(a, v)'
  BY <1>1, <1>2, <1>4, <1>5, <1>6, <1>7, <1>9 DEF FitOf
<1>11. \A w \in Verifiers : usedIds[w] \subseteq usedIds'[w]
  BY <1>5
<1>12. \A i \in DOMAIN sessions'[v] \ {ids[a][v]} : i \in DOMAIN sessions[v] /\ sessions'[v][i] = sessions[v][i]
  BY <1>4, <1>5
<1>13. \A w \in Verifiers \ {v} : sessions'[w] = sessions[w]
  BY <1>5
<1> QED BY <1>1, <1>2, <1>10, <1>11, <1>12, <1>13, FitLocal

(* What a pop does to the session of an attempt that is alone with it. *)
LEMMA FitPop ==
    ASSUME Base, NEW a \in Attempts, NEW v \in Verifiers,
           HasNonce(v, ids[a][v]), PopNonce(v, ids[a][v])
    PROVE  LET s == sessions[v][ids[a][v]]
           IN /\ s \in Seq(Nonces) /\ s # <<>> /\ Len(s) \in Nat \ {0}
              /\ Len(Front(s)) = Len(s) - 1 /\ Last(s) = s[Len(s)]
              /\ \A w \in Verifiers \ {v} : sessions'[w] = sessions[w]
              /\ ids[a][v] \in DOMAIN sessions[v] /\ DOMAIN sessions'[v] = DOMAIN sessions[v]
              /\ \A i \in DOMAIN sessions[v] \ {ids[a][v]} : sessions'[v][i] = sessions[v][i]
              /\ sessions'[v][ids[a][v]] = Front(s) /\ usedIds' = usedIds
  BY PopFacts, FrontFacts DEF Base

(* sign_optimistic_payout has a session of one nonce. *)
LEMMA FitSignPayout ==
    ASSUME Base, Base', FitAll, SignaturesFit, borrower = None, NEW a \in Attempts,
           NEW v \in Verifiers, SignPayout(a, v)
    PROVE  FitAll' /\ SignaturesFit'
<1> DEFINE id == ids[a][v]
           s == sessions[v][id]
           new == Partial(a, v, Last(s), 1)
<1>1. /\ ~IsDeposit(a) /\ sign[a][v] = "none" /\ calls[a][v] # None
      /\ UNCHANGED <<data, borrower, ids, calls, final, oldIds, held, fin, popped>>
  BY DEF SignPayout, Called, aggregator
<1>2. /\ calls[a][v] = id /\ FitOf(a, v)
      /\ id \in DOMAIN sessions[v] =>
            TableFit(a, IsDeposit(a), HasSigned(a, v), sign[a][v], fin[a][v], popped[a][v], s)
  BY <1>1, FitCalled
<1>3. popped[a][v] = <<>> /\ (IsDeposit(a)' <=> IsDeposit(a))
  BY <1>1, <1>2 DEF FitOf, IsDeposit
<1>4. /\ sign'[a][v] = IF HasNonce(v, id) THEN "done" ELSE "failed"
      /\ \A c \in Attempts, w \in Verifiers : c # a \/ w # v => sign'[c][w] = sign[c][w]
  <2>1. sign \in [Attempts -> [Verifiers -> SignStates]]
    BY DEF Base, SigningTypeOK
  <2> QED BY <1>2, <2>1 DEF SignPayout
<1>5. CASE HasNonce(v, id)
  <2>1. PopNonce(v, id) /\ partials' = partials \cup {new}
    BY <1>2, <1>5 DEF SignPayout
  <2>2. /\ s \in Seq(Nonces) /\ s # <<>> /\ Len(s) \in Nat \ {0}
        /\ Len(Front(s)) = Len(s) - 1 /\ Last(s) = s[Len(s)]
        /\ \A w \in Verifiers \ {v} : sessions'[w] = sessions[w]
        /\ id \in DOMAIN sessions[v] /\ DOMAIN sessions'[v] = DOMAIN sessions[v]
        /\ \A i \in DOMAIN sessions[v] \ {id} : sessions'[v][i] = sessions[v][i]
        /\ sessions'[v][id] = Front(s) /\ usedIds' = usedIds
    BY <1>5, <2>1, FitPop
  <2>3. Fresh(a, IsDeposit(a), s)
    BY <1>1, <1>2, <2>2 DEF TableFit
  <2>4. Len(s) = 1 /\ s[1] = <<a, 1>>
    BY <1>1, <2>2, <2>3 DEF Fresh
  <2>5. Front(s) = <<>>
    <3>1. Front(s) \in Seq(Nonces) /\ Len(Front(s)) = 0
      BY <2>2, <2>4, FrontFacts
    <3> QED BY <3>1, EmptySeq
  <2>6. new.attempt = a /\ new.verifier = v /\ new.nonce = <<a, new.msg>>
    BY <2>2, <2>4 DEF Partial
  <2> HIDE DEF new
  <2>7. HasSigned(a, v)'
    BY <2>1, <2>6 DEF HasSigned
  <2>8. TableFit(a, IsDeposit(a)', HasSigned(a, v)', sign'[a][v], fin'[a][v], popped'[a][v], sessions'[v][id])
    BY <1>1, <1>3, <2>2, <2>5 DEF TableFit
  <2>9. FitOf(a, v)'
    BY <1>1, <1>2, <1>3, <1>4, <1>5, <2>2, <2>7, <2>8 DEF FitOf
  <2> QED BY <1>1, <1>4, <2>1, <2>2, <2>6, <2>9, FitLocal
<1>6. CASE ~HasNonce(v, id)
  <2>1. UNCHANGED <<sessions, usedIds, partials>>
    BY <1>2, <1>6 DEF SignPayout, memory
  <2>2. HasSigned(a, v)' <=> HasSigned(a, v)
    BY <2>1 DEF HasSigned
  <2>3. ASSUME id \in DOMAIN sessions[v]
        PROVE  TableFit(a, IsDeposit(a)', HasSigned(a, v)', sign'[a][v], fin'[a][v], popped'[a][v], s)
    BY <1>1, <1>2, <1>3, <1>4, <1>6, <2>2, <2>3 DEF TableFit, Fresh
  <2>4. FitOf(a, v)'
    BY <1>1, <1>2, <1>3, <1>4, <1>6, <2>1, <2>2, <2>3 DEF FitOf
  <2> QED BY <1>1, <1>4, <2>1, <2>4, FitLocal
<1> QED BY <1>5, <1>6

(* deposit_finalize finds the nonce of the move transaction, then that of  *)

(* the emergency stop.                                                     *)
LEMMA FitPopFinal ==
    ASSUME Base, Base', FitAll, SignaturesFit, borrower = None, NEW a \in Attempts,
           NEW v \in Verifiers, PopFinalNonce(a, v)
    PROVE  FitAll' /\ SignaturesFit'
<1> DEFINE id == ids[a][v]
           s == sessions[v][id]
<1>1. /\ fin[a][v] = "verified"
      /\ UNCHANGED <<data, borrower, ids, calls, final, oldIds, sign, held>>
  BY DEF PopFinalNonce, aggregator
<1>2. calls[a][v] # None /\ final[a] # 0 /\ IsDeposit(a)
  BY <1>1, ConstantFacts DEF Base, TaskInv
<1>3. /\ calls[a][v] = id /\ FitOf(a, v)
      /\ id \in DOMAIN sessions[v] =>
            TableFit(a, IsDeposit(a), HasSigned(a, v), sign[a][v], fin[a][v], popped[a][v], s)
  BY <1>2, FitCalled
<1>4. HasSigned(a, v) /\ IsDeposit(a)'
  BY <1>1, <1>2, <1>3 DEF FitOf, IsDeposit
<1>5. /\ fin \in [Attempts -> [Verifiers -> FinStates]]
      /\ popped \in [Attempts -> [Verifiers -> Seq(Nonces)]]
  BY DEF Base, SigningTypeOK
<1>6. \A c \in Attempts, w \in Verifiers : c # a \/ w # v =>
         fin'[c][w] = fin[c][w] /\ popped'[c][w] = popped[c][w]
  <2>1. popped' = popped \/ \E x : popped' = [popped EXCEPT ![a][v] = x]
    BY DEF PopFinalNonce
  <2>2. fin' = fin \/ \E x : fin' = [fin EXCEPT ![a][v] = x]
    BY DEF PopFinalNonce
  <2> QED BY <1>5, <2>1, <2>2
<1>7. CASE ~HasNonce(v, id)
  <2>1. /\ UNCHANGED <<sessions, usedIds, partials>>
        /\ fin'[a][v] = "failed" /\ popped'[a][v] = <<>>
    BY <1>3, <1>5, <1>7 DEF PopFinalNonce, memory
  <2>2. HasSigned(a, v)' <=> HasSigned(a, v)
    BY <2>1 DEF HasSigned
  <2>3. ASSUME id \in DOMAIN sessions[v]
        PROVE  TableFit(a, IsDeposit(a)', HasSigned(a, v)', sign'[a][v], fin'[a][v], popped'[a][v], s)
    BY <1>1, <1>2, <1>3, <1>4, <2>1, <2>2, <2>3 DEF TableFit
  <2>4. FitOf(a, v)'
    BY <1>1, <1>2, <1>3, <1>4, <2>1, <2>2, <2>3 DEF FitOf
  <2> QED BY <1>1, <1>6, <2>1, <2>4, FitLocal
<1>8. CASE HasNonce(v, id)
  <2>0. PopNonce(v, id)
    BY <1>3, <1>8 DEF PopFinalNonce
  <2>1. /\ s \in Seq(Nonces) /\ s # <<>> /\ Len(s) \in Nat \ {0}
        /\ Len(Front(s)) = Len(s) - 1 /\ Last(s) = s[Len(s)]
        /\ \A w \in Verifiers \ {v} : sessions'[w] = sessions[w]
        /\ id \in DOMAIN sessions[v] /\ DOMAIN sessions'[v] = DOMAIN sessions[v]
        /\ \A i \in DOMAIN sessions[v] \ {id} : sessions'[v][i] = sessions[v][i]
        /\ sessions'[v][id] = Front(s) /\ usedIds' = usedIds
    BY <1>8, <2>0, FitPop
  <2>2. /\ sign[a][v] = "done" /\ Descending(a, s) /\ Len(s) <= 2
        /\ Len(s) = 2 - Len(popped[a][v])
    BY <1>1, <1>2, <1>3, <1>4, <2>1 DEF TableFit
  <2>3. Last(s) = <<a, N + 3 - Len(s)>> /\ Descending(a, Front(s))
    <3> HIDE DEF s
    <3> QED BY <2>1, <2>2, FrontDescends
  <2>4. CASE popped[a][v] = <<>>
    <3>1. popped'[a][v] = <<Last(s)>> /\ UNCHANGED <<fin, partials>>
      BY <1>3, <1>5, <1>8, <2>4 DEF PopFinalNonce
    <3>2. Len(s) = 2 /\ Last(s) = <<a, Move>>
      BY <2>2, <2>3, <2>4, ConstantFacts DEF Move
    <3>3. HasSigned(a, v)' <=> HasSigned(a, v)
      BY <3>1 DEF HasSigned
    <3>4. Len(popped'[a][v]) = 1 /\ Len(sessions'[v][id]) = 1 /\ popped'[a][v][1] = <<a, Move>>
      BY <2>1, <3>1, <3>2
    <3>5. TableFit(a, IsDeposit(a)', HasSigned(a, v)', sign'[a][v], fin'[a][v], popped'[a][v], sessions'[v][id])
      <4>1. sign'[a][v] = "done" /\ Descending(a, sessions'[v][id]) /\ 1 <= 2 /\ 1 = 2 - 1
        BY <1>1, <2>1, <2>2, <2>3
      <4> QED BY <1>4, <3>4, <4>1 DEF TableFit
    <3>6. FitOf(a, v)'
      <4>1. sign'[a][v] = "done" /\ HasSigned(a, v)' /\ usedIds' = usedIds
        BY <1>1, <1>4, <2>1, <2>2, <3>3
      <4> HIDE DEF s
      <4> QED BY <1>1, <1>3, <3>4, <3>5, <4>1 DEF FitOf
    <3> QED BY <1>1, <1>6, <2>1, <3>1, <3>6, FitLocal
  <2>5. CASE popped[a][v] # <<>>
    <3> DEFINE x == popped[a][v][1]
               p1 == Partial(a, v, x, Move)
               p2 == Partial(a, v, Last(s), EmergencyStop)
    <3>1. partials' = partials \cup {p1, p2} /\ popped'[a][v] = <<>> /\ fin'[a][v] = "signed"
      BY <1>3, <1>5, <1>8, <2>5 DEF PopFinalNonce
    <3>2. Len(s) = 1
      <4>1. Len(popped[a][v]) \in Nat /\ Len(popped[a][v]) # 0
        BY <1>5, <2>5, EmptySeq
      <4> DEFINE m == Len(s)
                 n == Len(popped[a][v])
      <4>2. m \in Nat \ {0} /\ m = 2 - n /\ n \in Nat /\ n # 0
        BY <2>1, <2>2, <4>1
      <4> HIDE DEF m, n
      <4>3. m = 1
        BY <4>2
      <4> QED BY <4>3 DEF m
    <3>3. Last(s) = <<a, EmergencyStop>> /\ x = <<a, Move>>
      <4>1. N + 3 - 1 = N + 2
        BY ConstantFacts
      <4> QED BY <1>3, <2>3, <2>5, <3>2, <4>1 DEF FitOf, EmergencyStop
    <3>4. \A p \in {p1, p2} : p.attempt = a /\ p.verifier = v /\ p.nonce = <<a, p.msg>>
      BY <3>3 DEF Partial
    <3> HIDE DEF p1, p2
    <3>5. HasSigned(a, v)'
      BY <3>1, <3>4 DEF HasSigned
    <3>6. TableFit(a, IsDeposit(a)', HasSigned(a, v)', sign'[a][v], fin'[a][v], popped'[a][v], sessions'[v][id])
      <4>1. /\ sign'[a][v] = "done" /\ Descending(a, sessions'[v][id])
            /\ sessions'[v][id] = Front(s)
        BY <1>1, <2>1, <2>2, <2>3
      <4>2. Len(Front(s)) = Len(s) - 1
        BY <2>1
      <4>3. Len(sessions'[v][id]) <= 2
        BY <3>2, <4>1, <4>2
      <4> QED BY <1>4, <3>1, <4>1, <4>3 DEF TableFit
    <3>7. FitOf(a, v)'
      BY <1>1, <1>2, <1>3, <1>4, <2>1, <2>2, <3>1, <3>5, <3>6 DEF FitOf
    <3> QED BY <1>1, <1>6, <2>1, <3>1, <3>4, <3>7, FitLocal
  <2> QED BY <2>4, <2>5
<1> QED BY <1>7, <1>8

(* A restart leaves no session, and remembers the ids that were drawn. *)
LEMMA FitRestart ==
    ASSUME Base, Base', FitAll, SignaturesFit, borrower = None, NEW v \in Verifiers, Restart(v)
    PROVE  FitAll' /\ SignaturesFit'
<1>1. UNCHANGED <<data, borrower, ids, calls, final, partials>>
  BY DEF Restart, aggregator
<1>2. /\ sessions = [w \in Verifiers |-> sessions[w]]
      /\ held \in [Attempts -> [Verifiers -> Seq(Nonces)]]
      /\ popped \in [Attempts -> [Verifiers -> Seq(Nonces)]]
      /\ sign \in [Attempts -> [Verifiers -> SignStates]]
      /\ fin \in [Attempts -> [Verifiers -> FinStates]]
      /\ usedIds \in [Verifiers -> SUBSET Ids] /\ oldIds \in [Verifiers -> SUBSET Ids]
  BY DEF Base, SigningTypeOK
<1>3. /\ DOMAIN sessions'[v] = {} /\ \A w \in Verifiers \ {v} : sessions'[w] = sessions[w]
      /\ \A w \in Verifiers : usedIds[w] \cup oldIds[w] \subseteq usedIds'[w] \cup oldIds'[w]
  <2>1. sessions'[v] = EmptyTable /\ \A w \in Verifiers \ {v} : sessions'[w] = sessions[w]
    BY <1>2 DEF Restart
  <2>2. \A w \in Verifiers : usedIds[w] \cup oldIds[w] \subseteq usedIds'[w] \cup oldIds'[w]
    BY <1>2 DEF Restart
  <2> QED BY <2>1, <2>2 DEF EmptyTable
<1>4. \A c \in Attempts, w \in Verifiers : w # v =>
         /\ sign'[c][w] = sign[c][w] /\ held'[c][w] = held[c][w]
         /\ fin'[c][w] = fin[c][w] /\ popped'[c][w] = popped[c][w]
  BY <1>2 DEF Restart
<1>5. \A c \in Attempts : /\ held'[c][v] = <<>> /\ popped'[c][v] = <<>>
                          /\ sign'[c][v] \in {sign[c][v], "failed"}
                          /\ sign'[c][v] \notin {"open", "signing", "signed"}
  BY <1>2 DEF Restart
<1>6. ASSUME NEW c \in Attempts, NEW w \in Verifiers PROVE FitOf(c, w)'
  <2>0. FitOf(c, w)
    BY DEF FitAll
  <2>1. CASE w # v
    BY <1>1, <1>3, <1>4, <2>0, <2>1, FitSame
  <2>2. CASE w = v
    <3>1. HasSigned(c, v)' <=> HasSigned(c, v)
      BY <1>1 DEF HasSigned
    <3>2. Descending(c, <<>>)
      BY DEF Descending
    <3> QED BY <1>1, <1>3, <1>5, <2>0, <2>2, <3>1, <3>2 DEF FitOf
  <2> QED BY <2>1, <2>2
<1>7. IdsDiffer' /\ SignaturesFit'
  BY <1>1, FitPartials DEF FitAll, IdsDiffer
<1> QED BY <1>6, <1>7 DEF FitAll

(* An attempt that uses its own sessions, which nobody else uses, only     *)
(* gets partial signatures that fit its aggregated nonces: for any number  *)
(* of attempts at once, any evictions and restarts, and any mix of         *)
(* deposits and optimistic payouts.                                        *)
THEOREM SignaturesFitAlways == Spec => []SignaturesFit
<1>1. Init => FitInv
  <2> SUFFICES ASSUME Init PROVE FitInv
    OBVIOUS
  <2>1. partials = {}
    BY DEF Init
  <2>2. ASSUME NEW a \in Attempts, NEW v \in Verifiers PROVE FitOf(a, v)
    <3>1. /\ ids[a][v] = None /\ calls[a][v] = None /\ final[a] = 0 /\ sign[a][v] = "none"
          /\ held[a][v] = <<>> /\ popped[a][v] = <<>>
      BY DEF Init
    <3>2. DOMAIN sessions[v] = {} /\ ~HasSigned(a, v) /\ Descending(a, <<>>)
      BY <2>1 DEF Init, EmptyTable, HasSigned, Descending
    <3> QED BY <3>1, <3>2 DEF FitOf
  <2>3. IdsDiffer
    BY DEF Init, IdsDiffer
  <2> QED BY <2>1, <2>2, <2>3 DEF FitInv, SignaturesFit
<1>2. Base /\ Base' /\ FitInv /\ [Next]_vars => FitInv'
  <2> SUFFICES ASSUME Base, Base', FitInv, [Next]_vars, borrower' = None
               PROVE  FitAll' /\ SignaturesFit'
    BY DEF FitInv, FitAll
  <2>0. borrower = None
    <3>1. ASSUME NEW a \in Attempts, NEW b \in Attempts,
                 OpenStreams(a, b) \/ DistributeNonce(a) \/ AggregateSignature(a) \/ CreateMoveTx(a)
          PROVE  borrower' = borrower
      BY <3>1 DEF OpenStreams, DistributeNonce, AggregateSignature, CreateMoveTx
    <3>2. ASSUME NEW a \in Attempts, NEW v \in Verifiers,
                 \/ \E id \in Ids : NonceGen(a, v, id)
                 \/ BeginSign(a, v) \/ TakeSession(a, v) \/ SignNext(a, v) \/ PutBack(a, v)
                 \/ VerifySignatures(a, v) \/ PopFinalNonce(a, v) \/ SaveSignatures(a, v)
                 \/ SignPayout(a, v)
          PROVE  borrower' = borrower
      BY <3>2 DEF NonceGen, BeginSign, TakeSession, SignNext, PutBack, VerifySignatures,
                  PopFinalNonce, SaveSignatures, SignPayout, aggregator
    <3>3. ASSUME NEW v \in Verifiers, Restart(v) PROVE borrower' = borrower
      BY <3>3 DEF Restart, aggregator
    <3>4. CASE UNCHANGED vars
      BY <3>4 DEF vars, aggregator
    <3> QED BY <3>1, <3>2, <3>3, <3>4 DEF Next
  <2>1. FitAll /\ SignaturesFit
    BY <2>0 DEF FitInv, FitAll
  <2>2. ASSUME NEW a \in Attempts,
               \/ \E b \in Attempts : OpenStreams(a, b)
               \/ DistributeNonce(a) \/ AggregateSignature(a) \/ CreateMoveTx(a)
               \/ \E v \in Verifiers : VerifySignatures(a, v) \/ SaveSignatures(a, v)
        PROVE  FitAll' /\ SignaturesFit'
    BY <2>0, <2>1, <2>2, FitAggregator
  <2>3. ASSUME NEW a \in Attempts, NEW v \in Verifiers, NEW id \in Ids, NonceGen(a, v, id)
        PROVE  FitAll' /\ SignaturesFit'
    BY <2>0, <2>1, <2>3, FitNonceGen
  <2>4. ASSUME NEW a \in Attempts, NEW v \in Verifiers,
               BeginSign(a, v) \/ TakeSession(a, v) \/ SignNext(a, v) \/ PutBack(a, v)
        PROVE  FitAll' /\ SignaturesFit'
    BY <2>0, <2>1, <2>4, FitBeginSign, FitTakeSession, FitSignNext, FitPutBack
  <2>5. ASSUME NEW a \in Attempts, NEW v \in Verifiers, PopFinalNonce(a, v) \/ SignPayout(a, v)
        PROVE  FitAll' /\ SignaturesFit'
    BY <2>0, <2>1, <2>5, FitPopFinal, FitSignPayout
  <2>6. ASSUME NEW v \in Verifiers, Restart(v) PROVE FitAll' /\ SignaturesFit'
    BY <2>0, <2>1, <2>6, FitRestart
  <2>7. CASE UNCHANGED vars
    BY <2>0, <2>1, <2>7, FitQuiet DEF vars, aggregator, memory, tasks, history
  <2> QED BY <2>2, <2>3, <2>4, <2>5, <2>6, <2>7 DEF Next
<1>3. FitInv => SignaturesFit
  BY DEF FitInv, SignaturesFit
<1> QED BY <1>1, <1>2, <1>3, BaseInvariant, PTL DEF Spec
=============================================================================
