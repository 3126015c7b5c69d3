--------------------------- MODULE DepositSigning ---------------------------
(***************************************************************************)
(* The signing of a deposit: the aggregator collects nonces from every     *)
(* verifier, lets them sign every transaction of the deposit (deposit_sign)*)
(* and, when all those signatures are verified and stored by everybody,    *)
(* the move transaction and its emergency stop (deposit_finalize).  An     *)
(* attempt that fails or times out is started again, perhaps while tasks   *)
(* of the old one still run in the verifiers, and perhaps for other data   *)
(* (another set of operators) about the same deposit outpoint.  Optimistic *)
(* payouts use nonces of the same table of sessions.                       *)
(*                                                                         *)
(* Message k of an attempt is its k-th sighash: 1..N are the transactions  *)
(* of the deposit, then the move transaction and the emergency stop.  A    *)
(* secret nonce is named by the attempt it was generated for and its place *)
(* in the list of public nonces; an aggregated nonce is made of the nonces *)
(* of one attempt at one place, so a partial signature fits when it was    *)
(* made with that nonce.                                                   *)
(*                                                                         *)
(* Nothing is assumed to make progress.  A task that meets an error at one *)
(* of its calls, whose stream ends early or which is dropped, and an       *)
(* attempt that times out, take no further step; what such a task holds is *)
(* gone with it.                                                           *)
(***************************************************************************)
EXTENDS Naturals, Sequences, FiniteSets, SequencesExt

CONSTANTS
    Verifiers,
    Attempts,      \* bound: the calls of new_deposit and optimistic_payout
    Data,          \* the deposit data attempts may carry for one outpoint
    N,             \* get_num_required_nofn_sigs
    Ids,           \* session ids
    MaxSessions,   \* MAX_NUM_SESSIONS
    MaxNonces,     \* MAX_ALL_SESSIONS_BYTES, in nonces
    MaxCrashes,    \* bound: restarts of verifiers
    None

ASSUME SigningAssumption ==
    /\ IsFiniteSet(Verifiers) /\ IsFiniteSet(Attempts)
    /\ N \in Nat \ {0} /\ MaxSessions \in Nat \ {0}
    /\ MaxNonces \in Nat /\ MaxNonces >= N + 2
    /\ "payout" \notin Data /\ None \notin Data \cup Ids \cup Attempts

VARIABLES
    \* the aggregator, for every attempt
    data,      \* the deposit data, or "payout" for an optimistic payout
    borrower,  \* an attempt whose calls carry session ids of another, or None
    ids,       \* the session id every verifier answered
    calls,     \* the session id in the call to every verifier
    phase,     \* where it is
    agg,       \* how many aggregated nonces were sent to the verifiers
    final,     \* how many aggregated signatures it has
    \* the memory of the verifiers
    sessions,  \* AllSessions.sessions: the nonces left, the next one last
    queue,     \* AllSessions.session_queue
    usedIds,   \* AllSessions.used_ids
    sign,      \* for every attempt and verifier, the task of deposit_sign
    held,      \* and the session it took
    fin,       \* the task of deposit_finalize
    popped,    \* and the nonces it popped
    \* their databases
    deposit,   \* the deposit data of the outpoint
    saved,     \* the data whose signatures are stored
    \* history
    partials,  \* the partial signatures ever made
    moved,     \* the data whose move transaction was signed by all
    oldIds,    \* the ids drawn before the last restart
    crashes

aggregator == <<data, borrower, ids, calls, phase, agg, final>>
memory == <<sessions, queue, usedIds>>
tasks == <<sign, held, fin, popped>>
db == <<deposit, saved>>
history == <<partials, moved, oldIds, crashes>>
vars == <<aggregator, memory, tasks, db, history>>

Move == N + 1
EmergencyStop == N + 2

IsDeposit(a) == data[a] # "payout"

NumNonces(a) == IF IsDeposit(a) THEN N + 2 ELSE 1

EmptyTable == [i \in {} |-> <<>>]

Init ==
    /\ data \in [Attempts -> Data \cup {"payout"}]
    /\ borrower \in Attempts \cup {None}
    /\ ids = [a \in Attempts |-> [v \in Verifiers |-> None]]
    /\ calls = ids
    /\ phase = [a \in Attempts |-> "nonces"]
    /\ agg = [a \in Attempts |-> 0]
    /\ final = [a \in Attempts |-> 0]
    /\ sessions = [v \in Verifiers |-> EmptyTable]
    /\ queue = [v \in Verifiers |-> <<>>]
    /\ usedIds = [v \in Verifiers |-> {}]
    /\ sign = [a \in Attempts |-> [v \in Verifiers |-> "none"]]
    /\ held = [a \in Attempts |-> [v \in Verifiers |-> <<>>]]
    /\ fin = sign
    /\ popped = held
    /\ deposit = [v \in Verifiers |-> None]
    /\ saved = [v \in Verifiers |-> None]
    /\ partials = {}
    /\ moved = {}
    /\ oldIds = [v \in Verifiers |-> {}]
    /\ crashes = 0

-----------------------------------------------------------------------------
(* The table of nonce sessions.  Each operation holds the lock on it. *)

(* What is left of the table when the first k ids of the queue are popped  *)
(* and their sessions removed.                                             *)
Kept(v, k) == DOMAIN sessions[v] \ ToSet(SubSeq(queue[v], 1, k))

Fits(v, kept, nonces) ==
    /\ Cardinality(kept) < MaxSessions
    /\ Len(nonces) + MapThenSumSet(LAMBDA id : Len(sessions[v][id]), kept) <= MaxNonces

(* How many sessions add_new_session_with_id evicts: the oldest ones go    *)
(* until the new one fits in number and in bytes.                          *)
Evicted(v, nonces) ==
    CHOOSE k \in 0..Len(queue[v]) :
        /\ Fits(v, Kept(v, k), nonces)
        /\ \A j \in 0..(k - 1) : ~Fits(v, Kept(v, j), nonces)

AddSession(v, id, nonces) ==
    LET k == Evicted(v, nonces)
    IN /\ queue' = [queue EXCEPT ![v] = Append(SubSeq(@, k + 1, Len(@)), id)]
       /\ sessions' = [sessions EXCEPT ![v] =
              [i \in Kept(v, k) \cup {id} |-> IF i = id THEN nonces ELSE @[i]]]
       /\ usedIds' = [usedIds EXCEPT ![v] = @ \cup {id}]

RemoveSession(v, id) ==
    /\ sessions' = [sessions EXCEPT ![v] =
           [i \in DOMAIN @ \ {id} |-> @[i]]]
    /\ queue' = [queue EXCEPT ![v] = SelectSeq(@, LAMBDA i : i # id)]
    /\ UNCHANGED usedIds

(* Mutant of PopNonce: the nonce is read and stays in the session. *)
PeekNonce(v, id) == UNCHANGED memory

PopNonce(v, id) ==
    /\ sessions' = [sessions EXCEPT ![v][id] = Front(@)]
    /\ UNCHANGED <<queue, usedIds>>

HasNonce(v, id) == id \in DOMAIN sessions[v] /\ sessions[v][id] # <<>>

(* The ids are random 128-bit numbers: any that is not in used_ids.  That  *)
(* none of an earlier life of the process is drawn again is left to chance.*)
(* Mutant of UnusedIds: only the sessions in the table are compared.       *)
AbsentIds(v) == Ids \ (DOMAIN sessions[v] \cup oldIds[v])

UnusedIds(v) == Ids \ (usedIds[v] \cup oldIds[v])

(* nonce_gen: a session with as many nonces as the attempt asks for. *)
NonceGen(a, v, id) ==
    /\ phase[a] = "nonces" /\ ids[a][v] = None
    /\ id \in UnusedIds(v)
    /\ AddSession(v, id, [i \in 1..NumNonces(a) |-> <<a, i>>])
    /\ ids' = [ids EXCEPT ![a][v] = id]
    /\ UNCHANGED <<data, borrower, calls, phase, agg, final, tasks, db, history>>

-----------------------------------------------------------------------------
(* The aggregator. *)

(* The attempts whose ids an attempt puts in its calls: its own, or by a   *)
(* mistake of the caller another one's.                                    *)
Sources(a) == IF a = borrower THEN Attempts ELSE {a}

(* create_nonce_streams: every verifier has answered with its session. *)
HasNonces(a) == \A v \in Verifiers : ids[a][v] # None

(* new_deposit opens the streams of deposit_sign and of deposit_finalize   *)
(* and sends their first parameter; optimistic_payout calls every verifier.*)
OpenStreams(a, b) ==
    /\ phase[a] = "nonces" /\ b \in Sources(a)
    /\ HasNonces(a) /\ HasNonces(b)
    /\ calls' = [calls EXCEPT ![a] = ids[b]]
    /\ phase' = [phase EXCEPT ![a] = "signing"]
    /\ UNCHANGED <<data, borrower, ids, agg, final, memory, tasks, db, history>>

(* nonce_aggregator combines the nonces of all verifiers at one place. *)
AggregatedNonce(a, k) == <<a, k>>

(* nonce_distributor sends the next one to every verifier. *)
DistributeNonce(a) ==
    /\ phase[a] = "signing" /\ IsDeposit(a) /\ agg[a] < N
    /\ agg' = [agg EXCEPT ![a] = @ + 1]
    /\ UNCHANGED <<data, borrower, ids, calls, phase, final, memory, tasks, db, history>>

PartialsOf(a, k) == {p \in partials : p.attempt = a /\ p.msg = k}

(* aggregate_partial_signatures verifies what it made. *)
Aggregates(a, k) == \A p \in PartialsOf(a, k) : p.nonce = AggregatedNonce(a, k)

(* signature_aggregator: a partial signature of every verifier, in order.  *)
AggregateSignature(a) ==
    LET k == final[a] + 1
    IN /\ phase[a] = "signing" /\ IsDeposit(a) /\ k <= N
       /\ {p.verifier : p \in PartialsOf(a, k)} = Verifiers
       /\ IF Aggregates(a, k)
          THEN final' = [final EXCEPT ![a] = k] /\ UNCHANGED phase
          ELSE phase' = [phase EXCEPT ![a] = "over"] /\ UNCHANGED final
       /\ UNCHANGED <<data, borrower, ids, calls, agg, memory, tasks, db, history>>

(* The answers of deposit_finalize are aggregated, the emergency stop      *)
(* first: a move transaction signed by all.                                *)
CreateMoveTx(a) ==
    /\ phase[a] = "signing" /\ \A v \in Verifiers : fin[a][v] = "returned"
    /\ moved' = IF Aggregates(a, EmergencyStop) /\ Aggregates(a, Move)
                THEN moved \cup {data[a]} ELSE moved
    /\ phase' = [phase EXCEPT ![a] = "over"]
    /\ UNCHANGED <<data, borrower, ids, calls, agg, final, memory, tasks, db, partials, oldIds, crashes>>


-----------------------------------------------------------------------------
(* deposit_sign in a verifier. *)

(* The first parameter of a call: the deposit data and the session id. *)
Called(a, v) == calls[a][v] # None

(* insert_deposit_data_if_not_exists: one deposit data for an outpoint.    *)
(* Mutant of Matches: data that differs from the row is not refused.       *)
AnyData(a, v) == TRUE

Matches(a, v) == deposit[v] \in {None, data[a]}

BeginSign(a, v) ==
    /\ IsDeposit(a) /\ sign[a][v] = "none" /\ Called(a, v)
    /\ IF Matches(a, v)
       THEN /\ sign' = [sign EXCEPT ![a][v] = "open"]
            /\ deposit' = [deposit EXCEPT ![v] = IF @ = None THEN data[a] ELSE @]
       ELSE sign' = [sign EXCEPT ![a][v] = "failed"] /\ UNCHANGED deposit
    /\ UNCHANGED <<aggregator, memory, held, fin, popped, saved, history>>

(* The spawned task takes the session out of the table; one of a wrong     *)
(* size is dropped.                                                        *)
TakeSession(a, v) ==
    LET id == calls[a][v]
    IN /\ sign[a][v] = "open"
       /\ IF id \in DOMAIN sessions[v]
          THEN /\ RemoveSession(v, id)
               /\ IF Len(sessions[v][id]) = N + 2
                  THEN /\ sign' = [sign EXCEPT ![a][v] = "signing"]
                       /\ held' = [held EXCEPT ![a][v] = Reverse(sessions[v][id])]
                  ELSE sign' = [sign EXCEPT ![a][v] = "failed"] /\ UNCHANGED held
          ELSE /\ sign' = [sign EXCEPT ![a][v] = "failed"]
               /\ UNCHANGED <<memory, held>>
       /\ UNCHANGED <<aggregator, fin, popped, db, history>>

Partial(a, v, nonce, k) == [attempt |-> a, verifier |-> v, nonce |-> nonce, msg |-> k]

(* The next sighash is signed with the next nonce, and sent. *)
SignNext(a, v) ==
    LET k == N + 3 - Len(held[a][v])
    IN /\ sign[a][v] = "signing" /\ k <= agg[a]
       /\ partials' = partials \cup {Partial(a, v, Last(held[a][v]), k)}
       /\ held' = [held EXCEPT ![a][v] = Front(@)]
       /\ sign' = [sign EXCEPT ![a][v] = IF k = N THEN "signed" ELSE @]
       /\ UNCHANGED <<aggregator, memory, fin, popped, db, moved, oldIds, crashes>>

(* Only then are the two nonces that are left put back in the table, under *)
(* the same id; that a session has it meanwhile is an error.               *)
PutBack(a, v) ==
    LET id == calls[a][v]
    IN /\ sign[a][v] = "signed"
       /\ id \notin DOMAIN sessions[v]
       /\ AddSession(v, id, held[a][v])
       /\ held' = [held EXCEPT ![a][v] = <<>>]
       /\ sign' = [sign EXCEPT ![a][v] = "done"]
       /\ UNCHANGED <<aggregator, fin, popped, db, history>>

-----------------------------------------------------------------------------
(* deposit_finalize in a verifier. *)

(* signature_distributor sends the signatures as they are made, and then   *)
(* the aggregated nonces of the last two messages.                         *)
SignaturesSent(a) == final[a] = N

(* The N-of-N signatures are received and verified, then the aggregated    *)
(* nonces of the last two messages, then the signatures of the operators.  *)
VerifySignatures(a, v) ==
    /\ fin[a][v] = "none" /\ Called(a, v)
    /\ SignaturesSent(a)
    /\ fin' = [fin EXCEPT ![a][v] = "verified"]
    /\ UNCHANGED <<aggregator, memory, sign, held, popped, db, history>>

(* The nonces of the move transaction and of the emergency stop are popped *)
(* from the session in the table, with the lock taken twice.  Without the  *)
(* second nonce nothing is signed.                                         *)
PopFinalNonce(a, v) ==
    LET id == calls[a][v]
        nonce == Last(sessions[v][id])
    IN /\ fin[a][v] = "verified"
       /\ IF HasNonce(v, id)
          THEN /\ PopNonce(v, id)
               /\ IF popped[a][v] = <<>>
                  THEN /\ popped' = [popped EXCEPT ![a][v] = <<nonce>>]
                       /\ UNCHANGED <<fin, partials>>
                  ELSE /\ partials' = partials \cup {Partial(a, v, popped[a][v][1], Move),
                                                    Partial(a, v, nonce, EmergencyStop)}
                       /\ popped' = [popped EXCEPT ![a][v] = <<>>]
                       /\ fin' = [fin EXCEPT ![a][v] = "signed"]
          ELSE /\ fin' = [fin EXCEPT ![a][v] = "failed"]
               /\ popped' = [popped EXCEPT ![a][v] = <<>>]
               /\ UNCHANGED <<memory, partials>>
       /\ UNCHANGED <<aggregator, sign, held, db, moved, oldIds, crashes>>

(* insert_deposit_signatures_if_not_exist for every kickoff, in one        *)
(* transaction: other signatures that are there already are an error.      *)
(* Only when it has committed are the two partial signatures returned.     *)
SaveSignatures(a, v) ==
    /\ fin[a][v] = "signed"
    /\ LET ok == saved[v] \in {None, data[a]}
       IN /\ saved' = [saved EXCEPT ![v] = IF ok THEN data[a] ELSE @]
          /\ fin' = [fin EXCEPT ![a][v] = IF ok THEN "returned" ELSE "failed"]
    /\ UNCHANGED <<aggregator, memory, sign, held, popped, deposit, history>>

-----------------------------------------------------------------------------
(* sign_optimistic_payout: one nonce of a session, for one signature. *)
SignPayout(a, v) ==
    LET id == calls[a][v]
    IN /\ ~IsDeposit(a) /\ sign[a][v] = "none" /\ Called(a, v)
       /\ IF HasNonce(v, id)
          THEN /\ PopNonce(v, id)
               /\ partials' = partials \cup {Partial(a, v, Last(sessions[v][id]), 1)}
               /\ sign' = [sign EXCEPT ![a][v] = "done"]
          ELSE /\ sign' = [sign EXCEPT ![a][v] = "failed"]
               /\ UNCHANGED <<memory, partials>>
       /\ UNCHANGED <<aggregator, held, fin, popped, db, moved, oldIds, crashes>>

(* The process stops and starts: its memory and its tasks are gone, and    *)
(* so is a call that was on its way to it.                                 *)
Restart(v) ==
    /\ crashes < MaxCrashes
    /\ sessions' = [sessions EXCEPT ![v] = EmptyTable]
    /\ queue' = [queue EXCEPT ![v] = <<>>]
    /\ usedIds' = [usedIds EXCEPT ![v] = {}]
    /\ oldIds' = [oldIds EXCEPT ![v] = @ \cup usedIds[v]]
    /\ sign' = [a \in Attempts |-> [sign[a] EXCEPT ![v] =
           IF @ \in {"open", "signing", "signed"} THEN "failed" ELSE @]]
    /\ held' = [a \in Attempts |-> [held[a] EXCEPT ![v] = <<>>]]
    /\ fin' = [a \in Attempts |-> [fin[a] EXCEPT ![v] =
           IF @ \in {"verified", "signed"} THEN "failed" ELSE @]]
    /\ popped' = [a \in Attempts |-> [popped[a] EXCEPT ![v] = <<>>]]
    /\ crashes' = crashes + 1
    /\ UNCHANGED <<aggregator, db, partials, moved>>

-----------------------------------------------------------------------------
Next ==
    \/ \E a \in Attempts :
          \/ \E b \in Attempts : OpenStreams(a, b)
          \/ DistributeNonce(a)
          \/ AggregateSignature(a)
          \/ CreateMoveTx(a)
    \/ \E a \in Attempts, v \in Verifiers :
          \/ \E id \in Ids : NonceGen(a, v, id)
          \/ BeginSign(a, v)
          \/ TakeSession(a, v)
          \/ SignNext(a, v)
          \/ PutBack(a, v)
          \/ VerifySignatures(a, v)
          \/ PopFinalNonce(a, v)
          \/ SaveSignatures(a, v)
          \/ SignPayout(a, v)
    \/ \E v \in Verifiers : Restart(v)

Spec == Init /\ [][Next]_vars

-----------------------------------------------------------------------------
(* Properties. *)

(* A secret nonce makes at most one partial signature: whatever session    *)
(* ids the calls of deposit_sign, deposit_finalize and the optimistic      *)
(* payout carry, however their tasks interleave while a session is out of  *)
(* the table, evicted or put back.  A second signature with the same nonce *)
(* would give the key of the verifier away.                                *)
NonceSignsOnce ==
    \A p, q \in partials : p.verifier = q.verifier /\ p.nonce = q.nonce => p = q

(* A move transaction signed by all commits the deposit to the bridge.     *)
(* Every verifier has then stored the signatures of all its other          *)
(* transactions, for the same deposit data as the row of its outpoint,     *)
(* after restarts and attempts with other data too.                        *)
MoveTxIsProtected ==
    \A d \in moved, v \in Verifiers : saved[v] = d /\ deposit[v] = d

(* An attempt that uses its own sessions, which nobody else uses, only     *)
(* gets partial signatures that fit its aggregated nonces: the session put *)
(* back by deposit_sign holds the nonces deposit_finalize expects, in that *)
(* order, and no session made meanwhile takes its place.                   *)
SignaturesFit ==
    \A p \in partials :
        borrower = None => p.nonce = <<p.attempt, p.msg>>
=============================================================================
