----------------------------- MODULE HeaderChain ----------------------------
(***************************************************************************)
(* The header chain circuit: the chain state it commits to, the headers it *)
(* accepts, and the Merkle mountain range (MMR) of the block hashes, whose *)
(* inclusion proofs the host computes from all the hashes and the circuit  *)
(* verifies from the subroots alone.  Beside it, as the reference, the     *)
(* rules by which Bitcoin chooses the targets of the blocks.               *)
(*                                                                         *)
(* A hash is the height of its block, hash_pair(a, b) is <<a, b>>.  A      *)
(* target is a number, and its compact form `bits` is <<size, mantissa>>   *)
(* in base Base, of which three digits are kept, the top one less than     *)
(* half of the base (the sign bit).                                        *)
(***************************************************************************)
EXTENDS Integers, FiniteSets, SequencesExt

CONSTANTS
    BlocksPerEpoch,     \* BLOCKS_PER_EPOCH
    Window,             \* the number of timestamps in prev_11_timestamps
    Timespan,           \* EXPECTED_EPOCH_TIMESPAN
    Gap,                \* 1200: testnet4 allows the maximum target after such a gap
    Base,               \* a byte of a target has this many values
    MaxTarget,          \* NETWORK_CONSTANTS.max_target
    WorkSpace           \* the number of hashes, 2^256

ASSUME ChainAssumption ==
    /\ BlocksPerEpoch \in Nat \ {0, 1} /\ Window \in Nat \ {0} /\ Window % 2 = 1
    /\ Timespan \in Nat /\ Timespan > 0 /\ Timespan % 4 = 0 /\ Gap \in Nat
    /\ Base \in Nat /\ Base % 2 = 0 /\ Base > 0
    /\ MaxTarget \in Nat /\ WorkSpace \in Nat
    /\ Base^2 <= 2 * MaxTarget /\ MaxTarget < WorkSpace

(* The element of f in the middle, the later of two, if its values were    *)
(* sorted.                                                                 *)
MedianOf(f) ==
    CHOOSE t \in {f[i] : i \in DOMAIN f} :
        /\ 2 * Cardinality({i \in DOMAIN f : f[i] < t}) <= Cardinality(DOMAIN f)
        /\ 2 * Cardinality({i \in DOMAIN f : f[i] <= t}) > Cardinality(DOMAIN f)

-----------------------------------------------------------------------------
(* Bitcoin (external). *)

Clamped(span) ==
    IF span < Timespan \div 4 THEN Timespan \div 4
    ELSE IF span > 4 * Timespan THEN 4 * Timespan ELSE span

(* The targets that have a compact form, up to the maximum. *)
Compact == {c \in [exp : 0..5, mantissa : 0..(Base^3 \div 2) - 1] :
               c.mantissa * Base^c.exp <= MaxTarget}

RoundedDown(t) ==
    Max({c.mantissa * Base^c.exp : c \in {c \in Compact : c.mantissa * Base^c.exp <= t}})

BitsOfTarget(t) ==
    LET c == CHOOSE c \in Compact :
                /\ c.mantissa * Base^c.exp = t
                /\ \A d \in Compact : d.mantissa * Base^d.exp = t => c.exp <= d.exp
    IN  <<c.exp + 3, c.mantissa>>

(* The targets of the epochs of a chain whose blocks have the given times. *)
EpochTargets(time, last) ==
    LET target[e \in 0..last] ==
            IF e = 0 THEN MaxTarget
            ELSE LET first == (e - 1) * BlocksPerEpoch
                     span == Clamped(time[first + BlocksPerEpoch - 1] - time[first])
                     new == (target[e - 1] * span) \div Timespan
                 IN  RoundedDown(IF new > MaxTarget THEN MaxTarget ELSE new)
    IN  target

(* The target of block h: regtest never adjusts it, and a testnet4 block   *)
(* that is late has the maximum, unless it is the first of its epoch.      *)
TargetAt(net, time, epochs, h) ==
    IF \/ net = "regtest"
       \/ /\ net = "testnet4" /\ h % BlocksPerEpoch # 0
          /\ time[h] > time[h - 1] + Gap
    THEN MaxTarget
    ELSE epochs[h \div BlocksPerEpoch]

(* The median time past: the median of the Window blocks before h, or of   *)
(* all of them where there are fewer.                                      *)
MedianTimePast(time, h) == MedianOf([i \in Max({0, h - Window})..h - 1 |-> time[i]])

WorkOf(target) == WorkSpace \div (target + 1)

(* The headers of a chain.  `pow` is the number that the block's hash is:  *)
(* the largest that Bitcoin accepts.                                       *)
HeadersOf(net, time) ==
    LET epochs == EpochTargets(time, Max(DOMAIN time) \div BlocksPerEpoch)
    IN  [h \in DOMAIN time |->
            LET target == TargetAt(net, time, epochs, h)
            IN  [hash |-> h, prev |-> h - 1, time |-> time[h],
                 bits |-> BitsOfTarget(target), pow |-> target]]

-----------------------------------------------------------------------------
(* The MMR of the circuit: its subroots and its size. *)

MaxLevel == 4       \* bound: the MMRs have less than 2^MaxLevel leaves

EmptyMmr == [subroots |-> << >>, size |-> 0]

(* How often the loop of append halves the size: its trailing ones. *)
Merges(size) == Max({k \in 0..MaxLevel : (size + 1) % 2^k = 0})

(* Mutant of MmrAppend: the sibling is hashed on the wrong side. *)
MmrAppendSwapped(mmr, leaf) ==
    LET kept == Len(mmr.subroots) - Merges(mmr.size)
        popped == SubSeq(mmr.subroots, kept + 1, Len(mmr.subroots))
    IN  [subroots |-> Append(SubSeq(mmr.subroots, 1, kept),
                             FoldRight(LAMBDA sibling, x : <<x, sibling>>, popped, leaf)),
         size |-> mmr.size + 1]

(* MMRGuest::append *)
MmrAppend(mmr, leaf) ==
    LET kept == Len(mmr.subroots) - Merges(mmr.size)
        popped == SubSeq(mmr.subroots, kept + 1, Len(mmr.subroots))
    IN  [subroots |-> Append(SubSeq(mmr.subroots, 1, kept),
                             FoldRight(LAMBDA sibling, x : <<sibling, x>>, popped, leaf)),
         size |-> mmr.size + 1]

Bit(n, i) == (n \div 2^i) % 2

(* MMRGuest::verify_proof *)
VerifyProof(mmr, leaf, proof) ==
    LET path == [i \in 1..Len(proof.inclusion_proof) |->
                    [right |-> Bit(proof.internal_idx, i - 1) = 1,
                     sibling |-> proof.inclusion_proof[i]]]
        Up(x, step) == IF step.right THEN <<step.sibling, x>> ELSE <<x, step.sibling>>
    IN  /\ proof.subroot_idx + 1 \in DOMAIN mmr.subroots
        /\ mmr.subroots[proof.subroot_idx + 1] = FoldLeft(Up, leaf, path)

(* MMRNative: the levels over the leaves.  append pushes the hash of every *)
(* full pair of a level to the level above, so that level k has one node   *)
(* for every 2^k leaves.                                                   *)
Levels(leaves) ==
    LET level[k \in 0..MaxLevel] ==
            IF k = 0 THEN leaves
            ELSE [i \in 1..(Len(leaves) \div 2^k) |->
                     <<level[k - 1][2 * i - 1], level[k - 1][2 * i]>>]
    IN  level

(* get_helpers_from_index: the peak of a leaf and its place below it. *)
GetHelpers(size, index) ==
    LET differ == {i \in 0..MaxLevel : Bit(size, i) # Bit(index, i)}
        top == Max(differ)
    IN  [subroot_idx |-> Cardinality({i \in top + 1..MaxLevel : Bit(size, i) = 1}),
         internal_idx |-> index % 2^top]

(* generate_proof: the siblings from the leaf up to the first level whose  *)
(* last node, at an odd length, is the leaf's ancestor.                    *)
GenerateProof(leaves, index) ==
    LET level == Levels(leaves)
        peak == Min({k \in 0..MaxLevel : /\ Len(level[k]) % 2 = 1
                                  /\ index \div 2^k = Len(level[k]) - 1})
        Sibling(i) == IF i % 2 = 0 THEN i + 1 ELSE i - 1
        helpers == GetHelpers(Len(leaves), index)
    IN  [subroot_idx |-> helpers.subroot_idx,
         internal_idx |-> helpers.internal_idx,
         inclusion_proof |-> [k \in 1..peak |-> level[k - 1][Sibling(index \div 2^(k - 1)) + 1]]]

-----------------------------------------------------------------------------
(* The circuit. *)

(* bits_to_target *)
BitsToTarget(bits) ==
    LET size == bits[1]
        mantissa == bits[2]
    IN  IF 2 * mantissa >= Base^3 THEN 0
        ELSE IF size <= 3 THEN mantissa \div Base^(3 - size)
        ELSE mantissa * Base^(size - 3)

(* target_to_bits: the shortest form that leaves the sign bit clear.  The  *)
(* code panics on a target of less than three digits, which no chain has.  *)
TargetToBits(target) ==
    LET size == Min({n \in 3..8 : 2 * target < Base^n})
    IN  <<size, target \div Base^(size - 3)>>

MaxBits == TargetToBits(MaxTarget)

(* calculate_work: ~x / (x + 1) + 1 *)
CalculateWork(target) == (WorkSpace - 1 - target) \div (target + 1) + 1

(* calculate_new_difficulty.  The difference of the times is unsigned: an  *)
(* epoch that ends before it starts is outside the model.                  *)
CalculateNewDifficulty(start, end, bits) ==
    LET span == IF end - start < Timespan \div 4 THEN Timespan \div 4
                ELSE IF end - start > Timespan * 4 THEN Timespan * 4
                ELSE end - start
        new == (BitsToTarget(bits) * span) \div Timespan
    IN  IF new > MaxTarget THEN MaxTarget ELSE new

ValidateTimestamp(time, prev) == time > MedianOf(prev)

(* One header of apply_block_headers.  run.state is the chain state; ok    *)
(* says that no assertion failed; target and last are the variables        *)
(* current_target_bytes and last_block_time, which live for one batch.     *)
ApplyHeader(net, run, header) ==
    LET s == run.state
        height == s.block_height + 1
        late == /\ net = "testnet4"
                /\ header.time > run.last + Gap
                /\ height % BlocksPerEpoch # 0
        expected_bits == IF late \/ net = "regtest" THEN MaxBits ELSE s.current_target_bits
        target_to_use == IF late THEN MaxTarget ELSE run.target
        epoch_start_time == IF net # "regtest" /\ height % BlocksPerEpoch = 0
                            THEN header.time ELSE s.epoch_start_time
        adjusts == net # "regtest" /\ height % BlocksPerEpoch = BlocksPerEpoch - 1
        target == IF adjusts THEN CalculateNewDifficulty(epoch_start_time, header.time,
                                                         s.current_target_bits)
                  ELSE run.target
    IN  [ok |-> /\ run.ok
                /\ header.prev = s.best_block_hash
                /\ header.bits = expected_bits
                /\ header.pow <= target_to_use
                /\ ValidateTimestamp(header.time, s.prev_timestamps),
         target |-> target,
         last |-> header.time,
         state |->
            [block_height |-> height,
             total_work |-> s.total_work + CalculateWork(target_to_use),
             best_block_hash |-> header.hash,
             current_target_bits |-> IF adjusts THEN TargetToBits(target)
                                     ELSE s.current_target_bits,
             epoch_start_time |-> epoch_start_time,
             prev_timestamps |-> [s.prev_timestamps EXCEPT ![height % Window] = header.time],
             block_hashes_mmr |-> MmrAppend(s.block_hashes_mmr, header.hash)]]

(* The loop over the headers (the singleton sets name the value of a turn). *)
ApplyAll(net, start, headers) ==
    LET run[i \in 0..Len(headers)] ==
            IF i = 0 THEN start
            ELSE CHOOSE r \in {ApplyHeader(net, before, headers[i]) : before \in {run[i - 1]}} : TRUE
    IN  run[Len(headers)]

(* Mutant of ApplyBlockHeaders: the time of the last block is not taken    *)
(* from the state.                                                         *)
ApplyBlockHeadersNoLast(net, state, headers) ==
    LET start == [ok |-> TRUE, state |-> state, last |-> 0,
                  target |-> IF net = "regtest" THEN MaxTarget
                             ELSE BitsToTarget(state.current_target_bits)]
    IN  ApplyAll(net, start, headers)

(* apply_block_headers *)
ApplyBlockHeaders(net, state, headers) ==
    LET start == [ok |-> TRUE,
                  state |-> state,
                  last |-> state.prev_timestamps[state.block_height % Window],
                  target |-> IF net = "regtest" THEN MaxTarget
                             ELSE BitsToTarget(state.current_target_bits)]
    IN  ApplyAll(net, start, headers)
=============================================================================
