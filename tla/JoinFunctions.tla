--------------------------- MODULE JoinFunctions ----------------------------
(***************************************************************************)
(* The functions that the radix joins are made of: clustering a relation   *)
(* by bits of its keys, with padding between the clusters or without, and  *)
(* the three functions that join two clusters with equal radix bits.       *)
(*                                                                         *)
(* A tuple is its key.  Memory is the sequence of the keys in its slots,   *)
(* so that what a function leaves behind or reads too much of is there; a  *)
(* slot is given by its offset, from 0.                                    *)
(***************************************************************************)
EXTENDS Integers, Sequences, FiniteSetsExt, Functions

CONSTANTS
    PASS1RADIXBITS, PASS2RADIXBITS,
    SMALL_PADDING_TUPLES,
    PROBE_BUFFER_SIZE,
    Inputs              \* the inputs: [R |-> keys, S |-> keys]

ASSUME BitsAssumption == PASS1RADIXBITS \in Nat /\ PASS2RADIXBITS \in Nat
ASSUME SizesAssumption ==
    SMALL_PADDING_TUPLES \in Nat \ {0} /\ PROBE_BUFFER_SIZE \in Nat \ {0}
ASSUME InputsAssumption ==
    \A in \in Inputs : in.R \in Seq(Nat) /\ in.S \in Seq(Nat)

FANOUT_PASS1 == 2 ^ PASS1RADIXBITS
FANOUT_PASS2 == 2 ^ PASS2RADIXBITS
NUM_RADIX == FANOUT_PASS1 * FANOUT_PASS2        \* 1 << NUM_RADIX_BITS

PaddingOfACluster == SMALL_PADDING_TUPLES       \* slip: one cluster's, not all of them
PADDING_TUPLES == SMALL_PADDING_TUPLES * (FANOUT_PASS2 + 1)
RELATION_PADDING == PADDING_TUPLES * FANOUT_PASS1       \* in tuples

(* HASH_BIT_MODULO(key, (fanOut - 1) << R, R), where shift is 1 << R.      *)
HASH_BIT_MODULO(key, shift, fanOut) == (key \div shift) % fanOut

Slice(memory, first, n) == SubSeq(memory, first + 1, first + n)
CountIf(n, P(_)) == Cardinality({x \in 1 .. n : P(x)})

(* The tuples of X at some positions, in X's order.                        *)
TuplesAt(X, at) ==
    [k \in 1 .. Cardinality(at) |->
        X[CHOOSE x \in at : Cardinality({y \in at : y < x}) = k - 1]]

(* The power of 2 that v, which is not 0, is rounded up to.                *)
NEXT_POW_2(v) == CHOOSE p \in {2 ^ e : e \in 0 .. v} : v <= p /\ p < 2 * v
-----------------------------------------------------------------------------
(* radix_cluster and radix_cluster_nopadding: X's tuples are counted by    *)
(* cluster, every cluster starts behind those before it and their padding, *)
(* and its tuples go there in X's order.                                   *)

Histogram(X, shift, fanOut) ==
    [c \in 0 .. fanOut - 1 |->
        CountIf(Len(X), LAMBDA x : HASH_BIT_MODULO(X[x], shift, fanOut) = c)]

(* hist[0] + ... + hist[c - 1]: the tuples of the clusters before c.       *)
SumBelow(hist, c) == Cardinality(UNION {{d} \X (1 .. hist[d]) : d \in 0 .. c - 1})

ClusterStart(hist, c, padding) == SumBelow(hist, c) + c * padding

RankInCluster(X, x, shift, fanOut) ==
    CountIf(x - 1, LAMBDA y : HASH_BIT_MODULO(X[y], shift, fanOut)
                              = HASH_BIT_MODULO(X[x], shift, fanOut))

(* The slots that radix_cluster writes from first on, and what to them.    *)
Scattered(X, first, shift, fanOut, padding) ==
    LET hist == Histogram(X, shift, fanOut)
        dst(c) == first + ClusterStart(hist, c, padding)
    IN  {<<dst(HASH_BIT_MODULO(X[x], shift, fanOut)) + RankInCluster(X, x, shift, fanOut),
           X[x]>> : x \in DOMAIN X}

(* memory after what is written to it: slots beyond its end are lost.      *)
Written(memory, new) ==
    [s \in DOMAIN memory |->
        IF \E w \in new : w[1] = s - 1 THEN (CHOOSE w \in new : w[1] = s - 1)[2]
        ELSE memory[s]]
-----------------------------------------------------------------------------
(* bucket_chaining_join: bucket holds the position, from 1, of the last    *)
(* tuple that hashes to it, next that of the one before with its hash.     *)

LastOrNone(positions) == IF positions = {} THEN 0 ELSE Max(positions)

bucket_chaining_join(R, S) ==
    LET N == NEXT_POW_2(Len(R))
        Hash(key) == HASH_BIT_MODULO(key, NUM_RADIX, N)
        bucket == [b \in 0 .. N - 1 |-> LastOrNone({x \in DOMAIN R : Hash(R[x]) = b})]
        next == [x \in DOMAIN R |->
                    LastOrNone({y \in 1 .. x - 1 : Hash(R[y]) = Hash(R[x])})]
        chain[x \in 0 .. Len(R)] == IF x = 0 THEN {} ELSE {x} \union chain[next[x]]
    IN  Cardinality({p \in (DOMAIN R) \X (DOMAIN S) :
            p[1] \in chain[bucket[Hash(S[p[2]])]] /\ R[p[1]] = S[p[2]]})
-----------------------------------------------------------------------------
(* histogram_join and histogram_optimized_join: R is copied to tmpR in the *)
(* order of its hash values, and a tuple of S compared with those of its   *)
(* own.  hist counts from 2 on, is summed up, and then advanced from 1 on, *)
(* so that hash value h ends up with its tuples in hist[h] .. hist[h+1]-1. *)

get_hist_size(relSize) ==
    LET quarter == NEXT_POW_2(relSize) \div 4
    IN  IF quarter < 4 THEN 4 ELSE quarter

HistHash(key, Nhist) == HASH_BIT_MODULO(key, NUM_RADIX, Nhist)

(* hist[h] when it has been summed up.                                     *)
PrefixSum(R, Nhist, h) == CountIf(Len(R), LAMBDA x : HistHash(R[x], Nhist) + 2 <= h)

(* hist when R has been copied, by the tuples that have advanced it.       *)
HistAfterReorder(R) ==
    LET Nhist == get_hist_size(Len(R))
    IN  [h \in 0 .. Nhist + 1 |->
            PrefixSum(R, Nhist, h)
            + CountIf(Len(R), LAMBDA x : HistHash(R[x], Nhist) + 1 = h)]

Reordered(R, first) ==
    LET Nhist == get_hist_size(Len(R))
        hash(x) == HistHash(R[x], Nhist)
    IN  {<<first + PrefixSum(R, Nhist, hash(x) + 1)
                 + CountIf(x - 1, LAMBDA y : hash(y) = hash(x)),
           R[x]>> : x \in DOMAIN R}

(* The loop that is to clear the keys behind R for the comparisons in      *)
(* pairs sets the first of them four times.                                *)
SentinelCleared(numR, first) == {<<first + numR, 0>>}

ProbedScalar(hist, h) == hist[h] .. hist[h + 1] - 1

ProbedWholePairs(hist, h) ==            \* slip: an odd one is not compared
    hist[h] .. hist[h] + 2 * ((hist[h + 1] - hist[h]) \div 2) - 1

(* Tuples are compared two at a time: with an odd number of them the one   *)
(* behind the last, too.                                                   *)
ProbedInPairs(hist, h) ==
    IF (hist[h + 1] - hist[h]) % 2 = 0 THEN hist[h] .. hist[h + 1] - 1
    ELSE hist[h] .. hist[h + 1]

(* probed[h]: the slots a tuple of S with hash value h is compared with.   *)
ProbeAll(S, memory, first, probed, numR) ==
    LET Nhist == get_hist_size(numR)
        MatchesOf(x) ==
            {s \in probed[HistHash(S[x], Nhist)] : memory[first + s + 1] = S[x]}
    IN  Cardinality(UNION {{x} \X MatchesOf(x) : x \in DOMAIN S})

ProbeScalar(S, memory, first, hist, numR) ==
    LET probed == [h \in 0 .. get_hist_size(numR) - 1 |-> ProbedScalar(hist, h)]
    IN  ProbeAll(S, memory, first, probed, numR)

(* S in groups of PROBE_BUFFER_SIZE, then the tuples that are left.        *)
Grouped(S) == SubSeq(S, 1, (Len(S) \div PROBE_BUFFER_SIZE) * PROBE_BUFFER_SIZE)
Remaining(S) == SubSeq(S, Len(S) - (Len(S) % PROBE_BUFFER_SIZE) + 1, Len(S))

ProbeBuffered(S, memory, first, hist, numR) ==
    LET probed == [h \in 0 .. get_hist_size(numR) - 1 |-> ProbedInPairs(hist, h)]
    IN  ProbeAll(Grouped(S), memory, first, probed, numR)
            + ProbeAll(Remaining(S), memory, first, probed, numR)
-----------------------------------------------------------------------------
(* What the joins promise: the number of pairs with equal keys.            *)
Matches(R, S) ==
    Cardinality({p \in (DOMAIN R) \X (DOMAIN S) : R[p[1]] = S[p[2]]})

(* What histogram_optimized_join counts on top of it, wrongly: where all   *)
(* of R hashes like key 0 and has an odd number of tuples, a 0 in S equals *)
(* the 0 that was written behind R.                                        *)
SentinelMatches(R, S) ==
    IF Len(R) % 2 = 1 /\ \A x \in DOMAIN R : HistHash(R[x], get_hist_size(Len(R))) = 0
    THEN CountIf(Len(S), LAMBDA x : S[x] = 0)
    ELSE 0
=============================================================================
