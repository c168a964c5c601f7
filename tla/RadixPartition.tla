--------------------------- MODULE RadixPartition ---------------------------
(***************************************************************************)
(* The first pass of the parallel radix join: nthreads threads partition   *)
(* relation R, then relation S, together, by calling                       *)
(* parallel_radix_partition from prj_thread.  While they scan R they fill  *)
(* one shared Bloom filter; while they scan S they drop every tuple whose  *)
(* key the filter does not contain.                                        *)
(*                                                                         *)
(* One action is one iteration of one loop of parallel_radix_partition in  *)
(* one thread, or one bit of the filter set or tested: that is where the   *)
(* threads interleave.  The shared state is the filter, the histograms and *)
(* the output relations tmp; everything else is local to a thread, and     *)
(* what it reads of the others is what the two barriers are there for.     *)
(***************************************************************************)
EXTENDS Integers, Sequences

CONSTANTS
    NThreads,   \* nthreads
    FanOut,     \* fanOut = 1 << D, the number of partitions
    Shift,      \* 1 << R: the radix bits start at bit R of the key
    Padding,    \* padding, in tuples, before each partition but the first
    Keys,       \* the keys of the tuples
    Inputs,     \* the relations joined: sequences of keys, a tuple each
    K,          \* filter->k, the number of hash functions
    Positions   \* Positions[key][b]: the b-th bit of the filter for a key

ASSUME NThreadsAssumption == NThreads \in Nat \ {0}
ASSUME FanOutAssumption == FanOut \in Nat \ {0} /\ Shift \in Nat \ {0}
ASSUME PaddingAssumption == Padding \in Nat
ASSUME InputsAssumption == Keys \subseteq Nat /\ Inputs \subseteq Seq(Keys)
ASSUME FilterAssumption == K \in Nat /\ Positions \in [Keys -> [0 .. K-1 -> Nat]]

VARIABLES
    rel,        \* rel[r]: relation R (r = 0) or S (r = 1); never changes
    pc,         \* pc[t]: the loop, or the barrier, thread t is in
    relidx,     \* relidx[t]: part->relidx, the relation t is partitioning
    i,          \* i[t]: the counter of that loop
    bit,        \* bit[t]: the counter of the loop in add or contains
    bitmap,     \* the bits set in the Bloom filter
    hist,       \* hist[r][t][c]: histR[t][c] and histS[t][c]
    contains_cache, \* contains_cache[t]: the indices whose bit is set
    output,     \* output[r][t]: outputR and outputS of thread t
    dst,        \* dst[t][c]: where t puts its next tuple of partition c
    tmp         \* tmp[r]: tmpR and tmpS; what has been written, by slot

vars == <<rel, pc, relidx, i, bit, bitmap, hist, contains_cache, output, dst, tmp>>

Threads  == 0 .. NThreads - 1
Clusters == 0 .. FanOut - 1
Rels     == {0, 1}

(* The relation thread t is partitioning. *)
Rel(t) == rel[relidx[t]]

(* The chunk of a relation X that join_init_run assigns to thread t.       *)
numperthr(X) == Len(X) \div NThreads

num_tuples_even(X, t) == numperthr(X)       \* slip: the remainder is forgotten

num_tuples(X, t) ==
    IF t = NThreads - 1 THEN Len(X) - t * numperthr(X) ELSE numperthr(X)

(* The position in the relation of the tuple with index n in t's chunk.    *)
Position(X, t, n) == t * numperthr(X) + n + 1

Key(X, t, n) == X[Position(X, t, n)]

(* HASH_BIT_MODULO(key, (fanOut - 1) << R, R) *)
HASH_BIT_MODULO(key) == (key \div Shift) % FanOut

(* tmpRelR and tmpRelS are allocated with RELATION_PADDING, which is       *)
(* PADDING_TUPLES * FANOUT_PASS1 tuples.                                   *)
AllocatedUnpadded(r) == Len(rel[r])         \* slip: no RELATION_PADDING

AllocatedTuples(r) == Len(rel[r]) + Padding * FanOut

build(t) == relidx[t] = 0

-----------------------------------------------------------------------------
Init ==
    /\ rel \in [Rels -> Inputs]
    /\ pc = [t \in Threads |-> "histogram"]
    /\ relidx = [t \in Threads |-> 0]
    /\ i = [t \in Threads |-> 0]
    /\ bit = [t \in Threads |-> 0]
    /\ bitmap = {}
    /\ hist = [r \in Rels |-> [t \in Threads |-> [c \in Clusters |-> 0]]]
    /\ contains_cache = [t \in Threads |-> {}]
    /\ output = [r \in Rels |-> [t \in Threads |-> [c \in 0 .. FanOut |-> 0]]]
    /\ dst = [t \in Threads |-> [c \in Clusters |-> 0]]
    /\ tmp = [r \in Rels |-> [s \in {} |-> 0]]

-----------------------------------------------------------------------------
(***************************************************************************)
(* The histogram loop.  AddBit is one atomic_fetch_or of add(filter, key), *)
(* TestBit one test of contains(filter, key) that succeeds, FilterOut one  *)
(* that fails (the continue statement), and CountTuple the rest of an      *)
(* iteration: the tuple counts, and contains_cache remembers it.           *)
(***************************************************************************)
InHistogram(t) == pc[t] = "histogram" /\ i[t] < num_tuples(Rel(t), t)

CurrentBit(t) == Positions[Key(Rel(t), t, i[t])][bit[t]]

AddBit(t) ==
    /\ InHistogram(t) /\ build(t) /\ bit[t] < K
    /\ bitmap' = bitmap \cup {CurrentBit(t)}
    /\ bit' = [bit EXCEPT ![t] = @ + 1]
    /\ UNCHANGED <<rel, pc, relidx, i, hist, contains_cache, output, dst, tmp>>

TestBit(t) ==
    /\ InHistogram(t) /\ ~build(t) /\ bit[t] < K
    /\ CurrentBit(t) \in bitmap
    /\ bit' = [bit EXCEPT ![t] = @ + 1]
    /\ UNCHANGED <<rel, pc, relidx, i, bitmap, hist, contains_cache, output, dst, tmp>>

FilterOut(t) ==
    /\ InHistogram(t) /\ ~build(t) /\ bit[t] < K
    /\ CurrentBit(t) \notin bitmap
    /\ i' = [i EXCEPT ![t] = @ + 1]
    /\ bit' = [bit EXCEPT ![t] = 0]
    /\ UNCHANGED <<rel, pc, relidx, bitmap, hist, contains_cache, output, dst, tmp>>

CountTuple(t) ==
    LET r == relidx[t]
    IN  /\ InHistogram(t) /\ bit[t] = K
        /\ hist' = [hist EXCEPT ![r][t][HASH_BIT_MODULO(Key(Rel(t), t, i[t]))] = @ + 1]
        /\ contains_cache' =
             [contains_cache EXCEPT ![t] = IF build(t) THEN @ ELSE @ \cup {i[t]}]
        /\ i' = [i EXCEPT ![t] = @ + 1]
        /\ bit' = [bit EXCEPT ![t] = 0]
        /\ UNCHANGED <<rel, pc, relidx, bitmap, output, dst, tmp>>

HistogramDone(t) ==
    /\ pc[t] = "histogram" /\ i[t] = num_tuples(Rel(t), t)
    /\ pc' = [pc EXCEPT ![t] = "prefix"]
    /\ i' = [i EXCEPT ![t] = 0]
    /\ UNCHANGED <<rel, relidx, bit, bitmap, hist, contains_cache, output, dst, tmp>>

(* The prefix-sum loop; sum is my_hist of the cluster before. *)
PrefixSum(t) ==
    LET r == relidx[t]
    IN  /\ pc[t] = "prefix" /\ i[t] < FanOut
        /\ hist' = [hist EXCEPT ![r][t][i[t]] =
                       @ + IF i[t] = 0 THEN 0 ELSE hist[r][t][i[t] - 1]]
        /\ i' = [i EXCEPT ![t] = @ + 1]
        /\ UNCHANGED <<rel, pc, relidx, bit, bitmap, contains_cache, output, dst, tmp>>

(* BARRIER_ARRIVE of "global sync point-1". *)
ArriveAtSync1KeepsCounter(t) ==                       \* slip: missing reset
    /\ pc[t] = "prefix" /\ i[t] = FanOut
    /\ pc' = [pc EXCEPT ![t] = "sync1"]
    /\ UNCHANGED <<rel, relidx, i, bit, bitmap, hist, contains_cache, output, dst, tmp>>

ArriveAtSync1(t) ==
    /\ pc[t] = "prefix" /\ i[t] = FanOut
    /\ pc' = [pc EXCEPT ![t] = "sync1"]
    /\ i' = [i EXCEPT ![t] = 0]
    /\ UNCHANGED <<rel, relidx, bit, bitmap, hist, contains_cache, output, dst, tmp>>

(***************************************************************************)
(* The offset loops, one histogram row (hist[i]) a step: where thread t's  *)
(* tuples of each partition start is the tuples of earlier partitions in   *)
(* every row, plus those of this partition in the rows of threads before   *)
(* t.  output[fanOut], which the code sums last, takes the whole row.      *)
(***************************************************************************)
AddRowOffByOne(t) ==                        \* slip: i <= my_tid
    LET r == relidx[t]
        row == hist[r][i[t]]
    IN  /\ pc[t] = "offsets" /\ i[t] < NThreads
        /\ output' = [output EXCEPT ![r][t] =
               [c \in 0 .. FanOut |->
                   @[c] + IF c < FanOut /\ i[t] <= t THEN row[c]
                          ELSE IF c > 0 THEN row[c - 1] ELSE 0]]
        /\ i' = [i EXCEPT ![t] = @ + 1]
        /\ UNCHANGED <<rel, pc, relidx, bit, bitmap, hist, contains_cache, dst, tmp>>

AddRow(t) ==
    LET r == relidx[t]
        row == hist[r][i[t]]
    IN  /\ pc[t] = "offsets" /\ i[t] < NThreads
        /\ output' = [output EXCEPT ![r][t] =
               [c \in 0 .. FanOut |->
                   @[c] + IF c < FanOut /\ i[t] < t THEN row[c]
                          ELSE IF c > 0 THEN row[c - 1] ELSE 0]]
        /\ i' = [i EXCEPT ![t] = @ + 1]
        /\ UNCHANGED <<rel, pc, relidx, bit, bitmap, hist, contains_cache, dst, tmp>>

(* output[c] += c * padding; dst[c] = output[c] *)
AddPadding(t) ==
    LET r == relidx[t]
        padded == [c \in 0 .. FanOut |-> output[r][t][c] + c * Padding]
    IN  /\ pc[t] = "offsets" /\ i[t] = NThreads
        /\ output' = [output EXCEPT ![r][t] = padded]
        /\ dst' = [dst EXCEPT ![t] = [c \in Clusters |-> padded[c]]]
        /\ pc' = [pc EXCEPT ![t] = "copy"]
        /\ i' = [i EXCEPT ![t] = 0]
        /\ UNCHANGED <<rel, relidx, bit, bitmap, hist, contains_cache, tmp>>

-----------------------------------------------------------------------------
(* The copy loop: a tuple the filter kept goes to its slot, others do not. *)
Kept(t) == build(t) \/ i[t] \in contains_cache[t]

CopyTuple(t) ==
    LET r == relidx[t]
        c == HASH_BIT_MODULO(Key(Rel(t), t, i[t]))
        slot == dst[t][c]
    IN  /\ pc[t] = "copy" /\ i[t] < num_tuples(Rel(t), t) /\ Kept(t)
        /\ tmp' = [tmp EXCEPT ![r] = [s \in DOMAIN @ \cup {slot} |->
                       IF s = slot THEN Position(Rel(t), t, i[t]) ELSE @[s]]]
        /\ dst' = [dst EXCEPT ![t][c] = @ + 1]
        /\ i' = [i EXCEPT ![t] = @ + 1]
        /\ UNCHANGED <<rel, pc, relidx, bit, bitmap, hist, contains_cache, output>>

SkipTupleForever(t) ==                      \* slip: continue without ++i
    /\ pc[t] = "copy" /\ i[t] < num_tuples(Rel(t), t) /\ ~Kept(t)
    /\ UNCHANGED vars

SkipTuple(t) ==
    /\ pc[t] = "copy" /\ i[t] < num_tuples(Rel(t), t) /\ ~Kept(t)
    /\ i' = [i EXCEPT ![t] = @ + 1]
    /\ UNCHANGED <<rel, pc, relidx, bit, bitmap, hist, contains_cache, output, dst, tmp>>

(* prj_thread: BARRIER_ARRIVE after the call, free(contains_cache) before. *)
ArriveAtSync2(t) ==
    /\ pc[t] = "copy" /\ i[t] = num_tuples(Rel(t), t)
    /\ pc' = [pc EXCEPT ![t] = "sync2"]
    /\ i' = [i EXCEPT ![t] = 0]
    /\ contains_cache' = [contains_cache EXCEPT ![t] = {}]
    /\ UNCHANGED <<rel, relidx, bit, bitmap, hist, output, dst, tmp>>

(***************************************************************************)
(* pthread_barrier_wait: one barrier serves both places, and lets everyone *)
(* go when nthreads threads have arrived, wherever they wait.  After R's   *)
(* second wait a thread calls again for S; after S's, the pass is over.    *)
(***************************************************************************)
Waiting == {t \in Threads : pc[t] \in {"sync1", "sync2"}}

Leave(T) ==
    /\ pc' = [t \in Threads |->
                 IF t \notin T THEN pc[t]
                 ELSE IF pc[t] = "sync1" THEN "offsets"
                 ELSE IF relidx[t] = 0 THEN "histogram" ELSE "done"]
    /\ relidx' = [t \in Threads |->
                     IF t \in T /\ pc[t] = "sync2" THEN 1 ELSE relidx[t]]
    /\ UNCHANGED <<rel, i, bit, bitmap, hist, contains_cache, output, dst, tmp>>

ReleaseBarrierEarly ==                    \* slip: initialised for one too few
    /\ \E t \in Threads : Threads \ {t} \subseteq Waiting /\ Waiting # {}
    /\ Leave(Waiting)

ReleaseBarrier ==
    /\ Waiting = Threads
    /\ Leave(Waiting)

Done == (\A t \in Threads : pc[t] = "done") /\ UNCHANGED vars

Thread(t) ==
    \/ AddBit(t) \/ TestBit(t) \/ FilterOut(t) \/ CountTuple(t) \/ HistogramDone(t)
    \/ PrefixSum(t) \/ ArriveAtSync1(t) \/ AddRow(t) \/ AddPadding(t)
    \/ CopyTuple(t) \/ SkipTuple(t) \/ ArriveAtSync2(t)

Next == ReleaseBarrier \/ Done \/ \E t \in Threads : Thread(t)

Spec == Init /\ [][Next]_vars

(* The operating system runs every thread, and pthread_barrier_wait lets   *)
(* the threads go once the last has arrived.                               *)
FairSpec ==
    /\ Spec
    /\ \A t \in Threads : WF_vars(Thread(t))
    /\ WF_vars(ReleaseBarrier)
-----------------------------------------------------------------------------
(***************************************************************************)
(* Properties.                                                             *)
(***************************************************************************)
(* A counter ends with its loop, and starts from 0 after a barrier. *)
WithinLoop(t) ==
    /\ pc[t] \in {"histogram", "count", "copy"} => i[t] <= num_tuples(Rel(t), t)
    /\ pc[t] \in {"prefix", "remainder"} => i[t] <= FanOut
    /\ pc[t] = "offsets" => i[t] <= NThreads
    /\ pc[t] \in {"sync1", "sync2", "done"} => i[t] = 0

(* Every variable holds values of its C type, every counter is within its  *)
(* loop: no thread reads past its chunk, its histogram or the filter call. *)
(* "count" and "remainder" are loops of the other programs (FirstPass).    *)
TypeOK ==
    /\ rel \in [Rels -> Inputs]
    /\ pc \in [Threads -> {"histogram", "prefix", "sync1", "offsets", "copy",
                           "sync2", "done", "count", "remainder"}]
    /\ relidx \in [Threads -> Rels]
    /\ i \in [Threads -> Nat]
    /\ \A t \in Threads : WithinLoop(t)
    /\ bit \in [Threads -> 0 .. K]
    /\ bitmap \subseteq Nat
    /\ hist \in [Rels -> [Threads -> [Clusters -> Nat]]]
    /\ contains_cache \in [Threads -> SUBSET Nat]
    /\ output \in [Rels -> [Threads -> [0 .. FanOut -> Nat]]]
    /\ dst \in [Threads -> [Clusters -> Nat]]
    /\ DOMAIN tmp = Rels
    /\ \A r \in Rels : \A s \in DOMAIN tmp[r] : s \in Nat /\ tmp[r][s] \in Nat

(* The tuples of its chunk that thread t's histogram loop has decided on. *)
Scanned(t) ==
    IF pc[t] = "histogram" THEN 0 .. i[t] - 1 ELSE 0 .. num_tuples(Rel(t), t) - 1

HasPartner(key) == \E p \in DOMAIN rel[0] : rel[0][p] = key

(* No S tuple with a partner in R is lost to the filter: once the scan of  *)
(* S is past it, contains_cache holds it until it has been copied.  The    *)
(* keys of R were added by other threads (parallel_radix_partition).       *)
PartnersKept(t) ==
    relidx[t] = 1 /\ pc[t] \notin {"sync2", "done"} =>
        \A n \in Scanned(t) :
            HasPartner(Key(rel[1], t, n)) => n \in contains_cache[t]

NoFalseNegative == \A t \in Threads : PartnersKept(t)

(* contains_generic reads the bitmap with plain loads, add_generic writes  *)
(* it with relaxed atomic operations: no thread may be in the one while    *)
(* another is in the other, or the program would have a data race.         *)
FilterRaceFree ==
    \A t, u \in Threads :
        ~(InHistogram(t) /\ build(t) /\ InHistogram(u) /\ ~build(u))

BeforeSync1(t) == pc[t] \in {"histogram", "count", "prefix", "sync1"}

(* A thread that sums the histograms of all reads none that its owner has  *)
(* still to finish for this relation (the point of global sync point-1).   *)
HistogramsComplete ==
    \A t, u \in Threads :
        pc[t] = "offsets" =>
            /\ relidx[u] >= relidx[t]
            /\ relidx[u] = relidx[t] => ~BeforeSync1(u)

(* No tuple is written outside the memory allocated for tmpRelR, tmpRelS.  *)
WithinAllocation ==
    \A r \in Rels : \A s \in DOMAIN tmp[r] : s < AllocatedTuples(r)

(* Every thread gets to the end of the pass: no thread is left behind at a *)
(* barrier.                                                                *)
Termination == <>(\A t \in Threads : pc[t] = "done")

(***************************************************************************)
(* The inductive invariant behind NoFalseNegative and the two race         *)
(* invariants: the threads are on the same side of the same barrier, and   *)
(* the filter holds every R key scanned so far, all of them from the first *)
(* barrier after R's scan on.                                              *)
(***************************************************************************)
InStep ==
    \A t, u \in Threads :
        /\ relidx[t] = relidx[u]
        /\ BeforeSync1(t) <=> BeforeSync1(u)

KeyAdded(key) == \A b \in 0 .. K-1 : Positions[key][b] \in bitmap

ScannedAdded(t) ==
    relidx[t] = 0 => \A n \in Scanned(t) : KeyAdded(Key(rel[0], t, n))

BeingAdded(t) ==
    relidx[t] = 0 /\ InHistogram(t) =>
        \A b \in 0 .. bit[t] - 1 : Positions[Key(rel[0], t, i[t])][b] \in bitmap

AllAdded(t) ==
    relidx[t] = 1 => \A p \in DOMAIN rel[0] : KeyAdded(rel[0][p])

FilterFilled ==
    \A t \in Threads : ScannedAdded(t) /\ BeingAdded(t) /\ AllAdded(t)

(* What thread 0 sees when it makes the tasks: partition c of relation r   *)
(* starts at its own output[c] and has output[c+1] - output[c] - padding   *)
(* tuples.  A slot that was never written shows as position 0.             *)
Partitioned(r) == \A t \in Threads : relidx[t] > r \/ pc[t] = "done"

PartitionSeen(r, c) ==
    LET start == output[r][0][c]
        ntup  == output[r][0][c + 1] - start - Padding
    IN  [ntup |-> ntup,
         tuples |-> {IF s \in DOMAIN tmp[r] THEN tmp[r][s] ELSE 0 :
                        s \in start .. start + ntup - 1}]

Contract == INSTANCE PartitionContract WITH
    part <- [r \in Rels |-> IF Partitioned(r)
                            THEN [c \in Clusters |-> PartitionSeen(r, c)]
                            ELSE <<>>]

(* The pass by itself: seen by the thread that makes the tasks, the threads, the filter, the   *)
(* offsets and the barriers together do what PartitionContract says.       *)
ImplementsContract == Contract!Spec
=============================================================================
