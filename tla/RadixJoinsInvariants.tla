------------------------- MODULE RadixJoinsInvariants -------------------------
(***************************************************************************)
(* What is true of the radix joins at every step: the definitions that the *)
(* proofs of RadixJoinsProofs are about.                                   *)
(*                                                                         *)
(* ParallelInv is the invariant of the second pass and the join loop.      *)
(* Besides types it says who has which partition (PartitionTasks), that a  *)
(* thread's output are histograms of its partition (Counted), that join    *)
(* tasks lie apart in partitions that no thread clusters any more          *)
(* (Places), and what a histogram join hands from its first half to its    *)
(* second (CountersReady).  SerialInv is that of RJ and BRJ: the copies of *)
(* a relation are no longer than the relation and r and s are not beyond   *)
(* the clusters that were joined.                                          *)
(*                                                                         *)
(* ContentInv is what the arrays hold.  Until the joins begin to write     *)
(* there, tmp holds the partitions of the first pass (PartitionsRight);    *)
(* rel holds what a thread has clustered of its partition, where its       *)
(* histogram says (ClusteredRight), and the cluster of each join task      *)
(* (JoinTasksRight).  Holds says that the tuples of a set of positions of  *)
(* the input lie one behind the other in their order: the place of a tuple *)
(* is the number of tuples of the set before it.                           *)
(*                                                                         *)
(* FoundInv is what the threads' results add up to: the pairs of the radix *)
(* values that do not wait for a task (FoundRight).  A radix value waits   *)
(* for at most one task (OneOwner), and for none when the queues have been *)
(* emptied (QueuesEmptied); between the halves of a join, memory and the   *)
(* counters hold what the second half needs (Prepared).  SortedInv is what *)
(* the single-threaded joins have: copies whose tuples are those of the    *)
(* input that the filter lets through, in the order of the bits of the     *)
(* calls so far (CopiesRight), a filter with all of R (FilterRight), and a *)
(* result that counts the pairs of the clusters so far (JoinedRight).      *)
(***************************************************************************)
EXTENDS RadixJoins

(* The tuples with radix d, and those with a smaller one, by g. *)
With(g, n, d) == {x \in 1 .. n : g[x] = d}
WithBelow(g, n, d) == {x \in 1 .. n : g[x] \in 0 .. d - 1}

(* Where cluster c of X begins, with padding behind each. *)
StartOf(X, shift, fanOut, padding, c) ==
    SumBelow(Histogram(X, shift, fanOut), c) + c * padding
SizeOf(X, shift, fanOut, c) == Histogram(X, shift, fanOut)[c]

(* What may be written behind a partition in the second pass. *)
Margin == (FANOUT_PASS2 - 1) * SMALL_PADDING_TUPLES + 1
Rels == {"R", "S"}

(* The task of the first pass for cluster c. *)
FirstTask(input, c) ==
    Parallel!Task(StartOf(input.R, 1, FANOUT_PASS1, PADDING_TUPLES, c),
                  SizeOf(input.R, 1, FANOUT_PASS1, c),
                  StartOf(input.S, 1, FANOUT_PASS1, PADDING_TUPLES, c),
                  SizeOf(input.S, 1, FANOUT_PASS1, c))

(* A task of a relation, a task, and an array of a relation. *)
Span == [first : Nat, n : Nat]
TaskSet == [R : Span, S : Span]
Memory(X) == [1 .. Len(in[X]) + RELATION_PADDING -> Nat]

(* The parallel join's variables keep their types. *)
Typed ==
    /\ in \in Inputs /\ join_function \in JoinFunctionNames
    /\ mem = [X \in Rels |-> [tmp |-> mem[X].tmp, rel |-> mem[X].rel]]
    /\ \A X \in Rels : mem[X].tmp \in Memory(X) /\ mem[X].rel \in Memory(X)
    /\ pc \in [Threads -> Parallel!Steps]
    /\ task \in [Threads -> TaskSet]
    /\ results \in [Threads -> Nat]
    /\ output = [t \in Threads |-> [X \in Rels |-> output[t][X]]]
    /\ hist = [t \in Threads |-> hist[t]]

(* The threads that have a task of the second pass; of the join loop. *)
InSecondPass == {t \in Threads : pc[t] \in {"clusterR", "clusterS", "add"}}
InJoin == {t \in Threads : pc[t] \in {"build", "probe"}}

(* Each partition is in the queue, or one thread's, or done with. *)
PartitionTasks ==
    /\ part_queue \subseteq Parallel!FirstPassTasks(in)
    /\ \A t \in InSecondPass : task[t] \in Parallel!FirstPassTasks(in) \ part_queue
    /\ \A t, u \in InSecondPass : t # u => task[t] # task[u]

(* The partitions whose second pass is over. *)
Partitioned ==
    Parallel!FirstPassTasks(in) \ (part_queue \cup {task[t] : t \in InSecondPass})

(* outputR and outputS are histograms of the task's tuples. *)
IsHistogram(h, n) ==
    \E Y \in Seq(Nat) : Len(Y) = n /\ h = Histogram(Y, FANOUT_PASS1, FANOUT_PASS2)
Counted ==
    \A t \in Threads :
        /\ pc[t] \in {"clusterS", "add"} => IsHistogram(output[t]["R"], task[t]["R"].n)
        /\ pc[t] = "add" => IsHistogram(output[t]["S"], task[t]["S"].n)

(* Join tasks lie apart, in partitions that have been clustered. *)
JoinTasks == join_queue \cup {task[t] : t \in InJoin}
Within(k, p) ==
    \A X \in Rels :
        /\ p[X].first <= k[X].first
        /\ k[X].first + k[X].n + 1 <= p[X].first + p[X].n + Margin
Places ==
    /\ \A k \in JoinTasks :
        /\ k \in TaskSet /\ \A X \in Rels : k[X].n \in 1 .. Len(in[X])
        /\ \E p \in Partitioned : Within(k, p)
    /\ \A k \in JoinTasks : \A l \in JoinTasks \ {k} : \A X \in Rels :
        Parallel!Reach(k, X, 1) \cap Parallel!Reach(l, X, 1) = {}

(* The histogram that a thread probes with has a counter for each hash     *)
(* value and two more.                                                     *)
CountersReady ==
    \A t \in Threads : pc[t] = "probe" =>
        hist[t] \in [0 .. Parallel!get_hist_size(task[t]["R"].n) + 1 -> Nat]

(* The invariant of the parallel joins. *)
ParallelInv == Typed /\ PartitionTasks /\ Counted /\ Places /\ CountersReady

(* The place of x among the elements of a set of numbers, from 0. *)
RankIn(at, x) == Cardinality({y \in at : y < x})

(* The single-threaded joins: the variables keep their types, and r and s  *)
(* are not behind the clusters that have been joined.                      *)
SerialTyped ==
    /\ in \in Inputs /\ alg \in [filter : BOOLEAN, passes : {1, 2}]
    /\ smem = [X \in Rels |-> [rel |-> smem[X].rel, out |-> smem[X].out]]
    /\ \A X \in Rels : smem[X].rel \in Memory(X) /\ smem[X].out \in Memory(X)
    /\ num = [X \in Rels |-> [rel |-> num[X].rel, out |-> num[X].out]]
    /\ \A X \in Rels : num[X].rel \in 0 .. Len(in[X]) /\ num[X].out \in 0 .. Len(in[X])
    /\ step \in 0 .. 4 /\ i \in 0 .. NUM_RADIX /\ result \in Nat
    /\ \A X \in Rels : start[X] \in 0 .. Len(in[X])

(* The counters of X are those of a relation no longer than X, and the     *)
(* clusters that were joined are those before cluster i.                   *)
CountOf(X) ==
    \E Y \in Seq(Nat) :
        /\ Len(Y) <= Len(in[X]) /\ count[X] = Histogram(Y, 1, NUM_RADIX)
        /\ i < NUM_RADIX => start[X] <= SumBelow(count[X], i)
SerialCounted ==
    /\ count = Serial!NotCounted => i = 0 /\ \A X \in Rels : start[X] = 0
    /\ count # Serial!NotCounted => \A X \in Rels : CountOf(X)

(* The invariant of the single-threaded joins. *)
SerialInv == SerialTyped /\ SerialCounted

(* How far the sorting of a relation is after each call: 1 after the first *)
(* of two passes, 2 after the last.                                        *)
StagesOf(X) ==
    IF alg.passes = 1 THEN IF X = "R" THEN <<0, 2, 2>> ELSE <<0, 0, 2>>
    ELSE IF alg.filter THEN IF X = "R" THEN <<0, 1, 2, 2, 2>> ELSE <<0, 0, 0, 1, 2>>
    ELSE IF X = "R" THEN <<0, 1, 1, 2, 2>> ELSE <<0, 0, 1, 1, 2>>
Stage(X) == StagesOf(X)[step + 1]

(* The stages of a relation when the next call has returned. *)
NextStage(X) == StagesOf(X)[step + 2]

(* The first call for a relation, and with two passes the second. *)
FirstCall(c) ==
    /\ c.from = "rel" /\ c.to = "out" /\ c.shift = 1 /\ Stage(c.X) = 0
    /\ alg.passes = 1 => c.fanOut = NUM_RADIX /\ NextStage(c.X) = 2
    /\ alg.passes = 2 => c.fanOut = FANOUT_PASS1 /\ NextStage(c.X) = 1
SecondCall(c) ==
    /\ c.from = "out" /\ c.to = "rel" /\ c.shift = FANOUT_PASS1 /\ c.fanOut = FANOUT_PASS2
    /\ alg.passes = 2 /\ Stage(c.X) = 1 /\ NextStage(c.X) = 2
CallInOrder(c) ==
    /\ c.X \in Rels /\ (FirstCall(c) \/ SecondCall(c))
    /\ \A X \in Rels : X # c.X => NextStage(X) = Stage(X)
    /\ c.usage = "CHECK" <=> alg.filter /\ c.X = "S" /\ FirstCall(c)
    /\ c.usage = "CHECK" => Stage("R") = 2
    /\ c.usage = "INSERT" <=> alg.filter /\ c.X = "R" /\ NextStage("R") = 2
    /\ c.usage = "INSERT" => Stage("S") = 0

(* The invariant of the two programs, of which one runs. *)
JoinsInv ==
    /\ algo \in {"serial", "parallel"}
    /\ algo = "serial" => SerialInv
    /\ algo = "parallel" => ParallelInv

(* Where the tuples of cluster c are in X. *)
At(X, shift, fanOut, c) == {x \in 1 .. Len(X) : HASH_BIT_MODULO(X[x], shift, fanOut) = c}

(* Where radix_cluster puts tuple x. *)
SlotOf(X, first, shift, fanOut, padding, x) ==
    first + StartOf(X, shift, fanOut, padding, HASH_BIT_MODULO(X[x], shift, fanOut))
          + RankIn(At(X, shift, fanOut, HASH_BIT_MODULO(X[x], shift, fanOut)), x)

(* Slot s, from 1, is that of the tuple at x of cluster c. *)
IsSlot(s, X, first, shift, fanOut, padding, c, x) ==
    s = first + StartOf(X, shift, fanOut, padding, c) + RankIn(At(X, shift, fanOut, c), x) + 1

(* Slot s of memory, from 1, is the one of tuple x, which is in cluster c. *)
Lands(memory, s, X, first, shift, fanOut, padding, c, x) ==
    /\ X \in Seq(Nat) /\ s \in DOMAIN memory
    /\ first \in Nat /\ shift \in Nat \ {0} /\ fanOut \in Nat \ {0} /\ padding \in Nat
    /\ c \in 0 .. fanOut - 1 /\ x \in At(X, shift, fanOut, c)
    /\ IsSlot(s, X, first, shift, fanOut, padding, c, x)

(* memory's slots from first on hold the tuples of X at some positions. *)
Holds(memory, first, X, at) == \A x \in at : memory[first + RankIn(at, x) + 1] = X[x]

(* So many slots from first on are slots of an array of m. *)
Fits(first, size, m) == first + size <= m

(* Slot s, from 1, is outside of a relation and its clusters' padding. *)
Outside(s, X, first, fanOut, padding) ==
    s - 1 \notin first .. first + Len(X) + (fanOut - 1) * padding - 1

(* v of N values of the radix bits is d in the upper and c in the lower. *)
AreBoth(N, v, f, c, g, d) == N = f * g /\ v = c + f * d

(* The threads are in the second pass, or all behind the barrier. *)
JoinPhase == \A t \in Threads : pc[t] \in {"join", "build", "probe", "done"}
OnePhase ==
    JoinPhase \/ \A t \in Threads : pc[t] \in {"partition", "clusterR", "clusterS", "add", "barrier"}

(* Where the tuples of partition c of X are in the input, and those of     *)
(* cluster r of NUM_RADIX; the partition's tuples; the slot where cluster  *)
(* d of partition c begins.                                                *)
PartOf(X, c) == At(in[X], 1, FANOUT_PASS1, c)
ClusterOf(X, r) == At(in[X], 1, NUM_RADIX, r)
PartTuples(X, c) == Parallel!TuplesAt(in[X], PartOf(X, c))
PartFirst(X, c) == StartOf(in[X], 1, FANOUT_PASS1, PADDING_TUPLES, c)
ClusterFirst(X, c, d) ==
    PartFirst(X, c) + StartOf(PartTuples(X, c), FANOUT_PASS1, FANOUT_PASS2, SMALL_PADDING_TUPLES, d)

(* Until the joins write there, tmpRelR and tmpRelS hold the partitions. *)
PartitionsRight ==
    JoinPhase \/ \A X \in Rels, c \in 0 .. FANOUT_PASS1 - 1 :
                    Holds(mem[X].tmp, PartFirst(X, c), in[X], PartOf(X, c))

(* The value of all radix bits of cluster d of partition c. *)
RadixOf(c, d) == c + FANOUT_PASS1 * d

(* What a thread has clustered of its partition lies where its histogram   *)
(* says.                                                                   *)
HasClustered(t, X) == pc[t] = "add" \/ (pc[t] = "clusterS" /\ X = "R")
ClusteredAt(t, X, c) ==
    /\ output[t][X] = Histogram(PartTuples(X, c), FANOUT_PASS1, FANOUT_PASS2)
    /\ \A d \in 0 .. FANOUT_PASS2 - 1 :
        Holds(mem[X].rel, ClusterFirst(X, c, d), in[X], ClusterOf(X, RadixOf(c, d)))
ClusteredRight ==
    \A t \in Threads, X \in Rels, c \in 0 .. FANOUT_PASS1 - 1 :
        HasClustered(t, X) /\ task[t] = FirstTask(in, c) => ClusteredAt(t, X, c)

(* A task lies where cluster r is to be. *)
Planned(k, r) ==
    \E c \in 0 .. FANOUT_PASS1 - 1 : \E d \in 0 .. FANOUT_PASS2 - 1 :
        r = RadixOf(c, d) /\ \A X \in Rels : k[X].first = ClusterFirst(X, c, d)

(* A join task is a cluster of both relations. *)
IsCluster(k, r) ==
    /\ Planned(k, r)
    /\ \A X \in Rels :
        /\ k[X].n = Cardinality(ClusterOf(X, r))
        /\ Holds(mem[X].rel, k[X].first, in[X], ClusterOf(X, r))
JoinTasksRight == \A k \in JoinTasks : \E r \in 0 .. NUM_RADIX - 1 : IsCluster(k, r)

(* What is in memory. *)
ContentInv == OnePhase /\ PartitionsRight /\ ClusteredRight /\ JoinTasksRight

(* What is in memory, when the parallel joins run. *)
MemoryRight == algo \in {"serial", "parallel"} /\ (algo = "parallel" => ContentInv)

(* The positions up to x with the hash value of x. *)
SameHash(hash, x) == {y \in 1 .. x : hash[y] = hash[x]}

(* The last tuple before x with its hash value; who is met from x on. *)
IsNext(next, hash, n) ==
    \A x \in 1 .. n : next[x] = Parallel!LastOrNone({y \in 1 .. x - 1 : hash[y] = hash[x]})
ChainOf(next, n) ==
    CHOOSE c : c = [x \in 0 .. n |-> IF x = 0 THEN {} ELSE {x} \union c[next[x]]]

(* Where the tuples of R with hash value h are put, and which they are. *)
HashAt(R, N, h) == At(R, NUM_RADIX, N, h)
HashStart(R, N, h) == StartOf(R, NUM_RADIX, N, 0, h)

(* The tuples of R with a smaller hash value. *)
Smaller(R, N, h) == {x \in 1 .. Len(R) : HASH_BIT_MODULO(R[x], NUM_RADIX, N) < h}

(* memory holds R in the order of its hash values, from first on. *)
Sorted(memory, first, R, N) ==
    \A h \in 0 .. N - 1 : Holds(memory, first + HashStart(R, N, h), R, HashAt(R, N, h))
KeyHash(key, N) == HASH_BIT_MODULO(key, NUM_RADIX, N)

(* The slots of a hash value, from 0, and those of them that hold a key. *)
SlotsOfHash(R, N, h) == HashStart(R, N, h) .. HashStart(R, N, h + 1) - 1
SlotsWith(memory, first, slots, key) == {s \in slots : memory[first + s + 1] = key}

(* Where R's tuple y is. *)
PlaceOf(R, N, y) ==
    HashStart(R, N, KeyHash(R[y], N)) + RankIn(HashAt(R, N, KeyHash(R[y], N)), y)
PlacesDiffer(R, N, key) ==
    \A y, z \in 1 .. Len(R) :
        R[y] = key /\ R[z] = key /\ PlaceOf(R, N, y) = PlaceOf(R, N, z) => y = z

(* The slots that hold the key of a tuple of S are as many as the pairs of *)
(* equal tuples.                                                           *)
FoundIn(S, memory, first, R, N) ==
    UNION {{x} \X SlotsWith(memory, first, SlotsOfHash(R, N, KeyHash(S[x], N)), S[x]) :
                x \in DOMAIN S}

(* The slots that tuples of S are compared with and that hold their keys. *)
ProbedWith(S, memory, first, probed, N) ==
    UNION {{x} \X SlotsWith(memory, first, probed[KeyHash(S[x], N)], S[x]) : x \in DOMAIN S}

(* All of R hashes like key 0, and R has an odd number of tuples. *)
SentinelIn(R, N) == Len(R) % 2 = 1 /\ \A y \in 1 .. Len(R) : KeyHash(R[y], N) = 0

(* The 0 that is written behind n tuples; the slot behind a hash value's. *)
SentinelAt(memory, first, n) == memory[first + n + 1] = 0
EndsAt(e, R, N, h) == h \in 0 .. N - 1 /\ e \in Nat /\ e = HashStart(R, N, h + 1)

(* The tuples of S with key 0. *)
Zeros(S) == {x \in 1 .. Len(S) : S[x] = 0}

(* Pairs of tuples are finitely many. *)
EqualPairs(R, S) == {p \in (DOMAIN R) \X (DOMAIN S) : R[p[1]] = S[p[2]]}

(* A sequence is cut in two. *)
Cut(S, q, A, B) == q \in 0 .. Len(S) /\ A = SubSeq(S, 1, q) /\ B = SubSeq(S, q + 1, Len(S))

(* The place, from 1, of a tuple among those at some positions. *)
PlaceIn(at, x) == RankIn(at, x) + 1

(* The pairs of equal tuples at some positions of R and S. *)
PairsAt(R, S, A, B) == {p \in A \X B : R[p[1]] = S[p[2]]}

(* The tuples with a value of the radix bits, and the number of counters   *)
(* of a histogram of tuples.                                               *)
RadixTuples(X, r) == Parallel!RadixPart(in[X], r)
HistSizeOf(R) == Parallel!get_hist_size(Len(R))

(* Where the tuples with key 0 are; what PRHO finds with its sentinel; all *)
(* that is to be found, and what is to be found in one cluster.            *)
ZeroKeys == {x \in DOMAIN in["S"] : in["S"][x] = 0}
SentinelFound ==
    /\ join_function = "optimized" /\ RadixTuples("R", 0) # <<>>
    /\ SentinelIn(RadixTuples("R", 0), HistSizeOf(RadixTuples("R", 0)))
SentinelPairs == IF SentinelFound THEN {0} \X ZeroKeys ELSE {}
Items == EqualPairs(in["R"], in["S"]) \cup SentinelPairs
ItemRadix(p) == Parallel!Radix(in["S"][p[2]])
ItemsOf(r) == {p \in Items : ItemRadix(p) = r}

(* The partitions whose clusters are to become join tasks; a cluster that  *)
(* has not been joined is in one of them, or a join task.                  *)
WaitingParts == part_queue \cup {task[t] : t \in InSecondPass}
PartWaits(r) ==
    \E c \in 0 .. FANOUT_PASS1 - 1 : \E d \in 0 .. FANOUT_PASS2 - 1 :
        r = RadixOf(c, d) /\ FirstTask(in, c) \in WaitingParts
TaskWaits(r) == \E k \in JoinTasks : IsCluster(k, r)
Waits(r) == PartWaits(r) \/ TaskWaits(r)

(* The results add up to what is to be found in all other clusters. *)
FoundItems == {p \in Items : \A r : r = ItemRadix(p) => ~ Waits(r)}
Counts == UNION {{t} \X (1 .. results[t]) : t \in Threads}
FoundRight == IsFiniteSet(Counts) /\ Cardinality(Counts) = Cardinality(FoundItems)

(* A join task is in the queue, or one thread's. *)
OneOwner ==
    /\ \A t \in InJoin : task[t] \notin join_queue
    /\ \A t, u \in InJoin : t # u => task[t] # task[u]

(* Who has left a loop has found its queue empty. *)
QueuesEmptied ==
    \A t \in Threads :
        /\ pc[t] \in {"barrier", "join", "build", "probe", "done"} => part_queue = {}
        /\ pc[t] = "done" => join_queue = {}

(* Who has copied R can look up its tuples. *)
PreparedFor(t, R) ==
    /\ hist[t] = Parallel!HistAfterReorder(R) /\ join_function # "bucket_chaining"
    /\ Sorted(mem["R"].tmp, task[t]["R"].first, R, HistSizeOf(R))
    /\ join_function = "optimized" =>
        SentinelAt(mem["R"].tmp, task[t]["R"].first, Len(R))
Prepared == \A t \in Threads : pc[t] = "probe" => PreparedFor(t, Parallel!Tuples(t, "R", "rel"))

(* What the parallel joins have found, and what they still have to find. *)
FoundInv == FoundRight /\ OneOwner /\ QueuesEmptied /\ Prepared

(* What the copying of a histogram join leaves in tmpRelR: once, R in the  *)
(* order of its hash values; twice, the sentinel behind it, too.           *)
Copied(memory, m, first, R, N, once, twice) ==
    /\ Sorted(once, first, R, N) /\ Sorted(twice, first, R, N)
    /\ SentinelAt(twice, first, Len(R))
    /\ \A s \in 0 .. m - 1 : s \notin first .. first + Len(R) =>
        once[s + 1] = memory[s + 1] /\ twice[s + 1] = memory[s + 1]

(* The tuples of X with a key of V. *)
WithKeys(X, V) == {x \in DOMAIN X : X[x] \in V}

(* f gives each tuple of X with a key of V its place in Y, which has no    *)
(* others.                                                                 *)
Arranges(f, X, V, Y) ==
    /\ f \in [WithKeys(X, V) -> DOMAIN Y]
    /\ \A x \in WithKeys(X, V) : Y[f[x]] = X[x]
    /\ \A x, y \in WithKeys(X, V) : f[x] = f[y] => x = y
    /\ \A k \in DOMAIN Y : \E x \in WithKeys(X, V) : f[x] = k
Arranged(X, V, Y) == \E f : Arranges(f, X, V, Y)

(* The pairs of equal tuples of R and S, with a key of V and of W. *)
PairsWithKeys(R, S, V, W) == {p \in EqualPairs(R, S) : R[p[1]] \in V /\ S[p[2]] \in W}

(* Tuple x goes before tuple y when they are sorted by some radix bits. *)
GoesBefore(Y, shift, fanOut, x, y) ==
    \/ HASH_BIT_MODULO(Y[x], shift, fanOut) < HASH_BIT_MODULO(Y[y], shift, fanOut)
    \/ /\ HASH_BIT_MODULO(Y[x], shift, fanOut) = HASH_BIT_MODULO(Y[y], shift, fanOut)
       /\ x < y

(* g sorts Y by some radix bits to Z. *)
Sorts(g, Y, Z, shift, fanOut) ==
    /\ g \in [DOMAIN Y -> DOMAIN Z]
    /\ \A x \in DOMAIN Y : Z[g[x]] = Y[x]
    /\ \A x, y \in DOMAIN Y : GoesBefore(Y, shift, fanOut, x, y) => g[x] < g[y]
    /\ \A x, y \in DOMAIN Y : g[x] = g[y] => x = y
    /\ \A k \in DOMAIN Z : \E x \in DOMAIN Y : g[x] = k

(* Z is what memory's n slots from first on hold. *)
IsPiece(Z, memory, first, n) ==
    /\ Z \in Seq(Nat) /\ Len(Z) = n /\ DOMAIN Z = 1 .. n
    /\ \A k \in 1 .. n : Z[k] = memory[first + k]

(* A call writes the n tuples of Y to an array of m; Z is what is read there. *)
IsCall(Y, n, m, memory, shift, fanOut, new, Z) ==
    /\ Y \in Seq(Nat) /\ n \in Nat /\ n = Len(Y) /\ m \in Nat /\ n <= m
    /\ memory \in [1 .. m -> Nat] /\ shift \in Nat \ {0} /\ fanOut \in Nat \ {0}
    /\ new = Parallel!Scattered(Y, 0, shift, fanOut, 0)
    /\ Z = Parallel!Slice(Parallel!Written(memory, new), 0, n)

(* The tuples are in the order of some radix bits. *)
InOrderOf(Y, shift, fanOut) ==
    \A x, y \in DOMAIN Y : x < y =>
        HASH_BIT_MODULO(Y[x], shift, fanOut) <= HASH_BIT_MODULO(Y[y], shift, fanOut)

(* The bits of both passes make up those of a key. *)
MadeOfBoth(key, f, g, N) ==
    \E c \in 0 .. f - 1, d \in 0 .. g - 1 :
        /\ c = HASH_BIT_MODULO(key, 1, f) /\ d = HASH_BIT_MODULO(key, f, g)
        /\ HASH_BIT_MODULO(key, 1, N) = c + f * d

(* The keys with a value of N of the radix bits. *)
KeysOf(N, r) == {key \in Nat : HASH_BIT_MODULO(key, 1, N) = r}

(* What the two copies of a relation are like after no pass, after the     *)
(* first of two, and after the last.                                       *)
Copy(X, array) == Serial!Slice(smem[X][array], 0, num[X][array])

(* The keys that the tuples of a relation have after its first pass. *)
KeysOfCopy(X) ==
    IF X = "S" /\ alg.filter THEN {key \in Nat : Bits[key] \subseteq bitmap} ELSE Nat
CopyRight(X) ==
    /\ Stage(X) = 0 => Copy(X, "rel") = in[X]
    /\ Stage(X) = 1 =>
        /\ Arranged(in[X], KeysOfCopy(X), Copy(X, "out"))
        /\ InOrderOf(Copy(X, "out"), 1, FANOUT_PASS1)
    /\ Stage(X) = 2 =>
        /\ Arranged(in[X], KeysOfCopy(X), Copy(X, Serial!last))
        /\ InOrderOf(Copy(X, Serial!last), 1, NUM_RADIX)
CopiesRight == step <= Len(Serial!Calls) /\ \A X \in Rels : CopyRight(X)

(* When S is checked, all of R is in the filter. *)
FilterRight ==
    alg.filter /\ Stage("R") = 2 => \A x \in DOMAIN in["R"] : Bits[in["R"][x]] \subseteq bitmap

(* What has been joined: the pairs of equal tuples of the clusters before  *)
(* i.                                                                      *)
PairRadix(p) == HASH_BIT_MODULO(in["R"][p[1]], 1, NUM_RADIX)
PairsJoined == {p \in EqualPairs(in["R"], in["S"]) : PairRadix(p) < i}
JoinedRight ==
    /\ count = Serial!NotCounted => i = 0
    /\ count # Serial!NotCounted =>
        /\ step = Len(Serial!Calls)
        /\ \A X \in Rels :
            /\ count[X] = Histogram(Copy(X, Serial!last), 1, NUM_RADIX)
            /\ i < NUM_RADIX => start[X] = SumBelow(count[X], i)
    /\ result = Cardinality(PairsJoined)

(* What the single-threaded joins have sorted and joined. *)
SortedInv == CopiesRight /\ FilterRight /\ JoinedRight

(* The keys whose tuples are kept. *)
KeptKeys(usage) ==
    IF usage = "CHECK" THEN {key \in Nat : Bits[key] \subseteq bitmap} ELSE Nat

(* A call that keeps T of Y's tuples and writes them; Z is what is read. *)
IsSerialCall(Y, usage, T, n, m, memory, shift, fanOut, new, Z) ==
    /\ T = Serial!Kept(Y, usage) /\ n \in Nat /\ n = Len(T) /\ m \in Nat /\ n <= m
    /\ memory \in [1 .. m -> Nat] /\ shift \in Nat \ {0} /\ fanOut \in Nat \ {0}
    /\ new = Serial!Scattered(T, 0, shift, fanOut, 0)
    /\ Z = Serial!Slice(Serial!Written(memory, new), 0, n)

(* What a call changes. *)
Called(c, X, from, to, Y, T, n, Z) ==
    /\ X \in Rels /\ from \in {"rel", "out"} /\ to \in {"rel", "out"}
    /\ c = Serial!Calls[step + 1] /\ X = c.X /\ from = c.from /\ to = c.to
    /\ Y = Copy(X, from) /\ Y \in Seq(Nat) /\ T = Serial!Kept(Y, c.usage)
    /\ bitmap' = IF c.usage = "INSERT" THEN bitmap \union Serial!BitsOf(Y) ELSE bitmap
    /\ Z = Copy(X, to)' /\ Z \in Seq(Nat) /\ Arranged(Y, KeptKeys(c.usage), Z)
    /\ InOrderOf(Z, c.shift, c.fanOut)
    /\ c.usage # "CHECK" => \E g : Sorts(g, Y, Z, c.shift, c.fanOut)
    /\ \A W \in Rels : W # X => smem'[W] = smem[W] /\ num'[W] = num[W]
    /\ step < Len(Serial!Calls) /\ step \in 0 .. 4 /\ step' = step + 1
    /\ UNCHANGED <<in, alg, count, i, start, result>>
    /\ CallInOrder(c)

(* What JoinCluster reads of a relation. *)
ReadRight(X, Z) ==
    /\ Z \in Seq(Nat) /\ count[X][i] \in Nat /\ Len(Z) = count[X][i]
    /\ Arranged(in[X], KeysOfCopy(X) \cap KeysOf(NUM_RADIX, i), Z)
    /\ start[X] + count[X][i] = SumBelow(count[X], i + 1)

(* The pairs that the next clusters add. *)
PairsToJoin == {p \in EqualPairs(in["R"], in["S"]) : PairRadix(p) = i}

(* What has been found, by the joins that run. *)
ResultsInv ==
    /\ algo \in {"serial", "parallel"}
    /\ algo = "serial" => SortedInv
    /\ algo = "parallel" => FoundInv
=============================================================================
