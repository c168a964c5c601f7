----------------------------- MODULE SecondPass -----------------------------
(***************************************************************************)
(* The second pass of the parallel radix joins and the joins after it, in  *)
(* memory: threads take the partitions that the first pass left in tmpRelR *)
(* and tmpRelS, cluster each by the remaining bits into the memory of the  *)
(* relations themselves (serial_radix_partition), and, behind a barrier,   *)
(* take the clusters and join them; the histogram joins copy a cluster of  *)
(* R back into tmpRelR first.  All threads work in the same four arrays,   *)
(* and only offsets and padding keep them apart.                           *)
(*                                                                         *)
(* Queues are pools of tasks (module TaskPool).  One action is one loop    *)
(* over a relation of a task.                                              *)
(***************************************************************************)
EXTENDS JoinFunctions

CONSTANTS
    Threads,
    JoinFunctionNames,  \* a set of: bucket_chaining, histogram, optimized
    Junk                \* keys that unwritten memory may hold

VARIABLES
    in,         \* the relations; never change
    join_function,
    mem,        \* mem.R.tmp, mem.R.rel: tmpRelR and relR; S
    part_queue, join_queue,
    pc,         \* pc[t]: what t does next
    task,       \* task[t]: what t works on
    output,     \* output[t]: outputR and outputS
    hist,       \* hist[t]: the local variable of the histogram joins
    results     \* results[t]

vars == <<in, join_function, mem, part_queue, join_queue, pc, task, output, hist, results>>

Rels == {"R", "S"}

(* The tuples of a task's two relations: in tmpRelR and tmpRelS while it   *)
(* is to be partitioned, in relR and relS when it is to be joined; the     *)
(* other array is its tmpR and tmpS, at the same place.                    *)
Task(firstR, nR, firstS, nS) ==
    [R |-> [first |-> firstR, n |-> nR], S |-> [first |-> firstS, n |-> nS]]
NoTask == Task(0, 0, 0, 0)

Tuples(t, X, array) == Slice(mem[X][array], task[t][X].first, task[t][X].n)

(* What the first pass leaves: padded partitions in tmpRelR and tmpRelS,   *)
(* and a task for each pair of which neither is empty.                     *)
FirstPassTasks(input) ==
    LET histogram == [X \in Rels |-> Histogram(input[X], 1, FANOUT_PASS1)]
        First(X, c) == SumBelow(histogram[X], c) + c * PADDING_TUPLES
    IN  {Task(First("R", c), histogram.R[c], First("S", c), histogram.S[c]) :
            c \in {c \in 0 .. FANOUT_PASS1 - 1 : histogram.R[c] > 0 /\ histogram.S[c] > 0}}

InitWith(input) ==
    /\ in = input
    /\ join_function \in JoinFunctionNames
    /\ \E junk \in Junk :
        mem = [X \in Rels |->
                LET padding == [s \in 1 .. RELATION_PADDING |-> junk]
                IN  [tmp |-> Written([s \in DOMAIN in[X] |-> junk] \o padding,
                                     Scattered(in[X], 0, 1, FANOUT_PASS1, PADDING_TUPLES)),
                     rel |-> in[X] \o padding]]
    /\ part_queue = FirstPassTasks(input)
    /\ join_queue = {}
    /\ pc = [t \in Threads |-> "partition"]
    /\ task = [t \in Threads |-> NoTask]
    /\ output = [t \in Threads |-> [X \in Rels |-> <<>>]]
    /\ hist = [t \in Threads |-> <<>>]
    /\ results = [t \in Threads |-> 0]

Init == \E input \in Inputs : InitWith(input)
-----------------------------------------------------------------------------
(* The second pass: serial_radix_partition.                                *)

GetPartitionTask(t) ==
    /\ pc[t] = "partition"
    /\ \E k \in part_queue :
        /\ part_queue' = part_queue \ {k}
        /\ task' = [task EXCEPT ![t] = k]
    /\ pc' = [pc EXCEPT ![t] = "clusterR"]
    /\ UNCHANGED <<in, join_function, mem, join_queue, output, hist, results>>

radix_cluster(t, X) ==
    LET tuples == Tuples(t, X, "tmp")
        first == task[t][X].first
    IN  /\ mem' = [mem EXCEPT ![X].rel =
                Written(@, Scattered(tuples, first, FANOUT_PASS1, FANOUT_PASS2,
                                     SMALL_PADDING_TUPLES))]
        /\ output' = [output EXCEPT ![t][X] =
                Histogram(tuples, FANOUT_PASS1, FANOUT_PASS2)]

ClusterR(t) ==
    /\ pc[t] = "clusterR"
    /\ radix_cluster(t, "R")
    /\ pc' = [pc EXCEPT ![t] = "clusterS"]
    /\ UNCHANGED <<in, join_function, part_queue, join_queue, task, hist, results>>

ClusterS(t) ==
    /\ pc[t] = "clusterS"
    /\ radix_cluster(t, "S")
    /\ pc' = [pc EXCEPT ![t] = "add"]
    /\ UNCHANGED <<in, join_function, part_queue, join_queue, task, hist, results>>

EitherPresent(t, c) ==                  \* slip: one of the two will do
    output[t].R[c] > 0 \/ output[t].S[c] > 0
BothPresent(t, c) == output[t].R[c] > 0 /\ output[t].S[c] > 0

(* offsetR and offsetS at cluster c count all clusters before it.          *)
OffsetOfJoined(t, X, c) ==              \* slip: only those that are joined
    MapThenSumSet(LAMBDA d : output[t][X][d], {d \in 0 .. c - 1 : BothPresent(t, d)})
Offset(t, X, c) == SumBelow(output[t][X], c)

JoinTask(t, c) ==
    LET First(X) == task[t][X].first + Offset(t, X, c) + c * SMALL_PADDING_TUPLES
    IN  Task(First("R"), output[t].R[c], First("S"), output[t].S[c])

AddJoinTasks(t) ==
    /\ pc[t] = "add"
    /\ join_queue' = join_queue \union
            {JoinTask(t, c) : c \in {c \in 0 .. FANOUT_PASS2 - 1 : BothPresent(t, c)}}
    /\ pc' = [pc EXCEPT ![t] = "partition"]
    /\ task' = [task EXCEPT ![t] = NoTask]
    /\ UNCHANGED <<in, join_function, mem, part_queue, output, hist, results>>

EndPartitioningIfIdle(t) ==             \* slip: who had no task does not arrive
    /\ pc[t] = "partition" /\ part_queue = {}
    /\ pc' = [pc EXCEPT ![t] = IF output[t].R = <<>> THEN "done" ELSE "barrier"]
    /\ UNCHANGED <<in, join_function, mem, part_queue, join_queue, task, output, hist, results>>

EndPartitioning(t) ==
    /\ pc[t] = "partition" /\ part_queue = {}
    /\ pc' = [pc EXCEPT ![t] = "barrier"]
    /\ UNCHANGED <<in, join_function, mem, part_queue, join_queue, task, output, hist, results>>

AllArrived == \A t \in Threads : pc[t] = "barrier"

ReleaseBarrier ==
    /\ AllArrived
    /\ pc' = [t \in Threads |-> IF pc[t] = "barrier" THEN "join" ELSE pc[t]]
    /\ UNCHANGED <<in, join_function, mem, part_queue, join_queue, task, output, hist, results>>
-----------------------------------------------------------------------------
(* The join loop.                                                          *)

GetJoinTask(t) ==
    /\ pc[t] = "join"
    /\ \E k \in join_queue :
        /\ join_queue' = join_queue \ {k}
        /\ task' = [task EXCEPT ![t] = k]
    /\ pc' = [pc EXCEPT ![t] = "build"]
    /\ UNCHANGED <<in, join_function, mem, part_queue, output, hist, results>>

Joined(t, matches) ==
    /\ results' = [results EXCEPT ![t] = @ + matches]
    /\ task' = [task EXCEPT ![t] = NoTask]
    /\ pc' = [pc EXCEPT ![t] = "join"]

JoinBuckets(t) ==
    /\ pc[t] = "build" /\ join_function = "bucket_chaining"
    /\ Joined(t, bucket_chaining_join(Tuples(t, "R", "rel"), Tuples(t, "S", "rel")))
    /\ UNCHANGED <<in, join_function, mem, part_queue, join_queue, output, hist>>

(* The first half of the histogram joins: R is copied to tmpR.             *)
Reorder(t) ==
    /\ pc[t] = "build" /\ join_function # "bucket_chaining"
    /\ \E R \in {Tuples(t, "R", "rel")} :
        \E copied \in {Reordered(R, task[t].R.first)} :
            /\ mem' = [mem EXCEPT !.R.tmp =
                    IF join_function = "optimized"
                    THEN Written(Written(@, copied), SentinelCleared(Len(R), task[t].R.first))
                    ELSE Written(@, copied)]
            /\ hist' = [hist EXCEPT ![t] = HistAfterReorder(R)]
    /\ pc' = [pc EXCEPT ![t] = "probe"]
    /\ UNCHANGED <<in, join_function, part_queue, join_queue, task, output, results>>

(* The second half: S is compared with it.                                 *)
Probe(t) ==
    LET S == Tuples(t, "S", "rel")
        first == task[t].R.first
        numR == task[t].R.n
    IN  /\ pc[t] = "probe"
        /\ Joined(t, IF join_function = "optimized"
                     THEN ProbeBuffered(S, mem.R.tmp, first, hist[t], numR)
                     ELSE ProbeScalar(S, mem.R.tmp, first, hist[t], numR))
        /\ UNCHANGED <<in, join_function, mem, part_queue, join_queue, output, hist>>

EndJoining(t) ==
    /\ pc[t] = "join" /\ join_queue = {}
    /\ pc' = [pc EXCEPT ![t] = "done"]
    /\ UNCHANGED <<in, join_function, mem, part_queue, join_queue, task, output, hist, results>>

ThreadStep(t) ==
    \/ GetPartitionTask(t) \/ ClusterR(t) \/ ClusterS(t) \/ AddJoinTasks(t)
    \/ EndPartitioning(t) \/ GetJoinTask(t) \/ JoinBuckets(t) \/ Reorder(t)
    \/ Probe(t) \/ EndJoining(t)

Next == ReleaseBarrier \/ \E t \in Threads : ThreadStep(t)

Spec == Init /\ [][Next]_vars
FairSpec == Spec /\ WF_vars(ReleaseBarrier) /\ \A t \in Threads : WF_vars(ThreadStep(t))
-----------------------------------------------------------------------------
(* Properties                                                              *)

Steps == {"partition", "clusterR", "clusterS", "add", "barrier", "join", "build",
          "probe", "done"}

(* Arrays keep their size, threads are in one of their loops, and tasks    *)
(* are within the relations with their padding.                            *)
TypeOK ==
    /\ in \in Inputs /\ join_function \in JoinFunctionNames
    /\ \A X \in Rels, array \in {"tmp", "rel"} :
        mem[X][array] \in [1 .. Len(in[X]) + RELATION_PADDING -> Nat]
    /\ pc \in [Threads -> Steps] /\ results \in [Threads -> Nat]
    /\ \A k \in part_queue \union join_queue, X \in Rels :
        k[X].first \in Nat /\ k[X].n \in 1 .. Len(in[X])

(* What may be written for a task besides its tuples: the padding of the   *)
(* clusters behind it in the second pass, the sentinel in the join.        *)
Reach(k, X, margin) == k[X].first .. k[X].first + k[X].n + margin - 1

Partitioning(t) == pc[t] \in {"clusterR", "clusterS", "add"}
Joining(t) == pc[t] \in {"build", "probe"}

(* No two tasks of a phase share a slot they may write to, and all slots   *)
(* lie within the allocation.                                              *)
TasksApart ==
    LET Apart(tasks, margin) ==
            \A k \in tasks, X \in Rels :
                /\ Reach(k, X, margin) \subseteq 0 .. Len(mem[X].rel) - 1
                /\ \A l \in tasks \ {k} : Reach(k, X, margin) \cap Reach(l, X, margin) = {}
    IN  /\ Apart(part_queue \union {task[t] : t \in {u \in Threads : Partitioning(u)}},
                 (FANOUT_PASS2 - 1) * SMALL_PADDING_TUPLES + 1)
        /\ Apart(join_queue \union {task[t] : t \in {u \in Threads : Joining(u)}}, 1)

Radix(key) == key % NUM_RADIX
RadixPart(X, c) == TuplesAt(X, {x \in DOMAIN X : Radix(X[x]) = c})

(* A task that waits to be joined, or whose join has begun, finds in its   *)
(* slots all tuples of R and of S with one value of the radix bits and no  *)
(* other, whatever the threads have written next to them meanwhile.        *)
ClustersRight ==
    \A k \in join_queue \union {task[t] : t \in {u \in Threads : Joining(u)}} :
        LET radix == Radix(mem.R.rel[k.R.first + 1])
        IN  \A X \in Rels :
                Slice(mem[X].rel, k[X].first, k[X].n) = RadixPart(in[X], radix)

(* The sum of the threads' results.                                        *)
TotalResult == Cardinality(UNION {{t} \X (1 .. results[t]) : t \in Threads})

(* The threads together find every pair of tuples with equal keys, once:   *)
(* the joins "@return number of result tuples" (parallel_radix_join.h:79). *)
ResultIsCount ==
    (\A t \in Threads : pc[t] = "done") => TotalResult = Matches(in.R, in.S)

(* They do, unless PRHO looks for key 0 and takes the 0 that it wrote      *)
(* behind the tuples of R for one of them.                                 *)
SentinelMet ==
    /\ join_function = "optimized"
    /\ SentinelMatches(RadixPart(in.R, 0), RadixPart(in.S, 0)) > 0
ResultRight == ~SentinelMet => ResultIsCount

(* Every partition and every cluster is taken, and the threads end.        *)
Termination == <>(\A t \in Threads : pc[t] = "done")
=============================================================================
