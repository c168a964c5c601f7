----------------------------- MODULE PrjThread ------------------------------
(***************************************************************************)
(* The parallel radix join after its first pass: prj_thread in every       *)
(* thread, and join_init_run that adds up what they return.  Thread 0      *)
(* makes a task of each pair of partitions; all threads take tasks,        *)
(* partition them again, add a join task for each pair of subpartitions,   *)
(* and take those and join them.  With SKEW_HANDLING all threads partition *)
(* the large pairs together, one at a time, and large join tasks are cut   *)
(* into one piece a thread.                                                *)
(*                                                                         *)
(* The relations are given by the number of tuples in each subpartition    *)
(* (those of S that the filter kept); the tuples of a subpartition have    *)
(* one key, which is not 0 (RadixJoins says what the join functions do     *)
(* with any keys; here they count, and with an empty R two of them do      *)
(* worse).  A queue is the pool that TaskQueue implements, a sequence     *)
(* with the next task first; the partitioning inside parallel_radix_-      *)
(* partition is RadixPartition's subject, its barrier is kept.             *)
(***************************************************************************)
EXTENDS Integers, Sequences, FiniteSets

CONSTANTS
    NThreads,       \* args->nthreads
    FanOut,         \* partitions of pass 1
    FanOut2,        \* 1 << D, the subpartitions of each in pass 2
    Builds,         \* the values of SKEW_HANDLING: --enable-skewhandling
    Threshold1,     \* thresh1: more tuples make a pair of partitions large
    ThresholdJoin,  \* THR1: more tuples make a join task large
    JoinFunctionNames, \* PRO's, PRH's and PRHO's join_function
    Strays,         \* what a probe outside the bucket array may count
    Inputs,         \* the inputs: [R |-> tuples, S |-> tuples], by c and j
    NumaId,         \* NumaId[t] = get_numa_id(t)
    NodeOf,         \* NodeOf[c] = get_numa_node_of_address of partition c
    NoTask

Threads == 0 .. NThreads - 1
Clusters == 0 .. FanOut - 1
Clusters2 == 0 .. FanOut2 - 1
Nodes == {NumaId[t] : t \in Threads}

ASSUME ThreadsAssumption == NThreads \in Nat \ {0}
ASSUME FanOutAssumption == FanOut \in Nat \ {0} /\ FanOut2 \in Nat \ {0}
ASSUME ThresholdAssumption ==
    Builds \subseteq BOOLEAN /\ Threshold1 \in Nat /\ ThresholdJoin \in Nat
ASSUME JoinFunctionAssumption ==
    /\ JoinFunctionNames \subseteq {"bucket_chaining", "histogram", "optimized"}
    /\ Strays \subseteq Nat
ASSUME InputsAssumption ==
    \A in \in Inputs : \A side \in {"R", "S"} :
        in[side] \in [Clusters -> [Clusters2 -> Nat]]

(* A partition lies in memory of a node that a thread of the join is on,   *)
(* as it does when a thread of that node wrote it first (see README).      *)
ASSUME NumaAssumption ==
    NumaId \in [Threads -> Nat] /\ NodeOf \in [Clusters -> Nodes]

(* The null pointer is no task. *)
ASSUME NoTaskAssumption == NoTask \notin [c : Int, j : Int, from : Int, ns : Int]

VARIABLES
    SKEW_HANDLING, \* whether the build handles skew; never changes
    join_function, \* the one that PRO, PRH or PRHO passes on; never changes
    tuples,     \* tuples.R[c][j], tuples.S[c][j]; never changes
    pc,         \* pc[t]: what t does next, or the barrier it waits at
    i,          \* i[t]: its loop counter
    part_queue, join_queue, \* of each NUMA node
    skew_queue,
    skewtask,   \* *args->skewtask, shared by all threads
    task,       \* task[t]: the pair t partitions in serial_radix_partition
    seen,       \* seen[t].R, .S: the skewed task whose R or S t last partitioned
    probed,     \* probed[c][j][s]: how often tuple s of S was joined with R
    result,     \* args[t].result
    totalresults,
    joined      \* how many threads join_init_run has waited for

(* What never changes. *)
input == <<SKEW_HANDLING, join_function, tuples>>

vars == <<input, pc, i, part_queue, join_queue, skew_queue, skewtask, task, seen, probed,
          result, totalresults, joined>>

(* The sizes of pair c of partitions, and of its subpartitions j.          *)
SubR(c, j) == tuples.R[c][j]
SubS(c, j) == tuples.S[c][j]
ntupR(c) == Cardinality(UNION {{j} \X (1 .. SubR(c, j)) : j \in Clusters2})
ntupS(c) == Cardinality(UNION {{j} \X (1 .. SubS(c, j)) : j \in Clusters2})

(* A join task: ns tuples of S, from number from on, with all of R.  The   *)
(* tasks of pass 2 and the skewed ones are whole pairs of partitions.      *)
Whole == -1
JoinTask(c, j, from, ns) == [c |-> c, j |-> j, from |-> from, ns |-> ns]
PairTask(c) == JoinTask(c, Whole, 0, ntupS(c))

part_queue_of(t) == part_queue[NumaId[t]]
join_queue_of(t) == join_queue[NumaId[t]]

AddFirst(queue, node, new) == [queue EXCEPT ![node] = <<new>> \o @]

-----------------------------------------------------------------------------
(* The barrier after pass 1 (prj_thread waits until each thread copied     *)
(* out) has opened.                                                        *)
Init ==
    /\ SKEW_HANDLING \in Builds /\ join_function \in JoinFunctionNames
    /\ tuples \in Inputs
    /\ pc = [t \in Threads |-> IF t = 0 THEN "tasks" ELSE "sync3"]
    /\ i = [t \in Threads |-> 0]
    /\ part_queue = [n \in Nodes |-> <<>>]
    /\ join_queue = [n \in Nodes |-> <<>>]
    /\ skew_queue = <<>>
    /\ skewtask = NoTask
    /\ task = [t \in Threads |-> NoTask]
    /\ seen = [t \in Threads |-> [R |-> NoTask, S |-> NoTask]]
    /\ probed = [c \in Clusters |-> [j \in Clusters2 |-> [s \in 1 .. SubS(c, j) |-> 0]]]
    /\ result = [t \in Threads |-> 0]
    /\ totalresults = 0
    /\ joined = 0

Goto(t, l) == pc' = [pc EXCEPT ![t] = l]
Advance(t) == i' = [i EXCEPT ![t] = @ + 1]

(* Thread 0 makes the tasks of pass 2; only it uses the queues. *)
Large(c) == SKEW_HANDLING /\ (ntupR(c) > Threshold1 \/ ntupS(c) > Threshold1)

MakeSkewTask(t) ==
    /\ pc[t] = "tasks" /\ i[t] < FanOut /\ Large(i[t])
    /\ skew_queue' = <<PairTask(i[t])>> \o skew_queue
    /\ Advance(t)
    /\ UNCHANGED <<input, pc, part_queue, join_queue, skewtask, task, seen, probed,
                   result, totalresults, joined>>

MakeTaskOfMany(t) ==                        \* slip: > 1 for > 0
    /\ pc[t] = "tasks" /\ i[t] < FanOut /\ ~Large(i[t])
    /\ part_queue' = IF ntupR(i[t]) > 1 /\ ntupS(i[t]) > 1
                     THEN AddFirst(part_queue, NodeOf[i[t]], PairTask(i[t]))
                     ELSE part_queue
    /\ Advance(t)
    /\ UNCHANGED <<input, pc, join_queue, skew_queue, skewtask, task, seen, probed,
                   result, totalresults, joined>>

MakeTask(t) ==
    /\ pc[t] = "tasks" /\ i[t] < FanOut /\ ~Large(i[t])
    /\ part_queue' = IF ntupR(i[t]) > 0 /\ ntupS(i[t]) > 0
                     THEN AddFirst(part_queue, NodeOf[i[t]], PairTask(i[t]))
                     ELSE part_queue
    /\ Advance(t)
    /\ UNCHANGED <<input, pc, join_queue, skew_queue, skewtask, task, seen, probed,
                   result, totalresults, joined>>

TasksMade(t) ==
    /\ pc[t] = "tasks" /\ i[t] = FanOut
    /\ Goto(t, "sync3")
    /\ UNCHANGED <<input, i, part_queue, join_queue, skew_queue, skewtask, task, seen,
                   probed, result, totalresults, joined>>

-----------------------------------------------------------------------------
(* Pass 2: take a task, and serial_radix_partition it.                     *)
GetPartTask(t) ==
    /\ pc[t] = "pass2" /\ part_queue_of(t) # <<>>
    /\ task' = [task EXCEPT ![t] = Head(part_queue_of(t))]
    /\ part_queue' = [part_queue EXCEPT ![NumaId[t]] = Tail(@)]
    /\ i' = [i EXCEPT ![t] = 0]
    /\ Goto(t, "serial")
    /\ UNCHANGED <<input, join_queue, skew_queue, skewtask, seen, probed, result,
                   totalresults, joined>>

AddJoinTask(t) ==
    LET c == task[t].c
        j == i[t]
    IN  /\ pc[t] = "serial" /\ j < FanOut2
        /\ join_queue' = IF SubR(c, j) > 0 /\ SubS(c, j) > 0
                         THEN AddFirst(join_queue, NumaId[t], JoinTask(c, j, 0, SubS(c, j)))
                         ELSE join_queue
        /\ Advance(t)
        /\ UNCHANGED <<input, pc, part_queue, skew_queue, skewtask, task, seen, probed,
                       result, totalresults, joined>>

SerialDone(t) ==
    /\ pc[t] = "serial" /\ i[t] = FanOut2
    /\ Goto(t, "pass2")
    /\ UNCHANGED <<input, i, part_queue, join_queue, skew_queue, skewtask, task, seen,
                   probed, result, totalresults, joined>>

NoPartTaskNoLoop(t) ==                      \* slip: the loop is thread 0's only
    /\ pc[t] = "pass2" /\ part_queue_of(t) = <<>>
    /\ Goto(t, IF SKEW_HANDLING /\ t = 0 THEN "getskew" ELSE "sync4")
    /\ UNCHANGED <<input, i, part_queue, join_queue, skew_queue, skewtask, task, seen,
                   probed, result, totalresults, joined>>

NoPartTask(t) ==
    /\ pc[t] = "pass2" /\ part_queue_of(t) = <<>>
    /\ Goto(t, IF ~SKEW_HANDLING THEN "sync4" ELSE IF t = 0 THEN "getskew" ELSE "skewsync")
    /\ UNCHANGED <<input, i, part_queue, join_queue, skew_queue, skewtask, task, seen,
                   probed, result, totalresults, joined>>

-----------------------------------------------------------------------------
(***************************************************************************)
(* The loop over the skew queue.  Thread 0 puts the next task, or the null *)
(* pointer, into skewtask; everyone reads it after the barrier, again for  *)
(* relation R and again for S.                                             *)
(***************************************************************************)
GetSkewTask(t) ==
    /\ pc[t] = "getskew"
    /\ skewtask' = IF skew_queue = <<>> THEN NoTask ELSE Head(skew_queue)
    /\ skew_queue' = IF skew_queue = <<>> THEN <<>> ELSE Tail(skew_queue)
    /\ Goto(t, "skewsync")
    /\ UNCHANGED <<input, i, part_queue, join_queue, task, seen, probed, result,
                   totalresults, joined>>

(* Break, or allocate the histograms and wait for the others to. *)
CheckSkewTask(t) ==
    /\ pc[t] = "check"
    /\ Goto(t, IF skewtask # NoTask THEN "allocsync" ELSE IF t = 0 THEN "transfer" ELSE "sync4")
    /\ UNCHANGED <<input, i, part_queue, join_queue, skew_queue, skewtask, task, seen,
                   probed, result, totalresults, joined>>

(* parallel_radix_partition up to its barrier, and from there to the end:  *)
(* of R, and without a barrier in between, of S.                           *)
PartitionSkewR(t) ==
    /\ pc[t] = "skewR"
    /\ seen' = [seen EXCEPT ![t].R = skewtask]
    /\ Goto(t, "skewRsync")
    /\ UNCHANGED <<input, i, part_queue, join_queue, skew_queue, skewtask, task, probed,
                   result, totalresults, joined>>

PartitionSkewS(t) ==
    /\ pc[t] = "skewS"
    /\ seen' = [seen EXCEPT ![t].S = skewtask]
    /\ Goto(t, "skewSsync")
    /\ UNCHANGED <<input, i, part_queue, join_queue, skew_queue, skewtask, task, probed,
                   result, totalresults, joined>>

CopyOutSkew(t) ==
    /\ pc[t] = "skewcopy"
    /\ i' = [i EXCEPT ![t] = 0]
    /\ Goto(t, "copysync")
    /\ UNCHANGED <<input, part_queue, join_queue, skew_queue, skewtask, task, seen, probed,
                   result, totalresults, joined>>

(* Thread 0 adds the join tasks: the large ones, one piece of S for each   *)
(* thread, to its part_queue for now.                                      *)
PieceOverrun(c, j, k) ==                    \* slip: the last takes too many
    LET each == SubS(c, j) \div NThreads
    IN  JoinTask(c, j, k * each,
                 IF k = NThreads - 1 THEN SubS(c, j) - each ELSE each)

Piece(c, j, k) ==
    LET each == SubS(c, j) \div NThreads
    IN  JoinTask(c, j, k * each,
                 IF k = NThreads - 1 THEN SubS(c, j) - k * each ELSE each)

LargeJoin(c, j) == SubR(c, j) > ThresholdJoin \/ SubS(c, j) > ThresholdJoin

AddLargeJoinTasks(t) ==
    LET c == skewtask.c
        j == i[t]
        pieces == [k \in 1 .. NThreads |-> Piece(c, j, NThreads - k)]
    IN  /\ pc[t] = "skewtasks" /\ j < FanOut2 /\ LargeJoin(c, j)
        /\ part_queue' = [part_queue EXCEPT ![NumaId[t]] = pieces \o @]
        /\ Advance(t)
        /\ UNCHANGED <<input, pc, join_queue, skew_queue, skewtask, task, seen, probed,
                       result, totalresults, joined>>

AddSkewJoinTask(t) ==
    LET c == skewtask.c
        j == i[t]
    IN  /\ pc[t] = "skewtasks" /\ j < FanOut2 /\ ~LargeJoin(c, j)
        /\ join_queue' = IF SubR(c, j) > 0 /\ SubS(c, j) > 0
                         THEN AddFirst(join_queue, NumaId[t], JoinTask(c, j, 0, SubS(c, j)))
                         ELSE join_queue
        /\ Advance(t)
        /\ UNCHANGED <<input, pc, part_queue, skew_queue, skewtask, task, seen, probed,
                       result, totalresults, joined>>

SkewTasksAdded(t) ==
    /\ pc[t] = "skewtasks" /\ i[t] = FanOut2
    /\ Goto(t, "getskew")
    /\ UNCHANGED <<input, i, part_queue, join_queue, skew_queue, skewtask, task, seen,
                   probed, result, totalresults, joined>>

Transfer(t) ==
    /\ pc[t] = "transfer" /\ part_queue_of(t) # <<>>
    /\ join_queue' = AddFirst(join_queue, NumaId[t], Head(part_queue_of(t)))
    /\ part_queue' = [part_queue EXCEPT ![NumaId[t]] = Tail(@)]
    /\ UNCHANGED <<input, pc, i, skew_queue, skewtask, task, seen, probed, result,
                   totalresults, joined>>

Transferred(t) ==
    /\ pc[t] = "transfer" /\ part_queue_of(t) = <<>>
    /\ Goto(t, "sync4")
    /\ UNCHANGED <<input, i, part_queue, join_queue, skew_queue, skewtask, task, seen,
                   probed, result, totalresults, joined>>

-----------------------------------------------------------------------------
(***************************************************************************)
(* The join loop: the join function probes R with each S tuple of a task.  *)
(* A large join task may have an R without tuples.                         *)
(* bucket_chaining_join then has a bucket array without elements and a     *)
(* mask of all ones, and reads whatever lies where the S tuples' hash      *)
(* values point: it counts anything, or does not come back.  And           *)
(* histogram_optimized_join clears keys while i >= numR, for ever when     *)
(* numR is 0.                                                              *)
(***************************************************************************)
ReadsBeyond(new) ==
    join_function = "bucket_chaining" /\ SubR(new.c, new.j) = 0 /\ new.ns > 0

NeverReturns(new) == join_function = "optimized" /\ SubR(new.c, new.j) = 0

Miscounts(new) == IF ReadsBeyond(new) THEN Strays ELSE {0}

Join(t) ==
    LET new == Head(join_queue_of(t))
    IN  /\ pc[t] = "join" /\ join_queue_of(t) # <<>> /\ ~NeverReturns(new)
        /\ join_queue' = [join_queue EXCEPT ![NumaId[t]] = Tail(@)]
        /\ probed' = [probed EXCEPT ![new.c][new.j] =
               [s \in DOMAIN @ |-> @[s] + IF s \in new.from + 1 .. new.from + new.ns
                                          THEN 1 ELSE 0]]
        /\ \E stray \in Miscounts(new) :
               result' = [result EXCEPT ![t] = @ + SubR(new.c, new.j) * new.ns + stray]
        /\ UNCHANGED <<input, pc, i, part_queue, skew_queue, skewtask, task, seen,
                       totalresults, joined>>

(* The thread is in a join function that it never leaves. *)
JoinLost(t) ==
    LET new == Head(join_queue_of(t))
    IN  /\ pc[t] = "join" /\ join_queue_of(t) # <<>>
        /\ NeverReturns(new) \/ ReadsBeyond(new)
        /\ join_queue' = [join_queue EXCEPT ![NumaId[t]] = Tail(@)]
        /\ Goto(t, "lost")
        /\ UNCHANGED <<input, i, part_queue, skew_queue, skewtask, task, seen, probed,
                       result, totalresults, joined>>

JoinDoneUntimed(t) ==                       \* slip: only thread 0 waits
    /\ pc[t] = "join" /\ join_queue_of(t) = <<>>
    /\ Goto(t, IF t = 0 THEN "finish" ELSE "done")
    /\ UNCHANGED <<input, i, part_queue, join_queue, skew_queue, skewtask, task, seen,
                   probed, result, totalresults, joined>>

JoinDone(t) ==
    /\ pc[t] = "join" /\ join_queue_of(t) = <<>>
    /\ Goto(t, "finish")
    /\ UNCHANGED <<input, i, part_queue, join_queue, skew_queue, skewtask, task, seen,
                   probed, result, totalresults, joined>>

(***************************************************************************)
(* The one barrier, at its places in prj_thread and in the two calls of    *)
(* parallel_radix_partition; what a thread does when it has opened.        *)
(***************************************************************************)
Barriers == {"sync3", "skewsync", "allocsync", "skewRsync", "skewSsync", "copysync",
             "sync4", "finish"}

AfterBarrier(t) ==
    CASE pc[t] = "sync3" -> "pass2"
      [] pc[t] = "skewsync" -> "check"
      [] pc[t] = "allocsync" -> "skewR"
      [] pc[t] = "skewRsync" -> "skewS"
      [] pc[t] = "skewSsync" -> "skewcopy"
      [] pc[t] = "copysync" -> IF t = 0 THEN "skewtasks" ELSE "skewsync"
      [] pc[t] = "sync4" -> "join"
      [] pc[t] = "finish" -> "done"

Waiting == {t \in Threads : pc[t] \in Barriers}

Leave(T) ==
    /\ pc' = [t \in Threads |-> IF t \in T THEN AfterBarrier(t) ELSE pc[t]]
    /\ UNCHANGED <<input, i, part_queue, join_queue, skew_queue, skewtask, task, seen,
                   probed, result, totalresults, joined>>

ReleaseBarrierEarly ==                      \* slip: initialised for one too few
    /\ Cardinality(Waiting) >= NThreads - 1
    /\ Leave(Waiting)

ReleaseBarrier ==
    /\ Waiting = Threads
    /\ Leave(Waiting)

(* join_init_run: pthread_join, and the sum of the results.                *)
CollectLastResult ==                        \* slip: = for +=
    /\ joined < NThreads /\ pc[joined] = "done"
    /\ totalresults' = result[joined]
    /\ joined' = joined + 1
    /\ UNCHANGED <<input, pc, i, part_queue, join_queue, skew_queue, skewtask, task, seen,
                   probed, result>>

CollectResult ==
    /\ joined < NThreads /\ pc[joined] = "done"
    /\ totalresults' = totalresults + result[joined]
    /\ joined' = joined + 1
    /\ UNCHANGED <<input, pc, i, part_queue, join_queue, skew_queue, skewtask, task, seen,
                   probed, result>>

Thread(t) ==
    \/ MakeSkewTask(t) \/ MakeTask(t) \/ TasksMade(t)
    \/ GetPartTask(t) \/ AddJoinTask(t) \/ SerialDone(t) \/ NoPartTask(t)
    \/ GetSkewTask(t) \/ CheckSkewTask(t) \/ PartitionSkewR(t) \/ PartitionSkewS(t)
    \/ CopyOutSkew(t) \/ AddLargeJoinTasks(t) \/ AddSkewJoinTask(t)
    \/ SkewTasksAdded(t) \/ Transfer(t) \/ Transferred(t)
    \/ Join(t) \/ JoinLost(t) \/ JoinDone(t)

Next == ReleaseBarrier \/ CollectResult \/ \E t \in Threads : Thread(t)

Spec == Init /\ [][Next]_vars

(* Each thread is scheduled, the barrier opens when all have arrived, and  *)
(* pthread_join returns when the thread has ended.                         *)
FairSpec ==
    /\ Spec
    /\ \A t \in Threads : WF_vars(Thread(t))
    /\ WF_vars(ReleaseBarrier) /\ WF_vars(CollectResult)
-----------------------------------------------------------------------------
ElementsOf(queue) == {queue[n] : n \in DOMAIN queue}

(* A join task lies within its subpartition. *)
IsJoinTask(new) ==
    /\ new.c \in Clusters /\ new.j \in Clusters2
    /\ new.from \in Nat /\ new.ns \in Nat
    /\ new.from + new.ns <= SubS(new.c, new.j)

IsPairTask(new) == \E c \in Clusters : new = PairTask(c)

(* Every queue holds tasks of its kind: part_queue, which is used for join *)
(* tasks too, holds only those once thread 0 is in the skew loop.          *)
TypeOK ==
    /\ tuples \in Inputs
    /\ i \in [Threads -> 0 .. FanOut + FanOut2]
    /\ \A n \in Nodes :
          /\ \A new \in ElementsOf(join_queue[n]) : IsJoinTask(new)
          /\ \A new \in ElementsOf(part_queue[n]) :
                IF n = NumaId[0] /\ pc[0] \notin {"tasks", "sync3", "pass2", "serial"}
                THEN IsJoinTask(new) ELSE IsPairTask(new)
    /\ \A new \in ElementsOf(skew_queue) : IsPairTask(new)
    /\ \A t \in Threads :
          \A new \in {skewtask, task[t], seen[t].R, seen[t].S} :
              new = NoTask \/ IsPairTask(new)
    /\ result \in [Threads -> Nat] /\ totalresults \in Nat /\ joined \in 0 .. NThreads

(* Every thread waits at the same place: the branches that only thread 0   *)
(* takes, and the decision to leave the skew loop, do not change how often *)
(* a thread calls the barrier.                                             *)
SameBarrier ==
    \A t, u \in Threads :
        pc[t] \in Barriers /\ pc[u] \in Barriers => pc[t] = pc[u]

(* A thread leaves the join loop when its queue is empty.  By the time all *)
(* have, every tuple of S was joined with its subpartition of R, unless    *)
(* that is empty: no task is left in a queue nobody looks at.              *)
NothingLeftOver ==
    (\A t \in Threads : pc[t] \in {"finish", "done"}) =>
        \A c \in Clusters, j \in Clusters2 :
            SubR(c, j) > 0 => \A s \in DOMAIN probed[c][j] : probed[c][j][s] = 1

(* The matches: a tuple of R with a tuple of S in the same subpartition.   *)
Matches ==
    UNION {{<<c, j>>} \X ((1 .. SubR(c, j)) \X (1 .. SubS(c, j))) :
               c \in Clusters, j \in Clusters2}

(* A pair that the skew loop partitions has a large subpartition of S and  *)
(* none of R: PRO's and PRHO's join functions do not bear the join tasks   *)
(* of it.                                                                  *)
EmptyLargeTask ==
    /\ SKEW_HANDLING
    /\ \E c \in Clusters, j \in Clusters2 :
           Large(c) /\ SubR(c, j) = 0 /\ SubS(c, j) > ThresholdJoin

Unbearable == EmptyLargeTask /\ join_function # "histogram"

(* join_init_run returns the number of matches ("@return number of result  *)
(* tuples", says bloom.c:257 of a join function).                          *)
ResultIsCount == joined = NThreads => totalresults = Cardinality(Matches)

(* It does, whatever the skew, unless a large join task without R kept a   *)
(* join function from it.                                                  *)
ResultRight == ~Unbearable => ResultIsCount

(* All threads partition the same skewed task, and thread 0 makes the join *)
(* tasks of it: skewtask is not replaced while anyone still reads it.      *)
OneSkewTask ==
    \A t \in Threads :
        /\ pc[t] \in {"skewRsync", "skewS", "skewSsync", "skewcopy", "copysync", "skewtasks"} =>
               skewtask # NoTask /\ seen[t].R = skewtask
        /\ pc[t] \in {"skewSsync", "skewcopy", "copysync", "skewtasks"} =>
               seen[t].S = skewtask

(* Thread 0 uses task_queue_get_slot and task_queue_add, which take no     *)
(* lock, only while no other thread may use a queue.                       *)
UnlockedAlone ==
    pc[0] \in {"tasks", "skewtasks", "transfer"} =>
        \A t \in Threads \ {0} : pc[t] \notin {"pass2", "serial", "join"}

(* The join terminates, with and without skew handling: no thread waits at *)
(* a barrier for ever, and the queues run empty.                           *)
JoinReturns == <>(joined = NThreads)

(* It does, unless it meets a large join task without R in a join function *)
(* that may not come back from it.                                         *)
Termination == ~Unbearable => JoinReturns
=============================================================================
