-------------------------- MODULE PrjThreadProofs ---------------------------
(***************************************************************************)
(* Proofs about PrjThread, in every build and for any number of threads    *)
(* and partitions, any input and any placement on NUMA nodes: the threads  *)
(* call the one barrier equally often, what they share without locks is    *)
(* theirs alone, the queues hold tasks of their kinds, no tuple is left    *)
(* behind or joined twice, and the result is the number of matches, unless *)
(* a large join task without R tuples kept a join function from it.        *)
(***************************************************************************)
EXTENDS PrjThread, SequenceTheorems, FiniteSetTheorems, TLAPS

(* A phase lies between two openings of the barrier.  Which barrier ends a *)
(* phase depends on the build after pass 2, and on skewtask when everybody *)
(* has been given it; only thread 0 goes where tasks are made.             *)
Phases == {"tasks", "pass2", "check", "skewR", "skewS", "skewcopy", "skewtasks",
           "join", "done"}

Places(p, t) ==
    CASE p = "tasks" -> {"sync3"} \cup (IF t = 0 THEN {"tasks"} ELSE {})
      [] p = "pass2" -> {"pass2", "serial"}
                        \cup (IF ~SKEW_HANDLING THEN {"sync4"} ELSE
                              IF t = 0 THEN {"getskew", "skewsync"} ELSE {"skewsync"})
      [] p = "check" -> {"check"}
                        \cup (IF skewtask # NoTask THEN {"allocsync"} ELSE
                              IF t = 0 THEN {"transfer", "sync4"} ELSE {"sync4"})
      [] p = "skewR" -> {"skewR", "skewRsync"}
      [] p = "skewS" -> {"skewS", "skewSsync"}
      [] p = "skewcopy" -> {"skewcopy", "copysync"}
      [] p = "skewtasks" -> {"skewsync"} \cup (IF t = 0 THEN {"skewtasks", "getskew"} ELSE {})
      [] p = "join" -> {"join", "lost", "finish"}
      [] p = "done" -> {"done"}

AllIn(p) == \A t \in Threads : pc[t] \in Places(p, t)

(* What every thread has partitioned by then of the shared skewtask.       *)
DoneR(t) == skewtask # NoTask /\ seen[t].R = skewtask
DoneS(t) == seen[t].S = skewtask

Partitioned(p) ==
    /\ p = "skewR" => /\ skewtask # NoTask
                      /\ \A t \in Threads : pc[t] = "skewRsync" => DoneR(t)
    /\ p = "skewS" => \A t \in Threads : DoneR(t) /\ (pc[t] = "skewSsync" => DoneS(t))
    /\ p = "skewcopy" => \A t \in Threads : DoneR(t) /\ DoneS(t)
    /\ p = "skewtasks" => (pc[0] = "skewtasks" => DoneR(0) /\ DoneS(0))

(* seen and pc are functions; no more of the types is needed.              *)
Shape ==
    /\ DOMAIN pc = Threads /\ DOMAIN seen = Threads
    /\ \A t \in Threads : DOMAIN seen[t] = {"R", "S"}

(* All threads are in the same phase.                                      *)
Inv == Shape /\ \E p \in Phases : AllIn(p) /\ Partitioned(p)

(* Thread 0 exists.                                                        *)
LEMMA ThreadZero == 0 \in Threads
  BY ThreadsAssumption DEF Threads

(* The shared variables that the phases speak of, for the steps that leave *)
(* them alone.                                                             *)
Quiet == UNCHANGED <<SKEW_HANDLING, skewtask, seen>>

(* A step between barriers, other than those of the skew loop below, stays *)
(* in the phase and leaves skewtask alone.                                 *)
LEMMA QuietStep ==
    ASSUME Inv, NEW p \in Phases, AllIn(p), Partitioned(p), NEW t \in Threads,
           Quiet, pc'[t] \in Places(p, t),
           DOMAIN pc' = Threads, \A u \in Threads \ {t} : pc'[u] = pc[u],
           pc'[t] \notin {"skewRsync", "skewSsync", "skewtasks"} \/ pc'[t] = pc[t]
    PROVE  Inv'
<1>1. Shape'
  BY DEF Inv, Shape, Quiet
<1>2. AllIn(p)'
  <2>1. \A u \in Threads : Places(p, u)' = Places(p, u)
    BY DEF Quiet, Places
  <2> QED
    BY <2>1 DEF AllIn
<1>3. Partitioned(p)'
  BY ThreadZero DEF Partitioned, DoneR, DoneS, Quiet
<1> QED
  BY <1>1, <1>2, <1>3 DEF Inv

(* The steps that leave skewtask and seen alone.                           *)
LEMMA QuietSteps ==
    ASSUME Inv, NEW t \in Threads,
           \/ MakeSkewTask(t) \/ MakeTask(t) \/ TasksMade(t)
           \/ GetPartTask(t) \/ AddJoinTask(t) \/ SerialDone(t) \/ NoPartTask(t)
           \/ CheckSkewTask(t) \/ CopyOutSkew(t)
           \/ AddLargeJoinTasks(t) \/ AddSkewJoinTask(t) \/ SkewTasksAdded(t)
           \/ Transfer(t) \/ Transferred(t) \/ Join(t) \/ JoinLost(t) \/ JoinDone(t)
    PROVE  Inv'
<1>1. PICK p \in Phases : AllIn(p) /\ Partitioned(p)
  BY DEF Inv
<1>2. pc[t] \in Places(p, t) /\ DOMAIN pc = Threads
  BY <1>1 DEF AllIn, Inv, Shape
<1> USE DEF Goto, input, Quiet
<1>3. CASE MakeSkewTask(t) \/ MakeTask(t) \/ AddJoinTask(t) \/ AddLargeJoinTasks(t)
           \/ AddSkewJoinTask(t) \/ Transfer(t) \/ Join(t)
  <2>1. Quiet /\ pc' = pc
    BY <1>3 DEF MakeSkewTask, MakeTask, AddJoinTask, AddLargeJoinTasks, AddSkewJoinTask,
       Transfer, Join
  <2> QED
    BY <1>1, <1>2, <2>1, QuietStep
<1>4. CASE TasksMade(t) \/ GetPartTask(t) \/ SerialDone(t) \/ NoPartTask(t)
  <2>1. Quiet /\ pc' = [pc EXCEPT ![t] = pc'[t]]
    BY <1>2, <1>4 DEF TasksMade, GetPartTask, SerialDone, NoPartTask
  <2>2. pc'[t] \in Places(p, t)
    BY <1>2, <1>4 DEF TasksMade, GetPartTask, SerialDone, NoPartTask, Places, Phases
  <2>3. pc'[t] \notin {"skewRsync", "skewSsync", "skewtasks"}
    BY <1>2, <1>4 DEF TasksMade, GetPartTask, SerialDone, NoPartTask
  <2> QED
    BY <1>1, <1>2, <2>1, <2>2, <2>3, QuietStep
<1>5. CASE CheckSkewTask(t) \/ CopyOutSkew(t) \/ SkewTasksAdded(t) \/ Transferred(t)
           \/ JoinLost(t) \/ JoinDone(t)
  <2>1. Quiet /\ pc' = [pc EXCEPT ![t] = pc'[t]]
    BY <1>2, <1>5 DEF CheckSkewTask, CopyOutSkew, SkewTasksAdded, Transferred, JoinLost, JoinDone
  <2>2. pc'[t] \in Places(p, t)
    BY <1>2, <1>5 DEF CheckSkewTask, CopyOutSkew, SkewTasksAdded, Transferred, JoinLost, JoinDone,
       Places, Phases
  <2>3. pc'[t] \notin {"skewRsync", "skewSsync", "skewtasks"}
    BY <1>2, <1>5 DEF CheckSkewTask, CopyOutSkew, SkewTasksAdded, Transferred, JoinLost, JoinDone
  <2> QED
    BY <1>1, <1>2, <2>1, <2>2, <2>3, QuietStep
<1> QED
  BY <1>3, <1>4, <1>5

(* Thread 0 replaces skewtask where nobody reads it: in pass 2, and while  *)
(* the others wait for it to add the join tasks of the one before.         *)
LEMMA SkewTaskReplaced ==
    ASSUME Inv, NEW t \in Threads, GetSkewTask(t)
    PROVE  Inv'
<1>1. PICK p \in Phases : AllIn(p) /\ Partitioned(p)
  BY DEF Inv
<1>2. /\ pc[t] = "getskew" /\ pc' = [pc EXCEPT ![t] = "skewsync"]
      /\ seen' = seen /\ SKEW_HANDLING' = SKEW_HANDLING
  BY DEF GetSkewTask, Goto, input
<1>3. t = 0 /\ ((p = "pass2" /\ SKEW_HANDLING) \/ p = "skewtasks")
  <2>1. pc[t] \in Places(p, t)
    BY <1>1 DEF AllIn
  <2> QED
    BY <1>2, <2>1 DEF Places, Phases
<1>4. Shape' /\ pc'[0] = "skewsync" /\ \A u \in Threads \ {0} : pc'[u] = pc[u]
  BY <1>2, <1>3 DEF Inv, Shape
<1>5. AllIn(p)'
  <2>1. \A u \in Threads : Places(p, u)' = Places(p, u)
    BY <1>2, <1>3 DEF Places
  <2>2. "skewsync" \in Places(p, 0)
    BY <1>3 DEF Places
  <2> QED
    BY <1>1, <1>4, <2>1, <2>2 DEF AllIn
<1>6. Partitioned(p)'
  BY <1>3, <1>4 DEF Partitioned
<1> QED
  BY <1>4, <1>5, <1>6 DEF Inv

(* A call of parallel_radix_partition reads skewtask, for R or for S.      *)
LEMMA SkewTaskPartitioned ==
    ASSUME Inv, NEW t \in Threads, PartitionSkewR(t) \/ PartitionSkewS(t)
    PROVE  Inv'
<1>1. PICK p \in Phases : AllIn(p) /\ Partitioned(p)
  BY DEF Inv
<1>2. pc[t] \in Places(p, t) /\ Shape
  BY <1>1 DEF AllIn, Inv
<1>3. skewtask' = skewtask /\ SKEW_HANDLING' = SKEW_HANDLING
  BY DEF PartitionSkewR, PartitionSkewS, input
<1>4. \A u \in Threads : Places(p, u)' = Places(p, u)
  BY <1>3 DEF Places
<1>5. CASE PartitionSkewR(t)
  <2>1. p = "skewR"
    BY <1>2, <1>5 DEF PartitionSkewR, Places, Phases
  <2>2. /\ pc' = [pc EXCEPT ![t] = "skewRsync"]
        /\ seen' = [seen EXCEPT ![t].R = skewtask]
    BY <1>5 DEF PartitionSkewR, Goto
  <2>3. Shape' /\ seen'[t].R = skewtask
        /\ \A u \in Threads \ {t} : pc'[u] = pc[u] /\ seen'[u] = seen[u]
    BY <1>2, <2>2 DEF Shape
  <2>4. AllIn(p)'
    BY <1>1, <1>2, <1>4, <2>1, <2>2, <2>3 DEF AllIn, Places, Shape
  <2>5. Partitioned(p)'
    BY <1>1, <1>3, <2>1, <2>3 DEF Partitioned, DoneR
  <2> QED
    BY <2>3, <2>4, <2>5 DEF Inv
<1>6. CASE PartitionSkewS(t)
  <2>1. p = "skewS"
    BY <1>2, <1>6 DEF PartitionSkewS, Places, Phases
  <2>2. /\ pc' = [pc EXCEPT ![t] = "skewSsync"]
        /\ seen' = [seen EXCEPT ![t].S = skewtask]
    BY <1>6 DEF PartitionSkewS, Goto
  <2>3. Shape' /\ seen'[t].S = skewtask /\ seen'[t].R = seen[t].R
        /\ \A u \in Threads \ {t} : pc'[u] = pc[u] /\ seen'[u] = seen[u]
    BY <1>2, <2>2 DEF Shape
  <2>4. AllIn(p)'
    BY <1>1, <1>2, <1>4, <2>1, <2>2, <2>3 DEF AllIn, Places, Shape
  <2>5. Partitioned(p)'
    BY <1>1, <1>3, <2>1, <2>3 DEF Partitioned, DoneR, DoneS
  <2> QED
    BY <2>3, <2>4, <2>5 DEF Inv
<1> QED
  BY <1>5, <1>6

(* The phase that follows when the barrier opens.                          *)
NextPhase(p) ==
    CASE p = "tasks" -> "pass2"
      [] p = "pass2" -> IF SKEW_HANDLING THEN "check" ELSE "join"
      [] p = "check" -> IF skewtask # NoTask THEN "skewR" ELSE "join"
      [] p = "skewR" -> "skewS"
      [] p = "skewS" -> "skewcopy"
      [] p = "skewcopy" -> "skewtasks"
      [] p = "skewtasks" -> "check"
      [] p = "join" -> "done"
      [] p = "done" -> "done"

(* The barrier opens when all threads have arrived, and takes them all to  *)
(* the same next phase, with skewtask as it was.                           *)
LEMMA BarrierStep ==
    ASSUME Inv, ReleaseBarrier
    PROVE  Inv'
<1>1. PICK p \in Phases : AllIn(p) /\ Partitioned(p)
  BY DEF Inv
<1>2. /\ \A t \in Threads : pc[t] \in Barriers /\ pc[t] \in Places(p, t)
      /\ pc' = [t \in Threads |-> AfterBarrier(t)]
      /\ UNCHANGED <<SKEW_HANDLING, skewtask, seen>>
  BY <1>1 DEF ReleaseBarrier, Waiting, Leave, AllIn, input
<1>3. p # "done"
  BY <1>2, ThreadZero DEF Places, Barriers
<1>4. PICK q \in Phases : q = NextPhase(p)
  BY <1>3 DEF NextPhase, Phases
<1>5. ASSUME NEW t \in Threads PROVE AfterBarrier(t) \in Places(q, t)
  <2>1. pc[t] \in Barriers /\ pc[t] \in Places(p, t)
    BY <1>2
  <2>2. CASE p \in {"tasks", "pass2"}
    BY <1>4, <2>1, <2>2 DEF Places, Barriers, AfterBarrier, NextPhase
  <2>3. CASE p \in {"check", "skewR", "skewS"}
    BY <1>4, <2>1, <2>3 DEF Places, Barriers, AfterBarrier, NextPhase
  <2>4. CASE p \in {"skewcopy", "skewtasks", "join"}
    BY <1>4, <2>1, <2>4 DEF Places, Barriers, AfterBarrier, NextPhase
  <2> QED
    BY <1>3, <2>2, <2>3, <2>4 DEF Phases
<1>6. AllIn(q)'
  <2>1. \A t \in Threads : Places(q, t)' = Places(q, t)
    BY <1>2 DEF Places
  <2> QED
    BY <1>2, <1>5, <2>1 DEF AllIn
<1>7. Partitioned(q)'
  <2>1. CASE p = "check"
    <3>1. \A t \in Threads : pc'[t] # "skewRsync"
      BY <1>2 DEF AfterBarrier, Barriers
    <3> QED
      BY <1>2, <1>4, <2>1, <3>1 DEF NextPhase, Partitioned
  <2>2. CASE p = "skewR"
    <3>1. \A t \in Threads : pc[t] = "skewRsync" /\ pc'[t] # "skewSsync"
      BY <1>2, <2>2 DEF AfterBarrier, Barriers, Places
    <3> QED
      BY <1>1, <1>2, <1>4, <2>2, <3>1 DEF NextPhase, Partitioned, DoneR
  <2>3. CASE p = "skewS"
    <3>1. \A t \in Threads : pc[t] = "skewSsync"
      BY <1>2, <2>3 DEF Barriers, Places
    <3> QED
      BY <1>1, <1>2, <1>4, <2>3, <3>1 DEF NextPhase, Partitioned, DoneR, DoneS
  <2>4. CASE p = "skewcopy"
    BY <1>1, <1>2, <1>4, <2>4, ThreadZero DEF NextPhase, Partitioned, DoneR, DoneS
  <2>5. CASE p \in {"tasks", "pass2", "skewtasks", "join"}
    BY <1>4, <2>5 DEF NextPhase, Partitioned
  <2> QED
    BY <1>3, <2>1, <2>2, <2>3, <2>4, <2>5 DEF Phases
<1>8. Shape'
  BY <1>2 DEF Inv, Shape
<1> QED
  BY <1>4, <1>6, <1>7, <1>8 DEF Inv

(* No step takes the threads to different phases.                          *)
LEMMA InvStep == Inv /\ [Next]_vars => Inv'
<1> SUFFICES ASSUME Inv, [Next]_vars PROVE Inv'
  OBVIOUS
<1>1. CASE UNCHANGED vars \/ CollectResult
  <2>1. UNCHANGED <<SKEW_HANDLING, pc, skewtask, seen>>
    BY <1>1 DEF vars, input, CollectResult
  <2> QED
    BY <2>1 DEF Inv, Shape, AllIn, Places, Partitioned, DoneR, DoneS
<1>2. CASE \E t \in Threads : Thread(t)
  BY <1>2, QuietSteps, SkewTaskReplaced, SkewTaskPartitioned DEF Thread
<1> QED
  BY <1>1, <1>2, BarrierStep DEF Next

(* All threads are in the same phase, always.                              *)
LEMMA Invariant == Spec => []Inv
<1>1. Init => Inv
  <2> SUFFICES ASSUME Init PROVE Inv
    OBVIOUS
  <2>1. Shape /\ AllIn("tasks") /\ Partitioned("tasks")
    BY DEF Init, Shape, AllIn, Places, Partitioned
  <2> QED
    BY <2>1 DEF Inv, Phases
<1> QED
  BY <1>1, InvStep, PTL DEF Spec

(* No two threads ever wait at different places of prj_thread for the one  *)
(* barrier, although only thread 0 makes tasks, and all leave the skew     *)
(* loop on what they read from a shared variable: for any number of        *)
(* threads and partitions, with and without skew handling.                 *)
THEOREM ThreadsMeetAtOneBarrier == Spec => []SameBarrier
<1>1. Inv => SameBarrier
  <2> SUFFICES ASSUME Inv, NEW t \in Threads, NEW u \in Threads,
                      pc[t] \in Barriers, pc[u] \in Barriers
               PROVE  pc[t] = pc[u]
    BY DEF SameBarrier
  <2>1. PICK p \in Phases : pc[t] \in Places(p, t) /\ pc[u] \in Places(p, u)
    BY DEF Inv, AllIn
  <2> QED
    BY <2>1 DEF Places, Phases, Barriers
<1> QED
  BY <1>1, Invariant, PTL

(* Thread 0 calls task_queue_get_slot and task_queue_add, which take no    *)
(* lock, only while no other thread uses a queue.                          *)
THEOREM QueuesNeedNoLockThere == Spec => []UnlockedAlone
<1>1. Inv => UnlockedAlone
  <2> SUFFICES ASSUME Inv, pc[0] \in {"tasks", "skewtasks", "transfer"}, NEW t \in Threads \ {0}
               PROVE  pc[t] \notin {"pass2", "serial", "join"}
    BY DEF UnlockedAlone
  <2>1. PICK p \in Phases : pc[t] \in Places(p, t) /\ pc[0] \in Places(p, 0)
    BY ThreadZero DEF Inv, AllIn
  <2> QED
    BY <2>1 DEF Places, Phases
<1> QED
  BY <1>1, Invariant, PTL

(* All threads partition the skewed task that thread 0 then makes join     *)
(* tasks of: *args->skewtask is not replaced while anyone still needs it.  *)
THEOREM SkewTaskIsShared == Spec => []OneSkewTask
<1>1. Inv => OneSkewTask
  <2> SUFFICES ASSUME Inv, NEW t \in Threads
               PROVE  /\ pc[t] \in {"skewRsync", "skewS", "skewSsync", "skewcopy", "copysync",
                                    "skewtasks"} => DoneR(t)
                      /\ pc[t] \in {"skewSsync", "skewcopy", "copysync", "skewtasks"} =>
                             DoneS(t)
    BY DEF OneSkewTask, DoneR, DoneS
  <2>1. PICK p \in Phases : pc[t] \in Places(p, t) /\ Partitioned(p)
    BY DEF Inv, AllIn
  <2>2. CASE p \in {"tasks", "pass2", "check", "join", "done"}
    BY <2>1, <2>2 DEF Places
  <2>3. CASE p \in {"skewR", "skewS", "skewcopy", "skewtasks"}
    BY <2>1, <2>3 DEF Places, Partitioned, DoneR, DoneS
  <2> QED
    BY <2>2, <2>3 DEF Phases
<1> QED
  BY <1>1, Invariant, PTL

-----------------------------------------------------------------------------
(***************************************************************************)
(* What becomes of the tuples.                                             *)
(***************************************************************************)

(* The tasks there can be: of whole pairs of partitions, and of joins.     *)
PairTasks == {PairTask(c) : c \in Clusters}
JoinTasks ==
    {new \in [c : Clusters, j : Clusters2, from : Nat, ns : Nat] :
        new.from + new.ns <= SubS(new.c, new.j)}

(* A thread leaves pass 2 when its queue is empty; from then on thread 0   *)
(* uses its part_queue for join tasks.                                     *)
Passed(t) == pc[t] \notin {"tasks", "sync3", "pass2", "serial"}

PartTasks(n) == IF n = NumaId[0] /\ Passed(0) THEN JoinTasks ELSE PairTasks

Queues ==
    /\ join_queue \in [Nodes -> Seq(JoinTasks)]
    /\ part_queue \in [Nodes -> Seq(JoinTasks \cup PairTasks)]
    /\ \A n \in Nodes : part_queue[n] \in Seq(PartTasks(n))
    /\ skew_queue \in Seq(PairTasks)

MaybeTask == PairTasks \cup {NoTask}

TasksTyped ==
    /\ skewtask \in MaybeTask
    /\ task \in [Threads -> MaybeTask]
    /\ seen \in [Threads -> [R : MaybeTask, S : MaybeTask]]
    /\ \A t \in Threads : pc[t] = "serial" => task[t] \in PairTasks

ProbedTyped ==
    /\ DOMAIN probed = Clusters
    /\ \A c \in Clusters :
          /\ DOMAIN probed[c] = Clusters2
          /\ \A j \in Clusters2 : probed[c][j] \in [1 .. SubS(c, j) -> Nat]

Numbers ==
    /\ i \in [Threads -> 0 .. FanOut + FanOut2]
    /\ result \in [Threads -> Nat] /\ totalresults \in Nat /\ joined \in 0 .. NThreads

Typed == tuples \in Inputs /\ Queues /\ TasksTyped /\ ProbedTyped /\ Numbers

(* Which queues are empty, and when there is no skewed task left.          *)
Drained ==
    /\ \A t \in Threads : Passed(t) /\ NumaId[t] # NumaId[0] => part_queue_of(t) = <<>>
    /\ (\E t \in Threads : pc[t] \in {"pass2", "serial"}) /\ Passed(0) =>
           part_queue_of(0) = <<>>
    /\ pc[0] \in {"sync4", "join", "finish", "done"} => part_queue_of(0) = <<>>
    /\ pc[0] \in {"transfer", "sync4", "join", "finish", "done"} =>
           skew_queue = <<>> /\ skewtask = NoTask
    /\ pc[0] \in {"skewsync", "check"} /\ skewtask = NoTask => skew_queue = <<>>
    /\ \A t \in Threads : pc[t] \in {"finish", "done"} => join_queue_of(t) = <<>>
    /\ pc[0] = "copysync" => i[0] = 0
    /\ ~SKEW_HANDLING => skew_queue = <<>> /\ skewtask = NoTask

(* The nth task from the end of a queue: the same whatever is put in front *)
(* of the queue or taken from there.                                       *)
Nth(queue, d) == queue[Len(queue) - d]

(* One task more in front.                                                 *)
LEMMA PutFirst ==
    ASSUME NEW T, NEW q \in Seq(T), NEW x \in T
    PROVE  /\ <<x>> \o q \in Seq(T) /\ Len(<<x>> \o q) = Len(q) + 1 /\ Len(q) \in Nat
           /\ \A d \in Nat : d < Len(q) => Nth(<<x>> \o q, d) = Nth(q, d)
           /\ Nth(<<x>> \o q, Len(q)) = x
<1>1. Len(<<x>>) = 1 /\ <<x>>[1] = x /\ <<x>> \in Seq(T)
  OBVIOUS
<1>2. /\ <<x>> \o q \in Seq(T) /\ Len(<<x>> \o q) = 1 + Len(q)
      /\ \A k \in 1 .. Len(<<x>>) + Len(q) :
            (<<x>> \o q)[k] = IF k <= Len(<<x>>) THEN <<x>>[k] ELSE q[k - Len(<<x>>)]
  BY <1>1, ConcatProperties
<1>3. Len(q) \in Nat
  BY LenProperties
<1> DEFINE r == <<x>> \o q
<1> HIDE DEF r
<1>4. \A d \in Nat : d < Len(q) => r[Len(q) + 1 - d] = q[Len(q) - d]
  BY <1>1, <1>2, <1>3 DEF r
<1>5. r[Len(q) + 1 - Len(q)] = x
  BY <1>1, <1>2, <1>3 DEF r
<1> QED
  BY <1>2, <1>3, <1>4, <1>5 DEF Nth, r

(* Several tasks more in front.                                            *)
LEMMA AllPutFirst ==
    ASSUME NEW T, NEW q \in Seq(T), NEW p \in Seq(T)
    PROVE  /\ p \o q \in Seq(T) /\ Len(p \o q) = Len(p) + Len(q)
           /\ Len(q) \in Nat /\ Len(p) \in Nat
           /\ \A d \in Nat : d < Len(q) => Nth(p \o q, d) = Nth(q, d)
           /\ \A k \in 0 .. Len(p) - 1 : Nth(p \o q, Len(q) + k) = p[Len(p) - k]
<1>1. /\ p \o q \in Seq(T) /\ Len(p \o q) = Len(p) + Len(q)
      /\ \A k \in 1 .. Len(p) + Len(q) :
            (p \o q)[k] = IF k <= Len(p) THEN p[k] ELSE q[k - Len(p)]
  BY ConcatProperties
<1>2. Len(q) \in Nat /\ Len(p) \in Nat
  BY LenProperties
<1> DEFINE r == p \o q
<1> HIDE DEF r
<1>3. \A d \in Nat : d < Len(q) => r[Len(p) + Len(q) - d] = q[Len(q) - d]
  BY <1>1, <1>2 DEF r
<1>4. \A k \in 0 .. Len(p) - 1 : r[Len(p) + Len(q) - (Len(q) + k)] = p[Len(p) - k]
  BY <1>1, <1>2 DEF r
<1> QED
  BY <1>1, <1>2, <1>3, <1>4 DEF Nth, r

(* The first task taken.                                                   *)
LEMMA TakeFirst ==
    ASSUME NEW T, NEW q \in Seq(T), q # <<>>
    PROVE  /\ Head(q) \in T /\ Tail(q) \in Seq(T)
           /\ Len(q) \in Nat \ {0} /\ Len(Tail(q)) = Len(q) - 1
           /\ \A d \in Nat : d < Len(q) - 1 => Nth(Tail(q), d) = Nth(q, d)
           /\ Nth(q, Len(q) - 1) = Head(q)
<1>1. /\ Head(q) \in T /\ Tail(q) \in Seq(T) /\ Len(Tail(q)) = Len(q) - 1
      /\ \A k \in 1 .. Len(Tail(q)) : Tail(q)[k] = q[k + 1]
  BY HeadTailProperties
<1>2. Len(q) \in Nat \ {0}
  BY EmptySeq
<1>3. Head(q) = q[1]
  OBVIOUS
<1> DEFINE r == Tail(q)
<1> HIDE DEF r
<1>4. \A d \in Nat : d < Len(q) - 1 => r[Len(q) - 1 - d] = q[Len(q) - d]
  <2> TAKE d \in Nat
  <2> HAVE d < Len(q) - 1
  <2>1. Len(q) - 1 - d \in 1 .. Len(q) - 1
    BY <1>2
  <2>2. r[Len(q) - 1 - d] = q[(Len(q) - 1 - d) + 1]
    BY <1>1, <2>1 DEF r
  <2>3. (Len(q) - 1 - d) + 1 = Len(q) - d
    BY <1>2
  <2> QED
    BY <2>2, <2>3
<1>5. Len(q) - (Len(q) - 1) = 1
  BY <1>2
<1> QED
  BY <1>1, <1>2, <1>3, <1>4, <1>5 DEF Nth, r

(* No task is the null pointer; the sizes of pairs are counts.             *)
LEMMA InputFacts ==
    ASSUME tuples \in Inputs
    PROVE  \A c \in Clusters, j \in Clusters2 : SubR(c, j) \in Nat /\ SubS(c, j) \in Nat
<1>1. \A side \in {"R", "S"} : tuples[side] \in [Clusters -> [Clusters2 -> Nat]]
  BY InputsAssumption
<1>2. tuples.R \in [Clusters -> [Clusters2 -> Nat]] /\ tuples.S \in [Clusters -> [Clusters2 -> Nat]]
  BY <1>1
<1> QED
  BY <1>2 DEF SubR, SubS

(* A family of counts: how many there are together, and that there are     *)
(* some when one of the counts is not 0.                                   *)
LEMMA Sizes ==
    ASSUME NEW f \in [Clusters2 -> Nat]
    PROVE  LET T == UNION {{j} \X (1 .. f[j]) : j \in Clusters2}
           IN  /\ IsFiniteSet(T) /\ Cardinality(T) \in Nat
               /\ (\E j \in Clusters2 : f[j] > 0) => Cardinality(T) > 0
<1> DEFINE g == [j \in Clusters2 |-> {j} \X (1 .. f[j])]
           F == {{j} \X (1 .. f[j]) : j \in Clusters2}
           T == UNION F
<1>1. IsFiniteSet(Clusters2)
  BY FanOutAssumption, FS_Interval DEF Clusters2
<1>2. IsFiniteSet(F)
  <2>1. g \in Surjection(Clusters2, F)
    BY DEF Surjection
  <2> QED
    BY <1>1, <2>1, FS_Surjection
<1>3. \A X \in F : IsFiniteSet(X)
  <2> SUFFICES ASSUME NEW j \in Clusters2 PROVE IsFiniteSet({j} \X (1 .. f[j]))
    OBVIOUS
  <2>1. IsFiniteSet(1 .. f[j])
    <3>1. 1 \in Int /\ f[j] \in Int
      OBVIOUS
    <3> QED
      BY <3>1, FS_Interval
  <2> QED
    BY <2>1, FS_Singleton, FS_Product
<1>4. IsFiniteSet(T)
  <2> HIDE DEF F
  <2> QED
    BY <1>2, <1>3, FS_UNION
<1>5. Cardinality(T) \in Nat
  BY <1>4, FS_CardinalityType
<1>6. ASSUME NEW j \in Clusters2, f[j] > 0 PROVE Cardinality(T) > 0
  <2>1. <<j, 1>> \in {j} \X (1 .. f[j])
    BY <1>6
  <2>2. <<j, 1>> \in T
    BY <2>1
  <2>3. Cardinality(T) # 0
    BY <1>4, <2>2, FS_EmptySet
  <2> QED
    BY <1>5, <2>3
<1> QED
  BY <1>4, <1>5, <1>6

(* The sizes of a pair of partitions, which is not empty when one of its   *)
(* subpartitions is not.                                                   *)
LEMMA PairSizes ==
    ASSUME tuples \in Inputs, NEW c \in Clusters
    PROVE  /\ ntupR(c) \in Nat /\ ntupS(c) \in Nat
           /\ (\E j \in Clusters2 : SubR(c, j) > 0) => ntupR(c) > 0
           /\ (\E j \in Clusters2 : SubS(c, j) > 0) => ntupS(c) > 0
<1> DEFINE f == [j \in Clusters2 |-> SubR(c, j)]
           g == [j \in Clusters2 |-> SubS(c, j)]
<1>1. f \in [Clusters2 -> Nat] /\ g \in [Clusters2 -> Nat]
  BY InputFacts
<1>2. /\ {{j} \X (1 .. f[j]) : j \in Clusters2} = {{j} \X (1 .. SubR(c, j)) : j \in Clusters2}
      /\ {{j} \X (1 .. g[j]) : j \in Clusters2} = {{j} \X (1 .. SubS(c, j)) : j \in Clusters2}
      /\ \A j \in Clusters2 : f[j] = SubR(c, j) /\ g[j] = SubS(c, j)
  OBVIOUS
<1> HIDE DEF f, g
<1>3. /\ Cardinality(UNION {{j} \X (1 .. f[j]) : j \in Clusters2}) \in Nat
      /\ (\E j \in Clusters2 : f[j] > 0) =>
            Cardinality(UNION {{j} \X (1 .. f[j]) : j \in Clusters2}) > 0
  BY <1>1, Sizes
<1>4. /\ Cardinality(UNION {{j} \X (1 .. g[j]) : j \in Clusters2}) \in Nat
      /\ (\E j \in Clusters2 : g[j] > 0) =>
            Cardinality(UNION {{j} \X (1 .. g[j]) : j \in Clusters2}) > 0
  BY <1>1, Sizes
<1> QED
  BY <1>2, <1>3, <1>4 DEF ntupR, ntupS

(* No task of a pair is the null pointer.                                  *)
LEMMA PairTaskFacts ==
    ASSUME tuples \in Inputs, NEW c \in Clusters
    PROVE  /\ PairTask(c) \in PairTasks /\ PairTask(c) # NoTask
           /\ PairTask(c).c = c /\ PairTask(c).j = Whole
<1>1. ntupS(c) \in Int /\ c \in Int
  BY PairSizes DEF Clusters
<1>2. PairTask(c) \in [c : Int, j : Int, from : Int, ns : Int]
  BY <1>1 DEF PairTask, JoinTask, Whole
<1> QED
  BY <1>2, NoTaskAssumption DEF PairTasks, PairTask, JoinTask

(* What / means in C for integers that are not negative.                   *)
LEMMA Quotient ==
    ASSUME NEW a \in Nat, NEW b \in Nat \ {0}
    PROVE  /\ a \div b \in Nat
           /\ (a \div b) * b <= a
           /\ a < (a \div b) * b + b
  OBVIOUS

(* Products of counts are counts.                                          *)
LEMMA ProductNat == ASSUME NEW a \in Nat, NEW b \in Nat PROVE a * b \in Nat
  OBVIOUS

(* Multiplication preserves the order.                                     *)
LEMMA ProductMonotone ==
    ASSUME NEW a \in Nat, NEW b \in Nat, NEW c \in Nat, a <= b
    PROVE  a * c <= b * c
<1>1. PICK d \in Nat : b = a + d
  <2>1. b - a \in Nat /\ b = a + (b - a)
    OBVIOUS
  <2> QED
    BY <2>1
<1>2. b * c = a * c + d * c
  BY <1>1
<1>3. d * c \in Nat /\ a * c \in Nat
  BY ProductNat
<1> QED
  BY <1>2, <1>3

(* n tuples in m pieces, of e each but for the last: where piece k begins  *)
(* and ends.                                                               *)
Begins(k, e) == k * e
Size(k, e, m, n) == IF k = m - 1 THEN n - k * e ELSE e

(* The pieces lie within the n tuples, and each tuple in one of them.      *)
LEMMA PiecesCover ==
    ASSUME NEW n \in Nat, NEW m \in Nat \ {0}, NEW e, e = n \div m
    PROVE  /\ \A k \in 0 .. m - 1 :
                 /\ Begins(k, e) \in Nat /\ Size(k, e, m, n) \in Nat
                 /\ Begins(k, e) + Size(k, e, m, n) <= n
           /\ \A s \in 1 .. n : \E k \in 0 .. m - 1 :
                 /\ Begins(k, e) < s /\ s <= Begins(k, e) + Size(k, e, m, n)
                 /\ \A l \in 0 .. m - 1 :
                       Begins(l, e) < s /\ s <= Begins(l, e) + Size(l, e, m, n) => l = k
<1>1. e \in Nat /\ e * m <= n
  BY Quotient
<1>2. \A k \in Nat : k * e \in Nat
  BY <1>1, ProductNat
<1>3. (m - 1) * e + e <= n
  BY <1>1
<1>4. \A k \in 0 .. m - 1 : k * e <= (m - 1) * e
  BY <1>1, ProductMonotone
<1>5. \A k, l \in Nat : k < l => k * e + e <= l * e
  <2> TAKE k, l \in Nat
  <2> HAVE k < l
  <2>1. (k + 1) * e <= l * e
    BY <1>1, ProductMonotone
  <2>2. (k + 1) * e = k * e + e
    BY <1>1
  <2> QED
    BY <2>1, <2>2
<1> DEFINE p(k) == k * e
<1>6. /\ \A k \in Nat : p(k) \in Nat
      /\ p(m - 1) + e <= n
      /\ \A k \in 0 .. m - 1 : p(k) <= p(m - 1)
      /\ \A k, l \in Nat : k < l => p(k) + e <= p(l)
  BY <1>2, <1>3, <1>4, <1>5
<1>7. \A k : Begins(k, e) = p(k) /\ Size(k, e, m, n) = IF k = m - 1 THEN n - p(k) ELSE e
  BY DEF Begins, Size
<1>8. ASSUME NEW s \in Nat \ {0}, s <= p(m - 1)
      PROVE  \E k \in 0 .. m - 2 : p(k) < s /\ s <= p(k) + e
  <2>1. e # 0
    <3> SUFFICES ASSUME e = 0 PROVE FALSE
      OBVIOUS
    <3>1. p(m - 1) = 0
      OBVIOUS
    <3> QED
      BY <1>8, <3>1
  <2> DEFINE k == (s - 1) \div e
  <2>2. k \in Nat /\ k * e <= s - 1 /\ s - 1 < k * e + e
    <3>1. s - 1 \in Nat /\ e \in Nat \ {0}
      BY <1>1, <2>1
    <3> DEFINE a == s - 1
    <3> HIDE DEF a
    <3>2. a \div e \in Nat /\ (a \div e) * e <= a /\ a < (a \div e) * e + e
      BY <3>1, Quotient DEF a
    <3> QED
      BY <3>2 DEF a
  <2> HIDE DEF k
  <2>3. p(k) \in Nat /\ p(k) < s /\ s <= p(k) + e
    <3>1. p(k) \in Nat /\ p(k) <= s - 1 /\ s - 1 < p(k) + e
      BY <1>6, <2>2
    <3> HIDE DEF p
    <3> QED
      BY <1>1, <3>1
  <2>4. k < m - 1
    <3> HIDE DEF p
    <3> SUFFICES ASSUME k >= m - 1 PROVE FALSE
      BY <2>2
    <3>1. p(m - 1) \in Nat /\ m - 1 \in Nat
      BY <1>6
    <3>2. k = m - 1 \/ m - 1 < k
      BY <2>2
    <3>3. p(m - 1) <= p(k)
      BY <1>1, <1>6, <2>2, <2>3, <3>1, <3>2
    <3> QED
      BY <1>8, <2>3, <3>1, <3>3
  <2> QED
    BY <2>2, <2>3, <2>4
<1> HIDE DEF p
<1>9. ASSUME NEW k \in 0 .. m - 1
      PROVE  /\ Begins(k, e) \in Nat /\ Size(k, e, m, n) \in Nat
             /\ Begins(k, e) + Size(k, e, m, n) <= n
  <2>1. p(k) \in Nat /\ p(m - 1) \in Nat /\ p(k) <= p(m - 1) /\ p(m - 1) + e <= n
    BY <1>6
  <2> QED
    BY <1>1, <1>7, <2>1
<1>10. ASSUME NEW s \in 1 .. n, NEW k \in 0 .. m - 1, NEW l \in 0 .. m - 1, k < l,
              p(k) < s, s <= p(k) + (IF k = m - 1 THEN n - p(k) ELSE e), p(l) < s
       PROVE  FALSE
  <2>1. p(k) + e <= p(l) /\ p(k) \in Nat /\ p(l) \in Nat /\ k # m - 1
    BY <1>6, <1>10
  <2> QED
    BY <1>1, <1>10, <2>1
<1>11. ASSUME NEW s \in 1 .. n
       PROVE  \E k \in 0 .. m - 1 : p(k) < s /\ s <= p(k) + (IF k = m - 1 THEN n - p(k) ELSE e)
  <2>1. CASE s <= p(m - 1)
    <3>1. PICK k \in 0 .. m - 2 : p(k) < s /\ s <= p(k) + e
      BY <1>8, <2>1
    <3> QED
      BY <3>1
  <2>2. CASE ~(s <= p(m - 1))
    <3>1. p(m - 1) \in Nat /\ m - 1 \in 0 .. m - 1
      BY <1>6
    <3>2. p(m - 1) < s /\ s <= p(m - 1) + (n - p(m - 1))
      BY <2>2, <3>1
    <3> QED
      BY <3>1, <3>2
  <2> QED
    BY <2>1, <2>2
<1>12. ASSUME NEW s \in 1 .. n
       PROVE  \E k \in 0 .. m - 1 :
                 /\ Begins(k, e) < s /\ s <= Begins(k, e) + Size(k, e, m, n)
                 /\ \A l \in 0 .. m - 1 :
                       Begins(l, e) < s /\ s <= Begins(l, e) + Size(l, e, m, n) => l = k
  <2>1. PICK k \in 0 .. m - 1 : p(k) < s /\ s <= p(k) + (IF k = m - 1 THEN n - p(k) ELSE e)
    BY <1>11
  <2>2. ASSUME NEW l \in 0 .. m - 1, p(l) < s,
               s <= p(l) + (IF l = m - 1 THEN n - p(l) ELSE e)
        PROVE  l = k
    <3>1. ~(k < l) /\ ~(l < k)
      BY <1>10, <2>1, <2>2
    <3> QED
      BY <3>1
  <2> QED
    BY <1>7, <2>1, <2>2
<1> QED
  BY <1>9, <1>12

(* Whether tuple s of S in subpartition j of pair c is one that a task     *)
(* will have joined.                                                       *)
Covers(new, c, j, s) ==
    /\ new.c = c
    /\ \/ new.j = Whole
       \/ new.j = j /\ new.from < s /\ s <= new.from + new.ns

(* A large join task is cut into pieces without a gap or an overlap.       *)
LEMMA PieceFacts ==
    ASSUME tuples \in Inputs, NEW c \in Clusters, NEW j \in Clusters2
    PROVE  /\ \A k \in 0 .. NThreads - 1 :
                 Piece(c, j, k) \in JoinTasks /\ Piece(c, j, k).c = c /\ Piece(c, j, k).j = j
           /\ \A s \in 1 .. SubS(c, j) : \E k \in 0 .. NThreads - 1 :
                 /\ Covers(Piece(c, j, k), c, j, s)
                 /\ \A l \in 0 .. NThreads - 1 : Covers(Piece(c, j, l), c, j, s) => l = k
<1> DEFINE n == SubS(c, j)
           e == n \div NThreads
<1>1. n \in Nat /\ NThreads \in Nat \ {0} /\ j # Whole
  BY InputFacts, ThreadsAssumption DEF Clusters2, Whole
<1>2. /\ \A k \in 0 .. NThreads - 1 :
            /\ Begins(k, e) \in Nat /\ Size(k, e, NThreads, n) \in Nat
            /\ Begins(k, e) + Size(k, e, NThreads, n) <= n
      /\ \A s \in 1 .. n : \E k \in 0 .. NThreads - 1 :
            /\ Begins(k, e) < s /\ s <= Begins(k, e) + Size(k, e, NThreads, n)
            /\ \A l \in 0 .. NThreads - 1 :
                  Begins(l, e) < s /\ s <= Begins(l, e) + Size(l, e, NThreads, n) => l = k
  <2> HIDE DEF n
  <2> QED
    BY <1>1, PiecesCover
<1>3. \A k \in 0 .. NThreads - 1 :
         Piece(c, j, k) = JoinTask(c, j, Begins(k, e), Size(k, e, NThreads, n))
  BY DEF Piece, Begins, Size
<1> HIDE DEF n, e
<1>4. \A k \in 0 .. NThreads - 1 :
         /\ Piece(c, j, k).c = c /\ Piece(c, j, k).j = j
         /\ Piece(c, j, k).from = Begins(k, e)
         /\ Piece(c, j, k).ns = Size(k, e, NThreads, n)
  BY <1>3 DEF JoinTask
<1>5. ASSUME NEW k \in 0 .. NThreads - 1 PROVE Piece(c, j, k) \in JoinTasks
  <2>1. Piece(c, j, k) \in [c : Clusters, j : Clusters2, from : Nat, ns : Nat]
    BY <1>2, <1>3 DEF JoinTask
  <2> QED
    BY <1>2, <1>4, <2>1 DEF JoinTasks, n
<1>6. \A k \in 0 .. NThreads - 1, s \in Nat :
         Covers(Piece(c, j, k), c, j, s) <=>
             Begins(k, e) < s /\ s <= Begins(k, e) + Size(k, e, NThreads, n)
  BY <1>1, <1>4 DEF Covers
<1>7. ASSUME NEW s \in 1 .. n
      PROVE  \E k \in 0 .. NThreads - 1 :
                 /\ Covers(Piece(c, j, k), c, j, s)
                 /\ \A l \in 0 .. NThreads - 1 : Covers(Piece(c, j, l), c, j, s) => l = k
  <2>1. PICK k \in 0 .. NThreads - 1 :
            /\ Begins(k, e) < s /\ s <= Begins(k, e) + Size(k, e, NThreads, n)
            /\ \A l \in 0 .. NThreads - 1 :
                  Begins(l, e) < s /\ s <= Begins(l, e) + Size(l, e, NThreads, n) => l = k
    BY <1>2
  <2>2. s \in Nat
    BY <1>1
  <2> QED
    BY <1>6, <2>1, <2>2
<1> QED
  BY <1>4, <1>5, <1>7 DEF n

(* Where other threads can be.                                             *)
LEMMA PhaseFacts ==
    ASSUME Inv, NEW t \in Threads, NEW u \in Threads
    PROVE  /\ pc[t] \in {"tasks", "getskew", "skewtasks", "transfer"} => t = 0
           /\ pc[0] = "tasks" /\ u # 0 => pc[u] = "sync3"
           /\ pc[t] \in {"tasks", "serial", "skewtasks", "transfer"} =>
                 pc[u] \notin {"join", "finish", "done"}
           /\ pc[0] \in {"skewtasks", "transfer"} =>
                 pc[u] \notin {"tasks", "sync3", "pass2", "serial"}
           /\ pc[0] = "skewtasks" => skewtask # NoTask
           /\ pc[t] \in {"pass2", "serial"} =>
                 pc[u] \in {"pass2", "serial", "sync4", "getskew", "skewsync"}
           /\ pc[t] \in {"join", "finish"} => pc[u] \in {"join", "lost", "finish"}
<1>1. PICK p \in Phases : AllIn(p) /\ Partitioned(p)
  BY DEF Inv
<1>2. pc[t] \in Places(p, t) /\ pc[u] \in Places(p, u) /\ pc[0] \in Places(p, 0)
  BY <1>1, ThreadZero DEF AllIn
<1>3. CASE p \in {"tasks", "pass2", "check"}
  BY <1>2, <1>3 DEF Places
<1>4. CASE p \in {"skewR", "skewS", "skewcopy"}
  BY <1>2, <1>4 DEF Places
<1>5. CASE p \in {"join", "done"}
  BY <1>2, <1>5 DEF Places
<1>6. CASE p = "skewtasks"
  BY <1>1, <1>2, <1>6 DEF Places, Partitioned, DoneR
<1> QED
  BY <1>3, <1>4, <1>5, <1>6 DEF Phases

(* The input stays as it is, and what the tasks are.                       *)
LEMMA InputStays ==
    ASSUME [Next]_vars
    PROVE  /\ tuples' = tuples /\ SKEW_HANDLING' = SKEW_HANDLING
           /\ join_function' = join_function
           /\ PairTasks' = PairTasks /\ JoinTasks' = JoinTasks /\ MaybeTask' = MaybeTask
           /\ \A c \in Clusters, j \in Clusters2 :
                 SubR(c, j)' = SubR(c, j) /\ SubS(c, j)' = SubS(c, j)
<1>1. tuples' = tuples /\ SKEW_HANDLING' = SKEW_HANDLING /\ join_function' = join_function
  <2>1. CASE UNCHANGED vars
    BY <2>1 DEF vars, input
  <2>2. CASE ReleaseBarrier \/ CollectResult
    BY <2>2 DEF ReleaseBarrier, Leave, CollectResult, input
  <2>3. ASSUME NEW t \in Threads, Thread(t) PROVE UNCHANGED input
    BY <2>3 DEF Thread, MakeSkewTask, MakeTask, TasksMade, GetPartTask, AddJoinTask,
       SerialDone, NoPartTask, GetSkewTask, CheckSkewTask, PartitionSkewR, PartitionSkewS,
       CopyOutSkew, AddLargeJoinTasks, AddSkewJoinTask, SkewTasksAdded, Transfer, Transferred,
       Join, JoinLost, JoinDone
  <2> QED
    BY <2>1, <2>2, <2>3 DEF Next, input
<1>2. PairTasks' = PairTasks /\ JoinTasks' = JoinTasks
  BY <1>1 DEF PairTasks, JoinTasks, PairTask, ntupS, SubS
<1> QED
  BY <1>1, <1>2 DEF MaybeTask, SubR, SubS

(* A thread is past pass 2 when it was, or when it has just found its      *)
(* queue empty.                                                            *)
LEMMA PassedStep ==
    ASSUME Inv, [Next]_vars, NEW u \in Threads
    PROVE  /\ Passed(u) => Passed(u)'
           /\ Passed(u)' /\ ~Passed(u) => NoPartTask(u)
<1>1. CASE UNCHANGED pc
  BY <1>1 DEF Passed
<1>2. CASE ReleaseBarrier
  <2>1. pc[u] \in Barriers /\ pc'[u] = AfterBarrier(u)
    BY <1>2 DEF ReleaseBarrier, Waiting, Leave
  <2> QED
    BY <2>1 DEF Passed, Barriers, AfterBarrier
<1>3. ASSUME NEW t \in Threads, Thread(t) 
      PROVE  (Passed(u) => Passed(u)') /\ (Passed(u)' /\ ~Passed(u) => NoPartTask(u))
  <2>1. DOMAIN pc = Threads
    BY DEF Inv, Shape
  <2>2. CASE NoPartTask(t)
    BY <2>1, <2>2 DEF NoPartTask, Goto, Passed
  <2>3. CASE TasksMade(t) \/ GetPartTask(t) \/ SerialDone(t)
    BY <2>1, <2>3 DEF TasksMade, GetPartTask, SerialDone, Goto, Passed
  <2>4. CASE \/ GetSkewTask(t) \/ CheckSkewTask(t) \/ PartitionSkewR(t) \/ PartitionSkewS(t)
             \/ CopyOutSkew(t) \/ SkewTasksAdded(t) \/ Transferred(t) \/ JoinLost(t)
             \/ JoinDone(t)
    <3>1. /\ Passed(t) /\ \A v \in Threads \ {t} : pc'[v] = pc[v]
          /\ pc'[t] \notin {"tasks", "sync3", "pass2", "serial"}
      BY <2>1, <2>4 DEF GetSkewTask, CheckSkewTask, PartitionSkewR, PartitionSkewS, CopyOutSkew,
         SkewTasksAdded, Transferred, JoinLost, JoinDone, Goto, Passed
    <3> QED
      BY <3>1 DEF Passed
  <2>5. CASE \/ MakeSkewTask(t) \/ MakeTask(t) \/ AddJoinTask(t) \/ AddLargeJoinTasks(t)
             \/ AddSkewJoinTask(t) \/ Transfer(t) \/ Join(t)
    <3>1. UNCHANGED pc
      BY <2>5 DEF MakeSkewTask, MakeTask, AddJoinTask, AddLargeJoinTasks, AddSkewJoinTask,
         Transfer, Join
    <3> QED
      BY <3>1 DEF Passed
  <2> QED
    BY <1>3, <2>2, <2>3, <2>4, <2>5 DEF Thread
<1>4. CASE CollectResult \/ UNCHANGED vars
  BY <1>1, <1>4 DEF CollectResult, vars
<1> QED
  BY <1>2, <1>3, <1>4 DEF Next

(* Sequences whose elements are of a larger set.                           *)
LEMMA Wider == ASSUME NEW T, NEW U, T \subseteq U PROVE Seq(T) \subseteq Seq(U)
  BY SeqMonotonic

(* A thread's node has queues.                                             *)
LEMMA OwnNode == \A t \in Threads : NumaId[t] \in Nodes
  BY DEF Nodes

(* The queues of tasks for pass 2 after one of them has changed.           *)
LEMMA PartQueueChanged ==
    ASSUME Inv, Typed, [Next]_vars, Passed(0)' <=> Passed(0), NEW n \in Nodes,
           NEW q \in Seq(PartTasks(n)), part_queue' = [part_queue EXCEPT ![n] = q]
    PROVE  /\ part_queue' \in [Nodes -> Seq(JoinTasks \cup PairTasks)']
           /\ \A m \in Nodes : part_queue'[m] \in Seq(PartTasks(m))'
<1>1. part_queue \in [Nodes -> Seq(JoinTasks \cup PairTasks)]
  BY DEF Typed, Queues
<1>2. \A m \in Nodes : PartTasks(m)' = PartTasks(m) /\ PartTasks(m) \subseteq JoinTasks \cup PairTasks
  BY InputStays DEF PartTasks
<1>3. q \in Seq(JoinTasks \cup PairTasks)
  BY <1>2, Wider
<1>4. Seq(JoinTasks \cup PairTasks)' = Seq(JoinTasks \cup PairTasks)
  BY InputStays
<1> QED
  BY <1>1, <1>2, <1>3, <1>4 DEF Typed, Queues

(* The queues of tasks for pass 2 when no task is added or taken.          *)
LEMMA PartQueueSame ==
    ASSUME Inv, Typed, [Next]_vars, part_queue' = part_queue
    PROVE  /\ part_queue' \in [Nodes -> Seq(JoinTasks \cup PairTasks)']
           /\ \A m \in Nodes : part_queue'[m] \in Seq(PartTasks(m))'
<1>1. Seq(JoinTasks \cup PairTasks)' = Seq(JoinTasks \cup PairTasks)
  BY InputStays
<1>2. ASSUME NEW m \in Nodes PROVE part_queue[m] \in Seq(PartTasks(m))'
  <2>1. CASE PartTasks(m)' = PartTasks(m)
    BY <2>1 DEF Typed, Queues
  <2>2. CASE PartTasks(m)' # PartTasks(m)
    <3>1. m = NumaId[0] /\ NoPartTask(0)
      BY <2>2, InputStays, PassedStep, ThreadZero DEF PartTasks
    <3>2. part_queue[m] = <<>>
      BY <3>1 DEF NoPartTask, part_queue_of
    <3> QED
      BY <3>2
  <2> QED
    BY <2>1, <2>2
<1> QED
  BY <1>1, <1>2 DEF Typed, Queues

(* A pair whose partitions are to be partitioned again.                    *)
LEMMA QueuesStep ==
    ASSUME Inv, Typed, Drained, [Next]_vars
    PROVE  Queues'
<1> DEFINE Parts == /\ part_queue' \in [Nodes -> Seq(JoinTasks \cup PairTasks)']
                    /\ \A m \in Nodes : part_queue'[m] \in Seq(PartTasks(m))'
           Joins == join_queue' \in [Nodes -> Seq(JoinTasks)]
           Skews == skew_queue' \in Seq(PairTasks)
<1>1. ASSUME Parts, Joins, Skews PROVE Queues'
  BY <1>1, InputStays DEF Queues
<1>2. /\ join_queue \in [Nodes -> Seq(JoinTasks)] /\ skew_queue \in Seq(PairTasks)
      /\ part_queue \in [Nodes -> Seq(JoinTasks \cup PairTasks)]
      /\ \A m \in Nodes : part_queue[m] \in Seq(PartTasks(m))
      /\ tuples \in Inputs /\ i \in [Threads -> 0 .. FanOut + FanOut2]
  BY DEF Typed, Queues, Numbers
<1>3. part_queue' = part_queue => Parts
  BY PartQueueSame
<1>4. (Passed(0)' <=> Passed(0)) =>
          \A n \in Nodes : \A q \in Seq(PartTasks(n)) :
              part_queue' = [part_queue EXCEPT ![n] = q] => Parts
  BY PartQueueChanged
<1>5. \A n \in Nodes : \A q \in Seq(JoinTasks) :
          join_queue' = [join_queue EXCEPT ![n] = q] => Joins
  BY <1>2
<1> HIDE DEF Parts, Joins, Skews
<1>6. UNCHANGED <<join_queue, skew_queue>> => Joins /\ Skews
  BY <1>2 DEF Joins, Skews
<1>7. CASE UNCHANGED <<part_queue, join_queue, skew_queue>>
  BY <1>1, <1>3, <1>6, <1>7
<1>8. ASSUME NEW t \in Threads, MakeSkewTask(t) PROVE Queues'
  <2>1. i[t] \in Clusters
    BY <1>2, <1>8, FanOutAssumption DEF MakeSkewTask, Clusters
  <2>2. PairTask(i[t]) \in PairTasks
    BY <2>1 DEF PairTasks
  <2>3. Skews
    BY <1>2, <1>8, <2>2, PutFirst DEF MakeSkewTask, Skews
  <2> QED
    BY <1>1, <1>2, <1>3, <1>8, <2>3 DEF MakeSkewTask, Joins
<1>9. ASSUME NEW t \in Threads, MakeTask(t) PROVE Queues'
  <2>1. i[t] \in Clusters /\ t = 0
    BY <1>2, <1>9, PhaseFacts, FanOutAssumption DEF MakeTask, Clusters
  <2>2. NodeOf[i[t]] \in Nodes /\ PairTask(i[t]) \in PairTasks
    BY <2>1, NumaAssumption DEF PairTasks
  <2> DEFINE n == NodeOf[i[t]]
  <2>3. PairTasks = PartTasks(n) /\ (Passed(0)' <=> Passed(0))
    BY <1>9, <2>1 DEF MakeTask, PartTasks, Passed
  <2>4. <<PairTask(i[t])>> \o part_queue[n] \in Seq(PartTasks(n))
    BY <1>2, <2>2, <2>3, PutFirst
  <2>5. part_queue' = part_queue \/
        part_queue' = [part_queue EXCEPT ![n] = <<PairTask(i[t])>> \o part_queue[n]]
    BY <1>9 DEF MakeTask, AddFirst
  <2>6. Parts
    BY <1>3, <1>4, <2>2, <2>3, <2>4, <2>5
  <2> QED
    BY <1>1, <1>6, <1>9, <2>6 DEF MakeTask
<1>10. ASSUME NEW t \in Threads, GetPartTask(t) PROVE Queues'
  <2> DEFINE n == NumaId[t]
  <2>1. n \in Nodes /\ part_queue[n] # <<>> /\ part_queue[n] \in Seq(PartTasks(n))
    BY <1>2, <1>10, OwnNode DEF GetPartTask, part_queue_of
  <2>2. Tail(part_queue[n]) \in Seq(PartTasks(n))
    BY <2>1, TakeFirst
  <2>3. part_queue' = [part_queue EXCEPT ![n] = Tail(part_queue[n])]
    BY <1>10 DEF GetPartTask
  <2>4. Passed(0)' <=> Passed(0)
    <3>1. ~NoPartTask(0)
      <4> SUFFICES ASSUME NoPartTask(0) PROVE FALSE
        OBVIOUS
      <4>1. part_queue' = part_queue
        BY DEF NoPartTask
      <4>2. part_queue'[n] = Tail(part_queue[n])
        BY <1>2, <2>1, <2>3
      <4>3. part_queue[n] = Tail(part_queue[n])
        BY <4>1, <4>2
      <4>4. Len(Tail(part_queue[n])) = Len(part_queue[n]) - 1 /\ Len(part_queue[n]) \in Nat \ {0}
        <5> HIDE DEF n
        <5> QED
          BY <2>1, TakeFirst
      <4>5. Len(part_queue[n]) = Len(part_queue[n]) - 1
        BY <4>3, <4>4
      <4> DEFINE l == Len(part_queue[n])
      <4>6. l \in Nat \ {0} /\ l = l - 1
        BY <4>4, <4>5
      <4> HIDE DEF l
      <4> QED
        BY <4>6
    <3> QED
      BY <3>1, PassedStep, ThreadZero
  <2>5. Parts
    BY <1>4, <2>1, <2>2, <2>3, <2>4
  <2> QED
    BY <1>1, <1>6, <1>10, <2>5 DEF GetPartTask
<1>11. ASSUME NEW t \in Threads, AddJoinTask(t) \/ AddSkewJoinTask(t) PROVE Queues'
  <2> DEFINE c == IF AddJoinTask(t) THEN task[t].c ELSE skewtask.c
             n == NumaId[t]
             new == JoinTask(c, i[t], 0, SubS(c, i[t]))
  <2>1. i[t] \in Clusters2
    BY <1>2, <1>11, FanOutAssumption DEF AddJoinTask, AddSkewJoinTask, Clusters2
  <2>2. c \in Clusters
    <3>1. CASE AddJoinTask(t)
      <4>1. task[t] \in PairTasks
        BY <3>1 DEF AddJoinTask, Typed, TasksTyped
      <4> QED
        BY <3>1, <4>1 DEF PairTasks, PairTask, JoinTask
    <3>2. CASE ~AddJoinTask(t)
      <4>1. AddSkewJoinTask(t)
        BY <1>11, <3>2
      <4>2. pc[0] = "skewtasks" /\ skewtask # NoTask
        BY <4>1, PhaseFacts DEF AddSkewJoinTask
      <4>3. skewtask \in PairTasks
        BY <4>2 DEF Typed, TasksTyped, MaybeTask
      <4> QED
        BY <3>2, <4>3 DEF PairTasks, PairTask, JoinTask
    <3> QED
      BY <3>1, <3>2
  <2>3. join_queue' = join_queue \/ join_queue' = [join_queue EXCEPT ![n] = <<new>> \o join_queue[n]]
    BY <1>11 DEF AddJoinTask, AddSkewJoinTask, AddFirst
  <2>4. UNCHANGED <<part_queue, skew_queue>>
    BY <1>11 DEF AddJoinTask, AddSkewJoinTask
  <2> HIDE DEF c
  <2>5. new \in JoinTasks
    <3>1. SubS(c, i[t]) \in Nat
      BY <1>2, <2>1, <2>2, InputFacts
    <3>2. /\ new \in [c : Clusters, j : Clusters2, from : Nat, ns : Nat]
          /\ new.c = c /\ new.j = i[t] /\ new.from = 0 /\ new.ns = SubS(c, i[t])
      BY <2>1, <2>2, <3>1 DEF JoinTask
    <3> HIDE DEF new
    <3> QED
      BY <3>1, <3>2 DEF JoinTasks
  <2>6. n \in Nodes /\ join_queue[n] \in Seq(JoinTasks)
    BY <1>2, OwnNode
  <2>7. <<new>> \o join_queue[n] \in Seq(JoinTasks)
    <3> HIDE DEF new
    <3> QED
      BY <2>5, <2>6, PutFirst
  <2>8. Joins
    BY <1>2, <1>5, <2>3, <2>6, <2>7 DEF Joins
  <2> QED
    BY <1>1, <1>2, <1>3, <2>4, <2>8 DEF Skews
<1>12. ASSUME NEW t \in Threads, GetSkewTask(t) PROVE Queues'
  <2>1. skew_queue # <<>> => Tail(skew_queue) \in Seq(PairTasks)
    BY <1>2, TakeFirst
  <2>2. Skews
    BY <1>2, <1>12, <2>1 DEF GetSkewTask, Skews
  <2> QED
    BY <1>1, <1>2, <1>3, <1>12, <2>2 DEF GetSkewTask, Joins
<1>13. ASSUME NEW t \in Threads, AddLargeJoinTasks(t) PROVE Queues'
  <2> DEFINE c == skewtask.c
             n == NumaId[t]
             pieces == [k \in 1 .. NThreads |-> Piece(c, i[t], NThreads - k)]
  <2>1. t = 0 /\ i[t] \in Clusters2 /\ skewtask # NoTask
    BY <1>2, <1>13, PhaseFacts, FanOutAssumption DEF AddLargeJoinTasks, Clusters2
  <2>2. skewtask \in PairTasks
    BY <2>1 DEF Typed, TasksTyped, MaybeTask
  <2>3. c \in Clusters
    BY <2>2 DEF PairTasks, PairTask, JoinTask
  <2>4. n \in Nodes /\ PartTasks(n) = JoinTasks /\ (Passed(0)' <=> Passed(0))
    BY <1>13, <2>1, OwnNode DEF PartTasks, AddLargeJoinTasks, Passed
  <2>5. part_queue' = [part_queue EXCEPT ![n] = pieces \o part_queue[n]]
    BY <1>13 DEF AddLargeJoinTasks
  <2>6. pieces \in Seq(JoinTasks)
    <3> HIDE DEF c
    <3>1. \A k \in 1 .. NThreads : Piece(c, i[t], NThreads - k) \in JoinTasks
      <4>1. \A k \in 1 .. NThreads : NThreads - k \in 0 .. NThreads - 1
        BY ThreadsAssumption
      <4> QED
        BY <1>2, <2>1, <2>3, <4>1, PieceFacts
    <3>2. pieces \in [1 .. NThreads -> JoinTasks]
      BY <3>1
    <3> HIDE DEF pieces
    <3>3. NThreads \in Nat
      BY ThreadsAssumption
    <3> QED
      BY <3>2, <3>3
  <2> HIDE DEF pieces
  <2>7. pieces \o part_queue[n] \in Seq(PartTasks(n))
    BY <1>2, <2>4, <2>6, AllPutFirst
  <2>8. Parts
    BY <1>4, <2>4, <2>5, <2>7
  <2> QED
    BY <1>1, <1>6, <1>13, <2>8 DEF AddLargeJoinTasks
<1>14. ASSUME NEW t \in Threads, Transfer(t) PROVE Queues'
  <2> DEFINE n == NumaId[t]
  <2>1. t = 0
    BY <1>14, PhaseFacts DEF Transfer
  <2>2. n \in Nodes /\ PartTasks(n) = JoinTasks /\ (Passed(0)' <=> Passed(0))
    BY <1>14, <2>1, OwnNode DEF PartTasks, Transfer, Passed
  <2>3. part_queue[n] # <<>> /\ part_queue[n] \in Seq(JoinTasks) /\ join_queue[n] \in Seq(JoinTasks)
    BY <1>2, <1>14, <2>2 DEF Transfer, part_queue_of
  <2>4. Head(part_queue[n]) \in JoinTasks /\ Tail(part_queue[n]) \in Seq(JoinTasks)
    BY <2>3, TakeFirst
  <2>5. <<Head(part_queue[n])>> \o join_queue[n] \in Seq(JoinTasks)
    BY <2>3, <2>4, PutFirst
  <2>6. /\ part_queue' = [part_queue EXCEPT ![n] = Tail(part_queue[n])]
        /\ join_queue' = [join_queue EXCEPT ![n] = <<Head(part_queue[n])>> \o join_queue[n]]
        /\ skew_queue' = skew_queue
    BY <1>14 DEF Transfer, AddFirst, part_queue_of
  <2>7. Parts /\ Joins /\ Skews
    BY <1>2, <1>4, <1>5, <2>2, <2>4, <2>5, <2>6 DEF Skews
  <2> QED
    BY <1>1, <2>7
<1>15. ASSUME NEW t \in Threads, Join(t) \/ JoinLost(t) PROVE Queues'
  <2> DEFINE n == NumaId[t]
  <2>1. n \in Nodes /\ join_queue[n] # <<>> /\ join_queue[n] \in Seq(JoinTasks)
    BY <1>2, <1>15, OwnNode DEF Join, JoinLost, join_queue_of
  <2>2. Tail(join_queue[n]) \in Seq(JoinTasks)
    BY <2>1, TakeFirst
  <2>3. /\ join_queue' = [join_queue EXCEPT ![n] = Tail(join_queue[n])]
        /\ UNCHANGED <<part_queue, skew_queue>>
    BY <1>15 DEF Join, JoinLost
  <2>4. Joins /\ Skews
    BY <1>2, <1>5, <2>1, <2>2, <2>3 DEF Skews
  <2> QED
    BY <1>1, <1>3, <2>3, <2>4
<1>16. CASE ReleaseBarrier \/ CollectResult \/ UNCHANGED vars
  BY <1>7, <1>16 DEF ReleaseBarrier, Leave, CollectResult, vars
<1>17. ASSUME NEW t \in Threads,
              \/ TasksMade(t) \/ SerialDone(t) \/ NoPartTask(t) \/ CheckSkewTask(t)
              \/ PartitionSkewR(t) \/ PartitionSkewS(t) \/ CopyOutSkew(t) \/ SkewTasksAdded(t)
              \/ Transferred(t) \/ JoinDone(t)
       PROVE  Queues'
  <2>1. UNCHANGED <<part_queue, join_queue, skew_queue>>
    BY <1>17 DEF TasksMade, SerialDone, NoPartTask, CheckSkewTask, PartitionSkewR,
       PartitionSkewS, CopyOutSkew, SkewTasksAdded, Transferred, JoinDone
  <2> QED
    BY <1>7, <2>1
<1>18. ASSUME NEW t \in Threads, Thread(t) PROVE Queues'
  BY <1>8, <1>9, <1>10, <1>11, <1>12, <1>13, <1>14, <1>15, <1>17, <1>18 DEF Thread
<1> QED
  BY <1>16, <1>18 DEF Next

(* The steps that take a task from a queue are given one of a pair.        *)
LEMMA TasksStep ==
    ASSUME Inv, Typed, Drained, [Next]_vars
    PROVE  TasksTyped'
<1>1. /\ skewtask \in MaybeTask /\ task \in [Threads -> MaybeTask]
      /\ seen \in [Threads -> [R : MaybeTask, S : MaybeTask]]
      /\ \A t \in Threads : pc[t] = "serial" => task[t] \in PairTasks
      /\ DOMAIN pc = Threads /\ skew_queue \in Seq(PairTasks)
  BY DEF Typed, TasksTyped, Inv, Shape, Queues
<1>2. PairTasks' = PairTasks /\ MaybeTask' = MaybeTask /\ PairTasks \subseteq MaybeTask
  BY InputStays DEF MaybeTask
<1>3. ASSUME UNCHANGED <<skewtask, task, seen>>,
             \A t \in Threads : pc'[t] = "serial" => pc[t] = "serial"
      PROVE  TasksTyped'
  BY <1>1, <1>2, <1>3 DEF TasksTyped
<1>4. CASE ReleaseBarrier
  <2>1. UNCHANGED <<skewtask, task, seen>> /\ \A t \in Threads : pc'[t] # "serial"
    BY <1>4 DEF ReleaseBarrier, Leave, Waiting, Barriers, AfterBarrier
  <2> QED
    BY <1>3, <2>1
<1>5. CASE CollectResult \/ UNCHANGED vars
  BY <1>3, <1>5 DEF CollectResult, vars
<1>6. ASSUME NEW t \in Threads,
             \/ MakeSkewTask(t) \/ MakeTask(t) \/ AddJoinTask(t) \/ AddLargeJoinTasks(t)
             \/ AddSkewJoinTask(t) \/ Transfer(t) \/ Join(t)
      PROVE  TasksTyped'
  <2>1. UNCHANGED <<skewtask, task, seen, pc>>
    BY <1>6 DEF MakeSkewTask, MakeTask, AddJoinTask, AddLargeJoinTasks, AddSkewJoinTask,
       Transfer, Join
  <2> QED
    BY <1>3, <2>1
<1>7. ASSUME NEW t \in Threads,
             \/ TasksMade(t) \/ SerialDone(t) \/ NoPartTask(t) \/ CheckSkewTask(t)
             \/ CopyOutSkew(t) \/ SkewTasksAdded(t) \/ Transferred(t) \/ JoinLost(t)
             \/ JoinDone(t)
      PROVE  TasksTyped'
  <2>1. /\ UNCHANGED <<skewtask, task, seen>> /\ pc' = [pc EXCEPT ![t] = pc'[t]]
        /\ pc'[t] # "serial"
    BY <1>1, <1>7 DEF TasksMade, SerialDone, NoPartTask, CheckSkewTask, CopyOutSkew,
       SkewTasksAdded, Transferred, JoinLost, JoinDone, Goto
  <2>2. \A u \in Threads : pc'[u] = "serial" => pc[u] = "serial"
    BY <1>1, <2>1
  <2> QED
    BY <1>3, <2>1, <2>2
<1>8. ASSUME NEW t \in Threads, GetPartTask(t) PROVE TasksTyped'
  <2> DEFINE n == NumaId[t]
  <2>1. n \in Nodes /\ part_queue[n] # <<>> /\ part_queue[n] \in Seq(PartTasks(n)) /\ pc[t] = "pass2"
    BY <1>8, OwnNode DEF GetPartTask, part_queue_of, Typed, Queues
  <2>2. PartTasks(n) = PairTasks
    <3>1. ~(n = NumaId[0] /\ Passed(0))
      BY <2>1 DEF Drained, part_queue_of
    <3> QED
      BY <3>1 DEF PartTasks
  <2>3. Head(part_queue[n]) \in PairTasks
    BY <2>1, <2>2, TakeFirst
  <2>4. /\ task' = [task EXCEPT ![t] = Head(part_queue[n])]
        /\ pc' = [pc EXCEPT ![t] = "serial"] /\ UNCHANGED <<skewtask, seen>>
    BY <1>8 DEF GetPartTask, Goto, part_queue_of
  <2> QED
    BY <1>1, <1>2, <2>3, <2>4 DEF TasksTyped
<1>9. ASSUME NEW t \in Threads, GetSkewTask(t) PROVE TasksTyped'
  <2>1. skewtask' \in MaybeTask
    <3>1. skew_queue # <<>> => Head(skew_queue) \in PairTasks
      BY <1>1, TakeFirst
    <3> QED
      BY <1>9, <3>1 DEF GetSkewTask, MaybeTask
  <2>2. pc' = [pc EXCEPT ![t] = "skewsync"] /\ UNCHANGED <<task, seen>>
    BY <1>9 DEF GetSkewTask, Goto
  <2> QED
    BY <1>1, <1>2, <2>1, <2>2 DEF TasksTyped
<1>10. ASSUME NEW t \in Threads, PartitionSkewR(t) \/ PartitionSkewS(t) PROVE TasksTyped'
  <2>1. /\ \E l \in {"skewRsync", "skewSsync"} : pc' = [pc EXCEPT ![t] = l]
        /\ UNCHANGED <<skewtask, task>>
        /\ \/ seen' = [seen EXCEPT ![t].R = skewtask]
           \/ seen' = [seen EXCEPT ![t].S = skewtask]
    BY <1>10 DEF PartitionSkewR, PartitionSkewS, Goto
  <2>2. seen' \in [Threads -> [R : MaybeTask, S : MaybeTask]]
    BY <1>1, <2>1
  <2>3. \A u \in Threads : pc'[u] = "serial" => pc[u] = "serial"
    BY <1>1, <2>1
  <2> QED
    BY <1>1, <1>2, <2>1, <2>2, <2>3 DEF TasksTyped
<1>11. ASSUME NEW t \in Threads, Thread(t) PROVE TasksTyped'
  BY <1>6, <1>7, <1>8, <1>9, <1>10, <1>11 DEF Thread
<1> QED
  BY <1>4, <1>5, <1>11 DEF Next

(* The join task that a thread takes is of a subpartition.                 *)
LEMMA TaskJoined ==
    ASSUME Typed, NEW t \in Threads, pc[t] = "join", join_queue_of(t) # <<>>
    PROVE  LET new == Head(join_queue_of(t))
           IN  /\ new \in JoinTasks
               /\ new.c \in Clusters /\ new.j \in Clusters2 /\ new.from \in Nat /\ new.ns \in Nat
               /\ new.from + new.ns <= SubS(new.c, new.j)
               /\ SubR(new.c, new.j) \in Nat /\ SubS(new.c, new.j) \in Nat
<1>1. Head(join_queue_of(t)) \in JoinTasks
  BY OwnNode, TakeFirst DEF Typed, Queues, join_queue_of
<1> QED
  BY <1>1, InputFacts DEF JoinTasks, Typed

(* A join only counts.                                                     *)
LEMMA ProbedStep ==
    ASSUME Inv, Typed, [Next]_vars
    PROVE  ProbedTyped'
<1>1. ProbedTyped
  BY DEF Typed
<1>2. CASE UNCHANGED probed
  BY <1>1, <1>2, InputStays DEF ProbedTyped
<1>3. ASSUME NEW t \in Threads, Join(t) PROVE ProbedTyped'
  <2> DEFINE new == Head(join_queue_of(t))
             more == [s \in DOMAIN probed[new.c][new.j] |->
                         probed[new.c][new.j][s]
                         + IF s \in new.from + 1 .. new.from + new.ns THEN 1 ELSE 0]
  <2>1. new.c \in Clusters /\ new.j \in Clusters2
    BY <1>3, TaskJoined DEF Join
  <2>2. probed' = [probed EXCEPT ![new.c][new.j] = more]
    BY <1>3 DEF Join
  <2>3. more \in [1 .. SubS(new.c, new.j) -> Nat]
    <3>1. probed[new.c][new.j] \in [1 .. SubS(new.c, new.j) -> Nat]
      BY <1>1, <2>1 DEF ProbedTyped
    <3> DEFINE f == probed[new.c][new.j]
               n == SubS(new.c, new.j)
               T == new.from + 1 .. new.from + new.ns
    <3>2. f \in [1 .. n -> Nat] /\ more = [s \in DOMAIN f |-> f[s] + IF s \in T THEN 1 ELSE 0]
      BY <3>1
    <3> HIDE DEF new, more, f, n, T
    <3>3. \A s \in 1 .. n : f[s] \in Nat /\ f[s] + 0 \in Nat /\ f[s] + 1 \in Nat
      BY <3>2
    <3>4. \A s \in 1 .. n : (f[s] + IF s \in T THEN 1 ELSE 0) \in Nat
      BY <3>3
    <3>5. more \in [1 .. n -> Nat]
      BY <3>2, <3>4
    <3> QED
      BY <3>5 DEF n
  <2> HIDE DEF new, more
  <2>4. \A c \in Clusters, j \in Clusters2 :
            probed'[c][j] = IF c = new.c /\ j = new.j THEN more ELSE probed[c][j]
    BY <1>1, <2>1, <2>2 DEF ProbedTyped
  <2>5. DOMAIN probed' = Clusters /\ \A c \in Clusters : DOMAIN probed'[c] = Clusters2
    BY <1>1, <2>1, <2>2 DEF ProbedTyped
  <2>6. \A c \in Clusters, j \in Clusters2 : probed'[c][j] \in [1 .. SubS(c, j) -> Nat]
    BY <1>1, <2>3, <2>4 DEF ProbedTyped
  <2> QED
    BY <2>5, <2>6, InputStays DEF ProbedTyped
<1>4. ASSUME NEW t \in Threads, Thread(t), ~Join(t) PROVE UNCHANGED probed
  BY <1>4 DEF Thread, MakeSkewTask, MakeTask, TasksMade, GetPartTask, AddJoinTask,
     SerialDone, NoPartTask, GetSkewTask, CheckSkewTask, PartitionSkewR, PartitionSkewS,
     CopyOutSkew, AddLargeJoinTasks, AddSkewJoinTask, SkewTasksAdded, Transfer, Transferred,
     JoinLost, JoinDone
<1>5. CASE ReleaseBarrier \/ CollectResult \/ UNCHANGED vars
  BY <1>2, <1>5 DEF ReleaseBarrier, Leave, CollectResult, vars
<1> QED
  BY <1>2, <1>3, <1>4, <1>5 DEF Next

(* The loops end before their counter leaves its range.                    *)
LEMMA NumbersStep ==
    ASSUME Inv, Typed, [Next]_vars
    PROVE  Numbers'
<1>1. Numbers
  BY DEF Typed
<1>2. CASE UNCHANGED <<i, result, totalresults, joined>>
  BY <1>1, <1>2 DEF Numbers
<1>3. ASSUME NEW t \in Threads,
             \/ MakeSkewTask(t) \/ MakeTask(t) \/ AddJoinTask(t) \/ AddLargeJoinTasks(t)
             \/ AddSkewJoinTask(t)
      PROVE  Numbers'
  <2>1. /\ Advance(t) /\ UNCHANGED <<result, totalresults, joined>>
        /\ i[t] < FanOut \/ i[t] < FanOut2
    BY <1>3 DEF MakeSkewTask, MakeTask, AddJoinTask, AddLargeJoinTasks, AddSkewJoinTask
  <2>2. i[t] + 1 \in 0 .. FanOut + FanOut2
    BY <1>1, <2>1, FanOutAssumption DEF Numbers
  <2> QED
    BY <1>1, <2>1, <2>2 DEF Numbers, Advance
<1>4. ASSUME NEW t \in Threads, GetPartTask(t) \/ CopyOutSkew(t) PROVE Numbers'
  <2>1. i' = [i EXCEPT ![t] = 0] /\ UNCHANGED <<result, totalresults, joined>>
    BY <1>4 DEF GetPartTask, CopyOutSkew
  <2>2. 0 \in 0 .. FanOut + FanOut2
    BY FanOutAssumption
  <2> QED
    BY <1>1, <2>1, <2>2 DEF Numbers
<1>5. ASSUME NEW t \in Threads, Join(t) PROVE Numbers'
  <2> DEFINE new == Head(join_queue_of(t))
             more == SubR(new.c, new.j) * new.ns
  <2>0. PICK stray \in Miscounts(new) :
            /\ result' = [result EXCEPT ![t] = @ + more + stray]
            /\ UNCHANGED <<i, totalresults, joined>>
    BY <1>5 DEF Join
  <2>4. stray \in Nat
    BY JoinFunctionAssumption DEF Miscounts
  <2>1. SubR(new.c, new.j) \in Nat /\ new.ns \in Nat
    BY <1>5, TaskJoined DEF Join
  <2>2. more \in Nat
    <3> HIDE DEF new
    <3> QED
      BY <2>1, ProductNat
  <2> HIDE DEF more, new
  <2> QED
    BY <1>1, <2>0, <2>2, <2>4 DEF Numbers
<1>6. CASE CollectResult
  <2>1. joined \in Threads /\ result[joined] \in Nat
    BY <1>1, <1>6, ThreadsAssumption DEF CollectResult, Numbers, Threads
  <2>2. /\ joined + 1 \in 0 .. NThreads /\ totalresults + result[joined] \in Nat
        /\ UNCHANGED <<i, result>>
    BY <1>1, <1>6, <2>1, ThreadsAssumption DEF CollectResult, Numbers
  <2> QED
    BY <1>1, <1>6, <2>2 DEF CollectResult, Numbers
<1>7. ASSUME NEW t \in Threads,
             \/ TasksMade(t) \/ SerialDone(t) \/ NoPartTask(t) \/ GetSkewTask(t)
             \/ CheckSkewTask(t) \/ PartitionSkewR(t) \/ PartitionSkewS(t)
             \/ SkewTasksAdded(t) \/ Transfer(t) \/ Transferred(t) \/ JoinLost(t)
             \/ JoinDone(t)
      PROVE  UNCHANGED <<i, result, totalresults, joined>>
  BY <1>7 DEF TasksMade, SerialDone, NoPartTask, GetSkewTask, CheckSkewTask, PartitionSkewR,
     PartitionSkewS, SkewTasksAdded, Transfer, Transferred, JoinLost, JoinDone
<1>8. ASSUME NEW t \in Threads, Thread(t) PROVE Numbers'
  BY <1>2, <1>3, <1>4, <1>5, <1>7, <1>8 DEF Thread
<1>9. CASE ReleaseBarrier \/ UNCHANGED vars
  BY <1>2, <1>9 DEF ReleaseBarrier, Leave, vars
<1> QED
  BY <1>6, <1>8, <1>9 DEF Next

(* A queue that its thread has left empty stays empty.                     *)
LEMMA DrainedStep ==
    ASSUME Inv, Typed, Drained, [Next]_vars
    PROVE  Drained'
<1> USE ThreadZero
<1>1. DOMAIN pc = Threads /\ \A t \in Threads : NumaId[t] \in Nodes
  BY OwnNode DEF Inv, Shape
<1>2. DOMAIN part_queue = Nodes /\ DOMAIN join_queue = Nodes
  BY DEF Typed, Queues
<1>3. CASE ReleaseBarrier
  <2>1. /\ \A t \in Threads : pc[t] \in Barriers /\ pc'[t] = AfterBarrier(t)
        /\ UNCHANGED <<SKEW_HANDLING, i, part_queue, join_queue, skew_queue, skewtask>>
    BY <1>3 DEF ReleaseBarrier, Waiting, Leave, input
  <2>2. \A t \in Threads : Passed(t)' <=> Passed(t)
    BY <2>1 DEF Passed, Barriers, AfterBarrier
  <2>3. \A t \in Threads : pc'[t] \in {"pass2", "serial"} => ~Passed(0)'
    <3> SUFFICES ASSUME NEW t \in Threads, pc'[t] \in {"pass2", "serial"}, Passed(0)' PROVE FALSE
      OBVIOUS
    <3>1. pc[t] = "sync3"
      BY <2>1 DEF AfterBarrier, Barriers
    <3>2. PICK p \in Phases : pc[t] \in Places(p, t) /\ pc[0] \in Places(p, 0)
      BY DEF Inv, AllIn
    <3>3. pc[0] \in {"tasks", "sync3"}
      BY <3>1, <3>2 DEF Places, Phases
    <3> QED
      BY <2>2, <3>3 DEF Passed
  <2>4. /\ pc'[0] \in {"sync4", "join", "finish", "done"} => pc[0] \in {"sync4", "finish"}
        /\ pc'[0] \notin {"transfer", "copysync", "skewsync"}
        /\ pc'[0] = "check" => pc[0] = "skewsync"
        /\ \A t \in Threads : pc'[t] \in {"finish", "done"} => pc[t] = "finish"
    BY <2>1 DEF AfterBarrier, Barriers
  <2> QED
    BY <2>1, <2>2, <2>3, <2>4 DEF Drained, part_queue_of, join_queue_of
<1>4. CASE CollectResult \/ UNCHANGED vars
  <2>1. UNCHANGED <<SKEW_HANDLING, i, part_queue, join_queue, skew_queue, skewtask, pc>>
    BY <1>4 DEF CollectResult, vars, input
  <2> QED
    BY <2>1 DEF Drained, part_queue_of, join_queue_of, Passed
<1>5. ASSUME NEW t \in Threads, MakeSkewTask(t) PROVE Drained'
  <2>1. /\ pc[0] = "tasks" /\ SKEW_HANDLING /\ \A u \in Threads : ~Passed(u)
        /\ \A u \in Threads : pc[u] \notin {"finish", "done"}
    BY <1>5, PhaseFacts DEF MakeSkewTask, Large, Passed
  <2>2. UNCHANGED <<SKEW_HANDLING, part_queue, join_queue, skewtask, pc>>
    BY <1>5 DEF MakeSkewTask, input
  <2> QED
    BY <2>1, <2>2 DEF Drained, part_queue_of, join_queue_of, Passed
<1>6. ASSUME NEW t \in Threads, MakeTask(t) PROVE Drained'
  <2>1. pc[0] = "tasks" /\ \A u \in Threads : ~Passed(u) /\ pc[u] \notin {"finish", "done"}
    BY <1>6, PhaseFacts DEF MakeTask, Passed
  <2>2. UNCHANGED <<SKEW_HANDLING, skew_queue, join_queue, skewtask, pc>>
    BY <1>6 DEF MakeTask, input
  <2> QED
    BY <2>1, <2>2 DEF Drained, part_queue_of, join_queue_of, Passed
<1>7. ASSUME NEW t \in Threads, TasksMade(t) \/ SerialDone(t) PROVE Drained'
  <2>1. /\ pc[t] \in {"tasks", "serial"}
        /\ pc' = [pc EXCEPT ![t] = IF pc[t] = "tasks" THEN "sync3" ELSE "pass2"]
        /\ UNCHANGED <<SKEW_HANDLING, i, part_queue, join_queue, skew_queue, skewtask>>
    BY <1>7 DEF TasksMade, SerialDone, Goto, input
  <2>2. pc[t] = "tasks" => t = 0
    BY PhaseFacts
  <2>3. \A u \in Threads : Passed(u)' <=> Passed(u)
    BY <1>1, <2>1 DEF Passed
  <2>4. /\ \A u \in Threads : u # t => pc'[u] = pc[u]
        /\ pc'[t] = "sync3" \/ (pc[t] = "serial" /\ pc'[t] = "pass2")
    BY <1>1, <2>1
  <2> QED
    BY <2>1, <2>3, <2>4 DEF Drained, part_queue_of, join_queue_of
<1>8. ASSUME NEW t \in Threads, GetPartTask(t) PROVE Drained'
  <2>1. /\ pc[t] = "pass2" /\ pc' = [pc EXCEPT ![t] = "serial"]
        /\ i' = [i EXCEPT ![t] = 0] /\ part_queue_of(t) # <<>>
        /\ part_queue' = [part_queue EXCEPT ![NumaId[t]] = Tail(@)]
        /\ UNCHANGED <<SKEW_HANDLING, join_queue, skew_queue, skewtask>>
    BY <1>8 DEF GetPartTask, Goto, input
  <2>2. \A u \in Threads : Passed(u)' <=> Passed(u)
    BY <1>1, <2>1 DEF Passed
  <2>3. \A u \in Threads : u # t => pc'[u] = pc[u]
    BY <1>1, <2>1
  <2>4. \A u \in Threads : part_queue_of(u) = <<>> => part_queue_of(u)' = <<>>
    BY <1>1, <1>2, <2>1 DEF part_queue_of
  <2>5. pc'[t] = "serial" /\ ("serial" \in {"pass2", "serial"})
    BY <1>1, <2>1
  <2>6. DOMAIN i = Threads
    BY DEF Typed, Numbers
  <2>7. pc'[0] = "copysync" => i'[0] = 0
    BY <2>1, <2>3, <2>5, <2>6 DEF Drained
  <2>8. join_queue' = join_queue
    BY <2>1
  <2> QED
    BY <2>1, <2>2, <2>3, <2>4, <2>5, <2>7 DEF Drained, join_queue_of
<1>9. ASSUME NEW t \in Threads, AddJoinTask(t) PROVE Drained'
  <2>1. /\ pc[t] = "serial" /\ DOMAIN i = Threads
        /\ i' = [i EXCEPT ![t] = @ + 1]
        /\ UNCHANGED <<SKEW_HANDLING, part_queue, pc, skew_queue, skewtask>>
    BY <1>9 DEF AddJoinTask, Advance, input, Typed, Numbers
  <2>2. \A u \in Threads : pc[u] \notin {"finish", "done"}
    BY <2>1, PhaseFacts
  <2>3. pc[0] = "copysync" => i'[0] = 0
    BY <2>1 DEF Drained
  <2> QED
    BY <2>1, <2>2, <2>3 DEF Drained, part_queue_of, Passed
<1>10. ASSUME NEW t \in Threads, NoPartTask(t) PROVE Drained'
  <2> DEFINE l == IF ~SKEW_HANDLING THEN "sync4" ELSE IF t = 0 THEN "getskew" ELSE "skewsync"
  <2>1. /\ pc[t] = "pass2" /\ part_queue_of(t) = <<>> /\ pc' = [pc EXCEPT ![t] = l]
        /\ UNCHANGED <<SKEW_HANDLING, i, part_queue, join_queue, skew_queue, skewtask>>
    BY <1>10 DEF NoPartTask, Goto, input
  <2>2. /\ \A u \in Threads : u # t => pc'[u] = pc[u]
        /\ pc'[t] = l /\ l \in {"sync4", "getskew", "skewsync"}
    BY <1>1, <2>1
  <2>3. \A u \in Threads : Passed(u)' => Passed(u) \/ u = t
    BY <2>2 DEF Passed
  <2>4. \A u \in Threads : part_queue_of(u)' = part_queue_of(u) /\ join_queue_of(u)' = join_queue_of(u)
    BY <2>1 DEF part_queue_of, join_queue_of
  <2>5. \A u \in Threads : pc'[u] \in {"pass2", "serial"} => pc[u] \in {"pass2", "serial"}
    BY <2>2
  <2>6. /\ pc'[0] \in {"sync4", "join", "finish", "done"} =>
              part_queue_of(0) = <<>>
        /\ pc'[0] \in {"transfer", "sync4", "join", "finish", "done"} =>
              skew_queue = <<>> /\ skewtask = NoTask
    BY <2>1, <2>2 DEF Drained
  <2>7. /\ pc'[0] \in {"skewsync", "check"} /\ skewtask = NoTask => skew_queue = <<>>
        /\ pc'[0] = "copysync" => i[0] = 0
        /\ \A u \in Threads : pc'[u] \in {"finish", "done"} => pc[u] \in {"finish", "done"}
    BY <2>1, <2>2 DEF Drained
  <2>8. (\E u \in Threads : pc'[u] \in {"pass2", "serial"}) /\ Passed(0)' => part_queue_of(0) = <<>>
    BY <2>1, <2>3, <2>5 DEF Drained
  <2> HIDE DEF l
  <2> QED
    BY <2>1, <2>3, <2>4, <2>6, <2>7, <2>8 DEF Drained
<1>11. ASSUME NEW t \in Threads, GetSkewTask(t) PROVE Drained'
  <2>1. /\ t = 0 /\ pc[0] = "getskew" /\ pc' = [pc EXCEPT ![0] = "skewsync"]
        /\ skewtask' = IF skew_queue = <<>> THEN NoTask ELSE Head(skew_queue)
        /\ skew_queue' = IF skew_queue = <<>> THEN <<>> ELSE Tail(skew_queue)
        /\ UNCHANGED <<SKEW_HANDLING, i, part_queue, join_queue>>
    BY <1>11, PhaseFacts DEF GetSkewTask, Goto, input
  <2>2. skewtask' = NoTask => skew_queue' = <<>>
    <3>1. skew_queue # <<>> => Head(skew_queue) \in PairTasks
      BY TakeFirst DEF Typed, Queues
    <3>2. NoTask \notin PairTasks
      BY PairTaskFacts DEF PairTasks, Typed
    <3> QED
      BY <2>1, <3>1, <3>2
  <2>3. \A u \in Threads : Passed(u)' <=> Passed(u)
    BY <1>1, <2>1 DEF Passed
  <2>4. pc'[0] = "skewsync" /\ \A u \in Threads : u # 0 => pc'[u] = pc[u]
    BY <1>1, <2>1
  <2>5. ~SKEW_HANDLING => skew_queue' = <<>> /\ skewtask' = NoTask
    BY <2>1 DEF Drained
  <2> QED
    BY <2>1, <2>2, <2>3, <2>4, <2>5 DEF Drained, part_queue_of, join_queue_of
<1>12. ASSUME NEW t \in Threads,
              \/ CheckSkewTask(t) \/ PartitionSkewR(t) \/ PartitionSkewS(t)
              \/ CopyOutSkew(t) \/ SkewTasksAdded(t) \/ Transferred(t) \/ JoinDone(t)
       PROVE  Drained'
  <2>1. /\ UNCHANGED <<SKEW_HANDLING, part_queue, join_queue, skew_queue, skewtask>>
        /\ pc' = [pc EXCEPT ![t] = pc'[t]]
        /\ Passed(t) /\ pc'[t] \notin {"tasks", "sync3", "pass2", "serial", "done", "skewsync", "check"}
    BY <1>1, <1>12 DEF CheckSkewTask, PartitionSkewR, PartitionSkewS, CopyOutSkew, SkewTasksAdded,
       Transferred, JoinDone, Goto, Passed, input
  <2>2. \A u \in Threads : u # t => pc'[u] = pc[u]
    BY <1>1, <2>1
  <2>3. \A u \in Threads : Passed(u)' <=> Passed(u)
    BY <2>1, <2>2 DEF Passed
  <2>4. \A u \in Threads : part_queue_of(u)' = part_queue_of(u) /\ join_queue_of(u)' = join_queue_of(u)
    BY <2>1 DEF part_queue_of, join_queue_of
  <2>5. pc'[0] = "copysync" => i'[0] = 0
    <3>1. CASE CopyOutSkew(t)
      BY <2>2, <3>1 DEF CopyOutSkew, Typed, Numbers, Drained
    <3>2. CASE ~CopyOutSkew(t)
      <4>1. i' = i /\ pc'[t] # "copysync"
        BY <1>1, <1>12, <3>2 DEF CheckSkewTask, PartitionSkewR, PartitionSkewS, SkewTasksAdded,
           Transferred, JoinDone, Goto
      <4> QED
        BY <2>2, <4>1 DEF Drained
    <3> QED
      BY <3>1, <3>2
  <2>6. pc'[t] = "finish" => join_queue_of(t) = <<>> /\ pc[t] = "join"
    BY <1>1, <1>12 DEF CheckSkewTask, PartitionSkewR, PartitionSkewS, CopyOutSkew, SkewTasksAdded,
       Transferred, JoinDone, Goto
  <2>7. pc'[t] \in {"transfer", "sync4"} => skewtask = NoTask /\ (pc[t] = "check" \/ pc[t] = "transfer")
    BY <1>1, <1>12, PhaseFacts DEF CheckSkewTask, PartitionSkewR, PartitionSkewS, CopyOutSkew,
       SkewTasksAdded, Transferred, JoinDone, Goto, Drained
  <2>8. pc'[t] = "sync4" /\ t = 0 => part_queue_of(0) = <<>>
    BY <1>1, <1>12 DEF CheckSkewTask, PartitionSkewR, PartitionSkewS, CopyOutSkew, SkewTasksAdded,
       Transferred, JoinDone, Goto
  <2>9. /\ pc'[0] \in {"sync4", "join", "finish", "done"} => part_queue_of(0) = <<>>
        /\ pc'[0] \in {"transfer", "sync4", "join", "finish", "done"} =>
              skew_queue = <<>> /\ skewtask = NoTask
    <3>1. CASE t = 0
      <4>1. pc'[0] = "join" => FALSE
        BY <1>1, <1>12, <3>1 DEF CheckSkewTask, PartitionSkewR, PartitionSkewS, CopyOutSkew,
           SkewTasksAdded, Transferred, JoinDone, Goto
      <4> QED
        BY <2>1, <2>6, <2>7, <2>8, <3>1, <4>1 DEF Drained
    <3>2. CASE t # 0
      BY <2>2, <3>2 DEF Drained
    <3> QED
      BY <3>1, <3>2
  <2>10. \A u \in Threads : pc'[u] \in {"finish", "done"} => join_queue_of(u) = <<>>
    BY <2>1, <2>2, <2>6 DEF Drained
  <2>11. (\E u \in Threads : pc'[u] \in {"pass2", "serial"}) =>
             \E u \in Threads : pc[u] \in {"pass2", "serial"}
    BY <2>1, <2>2
  <2>12. pc'[0] \in {"skewsync", "check"} => pc[0] \in {"skewsync", "check"}
    BY <2>1, <2>2
  <2> QED
    BY <2>1, <2>3, <2>4, <2>5, <2>9, <2>10, <2>11, <2>12 DEF Drained
<1>13. ASSUME NEW t \in Threads, AddLargeJoinTasks(t) \/ AddSkewJoinTask(t) \/ Transfer(t)
       PROVE  Drained'
  <2>1. pc[t] \in {"skewtasks", "transfer"}
    BY <1>13 DEF AddLargeJoinTasks, AddSkewJoinTask, Transfer
  <2>2. /\ t = 0 /\ pc' = pc /\ UNCHANGED <<SKEW_HANDLING, skew_queue, skewtask>>
        /\ pc[0] \in {"skewtasks", "transfer"}
    BY <1>13, <2>1, PhaseFacts DEF AddLargeJoinTasks, AddSkewJoinTask, Transfer, input
  <2>3. \A u \in Threads : pc[u] \notin {"pass2", "serial", "finish", "done"}
    BY <2>2, PhaseFacts
  <2>4. \A u \in Threads : NumaId[u] # NumaId[0] => part_queue_of(u)' = part_queue_of(u)
    BY <1>1, <1>2, <1>13, <2>2 DEF AddLargeJoinTasks, AddSkewJoinTask, Transfer, part_queue_of
  <2> QED
    BY <2>2, <2>3, <2>4 DEF Drained, Passed
<1>14. ASSUME NEW t \in Threads, Join(t) PROVE Drained'
  <2>1. /\ pc[t] = "join" /\ join_queue_of(t) # <<>>
        /\ join_queue' = [join_queue EXCEPT ![NumaId[t]] = Tail(@)]
        /\ UNCHANGED <<SKEW_HANDLING, i, part_queue, skew_queue, skewtask, pc>>
    BY <1>14 DEF Join, input
  <2>2. \A u \in Threads : join_queue_of(u) = <<>> => join_queue_of(u)' = <<>>
    BY <1>1, <1>2, <2>1 DEF join_queue_of
  <2> QED
    BY <2>1, <2>2 DEF Drained, part_queue_of, Passed
<1>15. ASSUME NEW t \in Threads, JoinLost(t) PROVE Drained'
  <2>1. /\ pc[t] = "join" /\ join_queue_of(t) # <<>> /\ pc' = [pc EXCEPT ![t] = "lost"]
        /\ join_queue' = [join_queue EXCEPT ![NumaId[t]] = Tail(@)]
        /\ UNCHANGED <<SKEW_HANDLING, i, part_queue, skew_queue, skewtask>>
    BY <1>15 DEF JoinLost, Goto, input
  <2>2. \A u \in Threads : join_queue_of(u) = <<>> => join_queue_of(u)' = <<>>
    BY <1>1, <1>2, <2>1 DEF join_queue_of
  <2>3. /\ pc'[t] = "lost" /\ \A u \in Threads : u # t => pc'[u] = pc[u]
        /\ \A u \in Threads : Passed(u)' <=> Passed(u)
    BY <1>1, <2>1 DEF Passed
  <2> QED
    BY <2>1, <2>2, <2>3 DEF Drained, part_queue_of
<1>16. ASSUME NEW t \in Threads, Thread(t) PROVE Drained'
  BY <1>5, <1>6, <1>7, <1>8, <1>9, <1>10, <1>11, <1>12, <1>13, <1>14, <1>15, <1>16 DEF Thread
<1> QED
  BY <1>3, <1>4, <1>16 DEF Next

(* Before the tasks are made.                                              *)
LEMMA InitTyped == Init => Typed /\ Drained
<1> SUFFICES ASSUME Init PROVE Typed /\ Drained
  OBVIOUS
<1>1. Queues
  <2>1. \A T : <<>> \in Seq(T)
    OBVIOUS
  <2> QED
    BY <2>1 DEF Init, Queues
<1>2. TasksTyped
  BY DEF Init, TasksTyped, MaybeTask
<1>3. ProbedTyped
  BY InputFacts DEF Init, ProbedTyped
<1>4. Numbers
  <2>1. 0 \in 0 .. FanOut + FanOut2 /\ 0 \in 0 .. NThreads /\ 0 \in Nat
    BY FanOutAssumption, ThreadsAssumption
  <2> QED
    BY <2>1 DEF Init, Numbers
<1>5. Typed
  BY <1>1, <1>2, <1>3, <1>4 DEF Init, Typed
<1>6. Drained
  BY ThreadZero DEF Init, Drained, Passed
<1> QED
  BY <1>5, <1>6

(* The tasks stay of their kinds, and empty queues empty.                  *)
LEMMA TypedInvariant == Spec => [](Typed /\ Drained)
<1>1. Inv /\ Typed /\ Drained /\ [Next]_vars => (Typed /\ Drained)'
  <2> SUFFICES ASSUME Inv, Typed, Drained, [Next]_vars PROVE (Typed /\ Drained)'
    OBVIOUS
  <2>1. tuples' \in Inputs
    BY InputStays DEF Typed
  <2> QED
    BY <2>1, QueuesStep, TasksStep, ProbedStep, NumbersStep, DrainedStep DEF Typed
<1> QED
  BY <1>1, InitTyped, Invariant, PTL DEF Spec

(* part_queue and join_queue hold tasks of their kinds, although           *)
(* part_queue is used for join tasks, too, and no join task reaches beyond *)
(* its subpartition, in whatever pieces it was cut.                        *)
THEOREM TasksAreOfTheirKinds == Spec => []TypeOK
<1>1. Typed => TypeOK
  <2> SUFFICES ASSUME Typed PROVE TypeOK
    OBVIOUS
  <2>1. \A T : \A q \in Seq(T) : ElementsOf(q) \subseteq T
    BY LenProperties DEF ElementsOf
  <2>2. \A new \in JoinTasks : IsJoinTask(new)
    BY DEF JoinTasks, IsJoinTask
  <2>3. \A new \in PairTasks : IsPairTask(new)
    BY DEF PairTasks, IsPairTask
  <2>4. ASSUME NEW n \in Nodes
        PROVE  /\ \A new \in ElementsOf(join_queue[n]) : IsJoinTask(new)
               /\ \A new \in ElementsOf(part_queue[n]) :
                     IF n = NumaId[0] /\ pc[0] \notin {"tasks", "sync3", "pass2", "serial"}
                     THEN IsJoinTask(new) ELSE IsPairTask(new)
    <3>1. join_queue[n] \in Seq(JoinTasks) /\ part_queue[n] \in Seq(PartTasks(n))
      BY DEF Typed, Queues
    <3>2. /\ ElementsOf(join_queue[n]) \subseteq JoinTasks
          /\ ElementsOf(part_queue[n]) \subseteq PartTasks(n)
      BY <2>1, <3>1
    <3> QED
      BY <2>2, <2>3, <3>2 DEF PartTasks, Passed
  <2>5. \A new \in ElementsOf(skew_queue) : IsPairTask(new)
    BY <2>1, <2>3 DEF Typed, Queues
  <2>6. \A t \in Threads : \A new \in {skewtask, task[t], seen[t].R, seen[t].S} :
            new = NoTask \/ IsPairTask(new)
    BY <2>3 DEF Typed, TasksTyped, MaybeTask
  <2> QED
    BY <2>4, <2>5, <2>6 DEF TypeOK, Typed, Numbers
<1> QED
  BY <1>1, TypedInvariant, PTL

(***************************************************************************)
(* A tuple of S that has partners is on its way from the making of tasks   *)
(* to the join in exactly one place: thread 0 has not come to its pair of  *)
(* partitions, its pair is one of the tasks in a queue, a thread has the   *)
(* pair and has not come to its subpartition, a join task in a queue has   *)
(* it, or it has been joined.  A place in a queue is counted from its end. *)
(***************************************************************************)
InQueue(queue, d, c, j, s) == d < Len(queue) /\ Covers(Nth(queue, d), c, j, s)
InTasks(c) == pc[0] = "tasks" /\ i[0] <= c
InSerial(t, c, j, s) == pc[t] = "serial" /\ i[t] <= j /\ Covers(task[t], c, j, s)
InSkewTask(c, j, s) ==
    /\ skewtask # NoTask /\ pc[0] # "getskew" /\ (pc[0] = "skewtasks" => i[0] <= j)
    /\ Covers(skewtask, c, j, s)
IsProbed(c, j, s) == probed[c][j][s] = 1

Kinds == {"tasks", "part", "skew", "serial", "skewtask", "join", "probed"}

At(kind, n, d, c, j, s) ==
    \/ kind = "tasks" /\ n = 0 /\ d = 0 /\ InTasks(c)
    \/ kind = "part" /\ n \in Nodes /\ InQueue(part_queue[n], d, c, j, s)
    \/ kind = "skew" /\ n = 0 /\ InQueue(skew_queue, d, c, j, s)
    \/ kind = "serial" /\ n \in Threads /\ d = 0 /\ InSerial(n, c, j, s)
    \/ kind = "skewtask" /\ n = 0 /\ d = 0 /\ InSkewTask(c, j, s)
    \/ kind = "join" /\ n \in Nodes /\ InQueue(join_queue[n], d, c, j, s)
    \/ kind = "probed" /\ n = 0 /\ d = 0 /\ IsProbed(c, j, s)

InOnePlace(c, j, s) ==
    \E k \in Kinds, n, d \in Nat :
        /\ At(k, n, d, c, j, s)
        /\ \A l \in Kinds, m, e \in Nat : At(l, m, e, c, j, s) => l = k /\ m = n /\ e = d

(* Before pass 2 has ended there is no shared task.                        *)
NoSkewYet == ~Passed(0) => skewtask = NoTask

Once ==
    /\ NoSkewYet
    /\ \A c \in Clusters, j \in Clusters2 : SubR(c, j) > 0 =>
          \A s \in 1 .. SubS(c, j) : InOnePlace(c, j, s) /\ probed[c][j][s] \in {0, 1}

(* A step that leaves a tuple where it is.                                 *)
LEMMA Stays ==
    ASSUME NEW c, NEW j, NEW s, InOnePlace(c, j, s),
           \A k \in Kinds, n, d \in Nat : At(k, n, d, c, j, s)' <=> At(k, n, d, c, j, s)
    PROVE  InOnePlace(c, j, s)'
<1>1. PICK k \in Kinds, n \in Nat, d \in Nat :
          /\ At(k, n, d, c, j, s)
          /\ \A l \in Kinds, m, e \in Nat : At(l, m, e, c, j, s) => l = k /\ m = n /\ e = d
  BY DEF InOnePlace
<1>2. /\ At(k, n, d, c, j, s)'
      /\ \A l \in Kinds, m, e \in Nat : At(l, m, e, c, j, s)' => l = k /\ m = n /\ e = d
  BY <1>1
<1> QED
  BY <1>2 DEF InOnePlace

(* A step that takes a tuple from where it is to another place.            *)
LEMMA Moves ==
    ASSUME NEW c, NEW j, NEW s, InOnePlace(c, j, s),
           NEW k1 \in Kinds, NEW n1 \in Nat, NEW d1 \in Nat, At(k1, n1, d1, c, j, s),
           NEW k2 \in Kinds, NEW n2 \in Nat, NEW d2 \in Nat, At(k2, n2, d2, c, j, s)',
           \A k \in Kinds, n, d \in Nat : At(k, n, d, c, j, s)' =>
              \/ k = k2 /\ n = n2 /\ d = d2
              \/ At(k, n, d, c, j, s) /\ ~(k = k1 /\ n = n1 /\ d = d1)
    PROVE  InOnePlace(c, j, s)'
<1>1. PICK k \in Kinds, n \in Nat, d \in Nat :
          /\ At(k, n, d, c, j, s)
          /\ \A l \in Kinds, m, e \in Nat : At(l, m, e, c, j, s) => l = k /\ m = n /\ e = d
  BY DEF InOnePlace
<1>2. k1 = k /\ n1 = n /\ d1 = d
  BY <1>1
<1>3. \A l \in Kinds, m, e \in Nat : At(l, m, e, c, j, s)' => l = k2 /\ m = n2 /\ e = d2
  BY <1>1, <1>2
<1> QED
  BY <1>3 DEF InOnePlace

(* Tasks of pairs have all of a pair, and join tasks a part of one         *)
(* subpartition.                                                           *)
LEMMA CoversFacts ==
    ASSUME tuples \in Inputs
    PROVE  /\ \A new \in PairTasks : new.c \in Clusters /\ new # NoTask
                 /\ \A c, j, s : Covers(new, c, j, s) <=> c = new.c
           /\ \A new \in JoinTasks : new.c \in Clusters /\ new.j \in Clusters2
                 /\ \A c, j, s : Covers(new, c, j, s) <=>
                       c = new.c /\ j = new.j /\ new.from < s /\ s <= new.from + new.ns
           /\ \A c \in Clusters, j \in Clusters2 : \A s \in 1 .. SubS(c, j) :
                 Covers(JoinTask(c, j, 0, SubS(c, j)), c, j, s)
           /\ \A c, j, n : \A b, l, s : Covers(JoinTask(c, j, 0, n), b, l, s) /\ j # Whole =>
                 b = c /\ l = j
<1>1. \A new \in PairTasks : new.c \in Clusters /\ new.j = Whole /\ new # NoTask
  BY PairTaskFacts DEF PairTasks
<1>2. \A new \in JoinTasks : new.c \in Clusters /\ new.j \in Clusters2 /\ new.j # Whole
  BY DEF JoinTasks, Clusters2, Whole
<1>3. ASSUME NEW c \in Clusters, NEW j \in Clusters2, NEW s \in 1 .. SubS(c, j)
      PROVE  Covers(JoinTask(c, j, 0, SubS(c, j)), c, j, s)
  <2>1. SubS(c, j) \in Nat
    BY InputFacts
  <2> QED
    BY <2>1 DEF Covers, JoinTask
<1>4. ASSUME NEW c, NEW j, NEW n, NEW b, NEW l, NEW s, Covers(JoinTask(c, j, 0, n), b, l, s), j # Whole
      PROVE  b = c /\ l = j
  BY <1>4 DEF Covers, JoinTask
<1>5. \A new \in PairTasks : \A c, j, s : Covers(new, c, j, s) <=> c = new.c
  BY <1>1 DEF Covers
<1>6. \A new \in JoinTasks : \A c, j, s : Covers(new, c, j, s) <=>
          c = new.c /\ j = new.j /\ new.from < s /\ s <= new.from + new.ns
  BY <1>2 DEF Covers
<1> QED
  BY <1>1, <1>2, <1>3, <1>4, <1>5, <1>6

(* A task more in a queue, or one less.                                    *)
LEMMA QueueAdded ==
    ASSUME NEW T, NEW q \in Seq(T), NEW x \in T, NEW c, NEW j, NEW s
    PROVE  /\ Len(q) \in Nat /\ ~InQueue(q, Len(q), c, j, s)
           /\ \A d \in Nat : InQueue(<<x>> \o q, d, c, j, s) <=>
                 InQueue(q, d, c, j, s) \/ (d = Len(q) /\ Covers(x, c, j, s))
<1> DEFINE r == <<x>> \o q
<1>1. /\ Len(r) = Len(q) + 1 /\ Len(q) \in Nat /\ Nth(r, Len(q)) = x
      /\ \A d \in Nat : d < Len(q) => Nth(r, d) = Nth(q, d)
  BY PutFirst
<1> HIDE DEF r
<1>2. \A d \in Nat : InQueue(r, d, c, j, s) <=>
          InQueue(q, d, c, j, s) \/ (d = Len(q) /\ Covers(x, c, j, s))
  BY <1>1 DEF InQueue
<1> QED
  BY <1>1, <1>2 DEF InQueue, r

(* What is taken from a queue was the last place there.                    *)
LEMMA QueueTaken ==
    ASSUME NEW T, NEW q \in Seq(T), q # <<>>, NEW c, NEW j, NEW s
    PROVE  /\ Len(q) - 1 \in Nat /\ Head(q) \in T
           /\ InQueue(q, Len(q) - 1, c, j, s) <=> Covers(Head(q), c, j, s)
           /\ \A d \in Nat : InQueue(Tail(q), d, c, j, s) <=>
                 InQueue(q, d, c, j, s) /\ d # Len(q) - 1
<1> DEFINE r == Tail(q)
<1>1. /\ Len(q) \in Nat \ {0} /\ Len(r) = Len(q) - 1 /\ Nth(q, Len(q) - 1) = Head(q)
      /\ \A d \in Nat : d < Len(q) - 1 => Nth(r, d) = Nth(q, d)
      /\ Head(q) \in T
  BY TakeFirst
<1> HIDE DEF r
<1>2. \A d \in Nat : InQueue(r, d, c, j, s) <=> InQueue(q, d, c, j, s) /\ d # Len(q) - 1
  BY <1>1 DEF InQueue
<1>3. InQueue(q, Len(q) - 1, c, j, s) <=> Covers(Head(q), c, j, s)
  BY <1>1 DEF InQueue
<1>4. \A d \in Nat : InQueue(Tail(q), d, c, j, s) <=> InQueue(q, d, c, j, s) /\ d # Len(q) - 1
  BY <1>2 DEF r
<1>5. Len(q) - 1 \in Nat /\ Head(q) \in T
  BY <1>1
<1> QED
  BY <1>3, <1>4, <1>5

(* A place of the pieces p that are put on n tasks.                        *)
InPieces(p, n, d, c, j, s) ==
    \E k \in 0 .. Len(p) - 1 : d = n + k /\ Covers(p[Len(p) - k], c, j, s)

(* All the pieces of a large join task more.                               *)
LEMMA PiecesAdded ==
    ASSUME NEW T, NEW q \in Seq(T), NEW p \in Seq(T), NEW c, NEW j, NEW s
    PROVE  /\ Len(q) \in Nat /\ Len(p) \in Nat
           /\ \A k \in Nat : ~InQueue(q, Len(q) + k, c, j, s)
           /\ \A d \in Nat : InQueue(p \o q, d, c, j, s) <=>
                 InQueue(q, d, c, j, s) \/ InPieces(p, Len(q), d, c, j, s)
<1> DEFINE r == p \o q
<1>1. /\ Len(r) = Len(p) + Len(q) /\ Len(q) \in Nat /\ Len(p) \in Nat
      /\ \A d \in Nat : d < Len(q) => Nth(r, d) = Nth(q, d)
      /\ \A k \in 0 .. Len(p) - 1 : Nth(r, Len(q) + k) = p[Len(p) - k]
  BY AllPutFirst
<1> HIDE DEF r
<1>2. ASSUME NEW d \in Nat
      PROVE  InQueue(r, d, c, j, s) <=>
                 \/ InQueue(q, d, c, j, s)
                 \/ \E k \in 0 .. Len(p) - 1 : d = Len(q) + k /\ Covers(p[Len(p) - k], c, j, s)
  <2>1. CASE d < Len(q)
    BY <1>1, <2>1 DEF InQueue
  <2>2. CASE ~(d < Len(q))
    <3>1. PICK k \in Nat : d = Len(q) + k
      <4>1. d - Len(q) \in Nat /\ d = Len(q) + (d - Len(q))
        BY <1>1, <2>2
      <4> QED
        BY <4>1
    <3>2. \A l \in 0 .. Len(p) - 1 : d = Len(q) + l => l = k
      BY <1>1, <3>1
    <3>3. d < Len(r) <=> k \in 0 .. Len(p) - 1
      BY <1>1, <3>1
    <3> QED
      BY <1>1, <2>2, <3>1, <3>2, <3>3 DEF InQueue
  <2> QED
    BY <2>1, <2>2
<1>3. \A k \in Nat : ~InQueue(q, Len(q) + k, c, j, s)
  BY <1>1 DEF InQueue
<1> QED
  BY <1>1, <1>2, <1>3 DEF r, InPieces

(* What is known of a tuple whose way is looked at.                        *)
Followed(c, j, s) ==
    /\ Inv /\ Typed /\ Drained /\ NoSkewYet
    /\ c \in Clusters /\ j \in Clusters2 /\ s \in 1 .. SubS(c, j) /\ SubR(c, j) > 0
    /\ InOnePlace(c, j, s)

(* The types of what follows.                                              *)
Sized(c, j) ==
    /\ c \in 0 .. FanOut - 1 /\ j \in 0 .. FanOut2 - 1 /\ 0 \in Threads
    /\ FanOut \in Nat /\ FanOut2 \in Nat
    /\ i \in [Threads -> 0 .. FanOut + FanOut2] /\ DOMAIN pc = Threads
    /\ tuples \in Inputs /\ ntupR(c) > 0 /\ ntupS(c) > 0 /\ SubS(c, j) > 0
    /\ \A t \in Threads : NumaId[t] \in Nodes /\ t \in Nat
    /\ \A n \in Nodes : n \in Nat /\ Len(part_queue[n]) \in Nat /\ Len(join_queue[n]) \in Nat
    /\ Len(skew_queue) \in Nat
    /\ DOMAIN part_queue = Nodes /\ DOMAIN join_queue = Nodes /\ DOMAIN task = Threads

(* They hold of every tuple looked at.                                     *)
LEMMA FollowedFacts ==
    ASSUME NEW c, NEW j, NEW s, Followed(c, j, s)
    PROVE  Sized(c, j)
<1>1. SubS(c, j) > 0 /\ tuples \in Inputs
  BY InputFacts DEF Followed, Typed
<1>2. ntupR(c) > 0 /\ ntupS(c) > 0
  BY <1>1, PairSizes DEF Followed
<1>3. \A n \in Nodes : n \in Nat
  BY NumaAssumption DEF Nodes
<1>4. /\ \A n \in Nodes : Len(part_queue[n]) \in Nat /\ Len(join_queue[n]) \in Nat
      /\ Len(skew_queue) \in Nat
  BY LenProperties DEF Followed, Typed, Queues
<1>5. \A t \in Threads : t \in Nat
  BY DEF Threads
<1> QED
  BY <1>1, <1>2, <1>3, <1>4, <1>5, OwnNode, ThreadZero, FanOutAssumption
     DEF Followed, Typed, Queues, TasksTyped, Numbers, Clusters, Clusters2, Inv, Shape, Sized

(* A step after which a tuple is at no place where it was not before, and  *)
(* at those where it was.                                                  *)
LEMMA NothingMoved ==
    ASSUME NEW c, NEW j, NEW s, Followed(c, j, s),
           \A n \in Nodes, d \in Nat :
              /\ InQueue(part_queue'[n], d, c, j, s) <=> InQueue(part_queue[n], d, c, j, s)
              /\ InQueue(join_queue'[n], d, c, j, s) <=> InQueue(join_queue[n], d, c, j, s),
           \A d \in Nat : InQueue(skew_queue', d, c, j, s) <=> InQueue(skew_queue, d, c, j, s),
           InTasks(c)' <=> InTasks(c),
           \A t \in Threads : InSerial(t, c, j, s)' <=> InSerial(t, c, j, s),
           InSkewTask(c, j, s)' <=> InSkewTask(c, j, s),
           IsProbed(c, j, s)' <=> IsProbed(c, j, s)
    PROVE  InOnePlace(c, j, s)'
<1>1. ASSUME NEW n \in Nat, NEW d \in Nat
      PROVE  /\ At("tasks", n, d, c, j, s)' <=> At("tasks", n, d, c, j, s)
             /\ At("part", n, d, c, j, s)' <=> At("part", n, d, c, j, s)
             /\ At("skew", n, d, c, j, s)' <=> At("skew", n, d, c, j, s)
             /\ At("serial", n, d, c, j, s)' <=> At("serial", n, d, c, j, s)
             /\ At("skewtask", n, d, c, j, s)' <=> At("skewtask", n, d, c, j, s)
             /\ At("join", n, d, c, j, s)' <=> At("join", n, d, c, j, s)
             /\ At("probed", n, d, c, j, s)' <=> At("probed", n, d, c, j, s)
  <2>1. At("tasks", n, d, c, j, s)' <=> At("tasks", n, d, c, j, s)
    BY DEF At
  <2>2. At("part", n, d, c, j, s)' <=> At("part", n, d, c, j, s)
    BY DEF At
  <2>3. At("skew", n, d, c, j, s)' <=> At("skew", n, d, c, j, s)
    BY DEF At
  <2>4. At("serial", n, d, c, j, s)' <=> At("serial", n, d, c, j, s)
    BY DEF At
  <2>5. At("skewtask", n, d, c, j, s)' <=> At("skewtask", n, d, c, j, s)
    BY DEF At
  <2>6. At("join", n, d, c, j, s)' <=> At("join", n, d, c, j, s)
    BY DEF At
  <2>7. At("probed", n, d, c, j, s)' <=> At("probed", n, d, c, j, s)
    BY DEF At
  <2> QED
    BY <2>1, <2>2, <2>3, <2>4, <2>5, <2>6, <2>7
<1>2. \A k \in Kinds, n, d \in Nat : At(k, n, d, c, j, s)' <=> At(k, n, d, c, j, s)
  BY <1>1 DEF Kinds
<1> QED
  BY <1>2, Stays DEF Followed

(* Steps that leave the queues alone.                                      *)
LEMMA QuietlyStays ==
    ASSUME NEW c, NEW j, NEW s, Followed(c, j, s),
           UNCHANGED <<part_queue, join_queue, skew_queue, probed>>,
           InTasks(c)' <=> InTasks(c),
           \A t \in Threads : InSerial(t, c, j, s)' <=> InSerial(t, c, j, s),
           InSkewTask(c, j, s)' <=> InSkewTask(c, j, s)
    PROVE  InOnePlace(c, j, s)'
<1>1. /\ IsProbed(c, j, s)' <=> IsProbed(c, j, s)
      /\ part_queue' = part_queue /\ join_queue' = join_queue /\ skew_queue' = skew_queue
  BY DEF IsProbed
<1> QED
  BY <1>1, NothingMoved

(* The openings of the barrier, and the steps of threads that neither take *)
(* nor add a task.                                                         *)
LEMMA QuietFollowed ==
    ASSUME NEW c, NEW j, NEW s, Followed(c, j, s), NEW t \in Threads,
           \/ TasksMade(t) \/ SerialDone(t) \/ NoPartTask(t) \/ CheckSkewTask(t)
           \/ PartitionSkewR(t) \/ PartitionSkewS(t) \/ CopyOutSkew(t) \/ SkewTasksAdded(t)
           \/ Transferred(t) \/ JoinDone(t)
    PROVE  InOnePlace(c, j, s)'
<1>0. Sized(c, j)
  BY FollowedFacts
<1> USE <1>0 DEF Sized
<1>1. UNCHANGED <<part_queue, join_queue, skew_queue, probed, skewtask, task>>
  BY DEF TasksMade, SerialDone, NoPartTask, CheckSkewTask, PartitionSkewR,
     PartitionSkewS, CopyOutSkew, SkewTasksAdded, Transferred, JoinDone
<1>2. /\ pc[t] \in {"tasks", "getskew", "skewtasks", "transfer"} => t = 0
      /\ pc[0] \in {"tasks", "sync3", "pass2", "serial"} => skewtask = NoTask
  BY PhaseFacts DEF Followed, NoSkewYet, Passed
<1>3. /\ pc' = [pc EXCEPT ![t] = pc'[t]]
      /\ i' = i \/ (pc[t] = "skewcopy" /\ i' = [i EXCEPT ![t] = 0])
  BY DEF TasksMade, SerialDone, NoPartTask, CheckSkewTask, PartitionSkewR,
     PartitionSkewS, CopyOutSkew, SkewTasksAdded, Transferred, JoinDone, Goto
<1>4. \A u \in Threads \ {t} : pc'[u] = pc[u] /\ i'[u] = i[u]
  BY <1>3
<1>5. \/ pc[t] = "tasks" /\ i[t] = FanOut /\ pc'[t] = "sync3"
      \/ pc[t] = "serial" /\ i[t] = FanOut2 /\ pc'[t] = "pass2"
      \/ pc[t] = "pass2" /\ pc'[t] \in {"sync4", "getskew", "skewsync"}
      \/ /\ pc[t] \in {"check", "skewR", "skewS", "skewcopy", "transfer", "join"}
         /\ pc'[t] \in {"allocsync", "transfer", "sync4", "skewRsync", "skewSsync",
                       "copysync", "finish"}
      \/ pc[t] = "skewtasks" /\ i[t] = FanOut2 /\ pc'[t] = "getskew"
  BY DEF TasksMade, SerialDone, NoPartTask, CheckSkewTask, PartitionSkewR,
     PartitionSkewS, CopyOutSkew, SkewTasksAdded, Transferred, JoinDone, Goto
<1>6. i[t] \in Nat /\ (pc[t] # "skewcopy" => i' = i)
  BY <1>3
<1>7. InTasks(c)' <=> InTasks(c)
  <2>1. CASE t = 0
    BY <1>2, <1>5, <1>6, <2>1 DEF InTasks
  <2>2. CASE t # 0
    BY <1>4, <2>2 DEF InTasks
  <2> QED
    BY <2>1, <2>2
<1>8. ASSUME NEW u \in Threads PROVE InSerial(u, c, j, s)' <=> InSerial(u, c, j, s)
  <2>1. CASE u = t
    BY <1>1, <1>5, <1>6, <2>1 DEF InSerial
  <2>2. CASE u # t
    BY <1>1, <1>4, <2>2 DEF InSerial
  <2> QED
    BY <2>1, <2>2
<1>9. InSkewTask(c, j, s)' <=> InSkewTask(c, j, s)
  <2>1. CASE t = 0
    BY <1>1, <1>2, <1>5, <1>6, <2>1 DEF InSkewTask
  <2>2. CASE t # 0
    BY <1>1, <1>4, <2>2 DEF InSkewTask
  <2> QED
    BY <2>1, <2>2
<1> QED
  BY <1>1, <1>7, <1>8, <1>9, QuietlyStays

(* When the barrier opens, thread 0 may begin to make join tasks.          *)
LEMMA BarrierFollowed ==
    ASSUME NEW c, NEW j, NEW s, Followed(c, j, s), ReleaseBarrier
    PROVE  InOnePlace(c, j, s)'
<1>0. Sized(c, j)
  BY FollowedFacts
<1> USE <1>0 DEF Sized
<1>1. /\ UNCHANGED <<part_queue, join_queue, skew_queue, probed, skewtask, task, i>>
      /\ \A t \in Threads : pc[t] \in Barriers /\ pc'[t] = AfterBarrier(t)
  BY DEF ReleaseBarrier, Leave, Waiting
<1>2. /\ \A t \in Threads : pc[t] # "serial" /\ pc'[t] # "serial"
      /\ pc[0] \notin {"tasks", "getskew", "skewtasks"}
      /\ pc'[0] \notin {"tasks", "getskew"}
      /\ pc'[0] = "skewtasks" => pc[0] = "copysync"
  BY <1>1 DEF Barriers, AfterBarrier
<1>3. pc[0] = "copysync" => i[0] = 0
  BY DEF Followed, Drained
<1>4. InSkewTask(c, j, s)' <=> InSkewTask(c, j, s)
  BY <1>1, <1>2, <1>3 DEF InSkewTask
<1> QED
  BY <1>1, <1>2, <1>4, QuietlyStays DEF InTasks, InSerial

(* Thread 0 makes a task of a pair of partitions.                          *)
LEMMA TaskMadeFollowed ==
    ASSUME NEW c, NEW j, NEW s, Followed(c, j, s), NEW t \in Threads,
           MakeSkewTask(t) \/ MakeTask(t)
    PROVE  InOnePlace(c, j, s)'
<1>0. Sized(c, j)
  BY FollowedFacts
<1> USE <1>0 DEF Sized
<1> DEFINE new == PairTask(i[0])
<1>1. /\ t = 0 /\ pc[0] = "tasks" /\ i[0] \in Clusters
      /\ pc' = pc /\ i' = [i EXCEPT ![0] = i[0] + 1]
      /\ UNCHANGED <<join_queue, skewtask, task, probed>>
  BY PhaseFacts DEF MakeSkewTask, MakeTask, Advance, Followed, Clusters
<1>2. new \in PairTasks /\ \A b, l, e : Covers(new, b, l, e) <=> b = i[0]
  <2>1. new \in PairTasks /\ new.c = i[0]
    BY <1>1, PairTaskFacts
  <2> HIDE DEF new
  <2> QED
    BY <2>1, CoversFacts
<1> HIDE DEF new
<1>3. /\ \A u \in Threads : ~InSerial(u, c, j, s) \/ u # 0
      /\ \A u \in Threads : InSerial(u, c, j, s)' <=> InSerial(u, c, j, s)
      /\ InSkewTask(c, j, s)' <=> InSkewTask(c, j, s)
      /\ IsProbed(c, j, s)' <=> IsProbed(c, j, s)
  BY <1>1 DEF InSerial, InSkewTask, IsProbed
<1>4. /\ c # i[0] => (InTasks(c)' <=> InTasks(c))
      /\ c = i[0] => InTasks(c) /\ ~InTasks(c)'
  BY <1>1 DEF InTasks
<1>5. CASE MakeSkewTask(t)
  <2>0. PICK L \in Nat : L = Len(skew_queue)
    OBVIOUS
  <2>1. part_queue' = part_queue /\ skew_queue' = <<new>> \o skew_queue
    BY <1>1, <1>5 DEF MakeSkewTask, new
  <2>2. /\ L \in Nat /\ ~InQueue(skew_queue, L, c, j, s)
        /\ \A d \in Nat : InQueue(skew_queue', d, c, j, s) <=>
              InQueue(skew_queue, d, c, j, s) \/ (d = L /\ Covers(new, c, j, s))
    BY <1>2, <2>0, <2>1, QueueAdded DEF Followed, Typed, Queues
  <2>3. \A d \in Nat : InQueue(skew_queue', d, c, j, s) <=>
            InQueue(skew_queue, d, c, j, s) \/ (d = L /\ c = i[0])
    BY <1>2, <2>2
  <2>5. CASE c # i[0]
    <3>1. part_queue' = part_queue /\ join_queue' = join_queue
      BY <1>1, <2>1
    <3>2. \A d \in Nat : InQueue(skew_queue', d, c, j, s) <=> InQueue(skew_queue, d, c, j, s)
      BY <2>3, <2>5
    <3> QED
      BY <1>3, <1>4, <2>5, <3>1, <3>2, NothingMoved
  <2>6. CASE c = i[0]
    <3>1. At("tasks", 0, 0, c, j, s)
      BY <1>4, <2>6 DEF At
    <3>2. At("skew", 0, L, c, j, s)'
      BY <2>2, <2>3, <2>6 DEF At
    <3>3. ASSUME NEW k \in Kinds, NEW n \in Nat, NEW d \in Nat, At(k, n, d, c, j, s)'
          PROVE  \/ k = "skew" /\ n = 0 /\ d = L
                 \/ At(k, n, d, c, j, s) /\ ~(k = "tasks" /\ n = 0 /\ d = 0)
      BY <1>1, <1>3, <1>4, <2>1, <2>3, <2>6, <3>3 DEF At
    <3>4. "tasks" \in Kinds /\ "skew" \in Kinds /\ 0 \in Nat /\ L \in Nat
      BY <2>2 DEF Kinds
    <3> QED
      BY <3>1, <3>2, <3>3, <3>4, Moves DEF Followed
  <2> QED
    BY <2>5, <2>6
<1>6. CASE MakeTask(t)
  <2>0. PICK m \in Nodes : m = NodeOf[i[0]]
    BY <1>1, NumaAssumption
  <2>9. PICK L \in Nat : L = Len(part_queue[m])
    OBVIOUS
  <2> DEFINE made == ntupR(i[0]) > 0 /\ ntupS(i[0]) > 0
  <2>1. /\ skew_queue' = skew_queue
        /\ part_queue' = IF made THEN [part_queue EXCEPT ![m] = <<new>> \o part_queue[m]]
                         ELSE part_queue
    BY <1>1, <1>6, <2>0 DEF MakeTask, AddFirst, new
  <2>2. m \in Nodes /\ part_queue[m] \in Seq(JoinTasks \cup PairTasks)
    BY <2>0 DEF Followed, Typed, Queues
  <2>3. /\ L \in Nat
        /\ \A d \in Nat : InQueue(<<new>> \o part_queue[m], d, c, j, s) <=>
              InQueue(part_queue[m], d, c, j, s) \/ (d = L /\ Covers(new, c, j, s))
    <3> DEFINE T == JoinTasks \cup PairTasks
               q == part_queue[m]
    <3>1. new \in T /\ q \in Seq(T) /\ Len(q) = L
      BY <1>2, <2>2, <2>9
    <3> HIDE DEF T, q
    <3>2. \A d \in Nat : InQueue(<<new>> \o q, d, c, j, s) <=>
              InQueue(q, d, c, j, s) \/ (d = L /\ Covers(new, c, j, s))
      BY <3>1, QueueAdded
    <3> QED
      BY <3>2 DEF q
  <2> HIDE DEF made
  <2>4. ASSUME NEW n \in Nodes, NEW d \in Nat
        PROVE  InQueue(part_queue'[n], d, c, j, s) <=>
                  InQueue(part_queue[n], d, c, j, s) \/ (made /\ n = m /\ d = L /\ c = i[0])
    <3>1. CASE ~made \/ n # m
      <4>1. part_queue'[n] = part_queue[n]
        BY <2>1, <3>1
      <4> QED
        BY <3>1, <4>1
    <3>2. CASE made /\ n = m
      <4>1. part_queue'[n] = <<new>> \o part_queue[m]
        BY <2>1, <2>2, <3>2
      <4> QED
        BY <1>2, <2>3, <3>2, <4>1
    <3> QED
      BY <3>1, <3>2
  <2>5. CASE c # i[0]
    <3>1. skew_queue' = skew_queue /\ join_queue' = join_queue
      BY <1>1, <2>1
    <3>2. \A n \in Nodes, d \in Nat :
              InQueue(part_queue'[n], d, c, j, s) <=> InQueue(part_queue[n], d, c, j, s)
      BY <2>4, <2>5
    <3> QED
      BY <1>3, <1>4, <2>5, <3>1, <3>2, NothingMoved
  <2>6. CASE c = i[0]
    <3>0. made
      BY <2>6 DEF made
    <3>1. At("tasks", 0, 0, c, j, s)
      BY <1>4, <2>6 DEF At
    <3>2. At("part", m, L, c, j, s)'
      BY <2>2, <2>3, <2>4, <2>6, <3>0 DEF At
    <3>3. ASSUME NEW k \in Kinds, NEW n \in Nat, NEW d \in Nat, At(k, n, d, c, j, s)'
          PROVE  \/ k = "part" /\ n = m /\ d = L
                 \/ At(k, n, d, c, j, s) /\ ~(k = "tasks" /\ n = 0 /\ d = 0)
      <4>1. skew_queue' = skew_queue /\ join_queue' = join_queue
        BY <1>1, <2>1
      <4>2. CASE k = "part"
        BY <2>4, <3>3, <4>2 DEF At
      <4>3. CASE k # "part"
        BY <1>3, <1>4, <2>6, <3>3, <4>1, <4>3 DEF At
      <4> QED
        BY <4>2, <4>3
    <3>4. "tasks" \in Kinds /\ "part" \in Kinds /\ 0 \in Nat /\ L \in Nat /\ m \in Nat
      BY <2>2, <2>3 DEF Kinds
    <3> QED
      BY <3>1, <3>2, <3>3, <3>4, Moves DEF Followed
  <2> QED
    BY <2>5, <2>6
<1> QED
  BY <1>5, <1>6

(* A thread takes a pair to partition it.                                  *)
LEMMA PartTaskFollowed ==
    ASSUME NEW c, NEW j, NEW s, Followed(c, j, s), NEW t \in Threads, GetPartTask(t)
    PROVE  InOnePlace(c, j, s)'
<1>0. Sized(c, j)
  BY FollowedFacts
<1> USE <1>0 DEF Sized
<1> DEFINE m == NumaId[t]
           new == Head(part_queue[m])
<1>9. PICK L \in Nat : L = Len(part_queue[m])
  OBVIOUS
<1>1. /\ pc[t] = "pass2" /\ m \in Nodes /\ part_queue[m] # <<>>
      /\ part_queue' = [part_queue EXCEPT ![m] = Tail(part_queue[m])]
      /\ task' = [task EXCEPT ![t] = new] /\ pc' = [pc EXCEPT ![t] = "serial"]
      /\ i' = [i EXCEPT ![t] = 0]
      /\ UNCHANGED <<join_queue, skew_queue, skewtask, probed>>
  BY DEF GetPartTask, Goto, part_queue_of
<1>2. /\ L - 1 \in Nat /\ (InQueue(part_queue[m], L - 1, c, j, s) <=> Covers(new, c, j, s))
      /\ \A d \in Nat : InQueue(Tail(part_queue[m]), d, c, j, s) <=>
            InQueue(part_queue[m], d, c, j, s) /\ d # L - 1
  BY <1>1, <1>9, QueueTaken DEF Followed, Typed, Queues
<1> HIDE DEF m, new
<1>3. ASSUME NEW n \in Nodes, NEW d \in Nat
      PROVE  InQueue(part_queue'[n], d, c, j, s) <=>
                InQueue(part_queue[n], d, c, j, s) /\ ~(n = m /\ d = L - 1)
  <2>1. CASE n # m
    <3>1. part_queue'[n] = part_queue[n]
      BY <1>1, <2>1
    <3> QED
      BY <2>1, <3>1
  <2>2. CASE n = m
    <3>1. part_queue'[n] = Tail(part_queue[m])
      BY <1>1, <2>2
    <3> QED
      BY <1>2, <2>2, <3>1
  <2> QED
    BY <2>1, <2>2
<1>4. InQueue(part_queue[m], L - 1, c, j, s) <=> Covers(new, c, j, s)
  BY <1>2
<1>5. /\ \A u \in Threads : pc'[u] = IF u = t THEN "serial" ELSE pc[u]
      /\ \A u \in Threads : task'[u] = IF u = t THEN new ELSE task[u]
      /\ \A u \in Threads : i'[u] = IF u = t THEN 0 ELSE i[u]
  BY <1>1
<1>6. /\ InTasks(c)' <=> InTasks(c)
      /\ InSkewTask(c, j, s)' <=> InSkewTask(c, j, s)
      /\ IsProbed(c, j, s)' <=> IsProbed(c, j, s)
      /\ \A u \in Threads : u # t => (InSerial(u, c, j, s)' <=> InSerial(u, c, j, s))
      /\ ~InSerial(t, c, j, s) /\ (InSerial(t, c, j, s)' <=> Covers(new, c, j, s))
  BY <1>1, <1>5 DEF InTasks, InSkewTask, IsProbed, InSerial
<1>7. CASE ~Covers(new, c, j, s)
  <2>1. ASSUME NEW n \in Nodes, NEW d \in Nat
        PROVE  InQueue(part_queue'[n], d, c, j, s) <=> InQueue(part_queue[n], d, c, j, s)
    BY <1>3, <1>4, <1>7
  <2>2. join_queue' = join_queue /\ skew_queue' = skew_queue
    BY <1>1
  <2>3. \A u \in Threads : InSerial(u, c, j, s)' <=> InSerial(u, c, j, s)
    BY <1>6, <1>7
  <2> QED
    BY <1>6, <2>1, <2>2, <2>3, NothingMoved
<1>8. CASE Covers(new, c, j, s)
  <2>1. At("part", m, L - 1, c, j, s)
    BY <1>1, <1>4, <1>8 DEF At
  <2>2. At("serial", t, 0, c, j, s)'
    BY <1>6, <1>8 DEF At
  <2>3. ASSUME NEW k \in Kinds, NEW n \in Nat, NEW d \in Nat, At(k, n, d, c, j, s)'
        PROVE  \/ k = "serial" /\ n = t /\ d = 0
               \/ At(k, n, d, c, j, s) /\ ~(k = "part" /\ n = m /\ d = L - 1)
    BY <1>1, <1>3, <1>6, <2>3 DEF At
  <2>4. "part" \in Kinds /\ "serial" \in Kinds /\ 0 \in Nat /\ L - 1 \in Nat /\ m \in Nat /\ t \in Nat
    BY <1>1, <1>2 DEF Kinds
  <2> QED
    BY <2>1, <2>2, <2>3, <2>4, Moves DEF Followed
<1> QED
  BY <1>7, <1>8

(* Thread 0 shares the next large pair.                                    *)
LEMMA SkewTaskFollowed ==
    ASSUME NEW c, NEW j, NEW s, Followed(c, j, s), NEW t \in Threads, GetSkewTask(t)
    PROVE  InOnePlace(c, j, s)'
<1>0. Sized(c, j)
  BY FollowedFacts
<1> USE <1>0 DEF Sized
<1> DEFINE new == Head(skew_queue)
<1>9. PICK L \in Nat : L = Len(skew_queue)
  OBVIOUS
<1>1. /\ t = 0 /\ pc[0] = "getskew" /\ pc' = [pc EXCEPT ![0] = "skewsync"]
      /\ skewtask' = IF skew_queue = <<>> THEN NoTask ELSE new
      /\ skew_queue' = IF skew_queue = <<>> THEN <<>> ELSE Tail(skew_queue)
      /\ UNCHANGED <<i, part_queue, join_queue, task, probed>>
  BY PhaseFacts DEF GetSkewTask, Goto, Followed
<1>2. \A u \in Threads : pc'[u] = IF u = 0 THEN "skewsync" ELSE pc[u]
  BY <1>1
<1>3. /\ InTasks(c)' <=> InTasks(c)
      /\ IsProbed(c, j, s)' <=> IsProbed(c, j, s)
      /\ \A u \in Threads : InSerial(u, c, j, s)' <=> InSerial(u, c, j, s)
      /\ ~InSkewTask(c, j, s)
      /\ InSkewTask(c, j, s)' <=> skewtask' # NoTask /\ Covers(skewtask', c, j, s)
  BY <1>1, <1>2 DEF InTasks, InSkewTask, IsProbed, InSerial
<1>4. CASE skew_queue = <<>>
  BY <1>1, <1>3, <1>4, QuietlyStays
<1>5. CASE skew_queue # <<>>
  <2>1. /\ new \in PairTasks /\ L - 1 \in Nat
        /\ InQueue(skew_queue, L - 1, c, j, s) <=> Covers(new, c, j, s)
        /\ \A d \in Nat : InQueue(Tail(skew_queue), d, c, j, s) <=>
              InQueue(skew_queue, d, c, j, s) /\ d # L - 1
    BY <1>5, <1>9, QueueTaken DEF Followed, Typed, Queues
  <2>2. new # NoTask
    BY <2>1, CoversFacts
  <2> HIDE DEF new
  <2>3. \A d \in Nat : InQueue(skew_queue', d, c, j, s) <=>
            InQueue(skew_queue, d, c, j, s) /\ d # L - 1
    BY <1>1, <1>5, <2>1
  <2>4. InQueue(skew_queue, L - 1, c, j, s) <=> Covers(new, c, j, s)
    BY <2>1
  <2>5. InSkewTask(c, j, s)' <=> Covers(new, c, j, s)
    BY <1>1, <1>3, <1>5, <2>2
  <2>6. CASE ~Covers(new, c, j, s)
    <3>1. \A d \in Nat : InQueue(skew_queue', d, c, j, s) <=> InQueue(skew_queue, d, c, j, s)
      BY <2>3, <2>4, <2>6
    <3>2. part_queue' = part_queue /\ join_queue' = join_queue
      BY <1>1
    <3>3. InSkewTask(c, j, s)' <=> InSkewTask(c, j, s)
      BY <1>3, <2>5, <2>6
    <3> QED
      BY <1>3, <3>1, <3>2, <3>3, NothingMoved
  <2>7. CASE Covers(new, c, j, s)
    <3>1. At("skew", 0, L - 1, c, j, s) /\ At("skewtask", 0, 0, c, j, s)'
      BY <2>4, <2>5, <2>7 DEF At
    <3>2. ASSUME NEW k \in Kinds, NEW n \in Nat, NEW d \in Nat, At(k, n, d, c, j, s)'
          PROVE  \/ k = "skewtask" /\ n = 0 /\ d = 0
                 \/ At(k, n, d, c, j, s) /\ ~(k = "skew" /\ n = 0 /\ d = L - 1)
      BY <1>1, <1>3, <2>3, <3>2 DEF At
    <3>3. "skew" \in Kinds /\ "skewtask" \in Kinds /\ 0 \in Nat /\ L - 1 \in Nat
      BY <2>1 DEF Kinds
    <3> QED
      BY <3>1, <3>2, <3>3, Moves DEF Followed
  <2> QED
    BY <2>6, <2>7
<1> QED
  BY <1>4, <1>5

(* A join task of a whole subpartition is added, in front of the queue of  *)
(* thread t's node, for a pair that was at k1.                             *)
LEMMA JoinTaskFollowed ==
    ASSUME NEW c, NEW j, NEW s, Followed(c, j, s), NEW t \in Threads,
           NEW b \in Clusters, NEW l \in Clusters2,
           NEW k1 \in Kinds \ {"join"}, NEW n1 \in Nat,
           join_queue' = IF SubR(b, l) > 0 /\ SubS(b, l) > 0
                         THEN AddFirst(join_queue, NumaId[t], JoinTask(b, l, 0, SubS(b, l)))
                         ELSE join_queue,
           c = b /\ j = l => At(k1, n1, 0, c, j, s),
           \A k \in Kinds \ {"join"}, n, d \in Nat :
              At(k, n, d, c, j, s)' <=>
                 At(k, n, d, c, j, s) /\ ~(k = k1 /\ n = n1 /\ d = 0 /\ c = b /\ j = l)
    PROVE  InOnePlace(c, j, s)'
<1>0. Sized(c, j)
  BY FollowedFacts
<1> USE <1>0 DEF Sized
<1>1. PICK m \in Nodes : m = NumaId[t]
  OBVIOUS
<1>2. PICK L \in Nat : L = Len(join_queue[m])
  OBVIOUS
<1> DEFINE new == JoinTask(b, l, 0, SubS(b, l))
           made == SubR(b, l) > 0 /\ SubS(b, l) > 0
<1>3. /\ new \in JoinTasks
      /\ Covers(new, c, j, s) <=> c = b /\ j = l
  <2>1. SubS(b, l) \in Nat /\ l # Whole
    BY InputFacts DEF Clusters2, Whole
  <2>2. new \in JoinTasks
    BY <2>1 DEF JoinTasks, JoinTask
  <2>3. c = b /\ j = l => Covers(new, c, j, s)
    BY CoversFacts DEF Followed
  <2>4. Covers(new, c, j, s) => c = b /\ j = l
    BY <2>1, CoversFacts
  <2> QED
    BY <2>2, <2>3, <2>4
<1>4. c = b /\ j = l => made
  BY DEF Followed
<1>5. join_queue' = IF made THEN [join_queue EXCEPT ![m] = <<new>> \o join_queue[m]]
                    ELSE join_queue
  BY <1>1 DEF AddFirst
<1> HIDE DEF new, made
<1>6. /\ ~InQueue(join_queue[m], L, c, j, s)
      /\ \A d \in Nat : InQueue(<<new>> \o join_queue[m], d, c, j, s) <=>
            InQueue(join_queue[m], d, c, j, s) \/ (d = L /\ c = b /\ j = l)
  <2> DEFINE q == join_queue[m]
  <2>1. q \in Seq(JoinTasks) /\ Len(q) = L
    BY <1>2 DEF Followed, Typed, Queues
  <2> HIDE DEF q
  <2>2. /\ ~InQueue(q, L, c, j, s)
        /\ \A d \in Nat : InQueue(<<new>> \o q, d, c, j, s) <=>
              InQueue(q, d, c, j, s) \/ (d = L /\ Covers(new, c, j, s))
    BY <1>3, <2>1, QueueAdded
  <2> QED
    BY <1>3, <2>2 DEF q
<1>7. ASSUME NEW n \in Nodes, NEW d \in Nat
      PROVE  InQueue(join_queue'[n], d, c, j, s) <=>
                InQueue(join_queue[n], d, c, j, s) \/ (n = m /\ d = L /\ c = b /\ j = l)
  <2>1. CASE ~made \/ n # m
    <3>1. join_queue'[n] = join_queue[n]
      BY <1>5, <2>1
    <3> QED
      BY <1>4, <2>1, <3>1
  <2>2. CASE made /\ n = m
    <3>1. join_queue'[n] = <<new>> \o join_queue[m]
      BY <1>5, <2>2
    <3> QED
      BY <1>6, <2>2, <3>1
  <2> QED
    BY <2>1, <2>2
<1>8. \A n, d \in Nat : At("join", n, d, c, j, s)' <=>
          At("join", n, d, c, j, s) \/ (n = m /\ d = L /\ c = b /\ j = l)
  BY <1>7 DEF At
<1>9. CASE ~(c = b /\ j = l)
  <2>1. \A k \in Kinds, n, d \in Nat : At(k, n, d, c, j, s)' <=> At(k, n, d, c, j, s)
    BY <1>8, <1>9
  <2> QED
    BY <2>1, Stays DEF Followed
<1>10. CASE c = b /\ j = l
  <2>1. At(k1, n1, 0, c, j, s) /\ At("join", m, L, c, j, s)'
    BY <1>8, <1>10
  <2>2. ASSUME NEW k \in Kinds, NEW n \in Nat, NEW d \in Nat, At(k, n, d, c, j, s)'
        PROVE  \/ k = "join" /\ n = m /\ d = L
               \/ At(k, n, d, c, j, s) /\ ~(k = k1 /\ n = n1 /\ d = 0)
    BY <1>8, <1>10, <2>2
  <2>3. k1 \in Kinds /\ "join" \in Kinds /\ 0 \in Nat /\ m \in Nat
    BY DEF Kinds
  <2> QED
    BY <2>1, <2>2, <2>3, Moves DEF Followed
<1> QED
  BY <1>9, <1>10

(* A thread adds a join task for a subpartition it has made.               *)
LEMMA SerialFollowed ==
    ASSUME NEW c, NEW j, NEW s, Followed(c, j, s), NEW t \in Threads, AddJoinTask(t)
    PROVE  InOnePlace(c, j, s)'
<1>0. Sized(c, j)
  BY FollowedFacts
<1> USE <1>0 DEF Sized
<1>1. /\ pc[t] = "serial" /\ i[t] \in Clusters2 /\ pc' = pc /\ i' = [i EXCEPT ![t] = i[t] + 1]
      /\ UNCHANGED <<part_queue, skew_queue, skewtask, task, probed>>
  BY DEF AddJoinTask, Advance, Clusters2
<1>2. task[t] \in PairTasks /\ task[t].c \in Clusters
      /\ (Covers(task[t], c, j, s) <=> c = task[t].c)
  BY <1>1, CoversFacts DEF Followed, Typed, TasksTyped
<1>3. PICK b \in Clusters, l \in Clusters2 : b = task[t].c /\ l = i[t]
  BY <1>1, <1>2
<1>4. join_queue' = IF SubR(b, l) > 0 /\ SubS(b, l) > 0
                    THEN AddFirst(join_queue, NumaId[t], JoinTask(b, l, 0, SubS(b, l)))
                    ELSE join_queue
  BY <1>3 DEF AddJoinTask
<1>5. \A u \in Threads : i'[u] = IF u = t THEN l + 1 ELSE i[u]
  BY <1>1, <1>3
<1>6. \A u \in Threads : InSerial(u, c, j, s)' <=>
          InSerial(u, c, j, s) /\ ~(u = t /\ c = b /\ j = l)
  <2>1. l \in Int /\ j \in Int
    BY DEF Clusters2
  <2>2. InSerial(t, c, j, s) <=> l <= j /\ c = b
    BY <1>1, <1>2, <1>3 DEF InSerial
  <2>3. InSerial(t, c, j, s)' <=> l + 1 <= j /\ c = b
    BY <1>1, <1>2, <1>3, <1>5 DEF InSerial
  <2>4. \A u \in Threads \ {t} : InSerial(u, c, j, s)' <=> InSerial(u, c, j, s)
    BY <1>1, <1>5 DEF InSerial
  <2> QED
    BY <2>1, <2>2, <2>3, <2>4
<1>7. /\ InTasks(c)' <=> InTasks(c)
      /\ InSkewTask(c, j, s)' <=> InSkewTask(c, j, s)
      /\ IsProbed(c, j, s)' <=> IsProbed(c, j, s)
  BY <1>1, <1>5 DEF InTasks, InSkewTask, IsProbed
<1>8. \A k \in Kinds \ {"join"}, n, d \in Nat :
          At(k, n, d, c, j, s)' <=>
             At(k, n, d, c, j, s) /\ ~(k = "serial" /\ n = t /\ d = 0 /\ c = b /\ j = l)
  BY <1>1, <1>6, <1>7 DEF At, Kinds
<1>9. c = b /\ j = l => At("serial", t, 0, c, j, s)
  BY <1>1, <1>2, <1>3 DEF At, InSerial
<1>10. "serial" \in Kinds \ {"join"} /\ t \in Nat
  BY DEF Kinds
<1> QED
  BY <1>4, <1>8, <1>9, <1>10, JoinTaskFollowed

(* What thread 0 moves on with in the shared pair.                         *)
LEMMA SharedPair ==
    ASSUME NEW c, NEW j, NEW s, Followed(c, j, s), NEW t \in Threads,
           AddSkewJoinTask(t) \/ AddLargeJoinTasks(t)
    PROVE  /\ t = 0 /\ i[0] \in Clusters2 /\ skewtask.c \in Clusters
           /\ InSkewTask(c, j, s)' <=> InSkewTask(c, j, s) /\ ~(c = skewtask.c /\ j = i[0])
           /\ c = skewtask.c /\ j = i[0] => InSkewTask(c, j, s)
           /\ InTasks(c)' <=> InTasks(c)
           /\ IsProbed(c, j, s)' <=> IsProbed(c, j, s)
           /\ \A u \in Threads : InSerial(u, c, j, s)' <=> InSerial(u, c, j, s)
<1>0. Sized(c, j)
  BY FollowedFacts
<1> USE <1>0 DEF Sized
<1>1. /\ pc[t] = "skewtasks" /\ i[t] \in Clusters2 /\ pc' = pc /\ i' = [i EXCEPT ![t] = i[t] + 1]
      /\ UNCHANGED <<skew_queue, skewtask, task, probed>>
  BY DEF AddSkewJoinTask, AddLargeJoinTasks, Advance, Clusters2
<1>2. t = 0 /\ skewtask # NoTask
  BY <1>1, PhaseFacts DEF Followed
<1>3. skewtask.c \in Clusters /\ (Covers(skewtask, c, j, s) <=> c = skewtask.c)
  BY <1>2, CoversFacts DEF Followed, Typed, TasksTyped, MaybeTask
<1>4. PICK l \in Clusters2 : l = i[0]
  BY <1>1, <1>2
<1>5. \A u \in Threads : i'[u] = IF u = 0 THEN l + 1 ELSE i[u]
  BY <1>1, <1>2, <1>4
<1>6. InSkewTask(c, j, s) <=> l <= j /\ c = skewtask.c
  BY <1>1, <1>2, <1>3, <1>4 DEF InSkewTask
<1>7. InSkewTask(c, j, s)' <=> l + 1 <= j /\ c = skewtask.c
  BY <1>1, <1>2, <1>3, <1>5 DEF InSkewTask
<1>8. l \in Int /\ j \in Int
  BY DEF Clusters2
<1>9. /\ InTasks(c)' <=> InTasks(c)
      /\ IsProbed(c, j, s)' <=> IsProbed(c, j, s)
      /\ \A u \in Threads : InSerial(u, c, j, s)' <=> InSerial(u, c, j, s)
  BY <1>1, <1>2, <1>5 DEF InTasks, IsProbed, InSerial
<1> QED
  BY <1>1, <1>2, <1>3, <1>4, <1>6, <1>7, <1>8, <1>9

(* Thread 0 adds a join task for a subpartition of the shared pair.        *)
LEMMA SkewJoinFollowed ==
    ASSUME NEW c, NEW j, NEW s, Followed(c, j, s), NEW t \in Threads, AddSkewJoinTask(t)
    PROVE  InOnePlace(c, j, s)'
<1>1. PICK b \in Clusters, l \in Clusters2 : b = skewtask.c /\ l = i[0]
  BY SharedPair
<1>2. /\ t = 0
      /\ InSkewTask(c, j, s)' <=> InSkewTask(c, j, s) /\ ~(c = b /\ j = l)
      /\ c = b /\ j = l => InSkewTask(c, j, s)
      /\ InTasks(c)' <=> InTasks(c)
      /\ IsProbed(c, j, s)' <=> IsProbed(c, j, s)
      /\ \A u \in Threads : InSerial(u, c, j, s)' <=> InSerial(u, c, j, s)
  BY <1>1, SharedPair
<1>3. /\ join_queue' = IF SubR(b, l) > 0 /\ SubS(b, l) > 0
                       THEN AddFirst(join_queue, NumaId[t], JoinTask(b, l, 0, SubS(b, l)))
                       ELSE join_queue
      /\ part_queue' = part_queue /\ skew_queue' = skew_queue
  BY <1>1, <1>2 DEF AddSkewJoinTask
<1>4. \A k \in Kinds \ {"join"}, n, d \in Nat :
          At(k, n, d, c, j, s)' <=>
             At(k, n, d, c, j, s) /\ ~(k = "skewtask" /\ n = 0 /\ d = 0 /\ c = b /\ j = l)
  BY <1>2, <1>3 DEF At, Kinds
<1>5. c = b /\ j = l => At("skewtask", 0, 0, c, j, s)
  BY <1>2 DEF At
<1>6. "skewtask" \in Kinds \ {"join"} /\ 0 \in Nat
  BY DEF Kinds
<1> QED
  BY <1>3, <1>4, <1>5, <1>6, JoinTaskFollowed

(* Thread 0 cuts a large join task and adds the pieces to its part_queue.  *)
LEMMA LargeJoinFollowed ==
    ASSUME NEW c, NEW j, NEW s, Followed(c, j, s), NEW t \in Threads, AddLargeJoinTasks(t)
    PROVE  InOnePlace(c, j, s)'
<1>0. Sized(c, j)
  BY FollowedFacts
<1> USE <1>0 DEF Sized
<1>1. PICK b \in Clusters, l \in Clusters2 : b = skewtask.c /\ l = i[0]
  BY SharedPair
<1>2. /\ t = 0
      /\ InSkewTask(c, j, s)' <=> InSkewTask(c, j, s) /\ ~(c = b /\ j = l)
      /\ c = b /\ j = l => InSkewTask(c, j, s)
      /\ InTasks(c)' <=> InTasks(c)
      /\ IsProbed(c, j, s)' <=> IsProbed(c, j, s)
      /\ \A u \in Threads : InSerial(u, c, j, s)' <=> InSerial(u, c, j, s)
  BY <1>1, SharedPair
<1>3. PICK m \in Nodes : m = NumaId[0]
  OBVIOUS
<1>4. PICK L \in Nat : L = Len(part_queue[m])
  OBVIOUS
<1> DEFINE p == [k \in 1 .. NThreads |-> Piece(b, l, NThreads - k)]
<1>5. /\ part_queue' = [part_queue EXCEPT ![m] = p \o part_queue[m]]
      /\ join_queue' = join_queue /\ skew_queue' = skew_queue
  BY <1>1, <1>2, <1>3 DEF AddLargeJoinTasks
<1>6. /\ p \in Seq(JoinTasks \cup PairTasks) /\ Len(p) = NThreads /\ NThreads \in Nat
      /\ \A k \in 0 .. NThreads - 1 : p[NThreads - k] = Piece(b, l, k)
  <2>1. NThreads \in Nat /\ \A k \in 1 .. NThreads : NThreads - k \in 0 .. NThreads - 1
    BY ThreadsAssumption
  <2>2. \A k \in 0 .. NThreads - 1 : Piece(b, l, k) \in JoinTasks
    BY PieceFacts DEF Followed, Typed
  <2>3. \A k \in 1 .. NThreads : Piece(b, l, NThreads - k) \in JoinTasks \cup PairTasks
    BY <2>1, <2>2
  <2>4. \A k \in 0 .. NThreads - 1 : NThreads - k \in 1 .. NThreads /\ NThreads - (NThreads - k) = k
    BY <2>1
  <2> DEFINE T == JoinTasks \cup PairTasks
  <2> HIDE DEF T
  <2>5. p \in [1 .. NThreads -> T]
    BY <2>3 DEF T
  <2>6. p \in Seq(T) /\ Len(p) = NThreads
    BY <2>1, <2>5 
  <2> QED
    BY <2>1, <2>4, <2>6 DEF T
<1> HIDE DEF p
<1>7. \A k \in 0 .. NThreads - 1 : Covers(Piece(b, l, k), c, j, s) => c = b /\ j = l
  <2> TAKE k \in 0 .. NThreads - 1
  <2>1. Piece(b, l, k) \in JoinTasks /\ Piece(b, l, k).c = b /\ Piece(b, l, k).j = l
    BY PieceFacts DEF Followed, Typed
  <2> QED
    BY <2>1, CoversFacts
<1>8. /\ \A k \in Nat : ~InQueue(part_queue[m], L + k, c, j, s)
      /\ \A d \in Nat : InQueue(p \o part_queue[m], d, c, j, s) <=>
            \/ InQueue(part_queue[m], d, c, j, s)
            \/ \E k \in 0 .. NThreads - 1 : d = L + k /\ Covers(Piece(b, l, k), c, j, s)
  <2>1. PICK q, T, r : q = part_queue[m] /\ T = JoinTasks \cup PairTasks /\ r = p
    OBVIOUS
  <2>2. q \in Seq(T) /\ Len(q) = L /\ r \in Seq(T) /\ Len(r) = NThreads
    BY <1>4, <1>6, <2>1 DEF Followed, Typed, Queues
  <2>3. /\ \A k \in Nat : ~InQueue(q, Len(q) + k, c, j, s)
        /\ \A d \in Nat : InQueue(r \o q, d, c, j, s) <=>
              InQueue(q, d, c, j, s) \/ InPieces(r, Len(q), d, c, j, s)
    BY <2>2, PiecesAdded
  <2>4. \A k \in Nat : ~InQueue(q, L + k, c, j, s)
    BY <2>2, <2>3
  <2>5. \A k \in 0 .. NThreads - 1 : r[NThreads - k] = Piece(b, l, k)
    BY <1>6, <2>1
  <2>6. \A d \in Nat : InQueue(r \o q, d, c, j, s) <=>
            \/ InQueue(q, d, c, j, s)
            \/ \E k \in 0 .. NThreads - 1 : d = L + k /\ Covers(Piece(b, l, k), c, j, s)
    BY <2>2, <2>3, <2>5 DEF InPieces
  <2> QED
    BY <2>1, <2>4, <2>6
<1>9. \A n \in Nodes : part_queue'[n] = IF n = m THEN p \o part_queue[m] ELSE part_queue[n]
  BY <1>5
<1>10. CASE ~(c = b /\ j = l)
  <2>1. \A n \in Nodes, d \in Nat :
            InQueue(part_queue'[n], d, c, j, s) <=> InQueue(part_queue[n], d, c, j, s)
    <3> TAKE n \in Nodes, d \in Nat
    <3>1. CASE n = m
      BY <1>7, <1>8, <1>9, <1>10, <3>1
    <3>2. CASE n # m
      BY <1>9, <3>2
    <3> QED
      BY <3>1, <3>2
  <2>2. InSkewTask(c, j, s)' <=> InSkewTask(c, j, s)
    BY <1>2, <1>10
  <2> QED
    BY <1>2, <1>5, <2>1, <2>2, NothingMoved
<1>11. CASE c = b /\ j = l
  <2>1. PICK k0 \in 0 .. NThreads - 1 :
            /\ Covers(Piece(b, l, k0), c, j, s)
            /\ \A k \in 0 .. NThreads - 1 : Covers(Piece(b, l, k), c, j, s) => k = k0
    <3>1. s \in 1 .. SubS(b, l) /\ tuples \in Inputs
      BY <1>11 DEF Followed
    <3>2. \E k \in 0 .. NThreads - 1 :
            /\ Covers(Piece(b, l, k), b, l, s)
            /\ \A e \in 0 .. NThreads - 1 : Covers(Piece(b, l, e), b, l, s) => e = k
      BY <3>1, PieceFacts
    <3> QED
      BY <1>11, <3>2
  <2>2. L + k0 \in Nat /\ k0 \in Nat
    BY <1>6
  <2>3. \A n \in Nodes, d \in Nat :
            InQueue(part_queue'[n], d, c, j, s) <=>
                InQueue(part_queue[n], d, c, j, s) \/ (n = m /\ d = L + k0)
    <3> TAKE n \in Nodes, d \in Nat
    <3>1. CASE n = m
      BY <1>8, <1>9, <2>1, <3>1
    <3>2. CASE n # m
      BY <1>9, <3>2
    <3> QED
      BY <3>1, <3>2
  <2>4. At("skewtask", 0, 0, c, j, s) /\ At("part", m, L + k0, c, j, s)'
    BY <1>2, <1>11, <2>2, <2>3 DEF At
  <2>5. ASSUME NEW k \in Kinds, NEW n \in Nat, NEW d \in Nat, At(k, n, d, c, j, s)'
        PROVE  \/ k = "part" /\ n = m /\ d = L + k0
               \/ At(k, n, d, c, j, s) /\ ~(k = "skewtask" /\ n = 0 /\ d = 0)
    BY <1>2, <1>5, <1>11, <2>3, <2>5 DEF At
  <2>6. "skewtask" \in Kinds /\ "part" \in Kinds /\ 0 \in Nat /\ m \in Nat
    BY DEF Kinds
  <2> QED
    BY <2>2, <2>4, <2>5, <2>6, Moves DEF Followed
<1> QED
  BY <1>10, <1>11

(* Thread 0 moves a join task from its part_queue to its join_queue.       *)
LEMMA TransferFollowed ==
    ASSUME NEW c, NEW j, NEW s, Followed(c, j, s), NEW t \in Threads, Transfer(t)
    PROVE  InOnePlace(c, j, s)'
<1>0. Sized(c, j)
  BY FollowedFacts
<1> USE <1>0 DEF Sized
<1>1. PICK m \in Nodes : m = NumaId[t]
  OBVIOUS
<1>2. PICK L \in Nat, M \in Nat : L = Len(part_queue[m]) /\ M = Len(join_queue[m])
  OBVIOUS
<1>3. PICK p, q : p = part_queue[m] /\ q = join_queue[m]
  OBVIOUS
<1> DEFINE new == Head(p)
<1>4. /\ pc[t] = "transfer" /\ p # <<>>
      /\ part_queue' = [part_queue EXCEPT ![m] = Tail(p)]
      /\ join_queue' = [join_queue EXCEPT ![m] = <<new>> \o q]
      /\ UNCHANGED <<pc, i, skew_queue, skewtask, task, probed>>
  BY <1>1, <1>3 DEF Transfer, part_queue_of, join_queue_of, AddFirst
<1>5. /\ p \in Seq(JoinTasks) /\ q \in Seq(JoinTasks) /\ Len(p) = L /\ Len(q) = M
  <2>1. t = 0 /\ Passed(0)
    BY <1>4, PhaseFacts DEF Followed, Passed
  <2>2. PartTasks(m) = JoinTasks
    BY <1>1, <2>1 DEF PartTasks
  <2> QED
    BY <1>2, <1>3, <2>2 DEF Followed, Typed, Queues
<1>6. /\ L - 1 \in Nat /\ new \in JoinTasks
      /\ (InQueue(p, L - 1, c, j, s) <=> Covers(new, c, j, s))
      /\ \A d \in Nat : InQueue(Tail(p), d, c, j, s) <=> InQueue(p, d, c, j, s) /\ d # L - 1
  BY <1>4, <1>5, QueueTaken
<1> HIDE DEF new
<1>7. \A d \in Nat : InQueue(<<new>> \o q, d, c, j, s) <=>
          InQueue(q, d, c, j, s) \/ (d = M /\ Covers(new, c, j, s))
  BY <1>5, <1>6, QueueAdded
<1>8. /\ \A n \in Nodes : part_queue'[n] = IF n = m THEN Tail(p) ELSE part_queue[n]
      /\ \A n \in Nodes : join_queue'[n] = IF n = m THEN <<new>> \o q ELSE join_queue[n]
  BY <1>4
<1>9. ASSUME NEW n \in Nodes, NEW d \in Nat
      PROVE  /\ InQueue(part_queue'[n], d, c, j, s) <=>
                   InQueue(part_queue[n], d, c, j, s) /\ ~(n = m /\ d = L - 1)
             /\ InQueue(join_queue'[n], d, c, j, s) <=>
                   InQueue(join_queue[n], d, c, j, s) \/ (n = m /\ d = M /\ Covers(new, c, j, s))
  <2>1. CASE n = m
    BY <1>3, <1>6, <1>7, <1>8, <2>1
  <2>2. CASE n # m
    BY <1>8, <2>2
  <2> QED
    BY <2>1, <2>2
<1>10. /\ InTasks(c)' <=> InTasks(c)
       /\ InSkewTask(c, j, s)' <=> InSkewTask(c, j, s)
       /\ IsProbed(c, j, s)' <=> IsProbed(c, j, s)
       /\ \A u \in Threads : InSerial(u, c, j, s)' <=> InSerial(u, c, j, s)
  BY <1>4 DEF InTasks, InSkewTask, IsProbed, InSerial
<1>11. InQueue(part_queue[m], L - 1, c, j, s) <=> Covers(new, c, j, s)
  BY <1>3, <1>6
<1>12. CASE ~Covers(new, c, j, s)
  <2>1. \A n \in Nodes, d \in Nat :
           /\ InQueue(part_queue'[n], d, c, j, s) <=> InQueue(part_queue[n], d, c, j, s)
           /\ InQueue(join_queue'[n], d, c, j, s) <=> InQueue(join_queue[n], d, c, j, s)
    BY <1>9, <1>11, <1>12
  <2>2. skew_queue' = skew_queue
    BY <1>4
  <2> QED
    BY <1>10, <2>1, <2>2, NothingMoved
<1>13. CASE Covers(new, c, j, s)
  <2>1. At("part", m, L - 1, c, j, s) /\ At("join", m, M, c, j, s)'
    BY <1>6, <1>9, <1>11, <1>13 DEF At
  <2>2. ASSUME NEW k \in Kinds, NEW n \in Nat, NEW d \in Nat, At(k, n, d, c, j, s)'
        PROVE  \/ k = "join" /\ n = m /\ d = M
               \/ At(k, n, d, c, j, s) /\ ~(k = "part" /\ n = m /\ d = L - 1)
    BY <1>4, <1>9, <1>10, <1>13, <2>2 DEF At
  <2>3. "part" \in Kinds /\ "join" \in Kinds /\ m \in Nat
    BY DEF Kinds
  <2> QED
    BY <1>6, <2>1, <2>2, <2>3, Moves DEF Followed
<1> QED
  BY <1>12, <1>13

(* What a join counts.                                                     *)
LEMMA JoinCounts ==
    ASSUME Typed, NEW t \in Threads, Join(t), NEW c \in Clusters, NEW j \in Clusters2,
           NEW s \in 1 .. SubS(c, j)
    PROVE  probed'[c][j][s] =
               probed[c][j][s] + IF Covers(Head(join_queue_of(t)), c, j, s) THEN 1 ELSE 0
<1> DEFINE new == Head(join_queue_of(t))
           more == [e \in DOMAIN probed[new.c][new.j] |->
                       probed[new.c][new.j][e]
                       + IF e \in new.from + 1 .. new.from + new.ns THEN 1 ELSE 0]
<1>1. /\ new \in JoinTasks /\ new.c \in Clusters /\ new.j \in Clusters2
      /\ new.from \in Nat /\ new.ns \in Nat
  BY TaskJoined DEF Join
<1>2. probed' = [probed EXCEPT ![new.c][new.j] = more]
  BY DEF Join
<1>3. Covers(new, c, j, s) <=> c = new.c /\ j = new.j /\ new.from < s /\ s <= new.from + new.ns
  BY <1>1, CoversFacts DEF Typed
<1>4. /\ DOMAIN probed = Clusters /\ \A b \in Clusters : DOMAIN probed[b] = Clusters2
      /\ probed[c][j] \in [1 .. SubS(c, j) -> Nat]
  BY DEF Typed, ProbedTyped
<1>5. s \in Int
  OBVIOUS
<1>6. CASE c = new.c /\ j = new.j
  <2>1. probed'[c][j] = more
    <3> HIDE DEF more, new
    <3> QED
      BY <1>1, <1>2, <1>4, <1>6
  <2>2. more[s] = probed[c][j][s] + IF s \in new.from + 1 .. new.from + new.ns THEN 1 ELSE 0
    BY <1>4, <1>6
  <2>3. s \in new.from + 1 .. new.from + new.ns <=> Covers(new, c, j, s)
    <3> HIDE DEF new
    <3> QED
      BY <1>1, <1>3, <1>5, <1>6
  <2> QED
    BY <2>1, <2>2, <2>3
<1>7. CASE ~(c = new.c /\ j = new.j)
  <2>1. probed'[c][j] = probed[c][j]
    <3> HIDE DEF more, new
    <3> QED
      BY <1>1, <1>2, <1>4, <1>7
  <2>2. ~Covers(new, c, j, s)
    BY <1>3, <1>7
  <2>3. probed[c][j][s] \in Nat
    BY <1>4
  <2> QED
    BY <2>1, <2>2, <2>3
<1> QED
  BY <1>6, <1>7

(* A thread takes a join task and joins it.                                *)
LEMMA JoinFollowed ==
    ASSUME NEW c, NEW j, NEW s, Followed(c, j, s), NEW t \in Threads, Join(t),
           probed[c][j][s] \in {0, 1}
    PROVE  InOnePlace(c, j, s)' /\ probed'[c][j][s] \in {0, 1}
<1>0. Sized(c, j)
  BY FollowedFacts
<1> USE <1>0 DEF Sized
<1>1. PICK m \in Nodes : m = NumaId[t]
  OBVIOUS
<1>2. PICK q : q = join_queue[m]
  OBVIOUS
<1>3. PICK L \in Nat : L = Len(q)
  BY <1>2
<1> DEFINE new == Head(q)
<1>4. /\ q # <<>> /\ q \in Seq(JoinTasks)
      /\ join_queue' = [join_queue EXCEPT ![m] = Tail(q)]
      /\ UNCHANGED <<pc, i, part_queue, skew_queue, skewtask, task>>
  BY <1>1, <1>2 DEF Join, join_queue_of, Followed, Typed, Queues
<1>5. probed'[c][j][s] = probed[c][j][s] + IF Covers(new, c, j, s) THEN 1 ELSE 0
  BY <1>1, <1>2, JoinCounts DEF Followed, join_queue_of
<1>6. /\ L - 1 \in Nat /\ (InQueue(q, L - 1, c, j, s) <=> Covers(new, c, j, s))
      /\ \A d \in Nat : InQueue(Tail(q), d, c, j, s) <=> InQueue(q, d, c, j, s) /\ d # L - 1
  BY <1>3, <1>4, QueueTaken
<1> HIDE DEF new
<1>7. \A n \in Nodes : join_queue'[n] = IF n = m THEN Tail(q) ELSE join_queue[n]
  BY <1>4
<1>8. \A n \in Nodes, d \in Nat :
          InQueue(join_queue'[n], d, c, j, s) <=>
              InQueue(join_queue[n], d, c, j, s) /\ ~(n = m /\ d = L - 1)
  <2> TAKE n \in Nodes, d \in Nat
  <2>1. CASE n = m
    BY <1>2, <1>6, <1>7, <2>1
  <2>2. CASE n # m
    BY <1>7, <2>2
  <2> QED
    BY <2>1, <2>2
<1>9. /\ InTasks(c)' <=> InTasks(c)
      /\ InSkewTask(c, j, s)' <=> InSkewTask(c, j, s)
      /\ \A u \in Threads : InSerial(u, c, j, s)' <=> InSerial(u, c, j, s)
  BY <1>4 DEF InTasks, InSkewTask, InSerial
<1>10. InQueue(join_queue[m], L - 1, c, j, s) <=> Covers(new, c, j, s)
  BY <1>2, <1>6
<1>11. CASE ~Covers(new, c, j, s)
  <2>1. \A n \in Nodes, d \in Nat :
            InQueue(join_queue'[n], d, c, j, s) <=> InQueue(join_queue[n], d, c, j, s)
    BY <1>8, <1>10, <1>11
  <2>2. probed'[c][j][s] = probed[c][j][s]
    BY <1>5, <1>11
  <2>3. IsProbed(c, j, s)' <=> IsProbed(c, j, s)
    BY <2>2 DEF IsProbed
  <2>4. part_queue' = part_queue /\ skew_queue' = skew_queue
    BY <1>4
  <2>5. InOnePlace(c, j, s)'
    BY <1>9, <2>1, <2>3, <2>4, NothingMoved
  <2> QED
    BY <2>2, <2>5
<1>12. CASE Covers(new, c, j, s)
  <2>0. "join" \in Kinds /\ "probed" \in Kinds /\ m \in Nat /\ 0 \in Nat
    BY DEF Kinds
  <2>1. At("join", m, L - 1, c, j, s)
    BY <1>10, <1>12 DEF At
  <2>2. ~At("probed", 0, 0, c, j, s)
    BY <1>6, <2>0, <2>1 DEF Followed, InOnePlace
  <2>3. probed[c][j][s] = 0 /\ probed'[c][j][s] = 1
    BY <1>5, <1>12, <2>2 DEF At, IsProbed
  <2>4. At("probed", 0, 0, c, j, s)'
    BY <2>3 DEF At, IsProbed
  <2>5. ASSUME NEW k \in Kinds, NEW n \in Nat, NEW d \in Nat, At(k, n, d, c, j, s)'
        PROVE  \/ k = "probed" /\ n = 0 /\ d = 0
               \/ At(k, n, d, c, j, s) /\ ~(k = "join" /\ n = m /\ d = L - 1)
    BY <1>4, <1>8, <1>9, <2>5 DEF At
  <2> QED
    BY <1>6, <2>0, <2>1, <2>3, <2>4, <2>5, Moves DEF Followed
<1> QED
  BY <1>11, <1>12

(* A join task that a thread takes and gets lost in is of no R tuples.     *)
LEMMA JoinLostFollowed ==
    ASSUME NEW c, NEW j, NEW s, Followed(c, j, s), NEW t \in Threads, JoinLost(t)
    PROVE  InOnePlace(c, j, s)'
<1>0. Sized(c, j)
  BY FollowedFacts
<1> USE <1>0 DEF Sized
<1>1. PICK m \in Nodes : m = NumaId[t]
  OBVIOUS
<1>2. PICK q : q = join_queue[m]
  OBVIOUS
<1>3. PICK L \in Nat : L = Len(q)
  BY <1>2
<1> DEFINE new == Head(q)
<1>4. /\ q # <<>> /\ q \in Seq(JoinTasks) /\ SubR(new.c, new.j) = 0
      /\ join_queue' = [join_queue EXCEPT ![m] = Tail(q)]
      /\ pc[t] = "join" /\ pc' = [pc EXCEPT ![t] = "lost"]
      /\ UNCHANGED <<i, part_queue, skew_queue, skewtask, task, probed>>
  BY <1>1, <1>2 DEF JoinLost, Goto, ReadsBeyond, NeverReturns, join_queue_of, Followed, Typed,
     Queues
<1>5. ~Covers(new, c, j, s)
  <2>1. new \in JoinTasks
    BY <1>4, TakeFirst
  <2>2. SubR(c, j) # 0
    BY DEF Followed
  <2> HIDE DEF new
  <2>3. Covers(new, c, j, s) => c = new.c /\ j = new.j
    BY <2>1, CoversFacts
  <2> QED
    BY <1>4, <2>2, <2>3
<1>6. /\ L - 1 \in Nat /\ (InQueue(q, L - 1, c, j, s) <=> Covers(new, c, j, s))
      /\ \A d \in Nat : InQueue(Tail(q), d, c, j, s) <=> InQueue(q, d, c, j, s) /\ d # L - 1
  BY <1>3, <1>4, QueueTaken
<1> HIDE DEF new
<1>7. \A n \in Nodes : join_queue'[n] = IF n = m THEN Tail(q) ELSE join_queue[n]
  BY <1>4
<1>8. \A n \in Nodes, d \in Nat :
          InQueue(join_queue'[n], d, c, j, s) <=> InQueue(join_queue[n], d, c, j, s)
  <2> TAKE n \in Nodes, d \in Nat
  <2>1. CASE n = m
    BY <1>2, <1>5, <1>6, <1>7, <2>1
  <2>2. CASE n # m
    BY <1>7, <2>2
  <2> QED
    BY <2>1, <2>2
<1>9. /\ InTasks(c)' <=> InTasks(c)
      /\ InSkewTask(c, j, s)' <=> InSkewTask(c, j, s)
      /\ \A u \in Threads : InSerial(u, c, j, s)' <=> InSerial(u, c, j, s)
      /\ IsProbed(c, j, s)' <=> IsProbed(c, j, s)
  BY <1>4 DEF InTasks, InSkewTask, InSerial, IsProbed
<1>10. part_queue' = part_queue /\ skew_queue' = skew_queue
  BY <1>4
<1> QED
  BY <1>8, <1>9, <1>10, NothingMoved

(* join_init_run collects results; nothing happens.                        *)
LEMMA IdleFollowed ==
    ASSUME NEW c, NEW j, NEW s, Followed(c, j, s), CollectResult \/ UNCHANGED vars
    PROVE  InOnePlace(c, j, s)'
<1>1. UNCHANGED <<pc, i, part_queue, join_queue, skew_queue, skewtask, task, probed>>
  BY DEF CollectResult, vars
<1> QED
  BY <1>1, QuietlyStays DEF InTasks, InSerial, InSkewTask

(* Wherever a tuple is, it is in one place after any step.                 *)
LEMMA FollowedStep ==
    ASSUME NEW c, NEW j, NEW s, Followed(c, j, s), probed[c][j][s] \in {0, 1}, [Next]_vars
    PROVE  InOnePlace(c, j, s)' /\ probed'[c][j][s] \in {0, 1}
<1>1. CASE ReleaseBarrier
  BY <1>1, BarrierFollowed DEF ReleaseBarrier, Leave
<1>2. CASE CollectResult \/ UNCHANGED vars
  BY <1>2, IdleFollowed DEF CollectResult, vars
<1>3. ASSUME NEW t \in Threads, Thread(t), ~Join(t)
      PROVE  InOnePlace(c, j, s)' /\ probed' = probed
  <2>1. probed' = probed
    BY <1>3 DEF Thread, MakeSkewTask, MakeTask, TasksMade, GetPartTask, AddJoinTask,
       SerialDone, NoPartTask, GetSkewTask, CheckSkewTask, PartitionSkewR, PartitionSkewS,
       CopyOutSkew, AddLargeJoinTasks, AddSkewJoinTask, SkewTasksAdded, Transfer, Transferred,
       JoinLost, JoinDone
  <2>2. InOnePlace(c, j, s)'
    BY <1>3, QuietFollowed, TaskMadeFollowed, PartTaskFollowed, SerialFollowed,
       SkewTaskFollowed, SkewJoinFollowed, LargeJoinFollowed, TransferFollowed,
       JoinLostFollowed DEF Thread
  <2> QED
    BY <2>1, <2>2
<1>4. ASSUME NEW t \in Threads, Join(t)
      PROVE  InOnePlace(c, j, s)' /\ probed'[c][j][s] \in {0, 1}
  BY <1>4, JoinFollowed
<1> QED
  BY <1>1, <1>2, <1>3, <1>4 DEF Next

(* Thread 0 shares a task only when it has left pass 2.                    *)
LEMMA NoSkewYetStep ==
    ASSUME Inv, NoSkewYet, [Next]_vars
    PROVE  NoSkewYet'
<1>1. CASE skewtask' = skewtask
  BY <1>1, PassedStep, ThreadZero DEF NoSkewYet
<1>2. ASSUME NEW t \in Threads, GetSkewTask(t) PROVE NoSkewYet'
  <2>1. pc[t] = "getskew" /\ DOMAIN pc = Threads
    BY <1>2 DEF GetSkewTask, Inv, Shape
  <2>2. t = 0
    BY <2>1, PhaseFacts
  <2> QED
    BY <1>2, <2>1, <2>2 DEF GetSkewTask, Goto, NoSkewYet, Passed
<1>3. ASSUME NEW t \in Threads, Thread(t), ~GetSkewTask(t) PROVE skewtask' = skewtask
  BY <1>3 DEF Thread, MakeSkewTask, MakeTask, TasksMade, GetPartTask, AddJoinTask,
     SerialDone, NoPartTask, CheckSkewTask, PartitionSkewR, PartitionSkewS,
     CopyOutSkew, AddLargeJoinTasks, AddSkewJoinTask, SkewTasksAdded, Transfer, Transferred,
     Join, JoinLost, JoinDone
<1>4. CASE ReleaseBarrier \/ CollectResult \/ UNCHANGED vars
  BY <1>1, <1>4 DEF ReleaseBarrier, Leave, CollectResult, vars
<1> QED
  BY <1>1, <1>2, <1>3, <1>4 DEF Next

(* No step loses a tuple or puts it into a second place.                   *)
LEMMA OnceStep ==
    ASSUME Inv, Typed, Drained, Once, [Next]_vars
    PROVE  Once'
<1>1. NoSkewYet'
  BY NoSkewYetStep DEF Once
<1>2. ASSUME NEW c \in Clusters, NEW j \in Clusters2, SubR(c, j)' > 0, NEW s \in 1 .. SubS(c, j)'
      PROVE  InOnePlace(c, j, s)' /\ probed'[c][j][s] \in {0, 1}
  <2>1. SubR(c, j) > 0 /\ s \in 1 .. SubS(c, j)
    BY <1>2, InputStays
  <2>2. Followed(c, j, s) /\ probed[c][j][s] \in {0, 1}
    BY <2>1 DEF Followed, Once
  <2> QED
    BY <2>2, FollowedStep
<1> QED
  BY <1>1, <1>2 DEF Once

(* At first, no pair has been come to.                                     *)
LEMMA InitOnce == Init => Once
<1> SUFFICES ASSUME Init PROVE Once
  OBVIOUS
<1>1. NoSkewYet
  BY DEF Init, NoSkewYet
<1>2. ASSUME NEW c \in Clusters, NEW j \in Clusters2, NEW s \in 1 .. SubS(c, j)
      PROVE  InOnePlace(c, j, s) /\ probed[c][j][s] \in {0, 1}
  <2>1. probed[c][j][s] = 0
    BY <1>2 DEF Init
  <2>2. At("tasks", 0, 0, c, j, s)
    BY ThreadZero DEF Init, At, InTasks, Clusters
  <2>3. ASSUME NEW k \in Kinds, NEW n \in Nat, NEW d \in Nat, At(k, n, d, c, j, s)
        PROVE  k = "tasks" /\ n = 0 /\ d = 0
    <3>1. /\ \A m \in Nodes : part_queue[m] = <<>> /\ join_queue[m] = <<>>
          /\ skew_queue = <<>> /\ skewtask = NoTask
          /\ \A t \in Threads : pc[t] # "serial"
      BY DEF Init
    <3>2. /\ \A m \in Nodes : ~InQueue(part_queue[m], d, c, j, s) /\ ~InQueue(join_queue[m], d, c, j, s)
          /\ ~InQueue(skew_queue, d, c, j, s)
      BY <3>1 DEF InQueue
    <3> QED
      BY <2>1, <2>3, <3>1, <3>2 DEF At, InSerial, InSkewTask, IsProbed
  <2>4. "tasks" \in Kinds /\ 0 \in Nat
    BY DEF Kinds
  <2> QED
    BY <2>1, <2>2, <2>3, <2>4 DEF InOnePlace
<1> QED
  BY <1>1, <1>2 DEF Once

(* Every tuple of S that has partners is in one place at any time.         *)
LEMMA OnceInvariant == Spec => []Once
<1> QED
  BY InitOnce, OnceStep, Invariant, TypedInvariant, PTL DEF Spec

(* At the end there is only one place left.                                *)
LEMMA OnlyProbedLeft ==
    ASSUME Typed, Drained, Once, \A t \in Threads : pc[t] \in {"finish", "done"},
           NEW c \in Clusters, NEW j \in Clusters2, SubR(c, j) > 0, NEW s \in 1 .. SubS(c, j)
    PROVE  probed[c][j][s] = 1
<1>1. PICK k \in Kinds, n \in Nat, d \in Nat : At(k, n, d, c, j, s)
  BY DEF Once, InOnePlace
<1>2. \A m \in Nodes : part_queue[m] = <<>> /\ join_queue[m] = <<>>
  <2> SUFFICES ASSUME NEW t \in Threads
               PROVE  part_queue[NumaId[t]] = <<>> /\ join_queue[NumaId[t]] = <<>>
    BY DEF Nodes
  <2>1. Passed(t) /\ join_queue_of(t) = <<>>
    BY DEF Passed, Drained
  <2>2. part_queue_of(0) = <<>>
    BY ThreadZero DEF Drained
  <2>3. NumaId[t] # NumaId[0] => part_queue_of(t) = <<>>
    BY <2>1 DEF Drained
  <2> QED
    BY <2>1, <2>2, <2>3 DEF part_queue_of, join_queue_of
<1>3. skew_queue = <<>> /\ skewtask = NoTask /\ pc[0] # "tasks"
  BY ThreadZero DEF Drained
<1>4. /\ \A m \in Nodes : ~InQueue(part_queue[m], d, c, j, s) /\ ~InQueue(join_queue[m], d, c, j, s)
      /\ ~InQueue(skew_queue, d, c, j, s)
  BY <1>2, <1>3 DEF InQueue
<1> QED
  BY <1>1, <1>3, <1>4 DEF At, InTasks, InSerial, InSkewTask, IsProbed

(* When the threads have left the join loop, each tuple of S was joined    *)
(* once with its partners, with skew handling and without, however the     *)
(* threads took the tasks: none was left in a queue or joined twice.       *)
THEOREM NothingIsLeftOver == Spec => []NothingLeftOver
<1>1. Typed /\ Drained /\ Once => NothingLeftOver
  <2> SUFFICES ASSUME Typed, Drained, Once, \A t \in Threads : pc[t] \in {"finish", "done"},
                      NEW c \in Clusters, NEW j \in Clusters2, SubR(c, j) > 0,
                      NEW s \in DOMAIN probed[c][j]
               PROVE  probed[c][j][s] = 1
    BY DEF NothingLeftOver
  <2>1. s \in 1 .. SubS(c, j)
    BY DEF Typed, ProbedTyped
  <2> QED
    BY <2>1, OnlyProbedLeft
<1> QED
  BY <1>1, TypedInvariant, OnceInvariant, PTL

(***************************************************************************)
(* The tasks that the join functions bear: those with tuples in R.  Unless *)
(* a large join task has none, there are no others.                        *)
(***************************************************************************)
WithR == {new \in JoinTasks : SubR(new.c, new.j) > 0}
LargePairs == {PairTask(c) : c \in {d \in Clusters : Large(d)}}

Borne ==
    /\ \A n \in Nodes : join_queue[n] \in Seq(WithR)
    /\ Passed(0) => part_queue[NumaId[0]] \in Seq(WithR)
    /\ skew_queue \in Seq(LargePairs)
    /\ skewtask \in LargePairs \cup {NoTask}

(* Which tasks those are depends on the input only.                        *)
LEMMA BorneInput ==
    ASSUME [Next]_vars
    PROVE  WithR' = WithR /\ LargePairs' = LargePairs /\ (Unbearable' <=> Unbearable)
           /\ (EmptyLargeTask' <=> EmptyLargeTask)
<1>1. tuples' = tuples /\ SKEW_HANDLING' = SKEW_HANDLING /\ join_function' = join_function
  BY InputStays
<1>2. /\ \A c : (Large(c)' <=> Large(c)) /\ PairTask(c)' = PairTask(c)
      /\ \A c, j : SubR(c, j)' = SubR(c, j) /\ SubS(c, j)' = SubS(c, j)
  BY <1>1 DEF Large, PairTask, ntupR, ntupS, SubR, SubS
<1>3. WithR' = WithR
  BY <1>2, InputStays DEF WithR
<1>4. LargePairs' = LargePairs
  BY <1>2 DEF LargePairs
<1>5. EmptyLargeTask' <=> EmptyLargeTask
  BY <1>1, <1>2 DEF EmptyLargeTask
<1> QED
  BY <1>1, <1>3, <1>4, <1>5 DEF Unbearable

(* An empty queue, which anything may be said of.                          *)
LEMMA EmptyQueue == \A T : <<>> \in Seq(T)
  OBVIOUS

(* The small join tasks are added when R and S have tuples; the large ones *)
(* have them by assumption.                                                *)
LEMMA BorneStep ==
    ASSUME Inv, Typed, Drained, ~EmptyLargeTask, Borne, [Next]_vars
    PROVE  Borne'
<1> DEFINE Joins == \A n \in Nodes : join_queue'[n] \in Seq(WithR)
           Parts == Passed(0)' => part_queue'[NumaId[0]] \in Seq(WithR)
           Skews == skew_queue' \in Seq(LargePairs)
           Shared == skewtask' \in LargePairs \cup {NoTask}
<1>1. ASSUME Joins, Parts, Skews, Shared PROVE Borne'
  BY <1>1, BorneInput DEF Borne
<1>2. /\ \A n \in Nodes : join_queue[n] \in Seq(WithR)
      /\ Passed(0) => part_queue[NumaId[0]] \in Seq(WithR)
      /\ skew_queue \in Seq(LargePairs) /\ skewtask \in LargePairs \cup {NoTask}
  BY DEF Borne
<1>3. /\ DOMAIN join_queue = Nodes /\ DOMAIN part_queue = Nodes /\ tuples \in Inputs
      /\ i \in [Threads -> 0 .. FanOut + FanOut2]
  BY DEF Typed, Queues, Numbers
<1>4. UNCHANGED part_queue => Parts
  <2>1. Passed(0)' /\ ~Passed(0) => part_queue[NumaId[0]] = <<>>
    BY PassedStep, ThreadZero DEF NoPartTask, part_queue_of
  <2> QED
    BY <1>2, <2>1, EmptyQueue
<1>5. /\ UNCHANGED join_queue => Joins
      /\ UNCHANGED skew_queue => Skews
      /\ UNCHANGED skewtask => Shared
  BY <1>2
<1>6. \A n \in Nodes : \A q \in Seq(WithR) :
          join_queue' = [join_queue EXCEPT ![n] = q] => Joins
  BY <1>2, <1>3
<1> HIDE DEF Joins, Parts, Skews, Shared
<1>7. ASSUME NEW t \in Threads, MakeSkewTask(t) PROVE Borne'
  <2>1. i[t] \in Clusters /\ Large(i[t])
    BY <1>3, <1>7, FanOutAssumption DEF MakeSkewTask, Clusters
  <2>2. PairTask(i[t]) \in LargePairs
    BY <2>1 DEF LargePairs
  <2>3. Skews
    BY <1>2, <1>7, <2>2, PutFirst DEF MakeSkewTask, Skews
  <2> QED
    BY <1>1, <1>4, <1>5, <1>7, <2>3 DEF MakeSkewTask
<1>8. ASSUME NEW t \in Threads, MakeTask(t) \/ GetPartTask(t) PROVE Borne'
  <2>1. Parts
    <3>1. CASE MakeTask(t)
      <4>1. pc[0] = "tasks" /\ pc' = pc
        BY <3>1, PhaseFacts DEF MakeTask
      <4> QED
        BY <4>1 DEF Parts, Passed
    <3>2. CASE GetPartTask(t)
      <4>1. DOMAIN pc = Threads /\ pc' = [pc EXCEPT ![t] = "serial"] /\ pc[t] = "pass2"
        BY <3>2 DEF GetPartTask, Goto, Inv, Shape
      <4>2. part_queue_of(t) # <<>>
        BY <3>2 DEF GetPartTask
      <4>3. Passed(0) => NumaId[t] # NumaId[0]
        BY <4>1, <4>2 DEF Drained, part_queue_of
      <4>4. Passed(0) => part_queue'[NumaId[0]] = part_queue[NumaId[0]]
        BY <3>2, <4>3 DEF GetPartTask
      <4>5. Passed(0)' => Passed(0)
        BY <4>1, ThreadZero DEF Passed
      <4> QED
        BY <1>2, <4>4, <4>5 DEF Parts
    <3> QED
      BY <1>8, <3>1, <3>2
  <2> QED
    BY <1>1, <1>5, <1>8, <2>1 DEF MakeTask, GetPartTask
<1>9. ASSUME NEW t \in Threads, AddJoinTask(t) \/ AddSkewJoinTask(t) PROVE Borne'
  <2> DEFINE c == IF AddJoinTask(t) THEN task[t].c ELSE skewtask.c
             n == NumaId[t]
             new == JoinTask(c, i[t], 0, SubS(c, i[t]))
  <2>1. i[t] \in Clusters2
    BY <1>3, <1>9, FanOutAssumption DEF AddJoinTask, AddSkewJoinTask, Clusters2
  <2>2. c \in Clusters
    <3>1. CASE AddJoinTask(t)
      <4>1. task[t] \in PairTasks
        BY <3>1 DEF AddJoinTask, Typed, TasksTyped
      <4> QED
        BY <3>1, <4>1 DEF PairTasks, PairTask, JoinTask
    <3>2. CASE ~AddJoinTask(t)
      <4>1. AddSkewJoinTask(t)
        BY <1>9, <3>2
      <4>2. pc[0] = "skewtasks" /\ skewtask # NoTask
        BY <4>1, PhaseFacts DEF AddSkewJoinTask
      <4>3. skewtask \in PairTasks
        BY <4>2 DEF Typed, TasksTyped, MaybeTask
      <4> QED
        BY <3>2, <4>3 DEF PairTasks, PairTask, JoinTask
    <3> QED
      BY <3>1, <3>2
  <2>3. \/ join_queue' = join_queue
        \/ SubR(c, i[t]) > 0 /\ join_queue' = [join_queue EXCEPT ![n] = <<new>> \o join_queue[n]]
    BY <1>9 DEF AddJoinTask, AddSkewJoinTask, AddFirst
  <2>4. UNCHANGED <<part_queue, skew_queue, skewtask>>
    BY <1>9 DEF AddJoinTask, AddSkewJoinTask
  <2> HIDE DEF c
  <2>5. ASSUME SubR(c, i[t]) > 0 PROVE new \in WithR
    <3>1. SubS(c, i[t]) \in Nat
      BY <1>3, <2>1, <2>2, InputFacts
    <3>2. /\ new \in [c : Clusters, j : Clusters2, from : Nat, ns : Nat]
          /\ new.c = c /\ new.j = i[t] /\ new.from = 0 /\ new.ns = SubS(c, i[t])
      BY <2>1, <2>2, <3>1 DEF JoinTask
    <3> HIDE DEF new
    <3> QED
      BY <2>5, <3>1, <3>2 DEF JoinTasks, WithR
  <2>6. n \in Nodes /\ join_queue[n] \in Seq(WithR)
    BY <1>2, OwnNode
  <2>7. SubR(c, i[t]) > 0 => <<new>> \o join_queue[n] \in Seq(WithR)
    <3> HIDE DEF new
    <3> QED
      BY <2>5, <2>6, PutFirst
  <2>8. Joins
    BY <1>5, <1>6, <2>3, <2>6, <2>7
  <2> QED
    BY <1>1, <1>4, <1>5, <2>4, <2>8
<1>10. ASSUME NEW t \in Threads, GetSkewTask(t) PROVE Borne'
  <2>1. skew_queue # <<>> => Head(skew_queue) \in LargePairs /\ Tail(skew_queue) \in Seq(LargePairs)
    BY <1>2, TakeFirst
  <2>2. Skews
    BY <1>2, <1>10, <2>1 DEF GetSkewTask, Skews
  <2>3. Shared
    BY <1>10, <2>1 DEF GetSkewTask, Shared
  <2> QED
    BY <1>1, <1>4, <1>5, <1>10, <2>2, <2>3 DEF GetSkewTask
<1>11. ASSUME NEW t \in Threads, AddLargeJoinTasks(t) PROVE Borne'
  <2> DEFINE c == skewtask.c
             n == NumaId[0]
             pieces == [k \in 1 .. NThreads |-> Piece(c, i[t], NThreads - k)]
  <2>1. t = 0 /\ i[t] \in Clusters2 /\ skewtask # NoTask
    BY <1>3, <1>11, PhaseFacts, FanOutAssumption DEF AddLargeJoinTasks, Clusters2
  <2>2. c \in Clusters /\ Large(c)
    <3>1. PICK d \in Clusters : Large(d) /\ skewtask = PairTask(d)
      BY <1>2, <2>1 DEF LargePairs
    <3> QED
      BY <3>1 DEF PairTask, JoinTask
  <2>3. part_queue' = [part_queue EXCEPT ![n] = pieces \o part_queue[n]]
    BY <1>11, <2>1 DEF AddLargeJoinTasks
  <2>4. n \in Nodes /\ Passed(0)
    BY <1>11, <2>1, OwnNode DEF AddLargeJoinTasks, Passed
  <2>5. SubR(c, i[t]) > 0
    <3>1. SubR(c, i[t]) \in Nat /\ SubS(c, i[t]) \in Nat /\ ThresholdJoin \in Nat
      BY <1>3, <2>1, <2>2, InputFacts, ThresholdAssumption
    <3>2. SubR(c, i[t]) > ThresholdJoin \/ SubS(c, i[t]) > ThresholdJoin
      BY <1>11 DEF AddLargeJoinTasks, LargeJoin
    <3>3. ~(SubR(c, i[t]) = 0 /\ SubS(c, i[t]) > ThresholdJoin)
      BY <2>1, <2>2 DEF EmptyLargeTask, Large
    <3> QED
      BY <3>1, <3>2, <3>3
  <2>6. pieces \in Seq(WithR)
    <3> HIDE DEF c
    <3>1. \A k \in 1 .. NThreads : Piece(c, i[t], NThreads - k) \in WithR
      <4>1. \A k \in 1 .. NThreads : NThreads - k \in 0 .. NThreads - 1
        BY ThreadsAssumption
      <4> QED
        BY <1>3, <2>1, <2>2, <2>5, <4>1, PieceFacts DEF WithR
    <3>2. pieces \in [1 .. NThreads -> WithR]
      BY <3>1
    <3> HIDE DEF pieces
    <3>3. NThreads \in Nat
      BY ThreadsAssumption
    <3> QED
      BY <3>2, <3>3
  <2> HIDE DEF pieces
  <2>7. pieces \o part_queue[n] \in Seq(WithR)
    BY <1>2, <2>4, <2>6, AllPutFirst
  <2>8. Parts
    BY <1>3, <2>3, <2>4, <2>7 DEF Parts
  <2> QED
    BY <1>1, <1>5, <1>11, <2>8 DEF AddLargeJoinTasks
<1>12. ASSUME NEW t \in Threads, Transfer(t) PROVE Borne'
  <2> DEFINE n == NumaId[0]
  <2>1. t = 0 /\ Passed(0) /\ n \in Nodes
    BY <1>12, PhaseFacts, ThreadZero, OwnNode DEF Transfer, Passed
  <2>2. part_queue[n] # <<>> /\ part_queue[n] \in Seq(WithR) /\ join_queue[n] \in Seq(WithR)
    BY <1>2, <1>12, <2>1 DEF Transfer, part_queue_of
  <2>3. Head(part_queue[n]) \in WithR /\ Tail(part_queue[n]) \in Seq(WithR)
    BY <2>2, TakeFirst
  <2>4. <<Head(part_queue[n])>> \o join_queue[n] \in Seq(WithR)
    BY <2>2, <2>3, PutFirst
  <2>5. /\ part_queue' = [part_queue EXCEPT ![n] = Tail(part_queue[n])]
        /\ join_queue' = [join_queue EXCEPT ![n] = <<Head(part_queue[n])>> \o join_queue[n]]
        /\ UNCHANGED <<skew_queue, skewtask>>
    BY <1>12, <2>1 DEF Transfer, AddFirst, part_queue_of
  <2>6. Parts
    BY <1>3, <2>1, <2>3, <2>5 DEF Parts
  <2>7. Joins
    BY <1>6, <2>1, <2>4, <2>5
  <2> QED
    BY <1>1, <1>5, <2>5, <2>6, <2>7
<1>13. ASSUME NEW t \in Threads, Join(t) \/ JoinLost(t) PROVE Borne'
  <2> DEFINE n == NumaId[t]
  <2>1. n \in Nodes /\ join_queue[n] # <<>> /\ join_queue[n] \in Seq(WithR)
    BY <1>2, <1>13, OwnNode DEF Join, JoinLost, join_queue_of
  <2>2. Tail(join_queue[n]) \in Seq(WithR)
    BY <2>1, TakeFirst
  <2>3. /\ join_queue' = [join_queue EXCEPT ![n] = Tail(join_queue[n])]
        /\ UNCHANGED <<part_queue, skew_queue, skewtask>>
    BY <1>13 DEF Join, JoinLost
  <2>4. Joins
    BY <1>6, <2>1, <2>2, <2>3
  <2> QED
    BY <1>1, <1>4, <1>5, <2>3, <2>4
<1>14. CASE UNCHANGED <<part_queue, join_queue, skew_queue, skewtask>>
  BY <1>1, <1>4, <1>5, <1>14
<1>15. CASE ReleaseBarrier \/ CollectResult \/ UNCHANGED vars
  BY <1>14, <1>15 DEF ReleaseBarrier, Leave, CollectResult, vars
<1>16. ASSUME NEW t \in Threads,
              \/ TasksMade(t) \/ SerialDone(t) \/ NoPartTask(t) \/ CheckSkewTask(t)
              \/ PartitionSkewR(t) \/ PartitionSkewS(t) \/ CopyOutSkew(t) \/ SkewTasksAdded(t)
              \/ Transferred(t) \/ JoinDone(t)
       PROVE  Borne'
  <2>1. UNCHANGED <<part_queue, join_queue, skew_queue, skewtask>>
    BY <1>16 DEF TasksMade, SerialDone, NoPartTask, CheckSkewTask, PartitionSkewR,
       PartitionSkewS, CopyOutSkew, SkewTasksAdded, Transferred, JoinDone
  <2> QED
    BY <1>14, <2>1
<1>17. ASSUME NEW t \in Threads, Thread(t) PROVE Borne'
  BY <1>7, <1>8, <1>9, <1>10, <1>11, <1>12, <1>13, <1>16, <1>17 DEF Thread
<1> QED
  BY <1>15, <1>17 DEF Next

(* Unless a large join task has no R tuples, no task in the queues does.   *)
LEMMA BorneInvariant == Spec => [](~EmptyLargeTask => Borne)
<1>1. Init => Borne
  <2> SUFFICES ASSUME Init PROVE Borne
    OBVIOUS
  <2>1. /\ \A n \in Nodes : join_queue[n] = <<>> /\ part_queue[n] = <<>>
        /\ skew_queue = <<>> /\ skewtask = NoTask /\ NumaId[0] \in Nodes
    BY OwnNode, ThreadZero DEF Init
  <2>2. <<>> \in Seq(WithR) /\ <<>> \in Seq(LargePairs)
    BY EmptyQueue
  <2> HIDE DEF Init
  <2> QED
    BY <2>1, <2>2 DEF Borne
<1>2. Inv /\ Typed /\ Drained /\ (~EmptyLargeTask => Borne) /\ [Next]_vars
      => (~EmptyLargeTask => Borne)'
  BY BorneInput, BorneStep
<1> QED
  BY <1>1, <1>2, Invariant, TypedInvariant, PTL DEF Spec

(* The join function then counts as many as the task has matches.          *)
LEMMA NothingMiscounted ==
    ASSUME Typed, ~Unbearable, ~EmptyLargeTask => Borne, NEW t \in Threads, Join(t)
    PROVE  Miscounts(Head(join_queue_of(t))) = {0}
<1> DEFINE new == Head(join_queue_of(t))
<1>1. CASE EmptyLargeTask
  BY <1>1 DEF Unbearable, Miscounts, ReadsBeyond
<1>2. CASE ~EmptyLargeTask
  <2>1. join_queue_of(t) \in Seq(WithR) /\ join_queue_of(t) # <<>>
    BY <1>2, OwnNode DEF Borne, Join, join_queue_of
  <2>2. new \in WithR
    BY <2>1, TakeFirst
  <2>3. SubR(new.c, new.j) # 0
    BY <2>2 DEF WithR
  <2> QED
    BY <2>3 DEF Miscounts, ReadsBeyond
<1> QED
  BY <1>1, <1>2

(***************************************************************************)
(* The number of matches.  Each match belongs to a tuple of S; it has been *)
(* counted when that has been joined, by the thread that joined it.        *)
(***************************************************************************)
MatchesOf(c, j) == {<<c, j>>} \X ((1 .. SubR(c, j)) \X (1 .. SubS(c, j)))
TimesProbed(m) == probed[m[1][1]][m[1][2]][m[2][2]]
Found == {m \in Matches : TimesProbed(m) = 1}

CountedBy(by) ==
    /\ by \in [Found -> Threads]
    /\ \A t \in Threads : result[t] = Cardinality({m \in Found : by[m] = t})
    /\ totalresults = Cardinality({m \in Found : by[m] < joined})

Counted ==
    /\ \E by : CountedBy(by)
    /\ joined \in Nat /\ \A t \in Threads : t < joined => pc[t] = "done"

(* What a match is, and that there are finitely many.                      *)
LEMMA MatchFacts ==
    ASSUME tuples \in Inputs
    PROVE  /\ IsFiniteSet(Matches)
           /\ \A c, j, r, s :
                 <<<<c, j>>, <<r, s>>>> \in Matches <=>
                    /\ c \in Clusters /\ j \in Clusters2
                    /\ r \in 1 .. SubR(c, j) /\ s \in 1 .. SubS(c, j)
           /\ \A m \in Matches : \E c \in Clusters, j \in Clusters2 :
                 \E r \in 1 .. SubR(c, j), s \in 1 .. SubS(c, j) : m = <<<<c, j>>, <<r, s>>>>
<1> DEFINE F == {MatchesOf(c, j) : c \in Clusters, j \in Clusters2}
           g == [p \in Clusters \X Clusters2 |-> MatchesOf(p[1], p[2])]
<1>1. Matches = UNION F
  BY DEF Matches, MatchesOf
<1>2. IsFiniteSet(Clusters \X Clusters2)
  <2>1. IsFiniteSet(Clusters) /\ IsFiniteSet(Clusters2)
    BY FanOutAssumption, FS_Interval DEF Clusters, Clusters2
  <2> QED
    BY <2>1, FS_Product
<1>3. g \in Surjection(Clusters \X Clusters2, F)
  <2>1. ASSUME NEW p \in Clusters \X Clusters2 PROVE MatchesOf(p[1], p[2]) \in F
    <3>1. p[1] \in Clusters /\ p[2] \in Clusters2
      BY <2>1
    <3> QED
      BY <3>1
  <2>2. ASSUME NEW c \in Clusters, NEW j \in Clusters2
        PROVE  \E p \in Clusters \X Clusters2 : g[p] = MatchesOf(c, j)
    <3>1. <<c, j>> \in Clusters \X Clusters2
      OBVIOUS
    <3>2. g[<<c, j>>] = MatchesOf(c, j)
      BY <3>1
    <3> HIDE DEF g
    <3> QED
      BY <3>1, <3>2
  <2>3. \A X \in F : \E p \in Clusters \X Clusters2 : g[p] = X
    <3> TAKE X \in F
    <3>1. PICK c \in Clusters, j \in Clusters2 : X = MatchesOf(c, j)
      OBVIOUS
    <3> HIDE DEF g, F
    <3> QED
      BY <2>2, <3>1
  <2>4. g \in [Clusters \X Clusters2 -> F]
    <3> HIDE DEF F
    <3> QED
      BY <2>1
  <2> QED
    BY <2>3, <2>4 DEF Surjection
<1>4. IsFiniteSet(F)
  BY <1>2, <1>3, FS_Surjection
<1>5. ASSUME NEW c \in Clusters, NEW j \in Clusters2 PROVE IsFiniteSet(MatchesOf(c, j))
  <2>1. SubR(c, j) \in Nat /\ SubS(c, j) \in Nat
    BY InputFacts
  <2>2. IsFiniteSet(1 .. SubR(c, j)) /\ IsFiniteSet(1 .. SubS(c, j))
    BY <2>1, FS_Interval
  <2>3. IsFiniteSet((1 .. SubR(c, j)) \X (1 .. SubS(c, j)))
    BY <2>2, FS_Product
  <2>4. IsFiniteSet({<<c, j>>})
    BY FS_Singleton
  <2> QED
    BY <2>3, <2>4, FS_Product DEF MatchesOf
<1>6. \A X \in F : IsFiniteSet(X)
  BY <1>5
<1>7. \A c, j, m : m \in MatchesOf(c, j) <=>
          \E r \in 1 .. SubR(c, j), s \in 1 .. SubS(c, j) : m = <<<<c, j>>, <<r, s>>>>
  BY DEF MatchesOf
<1>8. \A m : m \in UNION F <=>
          \E c \in Clusters, j \in Clusters2 : m \in MatchesOf(c, j)
  OBVIOUS
<1>9. IsFiniteSet(UNION F)
  <2> HIDE DEF F
  <2> QED
    BY <1>4, <1>6, FS_UNION
<1> HIDE DEF F
<1> QED
  BY <1>1, <1>7, <1>8, <1>9

(* The matches of a join task.                                             *)
NewMatches(new) ==
    {<<new.c, new.j>>} \X ((1 .. SubR(new.c, new.j)) \X (new.from + 1 .. new.from + new.ns))

(* A join adds the matches of its task, which had not been found before.   *)
LEMMA JoinFinds ==
    ASSUME Inv, Typed, Drained, Once, NEW t \in Threads, Join(t),
           Miscounts(Head(join_queue_of(t))) = {0}
    PROVE  LET N == NewMatches(Head(join_queue_of(t)))
           IN  /\ Found' = Found \cup N /\ Found \cap N = {}
               /\ IsFiniteSet(N) /\ IsFiniteSet(Found)
               /\ result' = [result EXCEPT ![t] = @ + Cardinality(N)]
<1> DEFINE new == Head(join_queue_of(t))
           N == NewMatches(new)
<1>1. /\ new \in JoinTasks /\ new.c \in Clusters /\ new.j \in Clusters2
      /\ new.from \in Nat /\ new.ns \in Nat /\ new.from + new.ns <= SubS(new.c, new.j)
      /\ SubR(new.c, new.j) \in Nat /\ SubS(new.c, new.j) \in Nat
  BY TaskJoined DEF Join
<1>2. [Next]_vars /\ result' = [result EXCEPT ![t] = @ + SubR(new.c, new.j) * new.ns]
  <2>1. PICK stray \in Miscounts(new) :
            result' = [result EXCEPT ![t] = @ + SubR(new.c, new.j) * new.ns + stray]
    BY DEF Join
  <2>2. result[t] \in Nat /\ SubR(new.c, new.j) * new.ns \in Nat /\ stray = 0
    BY <1>1, <2>1, ProductNat DEF Typed, Numbers
  <2> HIDE DEF new
  <2>3. result[t] + SubR(new.c, new.j) * new.ns + stray = result[t] + SubR(new.c, new.j) * new.ns
    BY <2>2
  <2> QED
    BY <2>1, <2>3 DEF Next, Thread
<1> HIDE DEF new
<1>3. IsFiniteSet(N) /\ Cardinality(N) = SubR(new.c, new.j) * new.ns
  <2>1. PICK r \in Nat, f \in Nat, n \in Nat : r = SubR(new.c, new.j) /\ f = new.from /\ n = new.ns
    BY <1>1
  <2>2. IsFiniteSet(1 .. r) /\ Cardinality(1 .. r) = r
    BY FS_Interval
  <2>3. IsFiniteSet(f + 1 .. f + n) /\ Cardinality(f + 1 .. f + n) = n
    <3>1. f + 1 \in Int /\ f + n \in Int
      OBVIOUS
    <3>2. /\ IsFiniteSet(f + 1 .. f + n)
          /\ Cardinality(f + 1 .. f + n) = IF f + 1 > f + n THEN 0 ELSE (f + n) - (f + 1) + 1
      BY <3>1, FS_Interval
    <3> QED
      BY <3>2
  <2>4. /\ IsFiniteSet((1 .. r) \X (f + 1 .. f + n))
        /\ Cardinality((1 .. r) \X (f + 1 .. f + n)) = r * n
    <3> DEFINE A == 1 .. r
               B == f + 1 .. f + n
    <3>1. IsFiniteSet(A) /\ IsFiniteSet(B) /\ Cardinality(A) = r /\ Cardinality(B) = n
      BY <2>2, <2>3
    <3> HIDE DEF A, B
    <3>2. IsFiniteSet(A \X B) /\ Cardinality(A \X B) = Cardinality(A) * Cardinality(B)
      BY <3>1, FS_Product
    <3> QED
      BY <3>1, <3>2 DEF A, B
  <2> DEFINE A == {<<new.c, new.j>>}
             B == (1 .. r) \X (f + 1 .. f + n)
  <2>5. IsFiniteSet(A) /\ Cardinality(A) = 1
    BY FS_Singleton
  <2> HIDE DEF A, B
  <2>6. IsFiniteSet(A \X B) /\ Cardinality(A \X B) = 1 * Cardinality(B)
    BY <2>4, <2>5, FS_Product DEF B
  <2>7. r * n \in Nat
    BY ProductNat
  <2>8. N = A \X B
    BY <2>1 DEF NewMatches, A, B
  <2> QED
    BY <2>1, <2>4, <2>6, <2>7, <2>8 DEF B
<1>4. \A c, j, r, s : <<<<c, j>>, <<r, s>>>> \in N <=>
          /\ c = new.c /\ j = new.j /\ r \in 1 .. SubR(c, j)
          /\ s \in new.from + 1 .. new.from + new.ns
  BY DEF NewMatches
<1>5. \A m \in N : \E c, j, r, s : m = <<<<c, j>>, <<r, s>>>>
  BY DEF NewMatches
<1> HIDE DEF N
<1>6. ASSUME NEW c \in Clusters, NEW j \in Clusters2, NEW r \in 1 .. SubR(c, j),
             NEW s \in 1 .. SubS(c, j)
      PROVE  /\ probed'[c][j][s] = 1 <=>
                   probed[c][j][s] = 1 \/ <<<<c, j>>, <<r, s>>>> \in N
             /\ ~(probed[c][j][s] = 1 /\ <<<<c, j>>, <<r, s>>>> \in N)
  <2>1. SubR(c, j) > 0 /\ s \in Int
    <3>1. SubR(c, j) \in Nat /\ SubS(c, j) \in Nat
      BY InputFacts DEF Typed
    <3> QED
      BY <3>1
  <2>2. Followed(c, j, s) /\ probed[c][j][s] \in {0, 1}
    BY <2>1 DEF Followed, Once
  <2>3. probed'[c][j][s] \in {0, 1}
    BY <1>2, <2>2, FollowedStep
  <2>4. probed'[c][j][s] = probed[c][j][s] + IF Covers(new, c, j, s) THEN 1 ELSE 0
    BY JoinCounts DEF new
  <2>5. Covers(new, c, j, s) <=> c = new.c /\ j = new.j /\ new.from < s /\ s <= new.from + new.ns
    BY <1>1, CoversFacts DEF Typed
  <2>6. Covers(new, c, j, s) <=> <<<<c, j>>, <<r, s>>>> \in N
    BY <1>1, <1>4, <2>1, <2>5
  <2> QED
    BY <2>2, <2>3, <2>4, <2>6
<1>7. N \subseteq Matches
  <2> SUFFICES ASSUME NEW m \in N PROVE m \in Matches
    OBVIOUS
  <2>1. PICK c, j, r, s : m = <<<<c, j>>, <<r, s>>>>
    BY <1>5
  <2>2. /\ c = new.c /\ j = new.j /\ r \in 1 .. SubR(c, j)
        /\ s \in new.from + 1 .. new.from + new.ns
    BY <1>4, <2>1
  <2>3. s \in 1 .. SubS(c, j)
    BY <1>1, <2>2
  <2> QED
    BY <1>1, <2>1, <2>2, <2>3, MatchFacts DEF Typed
<1>8. Matches' = Matches
  BY <1>2, InputStays DEF Matches, SubR, SubS
<1>9. ASSUME NEW m \in Matches
      PROVE  (m \in Found' <=> m \in Found \/ m \in N) /\ ~(m \in Found /\ m \in N)
  <2>1. PICK c \in Clusters, j \in Clusters2 :
            \E r \in 1 .. SubR(c, j), s \in 1 .. SubS(c, j) : m = <<<<c, j>>, <<r, s>>>>
    BY MatchFacts DEF Typed
  <2>2. PICK r \in 1 .. SubR(c, j), s \in 1 .. SubS(c, j) : m = <<<<c, j>>, <<r, s>>>>
    BY <2>1
  <2>3. m \in Found <=> probed[c][j][s] = 1
    BY <2>2 DEF Found, TimesProbed
  <2>4. m \in Found' <=> probed'[c][j][s] = 1
    BY <1>8, <2>2 DEF Found, TimesProbed
  <2> QED
    BY <1>6, <2>2, <2>3, <2>4
<1>10. Found \subseteq Matches /\ Found' \subseteq Matches
  BY <1>8 DEF Found
<1>11. IsFiniteSet(Found)
  BY <1>10, MatchFacts, FS_Subset DEF Typed
<1>12. Found' = Found \cup N /\ Found \cap N = {}
  BY <1>7, <1>9, <1>10
<1> QED
  BY <1>2, <1>3, <1>11, <1>12 DEF N, new

(* A thread that is done stays so.                                         *)
LEMMA DoneStays ==
    ASSUME Inv, [Next]_vars, NEW u \in Threads, pc[u] = "done"
    PROVE  pc'[u] = "done"
<1>1. CASE ReleaseBarrier
  BY <1>1 DEF ReleaseBarrier, Waiting, Barriers
<1>2. CASE CollectResult \/ UNCHANGED vars
  BY <1>2 DEF CollectResult, vars
<1>3. ASSUME NEW t \in Threads, Thread(t) PROVE pc'[u] = "done"
  <2>1. pc' = pc \/ (pc' = [pc EXCEPT ![t] = pc'[t]] /\ pc[t] # "done")
    BY <1>3 DEF Thread, MakeSkewTask, MakeTask, TasksMade, GetPartTask, AddJoinTask,
       SerialDone, NoPartTask, GetSkewTask, CheckSkewTask, PartitionSkewR, PartitionSkewS,
       CopyOutSkew, AddLargeJoinTasks, AddSkewJoinTask, SkewTasksAdded, Transfer, Transferred,
       Join, JoinLost, JoinDone, Goto, Inv, Shape
  <2>2. DOMAIN pc = Threads
    BY DEF Inv, Shape
  <2> QED
    BY <2>1, <2>2
<1> QED
  BY <1>1, <1>2, <1>3 DEF Next

(* What steps leave the counts alone.                                      *)
LEMMA QuietCounts ==
    ASSUME Inv, Counted, [Next]_vars, UNCHANGED <<probed, result, totalresults, joined>>
    PROVE  Counted'
<1>1. Found' = Found
  BY InputStays DEF Found, TimesProbed, Matches, SubR, SubS
<1>2. PICK by : CountedBy(by)
  BY DEF Counted
<1>3. CountedBy(by)'
  BY <1>1, <1>2 DEF CountedBy
<1>4. joined' \in Nat /\ \A u \in Threads : u < joined' => pc'[u] = "done"
  BY DoneStays DEF Counted
<1> QED
  BY <1>3, <1>4 DEF Counted

(* A thread counts the matches that its join has found.                    *)
LEMMA JoinCounted ==
    ASSUME Inv, Typed, Drained, Once, Counted, NEW t \in Threads, Join(t),
           Miscounts(Head(join_queue_of(t))) = {0}
    PROVE  Counted'
<1>1. PICK N : /\ Found' = Found \cup N /\ Found \cap N = {}
               /\ IsFiniteSet(N) /\ IsFiniteSet(Found)
               /\ result' = [result EXCEPT ![t] = @ + Cardinality(N)]
  BY JoinFinds
<1>2. PICK by : CountedBy(by)
  BY DEF Counted
<1>3. pc[t] = "join" /\ UNCHANGED <<pc, totalresults, joined>> /\ result \in [Threads -> Nat]
  BY DEF Join, Typed, Numbers
<1>4. ~(t < joined) /\ joined \in Nat /\ t \in Nat
  BY <1>3 DEF Counted, Threads
<1>5. PICK with : with = [m \in Found \cup N |-> IF m \in N THEN t ELSE by[m]]
  OBVIOUS
<1>6. with \in [Found' -> Threads]
  BY <1>1, <1>2, <1>5 DEF CountedBy
<1>7. /\ \A m \in N : with[m] = t
      /\ \A m \in Found : with[m] = by[m]
  BY <1>1, <1>5
<1>8. ASSUME NEW u \in Threads
      PROVE  result'[u] = Cardinality({m \in Found' : with[m] = u})
  <2> DEFINE A == {m \in Found : by[m] = u}
  <2>1. result[u] = Cardinality(A) /\ IsFiniteSet(A)
    <3>1. IsFiniteSet(A)
      BY <1>1, FS_Subset
    <3> QED
      BY <1>2, <3>1 DEF CountedBy
  <2>2. CASE u = t
    <3>1. {m \in Found' : with[m] = u} = A \cup N /\ A \cap N = {}
      BY <1>1, <1>7, <2>2
    <3> HIDE DEF A
    <3>2. Cardinality(A \cup N) = Cardinality(A) + Cardinality(N) - Cardinality(A \cap N)
      BY <1>1, <2>1, FS_Union
    <3>3. Cardinality(A) \in Nat /\ Cardinality(N) \in Nat /\ Cardinality(A \cap N) = 0
      BY <1>1, <2>1, <3>1, FS_CardinalityType, FS_EmptySet
    <3>4. result'[t] = result[t] + Cardinality(N)
      BY <1>1, <1>3
    <3>5. Cardinality(A \cup N) = Cardinality(A) + Cardinality(N)
      BY <3>1, <3>2, <3>3
    <3>6. result'[u] = Cardinality(A \cup N)
      BY <2>1, <2>2, <3>4, <3>5
    <3> QED
      BY <3>1, <3>6
  <2>3. CASE u # t
    <3>1. {m \in Found' : with[m] = u} = A
      BY <1>1, <1>7, <2>3
    <3>2. result'[u] = result[u]
      BY <1>1, <1>3, <2>3
    <3> QED
      BY <2>1, <3>1, <3>2
  <2> QED
    BY <2>2, <2>3
<1>9. {m \in Found' : with[m] < joined'} = {m \in Found : by[m] < joined}
  BY <1>1, <1>3, <1>4, <1>7
<1>10. totalresults' = Cardinality({m \in Found' : with[m] < joined'})
  BY <1>2, <1>3, <1>9 DEF CountedBy
<1>11. CountedBy(with)'
  BY <1>6, <1>8, <1>10 DEF CountedBy
<1> QED
  BY <1>3, <1>11 DEF Counted

(* join_init_run adds what one thread more has counted.                    *)
LEMMA CollectCounted ==
    ASSUME Inv, Typed, Counted, CollectResult
    PROVE  Counted'
<1>1. /\ joined \in Threads /\ pc[joined] = "done" /\ joined \in Nat
      /\ totalresults' = totalresults + result[joined] /\ joined' = joined + 1
      /\ UNCHANGED <<input, pc, result, probed>>
  BY ThreadsAssumption DEF CollectResult, Counted, Threads
<1>2. Found' = Found
  BY <1>1 DEF Found, TimesProbed, Matches, SubR, SubS, input
<1>3. PICK by : CountedBy(by)
  BY DEF Counted
<1>4. \A t \in Threads : t \in Nat
  BY DEF Threads
<1> DEFINE A == {m \in Found : by[m] < joined}
           B == {m \in Found : by[m] = joined}
<1>5. {m \in Found : by[m] < joined + 1} = A \cup B /\ A \cap B = {}
  <2>1. \A m \in Found : by[m] \in Nat
    BY <1>3, <1>4 DEF CountedBy
  <2> QED
    BY <1>1, <2>1
<1>6. totalresults = Cardinality(A) /\ result[joined] = Cardinality(B)
  BY <1>1, <1>3 DEF CountedBy
<1>7. IsFiniteSet(A) /\ IsFiniteSet(B)
  <2>1. IsFiniteSet(Found)
    BY MatchFacts, FS_Subset DEF Typed, Found
  <2> QED
    BY <2>1, FS_Subset
<1> HIDE DEF A, B
<1>8. Cardinality(A \cup B) = Cardinality(A) + Cardinality(B)
  <2>1. Cardinality(A \cup B) = Cardinality(A) + Cardinality(B) - Cardinality(A \cap B)
    BY <1>7, FS_Union
  <2>2. Cardinality(A) \in Nat /\ Cardinality(B) \in Nat /\ Cardinality(A \cap B) = 0
    BY <1>5, <1>7, FS_CardinalityType, FS_EmptySet
  <2> QED
    BY <2>1, <2>2
<1>9. totalresults' = Cardinality({m \in Found' : by[m] < joined'})
  BY <1>1, <1>2, <1>5, <1>6, <1>8
<1>10. CountedBy(by)'
  BY <1>1, <1>2, <1>3, <1>9 DEF CountedBy
<1>11. joined' \in Nat /\ \A t \in Threads : t < joined' => pc'[t] = "done"
  BY <1>1, <1>4 DEF Counted
<1> QED
  BY <1>10, <1>11 DEF Counted

(* What is counted are the matches found.                                  *)
LEMMA CountedStep ==
    ASSUME Inv, Typed, Drained, Once, Counted, [Next]_vars,
           ~Unbearable, ~EmptyLargeTask => Borne
    PROVE  Counted'
<1>1. CASE CollectResult
  BY <1>1, CollectCounted
<1>2. ASSUME NEW t \in Threads, Join(t) PROVE Counted'
  BY <1>2, NothingMiscounted, JoinCounted
<1>3. CASE ReleaseBarrier \/ UNCHANGED vars
  <2>1. UNCHANGED <<probed, result, totalresults, joined>>
    BY <1>3 DEF ReleaseBarrier, Leave, vars
  <2> QED
    BY <2>1, QuietCounts
<1>4. ASSUME NEW t \in Threads, Thread(t), ~Join(t) PROVE Counted'
  <2>1. UNCHANGED <<probed, result, totalresults, joined>>
    BY <1>4 DEF Thread, MakeSkewTask, MakeTask, TasksMade, GetPartTask, AddJoinTask,
       SerialDone, NoPartTask, GetSkewTask, CheckSkewTask, PartitionSkewR, PartitionSkewS,
       CopyOutSkew, AddLargeJoinTasks, AddSkewJoinTask, SkewTasksAdded, Transfer, Transferred,
       JoinLost, JoinDone
  <2> QED
    BY <2>1, QuietCounts
<1> QED
  BY <1>1, <1>2, <1>3, <1>4 DEF Next

(* At first, nothing is found.                                             *)
LEMMA InitCounted == Init => Counted
<1> SUFFICES ASSUME Init PROVE Counted
  OBVIOUS
<1>1. Found = {}
  <2> SUFFICES ASSUME NEW m \in Matches PROVE TimesProbed(m) = 0
    BY DEF Found
  <2>1. PICK c \in Clusters, j \in Clusters2 :
            \E r \in 1 .. SubR(c, j), s \in 1 .. SubS(c, j) : m = <<<<c, j>>, <<r, s>>>>
    BY MatchFacts DEF Init
  <2>2. PICK r \in 1 .. SubR(c, j), s \in 1 .. SubS(c, j) : m = <<<<c, j>>, <<r, s>>>>
    BY <2>1
  <2>3. probed[c][j][s] = 0
    BY <2>2 DEF Init
  <2> QED
    BY <2>2, <2>3 DEF TimesProbed
<1> DEFINE by == [m \in {} |-> 0]
<1>2. by \in [Found -> Threads]
  BY <1>1
<1>3. Cardinality({}) = 0
  BY FS_EmptySet
<1>4. /\ \A t \in Threads : {m \in Found : by[m] = t} = {}
      /\ {m \in Found : by[m] < joined} = {}
  BY <1>1
<1> HIDE DEF by
<1>5. CountedBy(by)
  BY <1>2, <1>3, <1>4 DEF Init, CountedBy
<1>6. joined = 0 /\ \A t \in Threads : ~(t < 0)
  BY DEF Init, Threads
<1> QED
  BY <1>5, <1>6 DEF Counted

(* join_init_run returns the number of matches, whatever thread joined     *)
(* what: each match was found, and counted once.  With PRH's join function *)
(* it does so on any input; with the others, unless a large join task has  *)
(* no R tuples.                                                            *)
THEOREM ResultIsRight == Spec => []ResultRight
<1>1. Typed /\ Drained /\ Once /\ (~Unbearable => Counted) => ResultRight
  <2> SUFFICES ASSUME Typed, Drained, Once, Counted, joined = NThreads
               PROVE  totalresults = Cardinality(Matches)
    BY DEF ResultRight, ResultIsCount
  <2>1. \A t \in Threads : t < joined /\ pc[t] = "done"
    BY ThreadsAssumption DEF Counted, Threads
  <2>2. Found = Matches
    <3> SUFFICES ASSUME NEW m \in Matches PROVE TimesProbed(m) = 1
      BY DEF Found
    <3>1. PICK c \in Clusters, j \in Clusters2 :
              \E r \in 1 .. SubR(c, j), s \in 1 .. SubS(c, j) : m = <<<<c, j>>, <<r, s>>>>
      BY MatchFacts DEF Typed
    <3>2. PICK r \in 1 .. SubR(c, j), s \in 1 .. SubS(c, j) : m = <<<<c, j>>, <<r, s>>>>
      BY <3>1
    <3>3. SubR(c, j) > 0
      <4>1. SubR(c, j) \in Nat
        BY InputFacts DEF Typed
      <4> QED
        BY <3>2, <4>1
    <3>4. probed[c][j][s] = 1
      BY <2>1, <3>3, OnlyProbedLeft
    <3> QED
      BY <3>2, <3>4 DEF TimesProbed
  <2>3. PICK by : CountedBy(by)
    BY DEF Counted
  <2>4. {m \in Found : by[m] < joined} = Found
    BY <2>1, <2>3 DEF CountedBy
  <2> QED
    BY <2>2, <2>3, <2>4 DEF CountedBy
<1>2. /\ Inv /\ Typed /\ Drained /\ Once /\ (~EmptyLargeTask => Borne) /\ [Next]_vars
      /\ (~Unbearable => Counted)
      => (~Unbearable => Counted)'
  BY BorneInput, CountedStep
<1>3. Spec => [](~Unbearable => Counted)
  BY <1>2, InitCounted, Invariant, TypedInvariant, OnceInvariant, BorneInvariant, PTL DEF Spec
<1> QED
  BY <1>1, <1>3, TypedInvariant, OnceInvariant, PTL
=============================================================================
