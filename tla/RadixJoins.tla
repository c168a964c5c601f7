----------------------------- MODULE RadixJoins -----------------------------
(***************************************************************************)
(* main's choice of a radix join: one of the single-threaded ones (RJ,     *)
(* BRJ) or of the parallel ones, with its join function (PRO, PRH, PRHO,   *)
(* BPRO, BPRH, BPRHO).  The other module's variables stay None.            *)
(***************************************************************************)
EXTENDS JoinFunctions

CONSTANTS Bits, Threads, JoinFunctionNames, Junk, None

ASSUME JunkAssumption == Junk \subseteq Nat
ASSUME ThreadsAssumption == Threads # {}

VARIABLES
    algo, in,
    alg, smem, num, bitmap, step, count, i, start, result,
    join_function, mem, part_queue, join_queue, pc, task, output, hist, results

serialVars == <<alg, smem, num, bitmap, step, count, i, start, result>>
parallelVars ==
    <<join_function, mem, part_queue, join_queue, pc, task, output, hist, results>>
vars == <<algo, in, serialVars, parallelVars>>

Serial == INSTANCE SerialRadixJoin WITH mem <- smem
Parallel == INSTANCE SecondPass

SerialIdle ==
    /\ alg = None /\ smem = None /\ num = None /\ bitmap = None /\ step = None
    /\ count = None /\ i = None /\ start = None /\ result = None
ParallelIdle ==
    /\ join_function = None /\ mem = None /\ part_queue = None /\ join_queue = None
    /\ pc = None /\ task = None /\ output = None /\ hist = None /\ results = None

Init ==
    \/ algo = "serial" /\ Serial!Init /\ ParallelIdle
    \/ algo = "parallel" /\ Parallel!Init /\ SerialIdle

SerialStep == algo = "serial" /\ Serial!Next /\ UNCHANGED <<algo, parallelVars>>
ParallelStep(t) ==
    algo = "parallel" /\ Parallel!ThreadStep(t) /\ UNCHANGED <<algo, serialVars>>
ParallelRelease ==
    algo = "parallel" /\ Parallel!ReleaseBarrier /\ UNCHANGED <<algo, serialVars>>

Next == SerialStep \/ ParallelRelease \/ \E t \in Threads : ParallelStep(t)

Spec == Init /\ [][Next]_vars
FairSpec ==
    Spec /\ WF_vars(SerialStep) /\ WF_vars(ParallelRelease)
         /\ \A t \in Threads : WF_vars(ParallelStep(t))
-----------------------------------------------------------------------------
(* The properties of the two modules, for the one that runs.               *)

(* Both keep their types.                                                  *)
TypeOK == IF algo = "serial" THEN Serial!TypeOK ELSE Parallel!TypeOK

(* In the second pass and in the join loop no thread may write where       *)
(* another's task is, or beyond the relation's allocation.                 *)
TasksApart == algo = "parallel" => Parallel!TasksApart

(* A join task's slots hold all tuples of R and S with one value of the    *)
(* radix bits, whatever other threads have written next to them.           *)
ClustersRight == algo = "parallel" => Parallel!ClustersRight

(* Every algorithm returns the number of pairs of equal keys ("@return     *)
(* number of result tuples", parallel_radix_join.h:79).                    *)
ResultIsCount == IF algo = "serial" THEN Serial!ResultRight ELSE Parallel!ResultIsCount

(* It does, unless PRHO, looking for key 0, meets the 0 that it writes     *)
(* behind a cluster of R.                                                  *)
ResultRight == IF algo = "serial" THEN Serial!ResultRight ELSE Parallel!ResultRight

(* Every algorithm ends.                                                   *)
Termination ==
    <>(IF algo = "serial" THEN i = NUM_RADIX ELSE \A t \in Threads : pc[t] = "done")
=============================================================================
