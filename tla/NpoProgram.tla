----------------------------- MODULE NpoProgram -----------------------------
(***************************************************************************)
(* What main.c runs for NPO: threads generate a relation, threads join two *)
(* of them, and where the platform has no barrier both use the fallback of *)
(* barrier.h.  The three share nothing at run time, so that a behaviour is *)
(* one of the generator, one of the join or one of the fallback (part),    *)
(* and the others stay in one of their initial states.  But for the two    *)
(* below the properties are those of the three modules.                    *)
(***************************************************************************)
EXTENDS CondBarrier, RelationGenerator, NoPartitioningJoin

CONSTANT Parts  \* of "generator", "npo" and "barrier"

VARIABLE part

programVars == <<part, barrierVars, genVars, vars>>

ProgramInit ==
    /\ part \in Parts
    /\ BarrierInit /\ GenInit /\ Init
    /\ part # "barrier" => spurious
    /\ part # "generator" => input = CHOOSE in \in Inputs : TRUE
    /\ part # "npo" => /\ rel = CHOOSE input0 \in Relations : TRUE
                       /\ alg = CHOOSE name \in Algorithms : TRUE
-----------------------------------------------------------------------------
InGenerator == part = "generator" /\ UNCHANGED <<part, barrierVars, vars>>
InJoin == part = "npo" /\ UNCHANGED <<part, barrierVars, genVars>>
InBarrier == part = "barrier" /\ UNCHANGED <<part, genVars, vars>>

OpenForGenerators == InGenerator /\ ReleaseGenerators
GeneratorStep(t) == InGenerator /\ t \in GenThreads /\ ThreadStep(t)

OpenForJoin == InJoin /\ ReleaseBarrier
JoinStep(t) == InJoin /\ Thread(t)
Collect == InJoin /\ CollectResult
WriteFile == InJoin /\ write_result_relation

Arrive(t) == InBarrier /\ (LastArrives(t) \/ ArriveAndWait(t))
Return(t) == InBarrier /\ LeaveBarrier(t)
WakeUp(t) == InBarrier /\ SpuriousWakeup(t)

ProgramNext ==
    \/ OpenForGenerators \/ \E t \in AllThreads : GeneratorStep(t)
    \/ OpenForJoin \/ Collect \/ WriteFile
    \/ \E t \in Threads : JoinStep(t)
    \/ \E t \in Callers : Arrive(t) \/ Return(t) \/ WakeUp(t)

ProgramSpec == ProgramInit /\ [][ProgramNext]_programVars

(* Every thread is scheduled again and again: nothing favours a spinning   *)
(* thread, which gets its lock or latch once the others, who swap or       *)
(* insert finitely many tuples, no longer want it; a thread that was woken *)
(* gets the mutex.  A barrier opens once all are there, and main goes on.  *)
ProgramFairSpec ==
    /\ ProgramSpec
    /\ WF_programVars(OpenForGenerators)
    /\ \A t \in AllThreads : WF_programVars(GeneratorStep(t))
    /\ WF_programVars(OpenForJoin) /\ WF_programVars(Collect) /\ WF_programVars(WriteFile)
    /\ \A t \in Threads : WF_programVars(JoinStep(t))
    /\ \A t \in Callers : WF_programVars(Arrive(t)) /\ WF_programVars(Return(t))
-----------------------------------------------------------------------------
(* The generator's threads do not deadlock over pairs of locks, and the    *)
(* relation is complete in the end.                                        *)
Termination == <>(part = "generator" => Complete)

(* Every thread of the join gets the latches it needs and ends, and so     *)
(* does the join.                                                          *)
JoinEnds == <>(part = "npo" => Ended)
=============================================================================
