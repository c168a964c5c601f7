----------------------------- MODULE CondBarrier -----------------------------
(***************************************************************************)
(* The barrier of barrier.h for platforms without pthread_barrier_wait: a  *)
(* counter, a mutex and a condition variable.  Everything barrier_wait     *)
(* does between taking the mutex and giving it up (by unlocking it or in   *)
(* pthread_cond_wait) is one action.                                       *)
(***************************************************************************)
EXTENDS Integers, FiniteSets

CONSTANTS
    Callers,        \* the threads that use the barrier
    MaxRounds,      \* bound: how often each thread calls barrier_wait
    SpuriousWakeups \* the systems: {TRUE}, {FALSE} or BOOLEAN, see spurious

ASSUME RoundsAssumption == MaxRounds \in Nat /\ SpuriousWakeups \subseteq BOOLEAN
ASSUME ThreadsAssumption == IsFiniteSet(Callers) /\ Callers # {}

VARIABLES
    spurious,   \* whether pthread_cond_wait may return on its own; never changes
    called,     \* barrier->called
    waiting,    \* the threads blocked in pthread_cond_wait
    awake,      \* the threads on their way out of barrier_wait
    calls,      \* calls[t]: the calls to barrier_wait t has made
    returns     \* returns[t]: those that have returned

barrierVars == <<spurious, called, waiting, awake, calls, returns>>

needed == Cardinality(Callers)

BarrierInit ==
    /\ spurious \in SpuriousWakeups
    /\ called = 0
    /\ waiting = {}
    /\ awake = {}
    /\ calls = [t \in Callers |-> 0]
    /\ returns = [t \in Callers |-> 0]

MayCall(t) == calls[t] = returns[t] /\ calls[t] < MaxRounds

LastArrivesSignals(t) ==                  \* slip: signal, not broadcast
    /\ MayCall(t)
    /\ called + 1 = needed
    /\ called' = 0
    /\ \E u \in waiting : awake' = awake \cup {t, u} /\ waiting' = waiting \ {u}
    /\ calls' = [calls EXCEPT ![t] = @ + 1]
    /\ UNCHANGED <<spurious, returns>>

(* called++, and then: the last one resets the counter and wakes everyone. *)
LastArrives(t) ==
    /\ MayCall(t)
    /\ called + 1 = needed
    /\ called' = 0
    /\ awake' = awake \cup waiting \cup {t}
    /\ waiting' = {}
    /\ calls' = [calls EXCEPT ![t] = @ + 1]
    /\ UNCHANGED <<spurious, returns>>

ArriveAndPass(t) ==                       \* slip: no pthread_cond_wait
    /\ MayCall(t)
    /\ called + 1 # needed
    /\ called' = called + 1
    /\ awake' = awake \cup {t}
    /\ calls' = [calls EXCEPT ![t] = @ + 1]
    /\ UNCHANGED <<spurious, waiting, returns>>

ArriveAndWait(t) ==
    /\ MayCall(t)
    /\ called + 1 # needed
    /\ called' = called + 1
    /\ waiting' = waiting \cup {t}
    /\ calls' = [calls EXCEPT ![t] = @ + 1]
    /\ UNCHANGED <<spurious, awake, returns>>

(* A thread that waits takes the mutex back in pthread_cond_wait; it and   *)
(* the last one to arrive unlock it and return, and look at nothing.       *)
LeaveBarrier(t) ==
    /\ t \in awake
    /\ awake' = awake \ {t}
    /\ returns' = [returns EXCEPT ![t] = @ + 1]
    /\ UNCHANGED <<spurious, called, waiting, calls>>

(* pthread_cond_wait may return although nobody signalled (POSIX).         *)
SpuriousWakeup(t) ==
    /\ spurious /\ t \in waiting
    /\ waiting' = waiting \ {t}
    /\ awake' = awake \cup {t}
    /\ UNCHANGED <<spurious, called, calls, returns>>

BarrierNext ==
    \E t \in Callers :
        LastArrives(t) \/ ArriveAndWait(t) \/ LeaveBarrier(t) \/ SpuriousWakeup(t)

BarrierSpec == BarrierInit /\ [][BarrierNext]_barrierVars

-----------------------------------------------------------------------------
(* The counter is never left at or above needed, a thread is blocked or on *)
(* its way out exactly while a call of its has not returned.               *)
CountsOK ==
    /\ called \in 0 .. needed - 1
    /\ waiting \subseteq Callers /\ awake \subseteq Callers
    /\ waiting \cap awake = {}
    /\ calls \in [Callers -> 0 .. MaxRounds]
    /\ returns \in [Callers -> 0 .. MaxRounds]
    /\ \A t \in Callers :
          calls[t] = returns[t] + IF t \in waiting \cup awake THEN 1 ELSE 0

(* No wakeup is lost, spurious wakeups or not: every blocked thread is     *)
(* counted in called, so the arrival that completes the count is still to  *)
(* come and wakes it.                                                      *)
WaitersCounted == Cardinality(waiting) <= called

(* Nobody returns from its n-th call before everybody has made it: what    *)
(* "wait at a barrier until each thread complete histograms" relies on     *)
(* (parallel_radix_partition).                                             *)
NobodyLeavesEarly == \A t, u \in Callers : returns[t] <= calls[u]

(* Each thread makes all its calls, and each of them returns: the counter  *)
(* that is reset under the mutex lets the barrier be used again at once,   *)
(* by threads that overtake those still on their way out.  A spurious      *)
(* wakeup would take that away: who leaves early counts twice in a round.  *)
AllCallsReturn == <>(spurious \/ \A t \in Callers : returns[t] = MaxRounds)

(* The round: how often the barrier has opened.  All are in it, and those  *)
(* blocked have arrived for the next.                                      *)
InRound ==
    \E r \in 0 .. MaxRounds :
        \A t \in Callers : calls[t] = r + IF t \in waiting THEN 1 ELSE 0

CountExact == called = Cardinality(waiting)

NoCalls == [t \in Callers |-> 0]

Barrier == INSTANCE PthreadBarrier WITH
    Threads <- Callers,
    calls <- IF spurious THEN NoCalls ELSE calls,
    returns <- IF spurious THEN NoCalls ELSE returns

(* Without spurious wakeups the fallback is a barrier in the sense of      *)
(* pthread_barrier_wait, through any number of rounds.                     *)
ImplementsBarrier == Barrier!Spec
=============================================================================
