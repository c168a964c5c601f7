--------------------------- MODULE PthreadBarrier ---------------------------
(***************************************************************************)
(* What every join algorithm here expects of BARRIER_ARRIVE: nobody comes  *)
(* back from its n-th call before everybody has made an n-th call.         *)
(***************************************************************************)
EXTENDS Integers

CONSTANTS
    Threads,    \* the threads the barrier was initialised for
    MaxRounds   \* bound: how often each thread calls it

VARIABLES
    calls,      \* calls[t]: the calls to pthread_barrier_wait t has made
    returns     \* returns[t]: those that have returned

vars == <<calls, returns>>

Init ==
    /\ calls = [t \in Threads |-> 0]
    /\ returns = [t \in Threads |-> 0]

Call(t) ==
    /\ calls[t] = returns[t] /\ calls[t] < MaxRounds
    /\ calls' = [calls EXCEPT ![t] = @ + 1]
    /\ UNCHANGED returns

Return(t) ==
    /\ returns[t] < calls[t]
    /\ \A u \in Threads : calls[u] >= calls[t]
    /\ returns' = [returns EXCEPT ![t] = @ + 1]
    /\ UNCHANGED calls

Next == \E t \in Threads : Call(t) \/ Return(t)

Spec == Init /\ [][Next]_vars
=============================================================================
