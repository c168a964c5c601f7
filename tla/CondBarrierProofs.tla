-------------------------- MODULE CondBarrierProofs --------------------------
(***************************************************************************)
(* The condition-variable barrier of barrier.h loses no wakeup, and is a   *)
(* barrier if there are no spurious ones, for any number of threads and of *)
(* rounds.                                                                 *)
(***************************************************************************)
EXTENDS CondBarrier, FiniteSetTheorems, TLAPS

(* The inductive invariant: CountsOK says who is inside a call, InRound that *)
(* exactly the blocked threads are one call ahead, CountExact that the     *)
(* counter counts just them - which a spurious wakeup would break.         *)
IInv == CountsOK /\ InRound /\ CountExact

(* The counter can be compared with needed: both are numbers, and there is *)
(* at least one thread.                                                    *)
LEMMA NeededIsPositive == needed \in Nat \ {0}
BY ThreadsAssumption, FS_CardinalityType, FS_EmptySet DEF needed

(* The thread whose arrival completes the count finds all others blocked:  *)
(* the counter of barrier_wait is exact.                                   *)
LEMMA LastFindsOthersBlocked ==
    ASSUME IInv, NEW t \in Callers, LastArrives(t)
    PROVE  waiting = Callers \ {t} /\ awake = {}
<1>1. t \notin waiting /\ t \notin awake
  BY DEF IInv, CountsOK, LastArrives, MayCall
<1>2. waiting \in SUBSET (Callers \ {t})
  BY <1>1 DEF IInv, CountsOK
<1>3. IsFiniteSet(Callers \ {t}) /\ Cardinality(Callers \ {t}) = needed - 1
  BY ThreadsAssumption, FS_RemoveElement DEF needed
<1>4. Cardinality(waiting) = needed - 1
  BY NeededIsPositive DEF IInv, CountsOK, CountExact, LastArrives
<1>5. waiting = Callers \ {t}
  BY <1>2, <1>3, <1>4, FS_Subset
<1> QED
  BY <1>1, <1>5 DEF IInv, CountsOK

(* Before the first call nobody waits and the counter is 0.                *)
LEMMA InitEstablishes == BarrierInit => IInv
<1> SUFFICES ASSUME BarrierInit PROVE IInv
  OBVIOUS
<1>1. CountsOK
  BY NeededIsPositive, RoundsAssumption DEF BarrierInit, CountsOK
<1>2. InRound
  BY RoundsAssumption DEF BarrierInit, InRound
<1>3. CountExact
  BY FS_EmptySet DEF BarrierInit, CountExact
<1> QED
  BY <1>1, <1>2, <1>3 DEF IInv

(* The arrival that opens the barrier starts the next round for all.       *)
LEMMA LastArrivesPreserves ==
    ASSUME IInv, NEW t \in Callers, LastArrives(t)
    PROVE  IInv'
<1> USE RoundsAssumption
<1>1. waiting = Callers \ {t} /\ awake = {}
  BY LastFindsOthersBlocked
<1>2. waiting' = {} /\ awake' = Callers /\ called' = 0
  BY <1>1 DEF LastArrives
<1>3. PICK r \in 0 .. MaxRounds :
        \A u \in Callers : calls[u] = r + IF u \in waiting THEN 1 ELSE 0
  BY DEF IInv, InRound
<1>4. calls[t] = r /\ r < MaxRounds
  BY <1>1, <1>3 DEF LastArrives, MayCall
<1>5. \A u \in Callers : calls'[u] = r + 1
  BY <1>1, <1>3, <1>4 DEF LastArrives, IInv, CountsOK
<1>6. InRound'
  BY <1>2, <1>4, <1>5 DEF InRound
<1>7. \A u \in Callers : calls[u] = returns[u] + IF u = t THEN 0 ELSE 1
  BY <1>1 DEF IInv, CountsOK, LastArrives, MayCall
<1>8. \A u \in Callers : calls'[u] = returns'[u] + 1
  BY <1>7 DEF LastArrives, IInv, CountsOK
<1>9. calls' \in [Callers -> 0 .. MaxRounds] /\ returns' = returns
  BY DEF LastArrives, MayCall, IInv, CountsOK
<1>10. CountsOK'
  BY <1>2, <1>8, <1>9, NeededIsPositive DEF CountsOK, IInv
<1>11. CountExact'
  BY <1>2, FS_EmptySet DEF CountExact
<1> QED
  BY <1>6, <1>10, <1>11 DEF IInv

(* A thread that arrives earlier is counted and blocked.                   *)
LEMMA ArriveAndWaitPreserves ==
    ASSUME IInv, NEW t \in Callers, ArriveAndWait(t)
    PROVE  IInv'
<1> USE RoundsAssumption
<1>1. t \notin waiting /\ t \notin awake
  BY DEF IInv, CountsOK, ArriveAndWait, MayCall
<1>2. called' \in 0 .. needed - 1
  BY NeededIsPositive DEF IInv, CountsOK, ArriveAndWait
<1>3. CountsOK'
  BY <1>1, <1>2 DEF IInv, CountsOK, ArriveAndWait, MayCall
<1>4. PICK r \in 0 .. MaxRounds :
        \A u \in Callers : calls[u] = r + IF u \in waiting THEN 1 ELSE 0
  BY DEF IInv, InRound
<1>5. \A u \in Callers : calls'[u] = r + IF u \in waiting' THEN 1 ELSE 0
  BY <1>1, <1>4 DEF ArriveAndWait, IInv, CountsOK
<1>6. InRound'
  BY <1>5 DEF InRound
<1>7. IsFiniteSet(waiting)
  BY ThreadsAssumption, FS_Subset DEF IInv, CountsOK
<1>8. CountExact'
  BY <1>1, <1>7, FS_AddElement DEF IInv, CountExact, ArriveAndWait
<1> QED
  BY <1>3, <1>6, <1>8 DEF IInv

(* A thread that returns from barrier_wait changes no count.               *)
LEMMA LeavePreserves ==
    ASSUME IInv, NEW t \in Callers, LeaveBarrier(t)
    PROVE  IInv'
<1> USE RoundsAssumption
<1>1. CountsOK'
  BY DEF IInv, CountsOK, LeaveBarrier
<1>2. InRound'
  BY DEF IInv, InRound, LeaveBarrier
<1>3. CountExact'
  BY DEF IInv, CountExact, LeaveBarrier
<1> QED
  BY <1>1, <1>2, <1>3 DEF IInv

(* Without spurious wakeups every step of barrier_wait keeps the counter   *)
(* equal to the number of blocked threads, and all in the same round.      *)
LEMMA NextPreserves ==
    ASSUME ~spurious, IInv, [BarrierNext]_barrierVars
    PROVE  IInv'
<1>1. ASSUME NEW t \in Callers, LastArrives(t) PROVE IInv'
  BY <1>1, LastArrivesPreserves
<1>2. ASSUME NEW t \in Callers, ArriveAndWait(t) PROVE IInv'
  BY <1>2, ArriveAndWaitPreserves
<1>3. ASSUME NEW t \in Callers, LeaveBarrier(t) PROVE IInv'
  BY <1>3, LeavePreserves
<1>4. CASE UNCHANGED barrierVars
  BY <1>4 DEF IInv, CountsOK, InRound, CountExact, barrierVars
<1> QED
  BY <1>1, <1>2, <1>3, <1>4 DEF BarrierNext, SpuriousWakeup

(* No step changes what system the barrier runs on.                        *)
LEMMA SystemStays == [BarrierNext]_barrierVars => spurious' = spurious
BY DEF BarrierNext, barrierVars, LastArrives, ArriveAndWait, LeaveBarrier, SpuriousWakeup

-----------------------------------------------------------------------------
(* Whoever leaves the barrier leaves it when all have arrived: each step   *)
(* is a call or a return that pthread_barrier_wait could make, or none.    *)
LEMMA StepRefines ==
    ASSUME spurious \/ IInv, [BarrierNext]_barrierVars
    PROVE  [Barrier!Next]_(Barrier!vars)
<1>1. CASE spurious
  BY <1>1, SystemStays DEF Barrier!vars
<1> SUFFICES ASSUME ~spurious, ~spurious', IInv PROVE [Barrier!Next]_(Barrier!vars)
  BY <1>1, SystemStays
<1>2. ASSUME NEW t \in Callers, LastArrives(t) \/ ArriveAndWait(t)
      PROVE  Barrier!Call(t)
  BY <1>2 DEF LastArrives, ArriveAndWait, MayCall, Barrier!Call
<1>3. ASSUME NEW t \in Callers, LeaveBarrier(t) PROVE Barrier!Return(t)
  <2>1. PICK r \in 0 .. MaxRounds :
          \A u \in Callers : calls[u] = r + IF u \in waiting THEN 1 ELSE 0
    BY DEF IInv, InRound
  <2>2. t \in awake /\ t \notin waiting
    BY <1>3 DEF LeaveBarrier, IInv, CountsOK
  <2>3. \A u \in Callers : calls[u] >= calls[t]
    BY <2>1, <2>2
  <2>4. returns[t] < calls[t]
    BY <2>2, RoundsAssumption DEF IInv, CountsOK
  <2> QED
    BY <1>3, <2>3, <2>4 DEF LeaveBarrier, Barrier!Return
<1>4. CASE UNCHANGED barrierVars
  BY <1>4 DEF barrierVars, Barrier!vars
<1> QED
  BY <1>2, <1>3, <1>4 DEF BarrierNext, SpuriousWakeup, Barrier!Next

(* barrier_wait of the fallback implements the contract of                 *)
(* pthread_barrier_wait, provided that pthread_cond_wait returns only when *)
(* it has been signalled (the contract is empty for other systems).        *)
THEOREM FallbackIsABarrier == BarrierSpec => ImplementsBarrier
<1>1. BarrierInit => Barrier!Init
  BY DEF BarrierInit, Barrier!Init, NoCalls
<1>2. (spurious \/ IInv) /\ [BarrierNext]_barrierVars => (spurious \/ IInv)'
  BY NextPreserves, SystemStays
<1>3. (spurious \/ IInv) /\ [BarrierNext]_barrierVars => [Barrier!Next]_(Barrier!vars)
  BY StepRefines
<1> QED
  BY <1>1, <1>2, <1>3, InitEstablishes, PTL DEF BarrierSpec, ImplementsBarrier, Barrier!Spec

-----------------------------------------------------------------------------
(* What holds with spurious wakeups, too: each takes a thread out of       *)
(* waiting but none out of the count, so the count can only be too high.   *)
Counted == CountsOK /\ WaitersCounted

(* The arrival that opens the barrier leaves nobody blocked, whoever else  *)
(* has been woken for no reason before.                                    *)
LEMMA LastArrivesKeepsCount ==
    ASSUME Counted, NEW t \in Callers, LastArrives(t)
    PROVE  Counted'
<1> USE RoundsAssumption
<1>1. t \notin waiting /\ t \notin awake
  BY DEF Counted, CountsOK, LastArrives, MayCall
<1>2. waiting' = {} /\ awake' = awake \cup waiting \cup {t} /\ called' = 0
  BY DEF LastArrives
<1>3. calls' \in [Callers -> 0 .. MaxRounds] /\ returns' = returns
  BY DEF LastArrives, MayCall, Counted, CountsOK
<1>4. \A u \in Callers : calls'[u] = IF u = t THEN calls[u] + 1 ELSE calls[u]
  BY DEF LastArrives, Counted, CountsOK
<1>5. ASSUME NEW u \in Callers
      PROVE  calls'[u] = returns'[u] + IF u \in waiting' \cup awake' THEN 1 ELSE 0
  BY <1>1, <1>2, <1>3, <1>4 DEF Counted, CountsOK
<1>6. CountsOK'
  BY <1>2, <1>3, <1>5, NeededIsPositive DEF CountsOK, Counted
<1>7. WaitersCounted'
  BY <1>2, FS_EmptySet DEF WaitersCounted
<1> QED
  BY <1>6, <1>7 DEF Counted

(* A thread that is to be blocked is counted under the same mutex.         *)
LEMMA ArriveAndWaitKeepsCount ==
    ASSUME Counted, NEW t \in Callers, ArriveAndWait(t)
    PROVE  Counted'
<1> USE RoundsAssumption
<1>1. t \notin waiting /\ t \notin awake
  BY DEF Counted, CountsOK, ArriveAndWait, MayCall
<1>2. called' \in 0 .. needed - 1
  BY NeededIsPositive DEF Counted, CountsOK, ArriveAndWait
<1>3. CountsOK'
  BY <1>1, <1>2 DEF Counted, CountsOK, ArriveAndWait, MayCall
<1>4. IsFiniteSet(waiting)
  BY ThreadsAssumption, FS_Subset DEF Counted, CountsOK
<1>5. Cardinality(waiting') = Cardinality(waiting) + 1
  BY <1>1, <1>4, FS_AddElement DEF ArriveAndWait
<1>6. Cardinality(waiting) \in Nat
  BY <1>4, FS_CardinalityType
<1>7. WaitersCounted'
  BY <1>5, <1>6, NeededIsPositive DEF Counted, CountsOK, WaitersCounted, ArriveAndWait
<1> QED
  BY <1>3, <1>7 DEF Counted

(* Whoever wakes up for no reason stays counted: there are fewer waiters.  *)
LEMMA SpuriousWakeupKeepsCount ==
    ASSUME Counted, NEW t \in Callers, SpuriousWakeup(t)
    PROVE  Counted'
<1>1. CountsOK'
  BY DEF Counted, CountsOK, SpuriousWakeup
<1>2. IsFiniteSet(waiting)
  BY ThreadsAssumption, FS_Subset DEF Counted, CountsOK
<1>3. Cardinality(waiting') = Cardinality(waiting) - 1
  BY <1>2, FS_RemoveElement DEF SpuriousWakeup
<1>4. Cardinality(waiting) \in Nat
  BY <1>2, FS_CardinalityType
<1>5. WaitersCounted'
  BY <1>3, <1>4, NeededIsPositive DEF Counted, CountsOK, WaitersCounted, SpuriousWakeup
<1> QED
  BY <1>1, <1>5 DEF Counted

(* No step of barrier_wait leaves a blocked thread uncounted.              *)
LEMMA NextKeepsCount ==
    ASSUME Counted, [BarrierNext]_barrierVars
    PROVE  Counted'
<1>1. ASSUME NEW t \in Callers, LastArrives(t) PROVE Counted'
  BY <1>1, LastArrivesKeepsCount
<1>2. ASSUME NEW t \in Callers, ArriveAndWait(t) PROVE Counted'
  BY <1>2, ArriveAndWaitKeepsCount
<1>3. ASSUME NEW t \in Callers, LeaveBarrier(t) PROVE Counted'
  <2>1. CountsOK'
    BY <1>3, RoundsAssumption DEF Counted, CountsOK, LeaveBarrier
  <2> QED
    BY <1>3, <2>1 DEF Counted, WaitersCounted, LeaveBarrier
<1>4. ASSUME NEW t \in Callers, SpuriousWakeup(t) PROVE Counted'
  BY <1>4, SpuriousWakeupKeepsCount
<1>5. CASE UNCHANGED barrierVars
  BY <1>5 DEF Counted, CountsOK, WaitersCounted, barrierVars
<1> QED
  BY <1>1, <1>2, <1>3, <1>4, <1>5 DEF BarrierNext

(* No wakeup is lost in barrier_wait, on systems where pthread_cond_wait   *)
(* may return on its own as well: every blocked thread is counted, and so  *)
(* the arrival that completes the count is still to come.                  *)
THEOREM NoWakeupIsLost == BarrierSpec => []WaitersCounted
<1>1. BarrierInit => Counted
  <2> SUFFICES ASSUME BarrierInit PROVE Counted
    OBVIOUS
  <2>1. CountsOK
    BY NeededIsPositive, RoundsAssumption DEF BarrierInit, CountsOK
  <2>2. WaitersCounted
    BY FS_EmptySet DEF BarrierInit, WaitersCounted
  <2> QED
    BY <2>1, <2>2 DEF Counted
<1>2. Counted /\ [BarrierNext]_barrierVars => Counted'
  BY NextKeepsCount
<1>3. Counted => WaitersCounted
  BY DEF Counted
<1> QED
  BY <1>1, <1>2, <1>3, PTL DEF BarrierSpec
=============================================================================
