----------------------- MODULE RelationGeneratorProofs ----------------------
(***************************************************************************)
(* Proofs about RelationGenerator, for any number of threads, any sizes    *)
(* that fit, any selectivity and all random numbers.  A swap is guarded by *)
(* two locks, taken one after the other; the invariant says that they keep *)
(* swaps apart, and the action property follows: the shuffle only permutes *)
(* the keys.  What it permutes is laid down before the barrier: an         *)
(* invariant of the filling loops says which key each tuple written so far *)
(* has, and pairing the matched tuples off with the numbers that a single  *)
(* thread would count through counts the keys.                             *)
(***************************************************************************)
EXTENDS RelationGenerator, FiniteSetTheorems, TLAPS

(* What / means in C for integers that are not negative.                   *)
LEMMA Quotient ==
    ASSUME NEW a \in Nat, NEW b \in Nat \ {0}
    PROVE  /\ a \div b \in Nat
           /\ (a \div b) * b <= a
           /\ a < (a \div b) * b + b
  OBVIOUS

(* Products of counts are counts.                                          *)
LEMMA ProductNat == ASSUME NEW a \in Nat, NEW b \in Nat PROVE a * b \in Nat
  OBVIOUS

(* Multiplication preserves the order.                                     *)
LEMMA ProductMonotone ==
    ASSUME NEW a \in Nat, NEW b \in Nat, NEW c \in Nat, a <= b
    PROVE  a * c <= b * c
<1>1. PICK d \in Nat : b = a + d
  <2>1. b - a \in Nat /\ b = a + (b - a)
    OBVIOUS
  <2> QED
    BY <2>1
<1>2. b * c = a * c + d * c
  BY <1>1
<1>3. d * c \in Nat /\ a * c \in Nat
  BY ProductNat
<1> QED
  BY <1>2, <1>3

(* m chunks of e tuples each, of a total of n: the fractions p/q of the    *)
(* chunks, each rounded down, are together no more than that of the total  *)
(* rounded down.                                                           *)
LEMMA FloorsFit ==
    ASSUME NEW m \in Nat, NEW e \in Nat, NEW n \in Nat, NEW p \in Nat, NEW q \in Nat \ {0},
           m * e <= n
    PROVE  m * ((e * p) \div q) <= (n * p) \div q
<1> DEFINE a == (e * p) \div q
           b == (n * p) \div q
<1>1. a \in Nat /\ a * q <= e * p
  BY ProductNat, Quotient
<1>2. b \in Nat /\ n * p < b * q + q
  BY ProductNat, Quotient
<1> HIDE DEF a, b
<1>3. (a * q) * m <= (e * p) * m
  BY <1>1, ProductMonotone, ProductNat
<1>4. (m * e) * p <= n * p
  BY ProductMonotone, ProductNat
<1>5. (m * a) * q = (a * q) * m /\ (e * p) * m = (m * e) * p
  BY <1>1
<1>6. (m * a) * q < (b + 1) * q
  <2>1. (b + 1) * q = b * q + q
    BY <1>2
  <2> QED
    BY <2>1, <1>1, <1>2, <1>3, <1>4, <1>5, ProductNat
<1>7. m * a \in Nat
  BY <1>1, ProductNat
<1>8. ~ (b + 1 <= m * a)
  BY <1>2, <1>6, <1>7, ProductMonotone, ProductNat
<1> QED
  BY <1>2, <1>7, <1>8 DEF a, b
-----------------------------------------------------------------------------
(* The assumptions on the arguments, for the arguments of this call.       *)
LEMMA InputFacts ==
    ASSUME input \in Inputs
    PROVE  /\ input.nthreads \in Nat \ {0} /\ input.num_tuples \in Nat
           /\ input.maxid \in Nat /\ input.threshold \in Nat \ {0}
           /\ input.threshold <= input.maxid
           /\ input.above[1] \in Nat /\ input.above[2] \in Nat \ {0}
           /\ Fits(input)
  BY InputsAssumption

(* The sizes that parallel_create_relation computes: no chunk is empty,    *)
(* and the unmatched tuples left for the last chunk are not negative,      *)
(* although the code subtracts a product of rounded counts                 *)
(* (generator.c:351).                                                      *)
LEMMA ChunkSize ==
    ASSUME input \in Inputs
    PROVE  /\ ntuples_perthr \in Nat \ {0}
           /\ ntuples_lastthr \in Nat \ {0}
           /\ AboveOf(ntuples_perthr) \in Nat
           /\ ntuples_above_lastthr \in Nat
<1> USE InputFacts, SizesAssumption
<1>1. npages \in Nat /\ npages_perthr \in Nat
  BY Quotient DEF npages, npages_perthr
<1>2. npages_perthr * PageTuples = 0 <=> npages_perthr = 0
  BY <1>1
<1>3. ntuples_perthr \in Nat
  BY <1>1, Quotient, ProductNat DEF ntuples_perthr
<1>4. ntuples_perthr > 0 /\ ntuples_lastthr > 0
  BY <1>2 DEF Fits, ntuples_perthr, ntuples_lastthr, npages_perthr, npages
<1>5. (input.nthreads - 1) * ntuples_perthr \in Nat
  BY <1>3, ProductNat
<1>6. ntuples_perthr * (input.nthreads - 1) = (input.nthreads - 1) * ntuples_perthr
  BY <1>3
<1>7. ntuples_lastthr \in Int /\ (input.nthreads - 1) * ntuples_perthr <= input.num_tuples
  BY <1>4, <1>5, <1>6 DEF ntuples_lastthr
<1>8. AboveOf(ntuples_perthr) \in Nat /\ AboveOf(input.num_tuples) \in Nat
  BY <1>3, Quotient, ProductNat DEF AboveOf
<1>9. (input.nthreads - 1) * AboveOf(ntuples_perthr) <= AboveOf(input.num_tuples)
  <2>1. input.nthreads - 1 \in Nat
    OBVIOUS
  <2> QED
    BY <1>3, <1>7, <2>1, FloorsFit DEF AboveOf
<1>10. (input.nthreads - 1) * AboveOf(ntuples_perthr) \in Nat
  BY <1>8, ProductNat
<1> QED
  BY <1>3, <1>4, <1>7, <1>8, <1>9, <1>10 DEF ntuples_above_lastthr

(* The chunk of a thread, args[i].rel, lies in the relation, and its first *)
(* keys are natural numbers.                                               *)
LEMMA Chunk ==
    ASSUME input \in Inputs, NEW t \in GenThreads
    PROVE  /\ ChunkStart(t) \in Nat
           /\ num_tuples(t) \in Nat \ {0}
           /\ ChunkStart(t) + num_tuples(t) <= input.num_tuples
           /\ numtuples_below(t) \in Int /\ numtuples_below(t) <= num_tuples(t)
           /\ firstkey(t) \in Nat /\ firstkey_above(t) \in Nat
<1> USE InputFacts, ChunkSize
<1>1. t \in Nat /\ t + 1 <= input.nthreads
  BY DEF GenThreads
<1>2. ChunkStart(t) \in Nat
  BY <1>1, ProductNat DEF ChunkStart
<1>3. num_tuples(t) \in Nat \ {0}
  BY DEF num_tuples
<1>4. (input.nthreads - 1) * ntuples_perthr + ntuples_lastthr = input.num_tuples
  <2>1. ntuples_perthr * (input.nthreads - 1) = (input.nthreads - 1) * ntuples_perthr
    OBVIOUS
  <2>2. (input.nthreads - 1) * ntuples_perthr \in Nat
    BY ProductNat
  <2> QED
    BY <2>1, <2>2 DEF ntuples_lastthr
<1>5. ChunkStart(t) + num_tuples(t) <= input.num_tuples
  <2>1. CASE LastThread(t)
    BY <2>1, <1>4 DEF LastThread, ChunkStart, num_tuples
  <2>2. CASE ~LastThread(t)
    <3>1. (t + 1) * ntuples_perthr <= (input.nthreads - 1) * ntuples_perthr
      <4>1. t + 1 \in Nat /\ input.nthreads - 1 \in Nat /\ t + 1 <= input.nthreads - 1
        BY <2>2, <1>1 DEF LastThread
      <4> QED
        BY <4>1, ProductMonotone
    <3>2. (t + 1) * ntuples_perthr = ChunkStart(t) + ntuples_perthr
      BY <1>1 DEF ChunkStart
    <3>3. (input.nthreads - 1) * ntuples_perthr \in Nat
      BY ProductNat
    <3> QED
      BY <2>2, <3>1, <3>2, <3>3, <1>2, <1>4 DEF num_tuples
  <2> QED
    BY <2>1, <2>2
<1>6. numtuples_above(t) \in Nat
  BY DEF numtuples_above
<1>7. numtuples_below(t) \in Int /\ numtuples_below(t) <= num_tuples(t)
  BY <1>3, <1>6 DEF numtuples_below
<1>8. firstkey(t) \in Nat
  <2>1. t * (ntuples_perthr - AboveOf(ntuples_perthr)) + 1 \in Int
    BY <1>1
  <2> QED
    BY <2>1 DEF firstkey
<1>9. firstkey_above(t) \in Nat
  <2>1. t * AboveOf(ntuples_perthr) + 1 \in Int
    BY <1>1
  <2>2. MAX(1, input.maxid - input.threshold) \in Nat \ {0}
    BY DEF MAX
  <2> QED
    BY <2>1, <2>2 DEF firstkey_above
<1> QED
  BY <1>2, <1>3, <1>5, <1>7, <1>8, <1>9
-----------------------------------------------------------------------------
(* Where a thread has drawn a partner and has not given up its locks.      *)
Swapping == Steps \ {"fill", "barrier", "shuffle", "done"}

(* The variables of random_unique_gen_thread.                              *)
Locals == [i : Nat, key : Nat, key_above : Nat, j : Nat, tmp : Nat]

(* The types of the variables.                                             *)
Typed ==
    /\ input \in Inputs
    /\ tuples \in [Indexes -> Nat]
    /\ locks \in [Indexes -> BOOLEAN]
    /\ gpc \in [GenThreads -> Steps]
    /\ w \in [GenThreads -> Locals]

(* The counter of the loop a thread is in: up to the chunk's size while it *)
(* fills, below it while it shuffles (which counts down to 1), with j      *)
(* below k.                                                                *)
InLoop(t) ==
    /\ w[t].i <= num_tuples(t)
    /\ gpc[t] \notin {"fill", "barrier"} => w[t].i < num_tuples(t)
    /\ gpc[t] \in Swapping => w[t].i > 0 /\ w[t].j < k(t)

(* The inductive form of TypeOK.                                           *)
TypeInv == Typed /\ \A t \in GenThreads : InLoop(t)

(* A thread's own index and its partner's lie in the relation and differ.  *)
LEMMA IndexFacts ==
    ASSUME TypeInv, NEW t \in GenThreads
    PROVE  /\ k(t) \in Nat /\ k(t) <= input.num_tuples
           /\ w[t].i < num_tuples(t) => k(t) \in Indexes
           /\ gpc[t] \notin {"fill", "barrier"} => k(t) \in Indexes
           /\ gpc[t] \in Swapping => w[t].j \in Indexes /\ w[t].j # k(t)
<1>1. w[t] \in Locals /\ InLoop(t)
  BY DEF TypeInv, Typed
<1>2. input.num_tuples \in Nat /\ ChunkStart(t) \in Nat /\ num_tuples(t) \in Nat
      /\ ChunkStart(t) + num_tuples(t) <= input.num_tuples
  BY InputFacts, Chunk DEF TypeInv, Typed
<1>3. k(t) \in Nat /\ k(t) <= input.num_tuples /\ (w[t].i < num_tuples(t) => k(t) \in Indexes)
  BY <1>1, <1>2 DEF InLoop, Locals, k, Indexes
<1> QED
  BY <1>1, <1>2, <1>3 DEF Locals, InLoop, Indexes, Swapping

(* TypeInv is at least as strong as TypeOK.                                *)
LEMMA TypeOKFromTypeInv == TypeInv => TypeOK
<1> SUFFICES ASSUME TypeInv PROVE TypeOK
  OBVIOUS
<1>1. ASSUME NEW t \in GenThreads
      PROVE  /\ w[t].i <= num_tuples(t) /\ k(t) <= input.num_tuples
             /\ gpc[t] = "fill" \/ gpc[t] = "barrier" \/ k(t) \in Indexes
             /\ gpc[t] \in Swapping => w[t].j < k(t)
  BY IndexFacts DEF TypeInv, InLoop
<1> QED
  BY <1>1 DEF TypeInv, Typed, Locals, TypeOK, Swapping

(* The chunks depend on the arguments only.                                *)
LEMMA Constant ==
    ASSUME input' = input
    PROVE  /\ GenThreads' = GenThreads /\ Indexes' = Indexes
           /\ \A t : ChunkStart(t)' = ChunkStart(t) /\ num_tuples(t)' = num_tuples(t)
  BY DEF GenThreads, Indexes, ChunkStart, num_tuples, LastThread, ntuples_lastthr,
         ntuples_perthr, npages_perthr, npages

(* A step of thread t leaves the loops of the others alone.                *)
LEMMA OthersInLoop ==
    ASSUME TypeInv, input' = input, NEW t \in GenThreads, NEW u \in GenThreads \ {t},
           gpc'[u] = gpc[u], w'[u] = w[u]
    PROVE  InLoop(u)'
<1>1. num_tuples(u)' = num_tuples(u) /\ k(u)' = k(u) /\ InLoop(u)
  BY Constant DEF TypeInv, k
<1> QED
  BY <1>1 DEF InLoop

(* No step leaves the types or the bounds of the loops.                    *)
LEMMA TypeStep == TypeInv /\ [GenNext]_genVars => TypeInv'
<1> SUFFICES ASSUME TypeInv, [GenNext]_genVars PROVE TypeInv'
  OBVIOUS
<1>1. CASE UNCHANGED genVars
  BY <1>1, Constant DEF genVars, TypeInv, Typed, InLoop, k
<1>2. CASE ReleaseGenerators
  <2>1. input' = input
    BY <1>2 DEF ReleaseGenerators
  <2>2. ASSUME NEW t \in GenThreads
        PROVE  /\ num_tuples(t)' = num_tuples(t) /\ num_tuples(t) \in Nat \ {0}
               /\ w'[t] \in Locals /\ w'[t].i = num_tuples(t) - 1 /\ gpc'[t] = "shuffle"
    <3>1. num_tuples(t)' = num_tuples(t) /\ num_tuples(t) \in Nat \ {0}
      BY <2>1, Constant, Chunk DEF TypeInv, Typed
    <3>2. w[t] \in Locals /\ w'[t] = [w[t] EXCEPT !.i = num_tuples(t) - 1]
      BY <1>2 DEF ReleaseGenerators, TypeInv, Typed
    <3>3. w'[t] \in Locals /\ w'[t].i = num_tuples(t) - 1
      <4> DEFINE n == num_tuples(t) - 1
      <4>1. n \in Nat /\ w'[t] = [w[t] EXCEPT !.i = n]
        BY <3>1, <3>2
      <4> HIDE DEF n
      <4>2. w'[t] \in Locals /\ w'[t].i = n
        BY <3>2, <4>1 DEF Locals
      <4> QED
        BY <4>2 DEF n
    <3>4. gpc'[t] = "shuffle"
      BY <1>2 DEF ReleaseGenerators
    <3> QED
      BY <3>1, <3>3, <3>4
  <2>3. ASSUME NEW t \in GenThreads
        PROVE  /\ w'[t] \in Locals
               /\ InLoop(t)'
    BY <2>2 DEF InLoop, Swapping
  <2>4. Typed'
    BY <1>2, <2>1, <2>3, Constant DEF ReleaseGenerators, TypeInv, Typed, Steps
  <2> QED
    BY <2>1, <2>3, <2>4, Constant DEF TypeInv
<1>3. CASE \E t \in GenThreads : ThreadStep(t)
  <2>1. PICK t \in GenThreads : ThreadStep(t)
    BY <1>3
  <2>2. input' = input
    BY <2>1 DEF ThreadStep, FillBelow, FillAbove, ArriveAtBarrier, DrawPartner, LockOwn,
        LockPartner, Lock, ReadOwn, WriteOwn, WritePartner, UnlockPartner, Unlock,
        UnlockOwn, EndThread
  <2>3. Typed /\ InLoop(t)
    BY DEF TypeInv
  <2>4. /\ k(t) \in Nat /\ num_tuples(t) \in Nat /\ num_tuples(t)' = num_tuples(t)
        /\ ChunkStart(t) \in Nat /\ ChunkStart(t)' = ChunkStart(t)
        /\ numtuples_below(t) \in Int /\ numtuples_below(t) <= num_tuples(t)
        /\ w[t].i < num_tuples(t) => k(t) \in Indexes
        /\ gpc[t] \notin {"fill", "barrier"} => k(t) \in Indexes
        /\ gpc[t] \in Swapping => w[t].j \in Indexes /\ w[t].j # k(t)
    BY <2>2, <2>3, Constant, Chunk, IndexFacts DEF Typed
  <2>5. w[t].i \in Nat /\ w[t].key \in Nat /\ w[t].key_above \in Nat
        /\ w[t].j \in Nat /\ w[t].tmp \in Nat /\ input.threshold \in Nat
    BY <2>3, InputFacts DEF Typed, Locals
  <2>6. GenThreads' = GenThreads /\ Indexes' = Indexes
    BY <2>2, Constant
  <2>7. Typed' /\ InLoop(t)' /\ \A u \in GenThreads \ {t} : gpc'[u] = gpc[u] /\ w'[u] = w[u]
    <3>1. CASE FillBelow(t)
      <4>1. w[t].i < num_tuples(t) /\ k(t) \in Indexes /\ gpc[t] = "fill"
        BY <3>1, <2>4, <2>5 DEF FillBelow
      <4>2. tuples' \in [Indexes -> Nat] /\ locks' = locks /\ gpc' = gpc
        BY <3>1, <2>3, <2>5, <4>1 DEF FillBelow, Typed
      <4> DEFINE n == IF w[t].key = input.threshold THEN 1 ELSE w[t].key + 1
      <4>3. n \in Nat /\ w[t].i + 1 \in Nat
        BY <2>5
      <4>4. w' = [w EXCEPT ![t].i = w[t].i + 1, ![t].key = n]
        BY <3>1 DEF FillBelow
      <4>5. w \in [GenThreads -> Locals]
        BY <2>3 DEF Typed
      <4>6. w' \in [GenThreads -> Locals]
            /\ w'[t].i = w[t].i + 1 /\ \A u \in GenThreads \ {t} : w'[u] = w[u]
        <5> HIDE DEF n
        <5> QED
          BY <4>3, <4>4, <4>5 DEF Locals
      <4> QED
        BY <4>1, <4>2, <4>6, <2>2, <2>3, <2>4, <2>5, <2>6 DEF Typed, InLoop, Swapping
    <3>2. CASE FillAbove(t)
      <4>1. w[t].i < num_tuples(t) /\ k(t) \in Indexes /\ gpc[t] = "fill"
        BY <3>2, <2>4, <2>5 DEF FillAbove
      <4>2. tuples' \in [Indexes -> Nat] /\ locks' = locks /\ gpc' = gpc
        BY <3>2, <2>3, <2>5, <4>1 DEF FillAbove, Typed
      <4> DEFINE n == (IF w[t].key_above = INT_MAX THEN input.threshold ELSE w[t].key_above) + 1
      <4>3. n \in Nat /\ w[t].i + 1 \in Nat
        BY <2>5
      <4>4. w' = [w EXCEPT ![t].i = w[t].i + 1, ![t].key_above = n]
        BY <3>2 DEF FillAbove
      <4>5. w \in [GenThreads -> Locals]
        BY <2>3 DEF Typed
      <4>6. w' \in [GenThreads -> Locals]
            /\ w'[t].i = w[t].i + 1 /\ \A u \in GenThreads \ {t} : w'[u] = w[u]
        <5> HIDE DEF n
        <5> QED
          BY <4>3, <4>4, <4>5 DEF Locals
      <4> QED
        BY <4>1, <4>2, <4>6, <2>2, <2>3, <2>4, <2>5, <2>6 DEF Typed, InLoop, Swapping
    <3>3. CASE ArriveAtBarrier(t)
      BY <3>3, <2>2, <2>3, <2>4, <2>5, <2>6 DEF ArriveAtBarrier, Typed, Locals, InLoop, Swapping, Steps
    <3>4. CASE DrawPartner(t)
      BY <3>4, <2>2, <2>3, <2>4, <2>5, <2>6
         DEF DrawPartner, RAND_RANGE48, Typed, Locals, InLoop, Swapping, Steps, k
    <3>5. CASE LockOwn(t)
      BY <3>5, <2>2, <2>3, <2>4, <2>5, <2>6 DEF LockOwn, Lock, Typed, Locals, InLoop, Swapping, Steps, k
    <3>6. CASE LockPartner(t)
      BY <3>6, <2>2, <2>3, <2>4, <2>5, <2>6 DEF LockPartner, Lock, Typed, Locals, InLoop, Swapping, Steps, k
    <3>7. CASE ReadOwn(t)
      BY <3>7, <2>2, <2>3, <2>4, <2>5, <2>6 DEF ReadOwn, Typed, Locals, InLoop, Swapping, Steps, k
    <3>8. CASE WriteOwn(t)
      BY <3>8, <2>2, <2>3, <2>4, <2>5, <2>6 DEF WriteOwn, Typed, Locals, InLoop, Swapping, Steps, k
    <3>9. CASE WritePartner(t)
      BY <3>9, <2>2, <2>3, <2>4, <2>5, <2>6 DEF WritePartner, Typed, Locals, InLoop, Swapping, Steps, k
    <3>10. CASE UnlockPartner(t)
      BY <3>10, <2>2, <2>3, <2>4, <2>5, <2>6 DEF UnlockPartner, Unlock, Typed, Locals, InLoop, Swapping, Steps, k
    <3>11. CASE UnlockOwn(t)
      BY <3>11, <2>2, <2>3, <2>4, <2>5, <2>6 DEF UnlockOwn, Typed, Locals, InLoop, Swapping, Steps
    <3>12. CASE EndThread(t)
      BY <3>12, <2>2, <2>3, <2>4, <2>5, <2>6 DEF EndThread, Typed, Locals, InLoop, Swapping, Steps
    <3> QED
      BY <2>1, <3>1, <3>2, <3>3, <3>4, <3>5, <3>6, <3>7, <3>8, <3>9, <3>10, <3>11, <3>12
         DEF ThreadStep
  <2>8. ASSUME NEW u \in GenThreads \ {t} PROVE InLoop(u)'
    BY <2>2, <2>7, OthersInLoop
  <2> QED
    BY <2>6, <2>7, <2>8 DEF TypeInv
<1> QED
  BY <1>1, <1>2, <1>3 DEF GenNext
-----------------------------------------------------------------------------
(* No thread changes the arguments.                                        *)
LEMMA InputKept == ASSUME NEW t, ThreadStep(t) PROVE input' = input
  BY DEF ThreadStep, FillBelow, FillAbove, ArriveAtBarrier, DrawPartner, LockOwn,
       LockPartner, Lock, ReadOwn, WriteOwn, WritePartner, UnlockPartner, Unlock,
       UnlockOwn, EndThread

(* A step of one thread changes nothing of what another has in hand.       *)
LEMMA OthersKept ==
    ASSUME TypeInv, NEW t \in GenThreads, ThreadStep(t), NEW u \in GenThreads \ {t}
    PROVE  gpc'[u] = gpc[u] /\ w'[u] = w[u]
<1> USE DEF TypeInv, Typed
<1>1. CASE FillBelow(t) \/ FillAbove(t) \/ DrawPartner(t) \/ ReadOwn(t) \/ UnlockOwn(t)
  BY <1>1 DEF FillBelow, FillAbove, DrawPartner, ReadOwn, UnlockOwn
<1>2. CASE ArriveAtBarrier(t) \/ LockOwn(t) \/ LockPartner(t) \/ WriteOwn(t)
           \/ WritePartner(t) \/ UnlockPartner(t) \/ EndThread(t)
  BY <1>2 DEF ArriveAtBarrier, LockOwn, LockPartner, Lock, WriteOwn, WritePartner,
     UnlockPartner, Unlock, EndThread
<1> QED
  BY <1>1, <1>2 DEF ThreadStep

(* The locks a thread holds are those of its index and its partner, which  *)
(* others cannot change.                                                   *)
LEMMA HoldsKept ==
    ASSUME input' = input, NEW u, gpc'[u] = gpc[u], w'[u] = w[u]
    PROVE  Holds(u)' = Holds(u)
<1>1. k(u)' = k(u)
  BY Constant DEF k
<1> QED
  BY <1>1 DEF Holds

(* A byte is set by the thread that found it clear and cleared by the      *)
(* thread that set it, so that no lock passes to two threads (lock and     *)
(* unlock, generator.c:209-217). Needs TypeInv: with j = k the thread      *)
(* would clear its own lock.                                               *)
LEMMA ExclusiveStep == TypeInv /\ SwapsExclusive /\ [GenNext]_genVars => SwapsExclusive'
<1> SUFFICES ASSUME TypeInv, SwapsExclusive, [GenNext]_genVars PROVE SwapsExclusive'
  OBVIOUS
<1>1. CASE UNCHANGED genVars
  BY <1>1, HoldsKept, Constant DEF genVars, SwapsExclusive
<1>2. CASE ReleaseGenerators
  <2>1. ASSUME NEW t \in GenThreads PROVE Holds(t)' = {}
    BY <1>2 DEF ReleaseGenerators, Holds
  <2>2. GenThreads' = GenThreads
    BY <1>2, Constant DEF ReleaseGenerators
  <2> QED
    BY <2>1, <2>2 DEF SwapsExclusive
<1>3. CASE \E t \in GenThreads : ThreadStep(t)
  <2>1. PICK t \in GenThreads : ThreadStep(t)
    BY <1>3
  <2>2. input' = input /\ GenThreads' = GenThreads /\ ChunkStart(t)' = ChunkStart(t)
    BY <2>1, InputKept, Constant
  <2>3. \A u \in GenThreads \ {t} : Holds(u)' = Holds(u)
    BY <2>1, <2>2, OthersKept, HoldsKept
  <2>4. /\ locks \in [Indexes -> BOOLEAN] /\ gpc \in [GenThreads -> Steps]
        /\ w \in [GenThreads -> Locals]
        /\ gpc[t] \notin {"fill", "barrier"} => k(t) \in Indexes
        /\ gpc[t] \in Swapping => w[t].j \in Indexes /\ w[t].j # k(t)
    BY IndexFacts DEF TypeInv, Typed
  <2>5. SUFFICES /\ \A x \in Holds(t)' : locks'[x]
                 /\ \A u \in GenThreads \ {t} :
                      Holds(t)' \cap Holds(u) = {} /\ \A x \in Holds(u) : locks'[x]
    BY <2>2, <2>3, <2>5 DEF SwapsExclusive
  <2>6. ASSUME locks' = locks, Holds(t)' \subseteq Holds(t)
        PROVE  /\ \A x \in Holds(t)' : locks'[x]
               /\ \A u \in GenThreads \ {t} :
                    Holds(t)' \cap Holds(u) = {} /\ \A x \in Holds(u) : locks'[x]
    BY <2>6 DEF SwapsExclusive
  <2>7. CASE FillBelow(t) \/ FillAbove(t) \/ ArriveAtBarrier(t) \/ EndThread(t) \/ DrawPartner(t)
    <3>1. locks' = locks /\ Holds(t)' = {}
      BY <2>7, <2>4 DEF FillBelow, FillAbove, ArriveAtBarrier, EndThread, DrawPartner, Holds
    <3> QED
      BY <3>1, <2>6
  <2>8. CASE ReadOwn(t) \/ WriteOwn(t) \/ WritePartner(t)
    <3>1. gpc[t] \in {"read_k", "write_k", "write_j"} /\ gpc'[t] \in {"write_k", "write_j", "unlock_j"}
          /\ w'[t].i = w[t].i /\ w'[t].j = w[t].j /\ locks' = locks
      BY <2>8, <2>4 DEF ReadOwn, WriteOwn, WritePartner, Locals
    <3>2. Holds(t)' = Holds(t)
      BY <3>1, <2>2 DEF Holds, k
    <3> QED
      BY <3>1, <3>2, <2>6
  <2>9. CASE LockOwn(t)
    <3>1. Holds(t)' = {k(t)} /\ ~locks[k(t)] /\ locks' = [locks EXCEPT ![k(t)] = TRUE]
          /\ k(t) \in Indexes
      BY <2>9, <2>2, <2>4 DEF LockOwn, Lock, Holds, k
    <3> QED
      BY <3>1, <2>4 DEF SwapsExclusive
  <2>10. CASE LockPartner(t)
    <3>1. /\ Holds(t)' = {k(t), w[t].j} /\ Holds(t) = {k(t)} /\ ~locks[w[t].j]
          /\ locks' = [locks EXCEPT ![w[t].j] = TRUE]
          /\ k(t) \in Indexes /\ w[t].j \in Indexes
      BY <2>10, <2>2, <2>4 DEF LockPartner, Lock, Holds, k, Swapping, Steps
    <3> QED
      BY <3>1, <2>4 DEF SwapsExclusive
  <2>11. CASE UnlockPartner(t)
    <3>1. /\ Holds(t)' = {k(t)} /\ Holds(t) = {k(t), w[t].j} /\ w[t].j # k(t)
          /\ locks' = [locks EXCEPT ![w[t].j] = FALSE]
          /\ k(t) \in Indexes /\ w[t].j \in Indexes
      BY <2>11, <2>2, <2>4 DEF UnlockPartner, Unlock, Holds, k, Swapping, Steps
    <3> QED
      BY <3>1, <2>4 DEF SwapsExclusive
  <2>12. CASE UnlockOwn(t)
    <3>1. /\ Holds(t)' = {} /\ Holds(t) = {k(t)}
          /\ locks' = [locks EXCEPT ![k(t)] = FALSE] /\ k(t) \in Indexes
      BY <2>12, <2>4 DEF UnlockOwn, Holds
    <3> QED
      BY <3>1, <2>4 DEF SwapsExclusive
  <2> QED
    BY <2>1, <2>7, <2>8, <2>9, <2>10, <2>11, <2>12 DEF ThreadStep
<1> QED
  BY <1>1, <1>2, <1>3 DEF GenNext
-----------------------------------------------------------------------------
(* The barrier separates filling from shuffling.                           *)
OnePhase ==
    \A t, u \in GenThreads : gpc[t] \in {"fill", "barrier"} => gpc[u] \in {"fill", "barrier"}

(* Between reading tmp and the first write (generator.c:213-214) nobody    *)
(* else writes the thread's own tuple.                                     *)
OwnRemembered == \A t \in GenThreads : gpc[t] = "write_k" => w[t].tmp = tuples[k(t)]

(* Only the barrier takes threads from filling to shuffling, all at once.  *)
LEMMA PhaseStep == TypeInv /\ OnePhase /\ [GenNext]_genVars => OnePhase'
<1> SUFFICES ASSUME TypeInv, OnePhase, [GenNext]_genVars PROVE OnePhase'
  OBVIOUS
<1>1. CASE UNCHANGED genVars
  BY <1>1, Constant DEF genVars, OnePhase
<1>2. CASE ReleaseGenerators
  BY <1>2, Constant DEF ReleaseGenerators, OnePhase
<1>3. CASE \E t \in GenThreads : ThreadStep(t)
  <2>1. PICK t \in GenThreads : ThreadStep(t)
    BY <1>3
  <2>2. GenThreads' = GenThreads /\ \A u \in GenThreads \ {t} : gpc'[u] = gpc[u]
    BY <2>1, InputKept, OthersKept, Constant
  <2>3. gpc[t] \in {"fill", "barrier"} <=> gpc'[t] \in {"fill", "barrier"}
    BY <2>1 DEF TypeInv, Typed, ThreadStep, FillBelow, FillAbove, ArriveAtBarrier,
       DrawPartner, LockOwn, LockPartner, Lock, ReadOwn, WriteOwn, WritePartner,
       UnlockPartner, Unlock, UnlockOwn, EndThread
  <2> QED
    BY <2>2, <2>3 DEF OnePhase
<1> QED
  BY <1>1, <1>2, <1>3 DEF GenNext

(* tmp stays what the thread's own tuple holds, because the tuple is       *)
(* locked and nobody is filling any more.                                  *)
LEMMA RememberedStep ==
    TypeInv /\ SwapsExclusive /\ OnePhase /\ OwnRemembered /\ [GenNext]_genVars => OwnRemembered'
<1> SUFFICES ASSUME TypeInv, SwapsExclusive, OnePhase, OwnRemembered, [GenNext]_genVars
             PROVE  OwnRemembered'
  OBVIOUS
<1>1. CASE UNCHANGED genVars
  BY <1>1, Constant DEF genVars, OwnRemembered, k
<1>2. CASE ReleaseGenerators
  BY <1>2, Constant DEF ReleaseGenerators, OwnRemembered
<1>3. CASE \E t \in GenThreads : ThreadStep(t)
  <2>1. PICK t \in GenThreads : ThreadStep(t)
    BY <1>3
  <2>2. input' = input /\ GenThreads' = GenThreads
    BY <2>1, InputKept, Constant
  <2>3. ASSUME NEW u \in GenThreads \ {t}, gpc'[u] = "write_k"
        PROVE  w'[u].tmp = tuples'[k(u)']
    <3>1. gpc[u] = "write_k" /\ w'[u] = w[u]
      BY <2>1, <2>3, OthersKept
    <3>2. k(u)' = k(u) /\ k(u) \in Indexes /\ k(u) \in Holds(u)
      BY <3>1, <2>2, Constant, IndexFacts DEF k, Holds
    <3>3. tuples'[k(u)] = tuples[k(u)]
      <4>1. CASE WriteOwn(t) \/ WritePartner(t)
        <5>1. k(t) \in Holds(t) /\ w[t].j \in Holds(t)
          BY <4>1 DEF WriteOwn, WritePartner, Holds
        <5>2. k(u) # k(t) /\ k(u) # w[t].j
          BY <3>2, <5>1 DEF SwapsExclusive
        <5> QED
          BY <4>1, <3>2, <5>2 DEF WriteOwn, WritePartner, TypeInv, Typed
      <4>2. CASE FillBelow(t) \/ FillAbove(t)
        BY <4>2, <3>1 DEF FillBelow, FillAbove, OnePhase
      <4>3. CASE ArriveAtBarrier(t) \/ DrawPartner(t) \/ LockOwn(t) \/ LockPartner(t)
                 \/ ReadOwn(t) \/ UnlockPartner(t) \/ UnlockOwn(t) \/ EndThread(t)
        BY <4>3 DEF ArriveAtBarrier, DrawPartner, LockOwn, LockPartner, Lock, ReadOwn,
           UnlockPartner, Unlock, UnlockOwn, EndThread
      <4> QED
        BY <2>1, <4>1, <4>2, <4>3 DEF ThreadStep
    <3> QED
      BY <3>1, <3>2, <3>3 DEF OwnRemembered
  <2>4. ASSUME gpc'[t] = "write_k" PROVE w'[t].tmp = tuples'[k(t)']
    <3>1. ReadOwn(t)
      BY <2>1, <2>4 DEF TypeInv, Typed, ThreadStep, FillBelow, FillAbove, ArriveAtBarrier,
         DrawPartner, LockOwn, LockPartner, Lock, WriteOwn, WritePartner, UnlockPartner,
         Unlock, UnlockOwn, EndThread
    <3>2. w'[t].tmp = tuples[k(t)] /\ w'[t].i = w[t].i /\ tuples' = tuples
      BY <3>1 DEF ReadOwn, TypeInv, Typed, Locals
    <3>3. k(t)' = k(t)
      BY <3>2, <2>2, Constant DEF k
    <3> QED
      BY <3>2, <3>3
  <2> QED
    BY <2>2, <2>3, <2>4 DEF OwnRemembered
<1> QED
  BY <1>1, <1>2, <1>3 DEF GenNext
-----------------------------------------------------------------------------
(* What Settled is: tmp where a swap is half done, the tuple elsewhere.    *)
SettledFacts ==
    /\ DOMAIN Settled = Indexes
    /\ Settled = [x \in Indexes |-> Settled[x]]
    /\ \A t \in GenThreads : InSwap(t) => w[t].j \in Indexes /\ Settled[w[t].j] = w[t].tmp
    /\ \A x \in Indexes :
          (\A t \in GenThreads : InSwap(t) => w[t].j # x) => Settled[x] = tuples[x]

(* At most one unfinished swap writes to an index, so Settled is well      *)
(* defined.                                                                *)
LEMMA SettledIs == TypeInv /\ SwapsExclusive => SettledFacts
<1> SUFFICES ASSUME TypeInv, SwapsExclusive PROVE SettledFacts
  OBVIOUS
<1>1. DOMAIN Settled = Indexes /\ Settled = [x \in Indexes |-> Settled[x]]
  BY DEF Settled
<1>2. ASSUME NEW t \in GenThreads, InSwap(t)
      PROVE  w[t].j \in Indexes /\ Settled[w[t].j] = w[t].tmp
  <2>1. w[t].j \in Indexes
    BY <1>2, IndexFacts DEF InSwap, Swapping, Steps
  <2> DEFINE P(u) == InSwap(u) /\ w[u].j = w[t].j
             c == CHOOSE u \in GenThreads : P(u)
  <2>2. c \in GenThreads /\ P(c)
    BY <1>2
  <2>3. c = t
    <3>1. w[t].j \in Holds(t) /\ w[t].j \in Holds(c)
      BY <1>2, <2>2 DEF InSwap, Holds
    <3> QED
      BY <2>2, <3>1 DEF SwapsExclusive
  <2>4. Settled[w[t].j] = w[c].tmp
    BY <1>2, <2>1 DEF Settled
  <2> QED
    BY <2>1, <2>3, <2>4
<1>3. ASSUME NEW x \in Indexes, \A t \in GenThreads : InSwap(t) => w[t].j # x
      PROVE  Settled[x] = tuples[x]
  BY <1>3 DEF Settled
<1> QED
  BY <1>1, <1>2, <1>3 DEF SettledFacts
-----------------------------------------------------------------------------
(* The inductive invariant behind the theorems.                            *)
Inv == TypeInv /\ SwapsExclusive /\ OnePhase /\ OwnRemembered

(* Two keys of the relation change places.                                 *)
Exchanged(x, y) == Settled' = [Settled EXCEPT ![x] = Settled[y], ![y] = Settled[x]]

(* A step that writes no tuple and begins or ends no swap leaves the keys  *)
(* as they are.                                                            *)
LEMMA SettledKept ==
    ASSUME SettledFacts, SettledFacts', input' = input, tuples' = tuples,
           \A u \in GenThreads : InSwap(u)' <=> InSwap(u),
           \A u \in GenThreads : InSwap(u) => w'[u].j = w[u].j /\ w'[u].tmp = w[u].tmp
    PROVE  Settled' = Settled
<1>1. GenThreads' = GenThreads /\ Indexes' = Indexes
  BY Constant
<1>2. ASSUME NEW x \in Indexes PROVE Settled'[x] = Settled[x]
  <2>1. CASE \E u \in GenThreads : InSwap(u) /\ w[u].j = x
    BY <2>1, <1>1 DEF SettledFacts
  <2>2. CASE \A u \in GenThreads : InSwap(u) => w[u].j # x
    BY <2>2, <1>1 DEF SettledFacts
  <2> QED
    BY <2>1, <2>2
<1> QED
  BY <1>1, <1>2 DEF SettledFacts

(* The first write of a swap is where it takes effect.                     *)
LEMMA FirstWrite ==
    ASSUME Inv, SettledFacts, SettledFacts', NEW t \in GenThreads, WriteOwn(t)
    PROVE  Exchanged(k(t), w[t].j)
<1> DEFINE a == k(t)
           b == w[t].j
<1>1. GenThreads' = GenThreads /\ Indexes' = Indexes /\ w' = w
  BY Constant DEF WriteOwn
<1>2. a \in Indexes /\ b \in Indexes /\ a # b /\ a \in Holds(t) /\ b \in Holds(t)
  BY IndexFacts DEF Inv, WriteOwn, Swapping, Steps, Holds
<1>3. tuples'[a] = tuples[b] /\ \A x \in Indexes \ {a} : tuples'[x] = tuples[x]
  BY <1>2 DEF Inv, TypeInv, Typed, WriteOwn
<1>4. w[t].tmp = tuples[a] /\ ~InSwap(t) /\ InSwap(t)'
  BY DEF Inv, TypeInv, Typed, OwnRemembered, WriteOwn, InSwap
<1>5. ASSUME NEW u \in GenThreads \ {t}
      PROVE  /\ InSwap(u)' <=> InSwap(u)
             /\ InSwap(u) => w[u].j # a /\ w[u].j # b
  <2>1. InSwap(u)' <=> InSwap(u)
    BY DEF Inv, TypeInv, Typed, WriteOwn, InSwap
  <2>2. InSwap(u) => w[u].j \in Holds(u)
    BY DEF InSwap, Holds
  <2> QED
    BY <2>1, <2>2, <1>2 DEF Inv, SwapsExclusive
<1> HIDE DEF a
<1>6. Settled[a] = tuples[a] /\ Settled[b] = tuples[b]
  BY <1>2, <1>4, <1>5 DEF SettledFacts
<1>7. Settled'[b] = tuples[a]
  BY <1>1, <1>4 DEF SettledFacts
<1>8. Settled'[a] = tuples[b]
  BY <1>1, <1>2, <1>3, <1>5 DEF SettledFacts
<1>9. ASSUME NEW x \in Indexes \ {a, b} PROVE Settled'[x] = Settled[x]
  <2>1. CASE \E u \in GenThreads : InSwap(u) /\ w[u].j = x
    <3>1. PICK u \in GenThreads : InSwap(u) /\ w[u].j = x
      BY <2>1
    <3>2. u # t
      BY <3>1, <1>4
    <3> QED
      BY <3>1, <3>2, <1>1, <1>5 DEF SettledFacts
  <2>2. CASE \A u \in GenThreads : InSwap(u) => w[u].j # x
    <3>1. \A u \in GenThreads : InSwap(u)' => w'[u].j # x
      BY <2>2, <1>1, <1>5, <1>9
    <3> QED
      BY <2>2, <3>1, <1>1, <1>3 DEF SettledFacts
  <2> QED
    BY <2>1, <2>2
<1> QED
  BY <1>1, <1>2, <1>6, <1>7, <1>8, <1>9 DEF SettledFacts, Exchanged, a

(* The second write only completes it.                                     *)
LEMMA SecondWrite ==
    ASSUME Inv, SettledFacts, SettledFacts', NEW t \in GenThreads, WritePartner(t)
    PROVE  Settled' = Settled
<1> DEFINE b == w[t].j
<1>1. GenThreads' = GenThreads /\ Indexes' = Indexes /\ w' = w
  BY Constant DEF WritePartner
<1>2. b \in Indexes /\ b \in Holds(t) /\ InSwap(t) /\ ~InSwap(t)'
  BY IndexFacts DEF Inv, TypeInv, Typed, WritePartner, Swapping, Steps, Holds, InSwap
<1>3. tuples'[b] = w[t].tmp /\ \A x \in Indexes \ {b} : tuples'[x] = tuples[x]
  BY <1>2 DEF Inv, TypeInv, Typed, WritePartner
<1>4. ASSUME NEW u \in GenThreads \ {t}
      PROVE  /\ InSwap(u)' <=> InSwap(u)
             /\ InSwap(u) => w[u].j # b
  <2>1. InSwap(u)' <=> InSwap(u)
    BY DEF Inv, TypeInv, Typed, WritePartner, InSwap
  <2>2. InSwap(u) => w[u].j \in Holds(u)
    BY DEF InSwap, Holds
  <2> QED
    BY <2>1, <2>2, <1>2 DEF Inv, SwapsExclusive
<1>5. Settled'[b] = Settled[b]
  BY <1>1, <1>2, <1>3, <1>4 DEF SettledFacts
<1>6. ASSUME NEW x \in Indexes \ {b} PROVE Settled'[x] = Settled[x]
  <2>1. CASE \E u \in GenThreads : InSwap(u) /\ w[u].j = x
    <3>1. PICK u \in GenThreads : InSwap(u) /\ w[u].j = x
      BY <2>1
    <3>2. u # t
      BY <3>1, <1>6
    <3> QED
      BY <3>1, <3>2, <1>1, <1>4 DEF SettledFacts
  <2>2. CASE \A u \in GenThreads : InSwap(u) => w[u].j # x
    <3>1. \A u \in GenThreads : InSwap(u)' => w'[u].j # x
      BY <2>2, <1>1, <1>2, <1>4
    <3> QED
      BY <2>2, <3>1, <1>1, <1>3 DEF SettledFacts
  <2> QED
    BY <2>1, <2>2
<1> QED
  BY <1>1, <1>5, <1>6 DEF SettledFacts

(* Once the threads shuffle, a step exchanges two keys or none.            *)
LEMMA OnlySwapsStep ==
    ASSUME Inv, SettledFacts, SettledFacts', [GenNext]_genVars,
           \A t \in GenThreads : gpc[t] \notin {"fill", "barrier"}
    PROVE  Settled' = Settled \/ \E x, y \in Indexes : Exchanged(x, y)
<1>1. CASE UNCHANGED genVars
  BY <1>1, SettledKept DEF genVars, InSwap
<1>2. CASE ReleaseGenerators
  <2>1. 0 \in GenThreads
    BY InputFacts DEF Inv, TypeInv, Typed, GenThreads
  <2> QED
    BY <1>2, <2>1 DEF ReleaseGenerators, AllArrived
<1>3. CASE \E t \in GenThreads : ThreadStep(t)
  <2>1. PICK t \in GenThreads : ThreadStep(t)
    BY <1>3
  <2>2. CASE WriteOwn(t)
    <3>1. k(t) \in Indexes /\ w[t].j \in Indexes
      BY <2>2, IndexFacts DEF Inv, WriteOwn, Swapping, Steps
    <3> QED
      BY <2>2, <3>1, FirstWrite
  <2>3. CASE WritePartner(t)
    BY <2>3, SecondWrite
  <2>4. CASE ArriveAtBarrier(t) \/ DrawPartner(t) \/ LockOwn(t) \/ LockPartner(t)
             \/ ReadOwn(t) \/ UnlockPartner(t) \/ UnlockOwn(t) \/ EndThread(t)
    <3>1. input' = input /\ tuples' = tuples /\ (InSwap(t)' <=> InSwap(t)) /\ ~InSwap(t)
      BY <2>4 DEF Inv, TypeInv, Typed, InSwap, ArriveAtBarrier, DrawPartner, LockOwn,
         LockPartner, Lock, ReadOwn, UnlockPartner, Unlock, UnlockOwn, EndThread
    <3>2. ASSUME NEW u \in GenThreads \ {t}
          PROVE  (InSwap(u)' <=> InSwap(u)) /\ w'[u] = w[u]
      BY <2>1, OthersKept DEF Inv, InSwap
    <3> QED
      BY <3>1, <3>2, SettledKept
  <2>5. CASE FillBelow(t) \/ FillAbove(t)
    BY <2>5 DEF FillBelow, FillAbove
  <2> QED
    BY <2>1, <2>2, <2>3, <2>4, <2>5 DEF ThreadStep
<1> QED
  BY <1>1, <1>2, <1>3 DEF GenNext
-----------------------------------------------------------------------------
(* The invariant holds when the threads are created.                       *)
LEMMA InvInit == GenInit => Inv
<1> SUFFICES ASSUME GenInit PROVE Inv
  OBVIOUS
<1>1. input \in Inputs
  BY DEF GenInit
<1>2. ASSUME NEW t \in GenThreads PROVE w[t] \in Locals /\ InLoop(t)
  BY <1>1, <1>2, Chunk DEF GenInit, Locals, InLoop, Swapping
<1>3. TypeInv
  <2>1. w \in [GenThreads -> Locals]
    BY <1>2 DEF GenInit
  <2> QED
    BY <1>1, <1>2, <2>1 DEF GenInit, TypeInv, Typed, Steps
<1>4. SwapsExclusive /\ OnePhase /\ OwnRemembered
  BY DEF GenInit, SwapsExclusive, OnePhase, OwnRemembered, Holds
<1> QED
  BY <1>3, <1>4 DEF Inv

(* The invariant holds for ever.                                           *)
LEMMA Invariant == GenSpec => []Inv
<1>1. Inv /\ [GenNext]_genVars => Inv'
  BY TypeStep, ExclusiveStep, PhaseStep, RememberedStep DEF Inv
<1> QED
  BY InvInit, <1>1, PTL DEF GenSpec

(* parallel_create_relation and its threads keep to the relation: every    *)
(* index is within it, every thread within its chunk, and a partner below  *)
(* its tuple, for any sizes, number of threads, selectivity and random     *)
(* numbers.                                                                *)
THEOREM TypeCorrect == GenSpec => []TypeOK
<1>1. Inv => TypeOK
  BY TypeOKFromTypeInv DEF Inv
<1> QED
  BY Invariant, <1>1, PTL

(* No two threads swap a tuple they share (random_unique_gen_thread,       *)
(* generator.c:207-218), for any number of threads and tuples.             *)
THEOREM SwapsAreExclusive == GenSpec => []SwapsExclusive
<1>1. Inv => SwapsExclusive
  BY DEF Inv
<1> QED
  BY Invariant, <1>1, PTL

(* The shuffle of any number of threads is a sequence of exchanges of two  *)
(* keys, each taking effect with its first write (generator.c:214): no key *)
(* is lost or doubled.                                                     *)
THEOREM NoKeyLostOrDoubled == GenSpec => OnlySwaps
<1>1. Inv => SettledFacts
  BY SettledIs DEF Inv
<1>2. Inv /\ SettledFacts /\ SettledFacts' /\ [GenNext]_genVars
        => [(\A t \in GenThreads : gpc[t] \notin {"fill", "barrier"})
             => \/ Settled' = Settled
                \/ \E x, y \in Indexes :
                     Settled' = [Settled EXCEPT ![x] = Settled[y], ![y] = Settled[x]]]_genVars
  BY OnlySwapsStep DEF Exchanged
<1> QED
  BY Invariant, <1>1, <1>2, PTL DEF GenSpec, OnlySwaps, SwapsAtMost
-----------------------------------------------------------------------------
(* m parts of n things: e in each but the last, which has the rest.        *)
PartSize(k0, e, m, n) == IF k0 = m - 1 THEN n - (m - 1) * e ELSE e

(* Every thing is in one of the parts.                                     *)
LEMMA Parts ==
    ASSUME NEW m \in Nat \ {0}, NEW e \in Nat, NEW n \in Nat, (m - 1) * e <= n
    PROVE  /\ \A a \in 0 .. m - 1 : a * e \in Nat /\ PartSize(a, e, m, n) \in Nat
                                    /\ a * e + PartSize(a, e, m, n) <= n
           /\ \A x \in 0 .. n - 1 : \E a \in 0 .. m - 1, l \in Nat :
                 l < PartSize(a, e, m, n) /\ x = a * e + l
           /\ \A a, b \in 0 .. m - 1, l, h \in Nat :
                 l < PartSize(a, e, m, n) /\ h < PartSize(b, e, m, n)
                 /\ a * e + l = b * e + h => a = b /\ l = h
<1> DEFINE P(a) == a * e
           N(a) == IF a = m - 1 THEN n - P(m - 1) ELSE e
<1>1. /\ \A a \in Nat : P(a) \in Nat
      /\ \A a, b \in Nat : a < b => P(a) + e <= P(b)
      /\ P(m - 1) <= n
  <2>1. \A a \in Nat : P(a) \in Nat
    BY ProductNat
  <2>2. ASSUME NEW a \in Nat, NEW b \in Nat, a < b PROVE P(a) + e <= P(b)
    <3>1. (a + 1) * e <= b * e
      BY <2>2, ProductMonotone
    <3>2. (a + 1) * e = a * e + e
      OBVIOUS
    <3> QED
      BY <3>1, <3>2
  <2> QED
    BY <2>1, <2>2
<1>2. \A x \in Nat : x < P(m - 1) => \E a \in 0 .. m - 2, l \in Nat : l < e /\ x = P(a) + l
  <2> TAKE x \in Nat
  <2> HAVE x < P(m - 1)
  <2>1. e # 0
    <3> SUFFICES ASSUME e = 0 PROVE FALSE
      OBVIOUS
    <3>1. P(m - 1) = 0
      OBVIOUS
    <3> QED
      BY <3>1
  <2>2. PICK a \in Nat : P(a) <= x /\ x < P(a) + e
    <3>1. e \in Nat \ {0}
      BY <2>1
    <3> QED
      BY <3>1, Quotient
  <2> HIDE DEF P
  <2>3. a <= m - 2
    <3> SUFFICES ASSUME ~(a <= m - 2) PROVE FALSE
      OBVIOUS
    <3>1. a = m - 1 \/ m - 1 < a
      OBVIOUS
    <3>2. P(m - 1) <= P(a)
      <4>1. m - 1 \in Nat /\ P(a) \in Nat /\ P(m - 1) \in Nat
        BY <1>1
      <4> QED
        BY <1>1, <3>1, <4>1
    <3> QED
      BY <1>1, <2>2, <3>2
  <2>4. x - P(a) \in Nat /\ x - P(a) < e /\ x = P(a) + (x - P(a))
    BY <1>1, <2>2
  <2> QED
    BY <2>3, <2>4
<1> HIDE DEF P
<1>3. \A a \in 0 .. m - 1 : P(a) \in Nat /\ N(a) \in Nat /\ P(a) + N(a) <= n
  <2> TAKE a \in 0 .. m - 1
  <2>1. P(a) \in Nat /\ P(m - 1) \in Nat
    BY <1>1
  <2>2. CASE a = m - 1
    BY <1>1, <2>1, <2>2
  <2>3. CASE a # m - 1
    <3>1. P(a) + e <= P(m - 1)
      BY <1>1, <2>3
    <3> QED
      BY <1>1, <2>1, <2>3, <3>1
  <2> QED
    BY <2>2, <2>3
<1>4. ASSUME NEW x \in 0 .. n - 1
      PROVE  \E a \in 0 .. m - 1, l \in Nat : l < N(a) /\ x = P(a) + l
  <2>1. CASE x < P(m - 1)
    <3>1. PICK a \in 0 .. m - 2, l \in Nat : l < e /\ x = P(a) + l
      BY <1>2, <2>1
    <3> QED
      BY <3>1
  <2>2. CASE ~(x < P(m - 1))
    <3>1. P(m - 1) \in Nat
      BY <1>1
    <3>2. x - P(m - 1) \in Nat /\ x - P(m - 1) < N(m - 1) /\ x = P(m - 1) + (x - P(m - 1))
      BY <2>2, <3>1
    <3> QED
      BY <3>2
  <2> QED
    BY <2>1, <2>2
<1>5. ASSUME NEW a \in 0 .. m - 1, NEW b \in 0 .. m - 1, NEW l \in Nat, NEW h \in Nat,
             l < N(a), P(a) + l = P(b) + h, a < b
      PROVE  FALSE
  <2>1. P(a) + e <= P(b) /\ P(a) \in Nat /\ P(b) \in Nat /\ a # m - 1
    BY <1>1, <1>5
  <2> QED
    BY <1>5, <2>1
<1>6. ASSUME NEW a \in 0 .. m - 1, NEW b \in 0 .. m - 1, NEW l \in Nat, NEW h \in Nat,
             l < N(a), h < N(b), P(a) + l = P(b) + h
      PROVE  a = b /\ l = h
  <2>1. ~(a < b) /\ ~(b < a)
    BY <1>5, <1>6
  <2>2. a = b
    BY <2>1
  <2> QED
    BY <1>1, <1>6, <2>2
<1>7. \A a : P(a) = a * e /\ N(a) = PartSize(a, e, m, n)
  BY DEF P, PartSize
<1> HIDE DEF N
<1> QED
  BY <1>3, <1>4, <1>6, <1>7

(* A number is split into quotient and remainder in one way only.          *)
LEMMA Remainder ==
    ASSUME NEW h \in Nat \ {0}, NEW q \in Nat, NEW r \in Nat, r < h
    PROVE  (q * h + r) % h = r
<1> DEFINE a == q * h + r
           q2 == a \div h
           r2 == a % h
<1>1. a \in Nat /\ q * h \in Nat
  BY ProductNat
<1>2. q2 \in Nat /\ r2 \in Nat /\ r2 < h /\ q2 * h + r2 = a /\ q2 * h \in Nat
  <2> HIDE DEF a
  <2>1. q2 \in Nat /\ r2 \in Nat /\ r2 < h /\ h * q2 + r2 = a
    BY <1>1
  <2> HIDE DEF q2
  <2>2. h * q2 = q2 * h
    BY <2>1
  <2> QED
    BY <2>1, <2>2, ProductNat
<1>3. q2 * h + r2 = q * h + r
  BY <1>2 DEF a
<1> HIDE DEF a, q2, r2
<1>4. ASSUME NEW x \in Nat, NEW y \in Nat, x < y PROVE x * h + h <= y * h
  <2>1. (x + 1) * h <= y * h
    BY <1>4, ProductMonotone
  <2>2. (x + 1) * h = x * h + h
    OBVIOUS
  <2> QED
    BY <2>1, <2>2
<1>5. ~ (q2 < q)
  <2> SUFFICES ASSUME q2 < q PROVE FALSE
    OBVIOUS
  <2>1. q2 * h + h <= q * h
    BY <1>2, <1>4
  <2> QED
    BY <1>1, <1>2, <1>3, <2>1
<1>6. ~ (q < q2)
  <2> SUFFICES ASSUME q < q2 PROVE FALSE
    OBVIOUS
  <2>1. q * h + h <= q2 * h
    BY <1>2, <1>4
  <2> QED
    BY <1>1, <1>2, <1>3, <2>1
<1>7. q2 = q
  BY <1>2, <1>5, <1>6
<1>8. r2 = r
  BY <1>1, <1>3, <1>7, <1>2
<1> QED
  BY <1>8 DEF a, r2

(* Counting on from a remainder.                                           *)
LEMMA NextRemainder ==
    ASSUME NEW p \in Nat, NEW h \in Nat \ {0}
    PROVE  /\ p % h \in 0 .. h - 1
           /\ (p + 1) % h = IF p % h = h - 1 THEN 0 ELSE (p % h) + 1
<1> DEFINE q == p \div h
           r == p % h
<1>1. q \in Nat /\ r \in Nat /\ r < h /\ h * q + r = p
  OBVIOUS
<1> HIDE DEF q, r
<1>2. h * q = q * h /\ q * h \in Nat
  BY <1>1, ProductNat
<1>3. CASE r = h - 1
  <2>1. (q + 1) * h = q * h + h
    BY <1>1
  <2>2. p + 1 = (q + 1) * h + 0
    BY <1>1, <1>2, <1>3, <2>1
  <2>3. ((q + 1) * h + 0) % h = 0
    BY <1>1, Remainder
  <2> QED
    BY <1>1, <1>3, <2>2, <2>3 DEF r
<1>4. CASE r # h - 1
  <2>1. p + 1 = q * h + (r + 1)
    BY <1>1, <1>2
  <2>2. PICK s \in Nat : s = r + 1 /\ s < h
    BY <1>1, <1>4
  <2>3. (q * h + s) % h = s
    BY <1>1, <2>2, Remainder
  <2> QED
    BY <1>1, <1>4, <2>1, <2>2, <2>3 DEF r
<1> QED
  BY <1>3, <1>4

(* Two finite sets that a function pairs off have equally many elements.   *)
LEMMA PairedOff ==
    ASSUME NEW S, NEW T, IsFiniteSet(S), NEW f \in [S -> T],
           \A x, y \in S : f[x] = f[y] => x = y,
           \A y \in T : \E x \in S : f[x] = y
    PROVE  Cardinality(T) = Cardinality(S)
<1>1. f \in Bijection(S, T)
  BY DEF Bijection, Injection, Surjection, IsInjective
<1> QED
  BY <1>1, FS_Bijection DEF ExistsBijection

(* Two finite sets that a relation pairs off have equally many elements.   *)
LEMMA PairedBy ==
    ASSUME NEW S, NEW T, IsFiniteSet(S), NEW R,
           \A x \in S : \E y \in T : <<x, y>> \in R,
           \A y \in T : \E x \in S : <<x, y>> \in R,
           \A x \in S, y, z \in T : <<x, y>> \in R /\ <<x, z>> \in R => y = z,
           \A x, y \in S, z \in T : <<x, z>> \in R /\ <<y, z>> \in R => x = y
    PROVE  Cardinality(T) = Cardinality(S)
<1> DEFINE f == [x \in S |-> CHOOSE y \in T : <<x, y>> \in R]
<1>1. \A x \in S : f[x] \in T /\ <<x, f[x]>> \in R
  OBVIOUS
<1>2. f \in [S -> T]
  BY <1>1
<1> HIDE DEF f
<1>3. \A x, y \in S : f[x] = f[y] => x = y
  BY <1>1
<1>4. \A y \in T : \E x \in S : f[x] = y
  <2> TAKE y \in T
  <2>1. PICK x \in S : <<x, y>> \in R
    OBVIOUS
  <2>2. f[x] = y
    BY <1>1, <2>1
  <2> QED
    BY <2>2
<1> QED
  BY <1>2, <1>3, <1>4, PairedOff
-----------------------------------------------------------------------------
(* How many tuples with a partner there are in each chunk but the last.    *)
matched_perthr == ntuples_perthr - AboveOf(ntuples_perthr)

(* Tuple i of chunk t has index x, and is number o of those with a partner. *)
At(t, i, x) == i \in Nat /\ i < num_tuples(t) /\ x = ChunkStart(t) + i
Number(t, i) == t * matched_perthr + i
Numbered(t, i, o) == i \in Nat /\ i < numtuples_below(t) /\ o = Number(t, i)

(* The chunks and their matched tuples are parts of the relation and of    *)
(* its matched tuples.                                                     *)
LEMMA MatchedSizes ==
    ASSUME input \in Inputs
    PROVE  /\ matched_perthr \in Nat /\ Matched \in Nat
           /\ (input.nthreads - 1) * matched_perthr <= Matched
           /\ (input.nthreads - 1) * ntuples_perthr <= input.num_tuples
           /\ \A t \in GenThreads :
                /\ numtuples_above(t) \in Nat
                /\ num_tuples(t) = PartSize(t, ntuples_perthr, input.nthreads, input.num_tuples)
                /\ numtuples_below(t) = PartSize(t, matched_perthr, input.nthreads, Matched)
<1> USE InputFacts, ChunkSize
<1> DEFINE m == input.nthreads - 1
           e == ntuples_perthr
           a == AboveOf(ntuples_perthr)
           n == input.num_tuples
           A == AboveOf(input.num_tuples)
<1>1. m \in Nat /\ e \in Nat /\ a \in Nat /\ n \in Nat
  OBVIOUS
<1>2. \A c \in Nat : AboveOf(c) \in Nat /\ AboveOf(c) <= c
  <2> TAKE c \in Nat
  <2> DEFINE p == input.above[1]
             q == input.above[2]
             g == (c * p) \div q
  <2>1. p \in Nat /\ q \in Nat \ {0} /\ p <= q
    BY InputsAssumption
  <2> HIDE DEF p, q
  <2>2. c * p \in Nat
    BY <2>1, ProductNat
  <2>3. g \in Nat /\ g * q <= c * p
    BY <2>1, <2>2, Quotient
  <2> HIDE DEF g
  <2>4. c * p <= c * q
    <3>1. p * c <= q * c
      BY <2>1, ProductMonotone
    <3>2. p * c = c * p /\ q * c = c * q
      BY <2>1
    <3> QED
      BY <3>1, <3>2
  <2>5. ~ (c < g)
    <3> SUFFICES ASSUME c < g PROVE FALSE
      OBVIOUS
    <3>1. (c + 1) * q <= g * q
      BY <2>1, <2>3, ProductMonotone
    <3>2. (c + 1) * q = c * q + q
      BY <2>1
    <3>3. c * q \in Nat /\ g * q \in Nat
      BY <2>1, <2>3, ProductNat
    <3> QED
      BY <2>1, <2>2, <2>3, <2>4, <3>1, <3>2, <3>3
  <2>6. AboveOf(c) = g
    BY DEF AboveOf, g, p, q
  <2> QED
    BY <2>3, <2>5, <2>6
<1>3. a <= e /\ A \in Nat /\ A <= n
  BY <1>1, <1>2
<1>4. matched_perthr = e - a /\ Matched = n - A
  BY DEF matched_perthr, Matched
<1>5. m * (e - a) = m * e - m * a /\ e * m = m * e
  BY <1>1
<1>6. m * e \in Nat /\ m * a \in Nat
  BY <1>1, ProductNat
<1>7. ntuples_lastthr = n - m * e /\ ntuples_above_lastthr = A - m * a
  BY <1>5 DEF ntuples_lastthr, ntuples_above_lastthr
<1>8. A - m * a <= n - m * e
  <2>1. Fits(input)
    OBVIOUS
  <2>2. ntuples_above_lastthr <= ntuples_lastthr
    <3>1. CASE npages_perthr = 0
      <4>1. ntuples_perthr = input.num_tuples \div input.nthreads
        BY <3>1 DEF ntuples_perthr
      <4>2. (input.num_tuples \div PageTuples + 1) \div input.nthreads = 0
        BY <3>1 DEF npages_perthr, npages
      <4>3. ((input.num_tuples \div PageTuples + 1) \div input.nthreads) * PageTuples = 0
        BY <4>2, SizesAssumption
      <4> QED
        BY ONLY <2>1, <4>1, <4>3 DEF Fits, ntuples_above_lastthr, AboveOf, ntuples_lastthr
    <3>2. CASE npages_perthr # 0
      <4>1. ntuples_perthr = ((input.num_tuples \div PageTuples + 1) \div input.nthreads) * PageTuples
        BY <3>2 DEF ntuples_perthr, npages_perthr, npages
      <4>2. ntuples_perthr # 0
        OBVIOUS
      <4> QED
        BY ONLY <2>1, <4>1, <4>2 DEF Fits, ntuples_above_lastthr, AboveOf, ntuples_lastthr
    <3> QED
      BY <3>1, <3>2
  <2> QED
    BY ONLY <1>7, <2>2
<1>9. ASSUME NEW t \in GenThreads
      PROVE  /\ numtuples_above(t) \in Nat
             /\ num_tuples(t) = PartSize(t, e, m + 1, n)
             /\ numtuples_below(t) = PartSize(t, e - a, m + 1, n - A)
  <2>1. (m + 1) - 1 = m /\ (LastThread(t) <=> t = m)
    BY <1>1 DEF LastThread
  <2> HIDE DEF m, e, a, n, A
  <2>2. CASE t = m
    <3>1. num_tuples(t) = n - m * e /\ numtuples_above(t) = A - m * a
          /\ numtuples_above(t) \in Nat
      BY <2>1, <2>2, <1>7 DEF num_tuples, numtuples_above
    <3>2. numtuples_below(t) = (n - A) - m * (e - a)
      BY <1>1, <1>3, <1>5, <1>6, <3>1 DEF numtuples_below
    <3> QED
      BY <2>1, <2>2, <3>1, <3>2, <1>1 DEF PartSize
  <2>3. CASE t # m
    <3>1. num_tuples(t) = e /\ numtuples_above(t) = a
      BY <2>1, <2>3 DEF num_tuples, numtuples_above, e, a
    <3> QED
      BY <2>1, <2>3, <3>1, <1>1 DEF PartSize, numtuples_below
  <2> QED
    BY <2>2, <2>3
<1>10. m + 1 = input.nthreads
  BY DEF m
<1>11. ntuples_lastthr \in Nat
  OBVIOUS
<1> HIDE DEF m, e, a, n, A
<1>12. m * matched_perthr <= Matched /\ m * e <= n
  BY <1>1, <1>3, <1>4, <1>5, <1>6, <1>7, <1>8, <1>11
<1>13. matched_perthr \in Nat /\ Matched \in Nat
  BY <1>1, <1>3, <1>4
<1> QED
  BY <1>4, <1>9, <1>10, <1>12, <1>13 DEF m, e, n, a, A
-----------------------------------------------------------------------------
(* Every index of the relation is that of one tuple of one chunk.          *)
LEMMA Indices ==
    ASSUME input \in Inputs
    PROVE  /\ \A t \in GenThreads : \A i, x : At(t, i, x) => x \in Indexes
           /\ \A x \in Indexes : \E t \in GenThreads, i \in Nat : At(t, i, x)
           /\ \A t, u \in GenThreads : \A i, j, x : At(t, i, x) /\ At(u, j, x) => t = u /\ i = j
           /\ \A t \in GenThreads, i \in Nat : i < num_tuples(t) => At(t, i, ChunkStart(t) + i)
<1> DEFINE m == input.nthreads
           e == ntuples_perthr
           n == input.num_tuples
<1>1. m \in Nat \ {0} /\ e \in Nat /\ n \in Nat /\ (m - 1) * e <= n
  BY InputFacts, ChunkSize, MatchedSizes
<1>2. GenThreads = 0 .. m - 1 /\ Indexes = 0 .. n - 1
  BY DEF GenThreads, Indexes
<1>3. \A t \in GenThreads : num_tuples(t) = PartSize(t, e, m, n)
  BY MatchedSizes
<1>4. \A t : ChunkStart(t) = t * e
  BY DEF ChunkStart
<1> HIDE DEF m, e, n
<1>5. /\ \A a \in 0 .. m - 1 : a * e \in Nat /\ PartSize(a, e, m, n) \in Nat
                               /\ a * e + PartSize(a, e, m, n) <= n
      /\ \A x \in 0 .. n - 1 : \E a \in 0 .. m - 1, l \in Nat :
            l < PartSize(a, e, m, n) /\ x = a * e + l
      /\ \A a, b \in 0 .. m - 1, l, h \in Nat :
            l < PartSize(a, e, m, n) /\ h < PartSize(b, e, m, n)
            /\ a * e + l = b * e + h => a = b /\ l = h
  BY <1>1, Parts
<1>6. ASSUME NEW t \in GenThreads, NEW i, NEW x, At(t, i, x) PROVE x \in Indexes
  <2>1. i \in Nat /\ i < PartSize(t, e, m, n) /\ x = t * e + i
    BY <1>3, <1>4, <1>6 DEF At
  <2>2. t * e \in Nat /\ PartSize(t, e, m, n) \in Nat /\ t * e + PartSize(t, e, m, n) <= n
    BY <1>2, <1>5
  <2> QED
    BY <1>1, <1>2, <2>1, <2>2
<1>7. ASSUME NEW x \in Indexes PROVE \E t \in GenThreads, i \in Nat : At(t, i, x)
  <2>1. PICK t \in 0 .. m - 1, l \in Nat : l < PartSize(t, e, m, n) /\ x = t * e + l
    BY <1>2, <1>5
  <2>2. At(t, l, x)
    BY <1>2, <1>3, <1>4, <2>1 DEF At
  <2> QED
    BY <1>2, <2>2
<1>8. ASSUME NEW t \in GenThreads, NEW u \in GenThreads, NEW i, NEW j, NEW x, At(t, i, x), At(u, j, x)
      PROVE  t = u /\ i = j
  <2>1. i \in Nat /\ i < PartSize(t, e, m, n) /\ x = t * e + i
        /\ j \in Nat /\ j < PartSize(u, e, m, n) /\ x = u * e + j
    BY <1>3, <1>4, <1>8 DEF At
  <2> QED
    BY <1>2, <1>5, <2>1
<1> QED
  BY <1>6, <1>7, <1>8 DEF At

(* Every number below that of the matched tuples is that of one tuple.     *)
LEMMA Numbers ==
    ASSUME input \in Inputs
    PROVE  /\ \A t \in GenThreads : \A i, o : Numbered(t, i, o) => o \in 0 .. Matched - 1
           /\ \A o \in 0 .. Matched - 1 : \E t \in GenThreads, i \in Nat : Numbered(t, i, o)
           /\ \A t, u \in GenThreads : \A i, j, o :
                Numbered(t, i, o) /\ Numbered(u, j, o) => t = u /\ i = j
           /\ \A t \in GenThreads : numtuples_below(t) \in Nat
           /\ \A t \in GenThreads, i \in Nat : Number(t, i) \in Nat
<1> DEFINE m == input.nthreads
           e == matched_perthr
           n == Matched
<1>1. m \in Nat \ {0} /\ e \in Nat /\ n \in Nat /\ (m - 1) * e <= n
  BY InputFacts, MatchedSizes
<1>2. GenThreads = 0 .. m - 1 /\ 0 .. Matched - 1 = 0 .. n - 1
  BY DEF GenThreads
<1>3. \A t \in GenThreads : numtuples_below(t) = PartSize(t, e, m, n)
  BY MatchedSizes
<1>4. \A t, i : Number(t, i) = t * e + i
  BY DEF Number
<1> HIDE DEF m, e, n
<1>5. /\ \A a \in 0 .. m - 1 : a * e \in Nat /\ PartSize(a, e, m, n) \in Nat
                               /\ a * e + PartSize(a, e, m, n) <= n
      /\ \A x \in 0 .. n - 1 : \E a \in 0 .. m - 1, l \in Nat :
            l < PartSize(a, e, m, n) /\ x = a * e + l
      /\ \A a, b \in 0 .. m - 1, l, h \in Nat :
            l < PartSize(a, e, m, n) /\ h < PartSize(b, e, m, n)
            /\ a * e + l = b * e + h => a = b /\ l = h
  BY <1>1, Parts
<1>6. ASSUME NEW t \in GenThreads, NEW i, NEW o, Numbered(t, i, o) PROVE o \in 0 .. Matched - 1
  <2>1. i \in Nat /\ i < PartSize(t, e, m, n) /\ o = t * e + i
    BY <1>3, <1>4, <1>6 DEF Numbered
  <2>2. t * e \in Nat /\ PartSize(t, e, m, n) \in Nat /\ t * e + PartSize(t, e, m, n) <= n
    BY <1>2, <1>5
  <2>3. o \in 0 .. n - 1
    BY <1>1, <2>1, <2>2
  <2> QED
    BY <1>2, <2>3
<1>7. ASSUME NEW o \in 0 .. Matched - 1 PROVE \E t \in GenThreads, i \in Nat : Numbered(t, i, o)
  <2>1. PICK t \in 0 .. m - 1, l \in Nat : l < PartSize(t, e, m, n) /\ o = t * e + l
    BY <1>2, <1>5
  <2>2. Numbered(t, l, o)
    BY <1>2, <1>3, <1>4, <2>1 DEF Numbered
  <2> QED
    BY <1>2, <2>2
<1>8. ASSUME NEW t \in GenThreads, NEW u \in GenThreads, NEW i, NEW j, NEW o,
             Numbered(t, i, o), Numbered(u, j, o)
      PROVE  t = u /\ i = j
  <2>1. i \in Nat /\ i < PartSize(t, e, m, n) /\ o = t * e + i
        /\ j \in Nat /\ j < PartSize(u, e, m, n) /\ o = u * e + j
    BY <1>3, <1>4, <1>8 DEF Numbered
  <2> QED
    BY <1>2, <1>5, <2>1
<1>9. \A t \in GenThreads : numtuples_below(t) \in Nat /\ t * e \in Nat
  BY <1>2, <1>3, <1>5
<1>10. \A t \in GenThreads, i \in Nat : Number(t, i) \in Nat
  BY <1>4, <1>9
<1> QED
  BY <1>6, <1>7, <1>8, <1>9, <1>10
-----------------------------------------------------------------------------
(* The key of matched tuple o, and the one that a thread gives to its      *)
(* tuple i: 0 for the last of a cycle where that starts its chunk.         *)
OrderedKey(o) == (o % input.threshold) + 1
MatchedKey(t, i) ==
    IF i = 0 /\ OrderedKey(Number(t, 0)) = input.threshold THEN 0
    ELSE OrderedKey(Number(t, i))

(* The key of thread t's tuple i is key.                                   *)
RightKey(t, i, key) ==
    IF i < numtuples_below(t) THEN key = MatchedKey(t, i)
    ELSE IF i = numtuples_below(t) THEN key = firstkey_above(t)
    ELSE key > input.threshold

(* What a thread has written of its chunk, and will write next.            *)
FillingKeys(t) ==
    /\ \A i \in Nat : i < w[t].i => RightKey(t, i, tuples[ChunkStart(t) + i])
    /\ w[t].i <= numtuples_below(t)
        => w[t].key = MatchedKey(t, w[t].i) /\ w[t].key_above = firstkey_above(t)
    /\ w[t].i > numtuples_below(t) => w[t].key_above > input.threshold
    /\ gpc[t] = "barrier" => w[t].i = num_tuples(t)

Filling == \A t \in GenThreads : gpc[t] \in {"fill", "barrier"} => FillingKeys(t)

(* The keys count from 1 to threshold and again from 1.                    *)
LEMMA KeyFacts ==
    ASSUME input \in Inputs
    PROVE  /\ \A o \in Nat : OrderedKey(o) \in 1 .. input.threshold
           /\ \A t \in GenThreads : firstkey(t) = MatchedKey(t, 0)
           /\ \A t \in GenThreads, i \in Nat :
                MatchedKey(t, i + 1) =
                    IF MatchedKey(t, i) = input.threshold THEN 1 ELSE MatchedKey(t, i) + 1
           /\ \A t \in GenThreads : firstkey_above(t) \in Nat /\ firstkey_above(t) >= input.threshold
<1> DEFINE h == input.threshold
<1>1. h \in Nat \ {0}
  BY InputFacts
<1>2. \A o \in Nat : o % h \in 0 .. h - 1 /\ OrderedKey(o) = (o % h) + 1
                     /\ (o + 1) % h = IF o % h = h - 1 THEN 0 ELSE (o % h) + 1
  BY <1>1, NextRemainder DEF OrderedKey
<1>3. \A o \in Nat : OrderedKey(o) \in 1 .. h
  BY <1>1, <1>2
<1>4. ASSUME NEW t \in GenThreads PROVE firstkey(t) = MatchedKey(t, 0)
  <2>1. PICK o \in Nat : o = Number(t, 0)
    BY Numbers
  <2>2. t * matched_perthr \in Nat
    <3>1. t \in Nat /\ matched_perthr \in Nat
      BY InputFacts, MatchedSizes DEF GenThreads
    <3> QED
      BY <3>1, ProductNat
  <2>3. o = t * matched_perthr
    BY <2>1, <2>2 DEF Number
  <2>4. firstkey(t) = (o + 1) % h
    BY <2>3 DEF firstkey, matched_perthr
  <2>5. MatchedKey(t, 0) = IF OrderedKey(o) = h THEN 0 ELSE OrderedKey(o)
    BY <2>1 DEF MatchedKey
  <2> HIDE DEF h
  <2>6. PICK r \in 0 .. h - 1 :
           OrderedKey(o) = r + 1 /\ (o + 1) % h = IF r = h - 1 THEN 0 ELSE r + 1
    BY <1>2
  <2> QED
    BY <1>1, <2>4, <2>5, <2>6
<1>5. ASSUME NEW t \in GenThreads, NEW i \in Nat
      PROVE  MatchedKey(t, i + 1) = IF MatchedKey(t, i) = h THEN 1 ELSE MatchedKey(t, i) + 1
  <2>1. PICK o \in Nat : o = Number(t, i)
    BY Numbers
  <2>2. Number(t, i + 1) = o + 1
    <3>1. t * matched_perthr \in Nat
      <4>1. t \in Nat /\ matched_perthr \in Nat
        BY InputFacts, MatchedSizes DEF GenThreads
      <4> QED
        BY <4>1, ProductNat
    <3> QED
      BY <2>1, <3>1 DEF Number
  <2>3. MatchedKey(t, i + 1) = OrderedKey(o + 1)
    BY <2>2 DEF MatchedKey
  <2>4. MatchedKey(t, i) = OrderedKey(o) \/ (MatchedKey(t, i) = 0 /\ OrderedKey(o) = h)
    BY <2>1 DEF MatchedKey
  <2>5. OrderedKey(o + 1) = ((o + 1) % h) + 1 /\ o + 1 \in Nat
    BY DEF OrderedKey
  <2> HIDE DEF h
  <2>6. PICK r \in 0 .. h - 1 :
           OrderedKey(o) = r + 1 /\ (o + 1) % h = IF r = h - 1 THEN 0 ELSE r + 1
    BY <1>2
  <2>7. OrderedKey(o + 1) = IF r = h - 1 THEN 1 ELSE r + 2
    BY <1>1, <2>5, <2>6
  <2> QED
    BY <1>1, <2>3, <2>4, <2>6, <2>7
<1>6. ASSUME NEW t \in GenThreads PROVE firstkey_above(t) \in Nat /\ firstkey_above(t) >= h
  <2>1. PICK c \in Int : c = t * AboveOf(ntuples_perthr) + 1
    <3>1. t \in Nat /\ AboveOf(ntuples_perthr) \in Nat
      BY InputFacts, ChunkSize DEF GenThreads
    <3> QED
      BY <3>1
  <2>2. PICK d \in Nat \ {0} : d = MAX(1, input.maxid - input.threshold)
    BY InputFacts DEF MAX
  <2>3. firstkey_above(t) = h + (c % d)
    BY <2>1, <2>2 DEF firstkey_above
  <2>4. c % d \in Nat
    OBVIOUS
  <2> HIDE DEF h
  <2> QED
    BY <1>1, <2>3, <2>4
<1> QED
  BY <1>3, <1>4, <1>5, <1>6
-----------------------------------------------------------------------------
(* The keys to write depend on the arguments only.                         *)
LEMMA KeysConstant ==
    ASSUME input' = input
    PROVE  /\ \A t : numtuples_below(t)' = numtuples_below(t)
           /\ \A t : firstkey_above(t)' = firstkey_above(t)
           /\ \A t, i : MatchedKey(t, i)' = MatchedKey(t, i)
           /\ \A t, i, key : RightKey(t, i, key)' <=> RightKey(t, i, key)
<1>1. \A t : numtuples_below(t)' = numtuples_below(t)
  BY DEF numtuples_below, num_tuples, numtuples_above, LastThread, ntuples_lastthr,
     ntuples_above_lastthr, ntuples_perthr, npages_perthr, npages, AboveOf
<1>2. \A t : firstkey_above(t)' = firstkey_above(t)
  BY DEF firstkey_above, ntuples_perthr, npages_perthr, npages, AboveOf
<1>3. \A t, i : MatchedKey(t, i)' = MatchedKey(t, i)
  BY DEF MatchedKey, OrderedKey, Number, matched_perthr, ntuples_perthr, npages_perthr,
     npages, AboveOf
<1>4. \A t, i, key : RightKey(t, i, key)' <=> RightKey(t, i, key)
  BY <1>1, <1>2, <1>3 DEF RightKey
<1> QED
  BY <1>1, <1>2, <1>3, <1>4

(* A thread's keys stay when others write their chunks.                    *)
LEMMA OthersKeys ==
    ASSUME TypeInv, input' = input, NEW u \in GenThreads, FillingKeys(u),
           w'[u] = w[u], gpc'[u] = gpc[u],
           \A i \in Nat : i < w[u].i => tuples'[ChunkStart(u) + i] = tuples[ChunkStart(u) + i]
    PROVE  FillingKeys(u)'
<1>1. /\ numtuples_below(u)' = numtuples_below(u) /\ num_tuples(u)' = num_tuples(u)
      /\ ChunkStart(u)' = ChunkStart(u) /\ firstkey_above(u)' = firstkey_above(u)
      /\ input'.threshold = input.threshold
  BY Constant, KeysConstant
<1>2. \A i : MatchedKey(u, i)' = MatchedKey(u, i)
  BY KeysConstant
<1>3. \A i, key : RightKey(u, i, key)' <=> RightKey(u, i, key)
  BY KeysConstant
<1>4. ASSUME NEW i \in Nat, i < w'[u].i
      PROVE  RightKey(u, i, tuples[ChunkStart(u) + i])'
  <2>1. PICK key : key = tuples[ChunkStart(u) + i]
    OBVIOUS
  <2>2. RightKey(u, i, key)
    BY <1>4, <2>1 DEF FillingKeys
  <2>3. tuples'[ChunkStart(u)' + i] = key
    BY <1>1, <1>4, <2>1
  <2>4. RightKey(u, i, key)'
    BY <1>3, <2>2
  <2> QED
    BY <2>3, <2>4 DEF RightKey
<1>5. \A i \in Nat : i < w'[u].i => RightKey(u, i, tuples[ChunkStart(u) + i])'
  BY <1>4
<1>6. PICK n : n = w[u].i /\ n = w'[u].i
  OBVIOUS
<1>7. MatchedKey(u, w[u].i)' = MatchedKey(u, w[u].i)
  <2>1. MatchedKey(u, n)' = MatchedKey(u, n)
    BY <1>2
  <2> QED
    BY <1>6, <2>1 DEF MatchedKey, Number
<1> QED
  BY <1>1, <1>5, <1>6, <1>7 DEF FillingKeys

(* The chunks of two threads share no index.                               *)
LEMMA ChunksApart ==
    ASSUME TypeInv, NEW t \in GenThreads, NEW u \in GenThreads, t # u,
           w[t].i < num_tuples(t), NEW i \in Nat, i < w[u].i
    PROVE  ChunkStart(u) + i # k(t)
<1>1. w[t].i \in Nat /\ w[u].i \in Nat /\ w[u].i <= num_tuples(u) /\ num_tuples(u) \in Nat
  BY Chunk DEF TypeInv, Typed, InLoop, Locals
<1>2. At(t, w[t].i, k(t)) /\ At(u, i, ChunkStart(u) + i)
  BY <1>1 DEF At, k
<1> QED
  BY <1>2, Indices DEF TypeInv, Typed

(* Storing one tuple of a chunk leaves the others of the chunk alone.      *)
LEMMA FillTuple ==
    ASSUME TypeInv, Filling, NEW t \in GenThreads, gpc[t] = "fill", w[t].i < num_tuples(t),
           input' = input, gpc' = gpc, \A u \in GenThreads \ {t} : w'[u] = w[u],
           NEW key \in Nat, tuples' = [tuples EXCEPT ![k(t)] = key], RightKey(t, w[t].i, key),
           w'[t].i = w[t].i + 1,
           w'[t].i <= numtuples_below(t)
             => w'[t].key = MatchedKey(t, w'[t].i) /\ w'[t].key_above = firstkey_above(t),
           w'[t].i > numtuples_below(t) => w'[t].key_above > input.threshold
    PROVE  Filling'
<1>1. GenThreads' = GenThreads
  BY Constant
<1>2. k(t) \in Indexes /\ tuples \in [Indexes -> Nat] /\ w[t].i \in Nat /\ ChunkStart(t) \in Nat
  BY IndexFacts, Chunk DEF TypeInv, Typed, Locals
<1>3. ASSUME NEW u \in GenThreads \ {t}, gpc'[u] \in {"fill", "barrier"} PROVE FillingKeys(u)'
  <2>1. ASSUME NEW i \in Nat, i < w[u].i
        PROVE  tuples'[ChunkStart(u) + i] = tuples[ChunkStart(u) + i]
    <3>1. ChunkStart(u) + i # k(t)
      BY <2>1, ChunksApart
    <3>2. ChunkStart(u) + i \in Indexes
      <4>1. At(u, i, ChunkStart(u) + i)
        <5>1. w[u].i \in Nat /\ w[u].i <= num_tuples(u) /\ num_tuples(u) \in Nat
          BY Chunk DEF TypeInv, Typed, InLoop, Locals
        <5> QED
          BY <2>1, <5>1 DEF At
      <4> QED
        BY <4>1, Indices DEF TypeInv, Typed
    <3> QED
      BY <1>2, <3>1, <3>2
  <2>2. FillingKeys(u)
    BY <1>3 DEF Filling
  <2> QED
    BY <2>1, <2>2, OthersKeys
<1>4. FillingKeys(t)'
  <2>1. /\ numtuples_below(t)' = numtuples_below(t) /\ ChunkStart(t)' = ChunkStart(t)
        /\ firstkey_above(t)' = firstkey_above(t)
    BY Constant, KeysConstant
  <2>2. \A i, y : RightKey(t, i, y)' <=> RightKey(t, i, y)
    BY KeysConstant
  <2>3. ASSUME NEW i \in Nat, i < w'[t].i
        PROVE  RightKey(t, i, tuples[ChunkStart(t) + i])'
    <3>1. PICK y : y = tuples'[ChunkStart(t) + i]
      OBVIOUS
    <3>2. RightKey(t, i, y)
      <4>1. CASE i = w[t].i
        <5>1. y = key
          BY <1>2, <3>1, <4>1 DEF k
        <5> QED
          BY <4>1, <5>1
      <4>2. CASE i # w[t].i
        <5>1. i < w[t].i
          BY <1>2, <2>3, <4>2
        <5>2. At(t, i, ChunkStart(t) + i)
          <6>1. num_tuples(t) \in Nat
            BY Chunk DEF TypeInv, Typed
          <6> QED
            BY <1>2, <5>1, <6>1 DEF At
        <5>3. ChunkStart(t) + i \in Indexes
          BY <5>2, Indices DEF TypeInv, Typed
        <5>4. ChunkStart(t) + i # k(t)
          BY <1>2, <4>2 DEF k
        <5>5. y = tuples[ChunkStart(t) + i]
          BY <1>2, <3>1, <5>3, <5>4
        <5>6. FillingKeys(t)
          BY DEF Filling
        <5> QED
          BY <5>1, <5>5, <5>6 DEF FillingKeys
      <4> QED
        BY <4>1, <4>2
    <3>3. RightKey(t, i, y)'
      BY <2>2, <3>2
    <3> QED
      BY <2>1, <3>1, <3>3 DEF RightKey
  <2>4. PICK n : n = w'[t].i
    OBVIOUS
  <2>5. MatchedKey(t, n)' = MatchedKey(t, n)
    BY KeysConstant
  <2>6. MatchedKey(t, w[t].i)' = MatchedKey(t, n)
    BY <2>4, <2>5 DEF MatchedKey, Number
  <2>7. n <= numtuples_below(t) => w'[t].key = MatchedKey(t, n)
    BY <2>4
  <2>8. gpc'[t] # "barrier"
    OBVIOUS
  <2> QED
    BY <2>1, <2>3, <2>4, <2>6, <2>7, <2>8 DEF FillingKeys
<1> QED
  BY <1>1, <1>3, <1>4 DEF Filling
-----------------------------------------------------------------------------
(* FillBelow and FillAbove store the right key and go on to the next.      *)
LEMMA FillStep ==
    ASSUME TypeInv, Filling, NEW t \in GenThreads, FillBelow(t) \/ FillAbove(t)
    PROVE  Filling'
<1> DEFINE i == w[t].i
           h == input.threshold
<1>1. w[t] \in Locals /\ gpc[t] = "fill" /\ FillingKeys(t) /\ input \in Inputs
  BY DEF TypeInv, Typed, Filling, FillBelow, FillAbove
<1>2. i \in Nat /\ w[t].key \in Nat /\ w[t].key_above \in Nat /\ h \in Nat \ {0}
  BY <1>1, InputFacts DEF Locals
<1>3. numtuples_below(t) \in Nat /\ num_tuples(t) \in Nat /\ numtuples_below(t) <= num_tuples(t)
  BY <1>1, Numbers, Chunk
<1>4. i < num_tuples(t)
  BY <1>2, <1>3 DEF FillBelow, FillAbove
<1>5. input' = input /\ gpc' = gpc /\ \A u \in GenThreads \ {t} : w'[u] = w[u]
  BY DEF TypeInv, Typed, FillBelow, FillAbove
<1>6. CASE FillBelow(t)
  <2> DEFINE next == IF w[t].key = h THEN 1 ELSE w[t].key + 1
  <2>1. i < numtuples_below(t) /\ tuples' = [tuples EXCEPT ![k(t)] = w[t].key]
    BY <1>6 DEF FillBelow
  <2>2. w'[t].i = i + 1 /\ w'[t].key = next /\ w'[t].key_above = w[t].key_above
    BY <1>6 DEF FillBelow, TypeInv, Typed, Locals
  <2>3. w[t].key = MatchedKey(t, i) /\ w[t].key_above = firstkey_above(t)
    BY <1>1, <1>2, <1>3, <2>1 DEF FillingKeys
  <2>4. next = MatchedKey(t, i + 1)
    BY <1>1, <1>2, <2>3, KeyFacts
  <2>5. RightKey(t, i, w[t].key)
    BY <2>1, <2>3 DEF RightKey
  <2>6. ~ (i + 1 > numtuples_below(t))
    BY <1>2, <1>3, <2>1
  <2> HIDE DEF next
  <2> QED
    BY <1>1, <1>2, <1>4, <1>5, <2>1, <2>2, <2>3, <2>4, <2>5, <2>6, FillTuple
<1>7. CASE FillAbove(t)
  <2> DEFINE next == (IF w[t].key_above = INT_MAX THEN h ELSE w[t].key_above) + 1
  <2>1. i >= numtuples_below(t) /\ tuples' = [tuples EXCEPT ![k(t)] = w[t].key_above]
    BY <1>2, <1>3, <1>7 DEF FillAbove
  <2>2. w'[t].i = i + 1 /\ w'[t].key_above = next
    BY <1>7 DEF FillAbove, TypeInv, Typed, Locals
  <2>3. /\ i = numtuples_below(t) => w[t].key_above = firstkey_above(t)
        /\ i > numtuples_below(t) => w[t].key_above > h
    BY <1>1, <1>2, <1>3 DEF FillingKeys
  <2>4. RightKey(t, i, w[t].key_above)
    BY <1>2, <1>3, <2>1, <2>3 DEF RightKey
  <2>5. w[t].key_above >= h
    <3>1. firstkey_above(t) >= h
      BY <1>1, KeyFacts
    <3> QED
      BY <1>2, <1>3, <2>1, <2>3, <3>1
  <2>6. next > h
    BY <1>2, <2>5
  <2>7. ~ (i + 1 <= numtuples_below(t))
    BY <1>2, <1>3, <2>1
  <2> HIDE DEF next
  <2> QED
    BY <1>1, <1>2, <1>4, <1>5, <2>1, <2>2, <2>4, <2>6, <2>7, FillTuple
<1> QED
  BY <1>6, <1>7

(* No step disturbs the keys of a chunk being filled.                      *)
LEMMA FillingStep == TypeInv /\ OnePhase /\ Filling /\ [GenNext]_genVars => Filling'
<1> SUFFICES ASSUME TypeInv, OnePhase, Filling, [GenNext]_genVars PROVE Filling'
  OBVIOUS
<1>1. CASE UNCHANGED genVars
  <2>1. input' = input /\ tuples' = tuples /\ gpc' = gpc /\ w' = w
    BY <1>1 DEF genVars
  <2>2. ASSUME NEW u \in GenThreads, gpc'[u] \in {"fill", "barrier"} PROVE FillingKeys(u)'
    <3>1. FillingKeys(u)
      BY <2>1, <2>2 DEF Filling
    <3> QED
      BY <2>1, <3>1, OthersKeys
  <2> QED
    BY <2>1, <2>2, Constant DEF Filling
<1>2. CASE ReleaseGenerators
  BY <1>2, Constant DEF ReleaseGenerators, Filling
<1>3. CASE \E t \in GenThreads : ThreadStep(t)
  <2>1. PICK t \in GenThreads : ThreadStep(t)
    BY <1>3
  <2>2. input' = input /\ GenThreads' = GenThreads
    BY <2>1, InputKept, Constant
  <2>3. CASE FillBelow(t) \/ FillAbove(t)
    BY <2>3, FillStep
  <2>4. CASE ArriveAtBarrier(t)
    <3>1. gpc[t] = "fill" /\ w[t].i = num_tuples(t) /\ tuples' = tuples /\ w' = w
          /\ gpc' = [gpc EXCEPT ![t] = "barrier"]
      BY <2>4 DEF ArriveAtBarrier
    <3>2. ASSUME NEW u \in GenThreads \ {t}, gpc'[u] \in {"fill", "barrier"} PROVE FillingKeys(u)'
      <4>1. gpc'[u] = gpc[u]
        BY <3>1 DEF TypeInv, Typed
      <4>2. FillingKeys(u)
        BY <3>2, <4>1 DEF Filling
      <4> QED
        BY <2>2, <3>1, <4>1, <4>2, OthersKeys
    <3>3. FillingKeys(t)'
      <4>1. FillingKeys(t)
        BY <3>1 DEF Filling
      <4>2. /\ numtuples_below(t)' = numtuples_below(t) /\ num_tuples(t)' = num_tuples(t)
            /\ ChunkStart(t)' = ChunkStart(t) /\ firstkey_above(t)' = firstkey_above(t)
        BY <2>2, Constant, KeysConstant
      <4>3. \A i, key : RightKey(t, i, key)' <=> RightKey(t, i, key)
        BY <2>2, KeysConstant
      <4>4. ASSUME NEW i \in Nat, i < w'[t].i
            PROVE  RightKey(t, i, tuples[ChunkStart(t) + i])'
        <5>1. PICK key : key = tuples[ChunkStart(t) + i]
          OBVIOUS
        <5>2. RightKey(t, i, key)
          BY <3>1, <4>1, <4>4, <5>1 DEF FillingKeys
        <5>3. RightKey(t, i, key)'
          BY <4>3, <5>2
        <5> QED
          BY <3>1, <4>2, <5>1, <5>3 DEF RightKey
      <4>5. PICK n : n = w[t].i /\ n = w'[t].i
        BY <3>1
      <4>6. MatchedKey(t, n)' = MatchedKey(t, n)
        BY <2>2, KeysConstant
      <4>7. MatchedKey(t, w[t].i)' = MatchedKey(t, w[t].i)
        BY <4>5, <4>6 DEF MatchedKey, Number
      <4> QED
        BY <2>2, <3>1, <4>1, <4>2, <4>4, <4>5, <4>7 DEF FillingKeys
    <3> QED
      BY <2>2, <3>2, <3>3 DEF Filling
  <2>5. CASE DrawPartner(t) \/ LockOwn(t) \/ LockPartner(t)
             \/ ReadOwn(t) \/ WriteOwn(t) \/ WritePartner(t)
             \/ UnlockPartner(t) \/ UnlockOwn(t) \/ EndThread(t)
    <3>1. gpc[t] \notin {"fill", "barrier"} /\ gpc'[t] \notin {"fill", "barrier"}
      BY <2>5 DEF TypeInv, Typed, DrawPartner, LockOwn, LockPartner, Lock, ReadOwn, WriteOwn,
         WritePartner, UnlockPartner, Unlock, UnlockOwn, EndThread
    <3>2. \A u \in GenThreads : gpc'[u] \notin {"fill", "barrier"}
      BY <2>1, <3>1, OthersKept DEF OnePhase
    <3> QED
      BY <2>2, <3>2 DEF Filling
  <2> QED
    BY <2>1, <2>3, <2>4, <2>5 DEF ThreadStep
<1> QED
  BY <1>1, <1>2, <1>3 DEF GenNext

(* Nothing is written when the threads are created.                        *)
LEMMA FillingInit == GenInit => Filling
<1> SUFFICES ASSUME GenInit PROVE Filling
  OBVIOUS
<1>1. input \in Inputs
  BY DEF GenInit
<1>2. ASSUME NEW t \in GenThreads PROVE FillingKeys(t)
  <2>1. w[t].i = 0 /\ w[t].key = firstkey(t) /\ w[t].key_above = firstkey_above(t)
        /\ gpc[t] = "fill"
    BY DEF GenInit
  <2>2. numtuples_below(t) \in Nat
    BY <1>1, Numbers
  <2>3. firstkey(t) = MatchedKey(t, 0)
    BY <1>1, KeyFacts
  <2> QED
    BY <2>1, <2>2, <2>3 DEF FillingKeys
<1> QED
  BY <1>2 DEF Filling
-----------------------------------------------------------------------------
(* Matched tuple number o is at index x.                                   *)
AtIndex(o, x) == \E t \in GenThreads, i \in Nat : Numbered(t, i, o) /\ At(t, i, x)

(* A tuple has the key that its place in its chunk gives it.               *)
Laid ==
    /\ \A t \in GenThreads, i \in Nat, x \in Indexes : At(t, i, x) => RightKey(t, i, Settled[x])
    /\ \A x \in Indexes : Settled[x] \in Nat

(* The numbers of the matched tuples and their indexes are paired off, and *)
(* only tuples without a number have a key of threshold or more that is    *)
(* not that of their number.                                               *)
LEMMA Pairing ==
    ASSUME input \in Inputs, Laid
    PROVE  /\ \A o \in 0 .. Matched - 1 : \E x \in Indexes : AtIndex(o, x)
           /\ \A o, x, y : AtIndex(o, x) /\ AtIndex(o, y) => x = y
           /\ \A o, r, x : AtIndex(o, x) /\ AtIndex(r, x) => o = r
           /\ \A o, x : AtIndex(o, x) => o \in 0 .. Matched - 1 /\ x \in Indexes
           /\ \A o, x : AtIndex(o, x) =>
                \/ Settled[x] = OrderedKey(o)
                \/ Settled[x] = 0 /\ OrderedKey(o) = input.threshold
           /\ \A x \in Indexes :
                (\E o \in 0 .. Matched - 1 : AtIndex(o, x)) \/ Settled[x] >= input.threshold
<1>1. ASSUME NEW t \in GenThreads, NEW i \in Nat, i < numtuples_below(t)
      PROVE  At(t, i, ChunkStart(t) + i) /\ Numbered(t, i, Number(t, i))
  <2>1. numtuples_below(t) <= num_tuples(t) /\ numtuples_below(t) \in Nat
        /\ num_tuples(t) \in Nat
    BY Chunk, Numbers
  <2> QED
    BY <1>1, <2>1 DEF At, Numbered
<1>2. ASSUME NEW o \in 0 .. Matched - 1 PROVE \E x \in Indexes : AtIndex(o, x)
  <2>1. PICK t \in GenThreads, i \in Nat : Numbered(t, i, o)
    BY Numbers
  <2>2. At(t, i, ChunkStart(t) + i)
    BY <1>1, <2>1 DEF Numbered
  <2>3. ChunkStart(t) + i \in Indexes
    BY <2>2, Indices
  <2> QED
    BY <2>1, <2>2, <2>3 DEF AtIndex
<1>3. ASSUME NEW o, NEW x, NEW y, AtIndex(o, x), AtIndex(o, y) PROVE x = y
  <2>1. PICK t \in GenThreads, i \in Nat : Numbered(t, i, o) /\ At(t, i, x)
    BY <1>3 DEF AtIndex
  <2>2. PICK u \in GenThreads, j \in Nat : Numbered(u, j, o) /\ At(u, j, y)
    BY <1>3 DEF AtIndex
  <2>3. t = u /\ i = j
    BY <2>1, <2>2, Numbers
  <2> QED
    BY <2>1, <2>2, <2>3 DEF At
<1>4. ASSUME NEW o, NEW r, NEW x, AtIndex(o, x), AtIndex(r, x) PROVE o = r
  <2>1. PICK t \in GenThreads, i \in Nat : Numbered(t, i, o) /\ At(t, i, x)
    BY <1>4 DEF AtIndex
  <2>2. PICK u \in GenThreads, j \in Nat : Numbered(u, j, r) /\ At(u, j, x)
    BY <1>4 DEF AtIndex
  <2>3. t = u /\ i = j
    BY <2>1, <2>2, Indices
  <2> QED
    BY <2>1, <2>2, <2>3 DEF Numbered
<1>5. ASSUME NEW o, NEW x, AtIndex(o, x)
      PROVE  /\ o \in 0 .. Matched - 1 /\ x \in Indexes
             /\ \/ Settled[x] = OrderedKey(o)
                \/ Settled[x] = 0 /\ OrderedKey(o) = input.threshold
  <2>1. PICK t \in GenThreads, i \in Nat : Numbered(t, i, o) /\ At(t, i, x)
    BY <1>5 DEF AtIndex
  <2>2. o \in 0 .. Matched - 1 /\ x \in Indexes
    BY <2>1, Numbers, Indices
  <2>3. RightKey(t, i, Settled[x])
    BY <2>1, <2>2 DEF Laid
  <2>4. Settled[x] = MatchedKey(t, i) /\ o = Number(t, i)
    BY <2>1, <2>3 DEF RightKey, Numbered
  <2> QED
    BY <2>2, <2>4 DEF MatchedKey
<1>6. ASSUME NEW x \in Indexes, ~ (Settled[x] >= input.threshold)
      PROVE  \E o \in 0 .. Matched - 1 : AtIndex(o, x)
  <2>1. PICK t \in GenThreads, i \in Nat : At(t, i, x)
    BY Indices
  <2>2. RightKey(t, i, Settled[x])
    BY <2>1 DEF Laid
  <2>3. i < numtuples_below(t)
    <3>1. firstkey_above(t) >= input.threshold
      BY KeyFacts
    <3>2. Settled[x] \in Nat /\ input.threshold \in Nat
      BY InputFacts DEF Laid
    <3> QED
      BY <1>6, <2>2, <3>1, <3>2 DEF RightKey
  <2>4. Numbered(t, i, Number(t, i))
    BY <1>1, <2>3
  <2>5. Number(t, i) \in 0 .. Matched - 1
    BY <2>4, Numbers
  <2> QED
    BY <2>1, <2>4, <2>5 DEF AtIndex
<1> QED
  BY <1>2, <1>3, <1>4, <1>5, <1>6

(* Where a matched tuple starts its chunk with 0.                          *)
LEMMA ZeroFacts ==
    ASSUME input \in Inputs, Laid, NEW x \in Indexes
    PROVE  Settled[x] = 0 <=> \E t \in GenThreads : StartsAtZero(t) /\ At(t, 0, x)
<1>1. ASSUME Settled[x] = 0 PROVE \E t \in GenThreads : StartsAtZero(t) /\ At(t, 0, x)
  <2>1. PICK t \in GenThreads, i \in Nat : At(t, i, x)
    BY Indices
  <2>2. RightKey(t, i, 0)
    BY <1>1, <2>1 DEF Laid
  <2>3. input.threshold \in Nat \ {0} /\ firstkey_above(t) >= input.threshold
        /\ firstkey_above(t) \in Nat /\ numtuples_below(t) \in Nat
    BY InputFacts, KeyFacts, Numbers
  <2>4. i < numtuples_below(t) /\ MatchedKey(t, i) = 0
    BY <2>2, <2>3 DEF RightKey
  <2>5. OrderedKey(Number(t, i)) # 0
    BY <2>3, Numbers, KeyFacts
  <2>6. i = 0
    BY <2>4, <2>5 DEF MatchedKey
  <2>7. firstkey(t) = 0
    BY <2>4, <2>6, KeyFacts
  <2> QED
    BY <2>1, <2>3, <2>4, <2>6, <2>7 DEF StartsAtZero
<1>2. ASSUME NEW t \in GenThreads, StartsAtZero(t), At(t, 0, x) PROVE Settled[x] = 0
  <2>1. RightKey(t, 0, Settled[x])
    BY <1>2 DEF Laid
  <2>2. numtuples_below(t) \in Nat /\ firstkey(t) = MatchedKey(t, 0)
    BY Numbers, KeyFacts
  <2> QED
    BY <1>2, <2>1, <2>2 DEF RightKey, StartsAtZero
<1> QED
  BY <1>1, <1>2

(* Where a tuple without a number has the key threshold.                   *)
LEMMA ThresholdFacts ==
    ASSUME input \in Inputs, Laid, NEW x \in Indexes
    PROVE  (Settled[x] = input.threshold /\ ~ \E o \in 0 .. Matched - 1 : AtIndex(o, x))
             <=> \E t \in GenThreads : StartsAtThreshold(t) /\ At(t, numtuples_below(t), x)
<1>1. ASSUME Settled[x] = input.threshold, ~ \E o \in 0 .. Matched - 1 : AtIndex(o, x)
      PROVE  \E t \in GenThreads : StartsAtThreshold(t) /\ At(t, numtuples_below(t), x)
  <2>1. PICK t \in GenThreads, i \in Nat : At(t, i, x)
    BY Indices
  <2>2. RightKey(t, i, input.threshold)
    BY <1>1, <2>1 DEF Laid
  <2>3. input.threshold \in Nat /\ numtuples_below(t) \in Nat /\ num_tuples(t) \in Nat
        /\ numtuples_above(t) \in Nat
    BY InputFacts, Numbers, Chunk, MatchedSizes
  <2>4. ~ (i < numtuples_below(t))
    <3> SUFFICES ASSUME i < numtuples_below(t) PROVE FALSE
      OBVIOUS
    <3>1. Numbered(t, i, Number(t, i))
      BY DEF Numbered
    <3>2. Number(t, i) \in 0 .. Matched - 1
      BY <3>1, Numbers
    <3> QED
      BY <1>1, <2>1, <3>1, <3>2 DEF AtIndex
  <2>5. ~ (input.threshold > input.threshold)
    BY <2>3
  <2>6. i = numtuples_below(t) /\ firstkey_above(t) = input.threshold
    BY <2>2, <2>4, <2>5 DEF RightKey
  <2>7. numtuples_above(t) > 0
    BY <2>1, <2>3, <2>6 DEF At, numtuples_below
  <2> QED
    BY <2>1, <2>6, <2>7 DEF StartsAtThreshold
<1>2. ASSUME NEW t \in GenThreads, StartsAtThreshold(t), At(t, numtuples_below(t), x)
      PROVE  Settled[x] = input.threshold /\ ~ \E o \in 0 .. Matched - 1 : AtIndex(o, x)
  <2>1. numtuples_below(t) \in Nat
    BY Numbers
  <2>2. RightKey(t, numtuples_below(t), Settled[x])
    BY <1>2, <2>1 DEF Laid
  <2>3. Settled[x] = input.threshold
    BY <1>2, <2>1, <2>2 DEF RightKey, StartsAtThreshold
  <2>4. ASSUME NEW o, AtIndex(o, x) PROVE FALSE
    <3>1. PICK u \in GenThreads, j \in Nat : Numbered(u, j, o) /\ At(u, j, x)
      BY <2>4 DEF AtIndex
    <3>2. u = t /\ j = numtuples_below(t)
      BY <1>2, <3>1, Indices
    <3> QED
      BY <2>1, <3>1, <3>2 DEF Numbered
  <2> QED
    BY <2>3, <2>4
<1> QED
  BY <1>1, <1>2

(* The exact account: where the count before a chunk is one less than a    *)
(* multiple, key 0 stands for threshold, or threshold for a key beyond it. *)
KeysAccounted ==
    Filled =>
        /\ \A key \in 1 .. input.threshold - 1 : Count(key) = InOrder(key)
        /\ Count(0) = Cardinality({t \in GenThreads : StartsAtZero(t)})
        /\ Count(input.threshold) + Count(0) =
               InOrder(input.threshold) + Cardinality({t \in GenThreads : StartsAtThreshold(t)})

(* The counts follow from the places of the keys.                          *)
LEMMA LaidIsAccounted == ASSUME input \in Inputs, Laid PROVE KeysAccounted
<1> DEFINE h == input.threshold
           O == 0 .. Matched - 1
           Ordered(key) == {o \in O : o % h = key - 1}
           Keyed(key) == {x \in Indexes : Settled[x] = key}
           R == {e \in O \X Indexes : AtIndex(e[1], e[2])}
<1>1. h \in Nat \ {0} /\ Matched \in Nat /\ input.num_tuples \in Nat /\ input.nthreads \in Nat
  BY InputFacts, MatchedSizes
<1>2. IsFiniteSet(O) /\ IsFiniteSet(Indexes) /\ IsFiniteSet(GenThreads)
  <2>1. \A c \in Nat : IsFiniteSet(0 .. c - 1)
    <3> TAKE c \in Nat
    <3>1. 0 \in Int /\ c - 1 \in Int
      OBVIOUS
    <3> QED
      BY <3>1, FS_Interval
  <2> QED
    BY <1>1, <2>1 DEF Indexes, GenThreads
<1>3. \A key : IsFiniteSet(Ordered(key)) /\ IsFiniteSet(Keyed(key))
  BY <1>2, FS_Subset
<1>4. /\ \A o \in O : \E x \in Indexes : <<o, x>> \in R
      /\ \A o, x, y : <<o, x>> \in R /\ <<o, y>> \in R => x = y
      /\ \A o, r, x : <<o, x>> \in R /\ <<r, x>> \in R => o = r
      /\ \A o, x : <<o, x>> \in R => o \in O /\ x \in Indexes
      /\ \A o, x : <<o, x>> \in R =>
           \/ Settled[x] = OrderedKey(o)
           \/ Settled[x] = 0 /\ OrderedKey(o) = h
      /\ \A x \in Indexes : (\E o \in O : <<o, x>> \in R) \/ Settled[x] >= h
      /\ \A o, x : <<o, x>> \in R <=> AtIndex(o, x)
  <2>1. \A o, x : <<o, x>> \in R <=> o \in O /\ x \in Indexes /\ AtIndex(o, x)
    OBVIOUS
  <2> HIDE DEF R
  <2> QED
    BY <2>1, Pairing
<1>5. \A o \in O : OrderedKey(o) \in 1 .. h /\ OrderedKey(o) = (o % h) + 1 /\ o % h \in Nat
  <2> TAKE o \in O
  <2>1. o \in Nat
    OBVIOUS
  <2>2. o % h \in 0 .. h - 1
    BY <1>1, <2>1, NextRemainder
  <2> QED
    BY <2>1, <2>2, KeyFacts DEF OrderedKey
<1> HIDE DEF R, O
<1>6. \A key \in 1 .. h, o \in O : o \in Ordered(key) <=> OrderedKey(o) = key
  <2> HIDE DEF h
  <2> QED
    BY <1>1, <1>5
<1> HIDE DEF Ordered
<1>7. ASSUME NEW key \in 1 .. h - 1 PROVE Cardinality(Keyed(key)) = Cardinality(Ordered(key))
  <2>1. key \in 1 .. h /\ key # h /\ key # 0 /\ ~ (key >= h)
    BY <1>1
  <2>2. \A o, x : <<o, x>> \in R => (x \in Keyed(key) <=> o \in Ordered(key))
    BY <1>4, <1>6, <2>1
  <2>3. Ordered(key) \subseteq O /\ Keyed(key) \subseteq Indexes
    BY DEF Ordered
  <2>4. \A x \in Keyed(key) : \E o \in O : <<o, x>> \in R
    BY <1>4, <2>1
  <2> HIDE DEF Keyed
  <2>5. \A o \in Ordered(key) : \E x \in Keyed(key) : <<o, x>> \in R
    BY <1>4, <2>2, <2>3
  <2>6. \A x \in Keyed(key) : \E o \in Ordered(key) : <<o, x>> \in R
    BY <2>2, <2>4
  <2> QED
    BY <1>3, <1>4, <2>5, <2>6, PairedBy
<1>8. Cardinality(Keyed(0)) = Cardinality({t \in GenThreads : StartsAtZero(t)})
  <2> DEFINE Z == {t \in GenThreads : StartsAtZero(t)}
             Q == {e \in GenThreads \X Indexes : At(e[1], 0, e[2])}
  <2>1. IsFiniteSet(Z)
    BY <1>2, FS_Subset
  <2>2. \A t \in Z : \E x \in Keyed(0) : <<t, x>> \in Q
    <3> TAKE t \in Z
    <3>1. At(t, 0, ChunkStart(t) + 0) /\ ChunkStart(t) + 0 \in Indexes
      <4>1. num_tuples(t) \in Nat \ {0}
        BY Chunk
      <4> QED
        BY <4>1, Indices
    <3>2. Settled[ChunkStart(t) + 0] = 0
      BY <3>1, ZeroFacts
    <3> QED
      BY <3>1, <3>2
  <2>3. \A x \in Keyed(0) : \E t \in Z : <<t, x>> \in Q
    BY ZeroFacts
  <2>4. \A t \in Z, x, y \in Keyed(0) : <<t, x>> \in Q /\ <<t, y>> \in Q => x = y
    BY DEF At
  <2>5. \A t, u \in Z, x \in Keyed(0) : <<t, x>> \in Q /\ <<u, x>> \in Q => t = u
    BY Indices
  <2> HIDE DEF Z, Q, Keyed
  <2> QED
    BY <2>1, <2>2, <2>3, <2>4, <2>5, PairedBy DEF Z
<1> DEFINE M == {x \in Indexes : Settled[x] \in {0, h} /\ \E o \in O : <<o, x>> \in R}
           U == {x \in Indexes : Settled[x] = h /\ ~ \E o \in O : <<o, x>> \in R}
           B == {t \in GenThreads : StartsAtThreshold(t)}
<1>9. Cardinality(M) = Cardinality(Ordered(h))
  <2>1. h \in 1 .. h
    BY <1>1
  <2>2. \A o, x : <<o, x>> \in R => (x \in M <=> o \in Ordered(h))
    <3>1. ASSUME NEW o, NEW x, <<o, x>> \in R PROVE x \in M <=> o \in Ordered(h)
      <4>1. o \in O /\ x \in Indexes /\ OrderedKey(o) \in 1 .. h
            /\ (Settled[x] = OrderedKey(o) \/ (Settled[x] = 0 /\ OrderedKey(o) = h))
        BY <1>4, <1>5, <3>1
      <4>2. Settled[x] \in {0, h} <=> OrderedKey(o) = h
        BY <1>1, <4>1
      <4>3. x \in M <=> Settled[x] \in {0, h}
        BY <3>1, <4>1
      <4> QED
        BY <1>6, <2>1, <4>1, <4>2, <4>3
    <3> QED
      BY <3>1
  <2>3. Ordered(h) \subseteq O /\ M \subseteq Indexes
    BY DEF Ordered
  <2>4. \A x \in M : \E o \in O : <<o, x>> \in R
    OBVIOUS
  <2> HIDE DEF M
  <2>5. \A o \in Ordered(h) : \E x \in M : <<o, x>> \in R
    BY <1>4, <2>2, <2>3
  <2>6. \A x \in M : \E o \in Ordered(h) : <<o, x>> \in R
    BY <2>2, <2>4
  <2> QED
    BY <1>3, <1>4, <2>5, <2>6, PairedBy
<1>10. Cardinality(U) = Cardinality(B)
  <2> DEFINE Q == {e \in GenThreads \X Indexes : At(e[1], numtuples_below(e[1]), e[2])}
  <2>1. IsFiniteSet(B)
    BY <1>2, FS_Subset
  <2>2. \A x \in Indexes :
           x \in U <=> \E t \in GenThreads : StartsAtThreshold(t) /\ At(t, numtuples_below(t), x)
    BY <1>4, ThresholdFacts DEF O
  <2>3. \A t \in B : \E x \in U : <<t, x>> \in Q
    <3> TAKE t \in B
    <3> DEFINE i == numtuples_below(t)
    <3>1. At(t, i, ChunkStart(t) + i) /\ ChunkStart(t) + i \in Indexes
      <4>1. i \in Nat /\ numtuples_above(t) \in Nat /\ num_tuples(t) \in Nat
            /\ numtuples_above(t) > 0
        BY Numbers, MatchedSizes, Chunk DEF StartsAtThreshold
      <4>2. i < num_tuples(t)
        BY <4>1 DEF numtuples_below
      <4> QED
        BY <4>1, <4>2, Indices
    <3>2. ChunkStart(t) + i \in U
      BY <2>2, <3>1
    <3> QED
      BY <3>1, <3>2
  <2>4. \A x \in U : \E t \in B : <<t, x>> \in Q
    BY <2>2
  <2>5. \A t \in B, x, y \in U : <<t, x>> \in Q /\ <<t, y>> \in Q => x = y
    BY DEF At
  <2>6. \A t, u \in B, x \in U : <<t, x>> \in Q /\ <<u, x>> \in Q => t = u
    BY Indices
  <2> HIDE DEF B, Q, U
  <2> QED
    BY <2>1, <2>3, <2>4, <2>5, <2>6, PairedBy
<1>11. Cardinality(Keyed(h)) + Cardinality(Keyed(0)) = Cardinality(M) + Cardinality(U)
  <2>1. Keyed(h) \cup Keyed(0) = M \cup U
    <3>1. ASSUME NEW x \in Indexes, Settled[x] = 0 PROVE \E o \in O : <<o, x>> \in R
      BY <1>1, <1>4, <3>1
    <3> QED
      BY <3>1
  <2>2. Keyed(h) \cap Keyed(0) = {} /\ M \cap U = {}
    BY <1>1
  <2>3. IsFiniteSet(M) /\ IsFiniteSet(U)
    BY <1>2, FS_Subset
  <2> HIDE DEF Keyed, M, U
  <2>4. ASSUME NEW S, NEW T, IsFiniteSet(S), IsFiniteSet(T), S \cap T = {}
        PROVE  Cardinality(S \cup T) = Cardinality(S) + Cardinality(T)
    <3>1. Cardinality(S \cup T) = Cardinality(S) + Cardinality(T) - Cardinality(S \cap T)
      BY <2>4, FS_Union
    <3>2. Cardinality(S \cap T) = 0
      BY <2>4, FS_EmptySet
    <3>3. Cardinality(S) \in Nat /\ Cardinality(T) \in Nat
      BY <2>4, FS_CardinalityType
    <3> QED
      BY <3>1, <3>2, <3>3
  <2>5. Cardinality(Keyed(h) \cup Keyed(0)) = Cardinality(Keyed(h)) + Cardinality(Keyed(0))
    BY <1>3, <2>2, <2>4
  <2>6. Cardinality(M \cup U) = Cardinality(M) + Cardinality(U)
    BY <2>2, <2>3, <2>4
  <2> QED
    BY <2>1, <2>5, <2>6
<1>12. Cardinality(Keyed(h)) + Cardinality(Keyed(0)) = Cardinality(Ordered(h)) + Cardinality(B)
  BY <1>9, <1>10, <1>11
<1> HIDE DEF M, U
<1> QED
  BY <1>7, <1>8, <1>12 DEF KeysAccounted, Count, InOrder, Ordered, O
-----------------------------------------------------------------------------
(* Where f has the value key.                                              *)
Having(N, f, key) == {z \in N : f[z] = key}

(* Exchanging two values of a function leaves the number of every value.   *)
LEMMA ExchangeKeepsCounts ==
    ASSUME NEW N, IsFiniteSet(N), NEW f, NEW x \in N, NEW y \in N, NEW g,
           f = [z \in N |-> f[z]], g = [f EXCEPT ![x] = f[y], ![y] = f[x]], NEW key
    PROVE  Cardinality(Having(N, g, key)) = Cardinality(Having(N, f, key))
<1> DEFINE other == [z \in N |-> IF z = x THEN y ELSE IF z = y THEN x ELSE z]
           S == {z \in N : f[z] = key}
           T == {z \in N : g[z] = key}
           p == [z \in S |-> other[z]]
<1>1. \A z \in N : other[z] \in N /\ other[other[z]] = z /\ g[other[z]] = f[z]
  OBVIOUS
<1>2. IsFiniteSet(S)
  BY FS_Subset
<1> HIDE DEF other
<1>3. p \in [S -> T]
  BY <1>1
<1>4. \A a, b \in S : p[a] = p[b] => a = b
  BY <1>1
<1>5. \A b \in T : other[b] \in S /\ p[other[b]] = b
  <2> TAKE b \in T
  <2>1. g[other[other[b]]] = f[other[b]]
    BY <1>1
  <2>2. other[b] \in S
    BY <1>1, <2>1
  <2> QED
    BY <1>1, <2>2
<1> HIDE DEF S, T, p
<1>6. Cardinality(T) = Cardinality(S)
  BY <1>2, <1>3, <1>4, <1>5, PairedOff
<1> QED
  BY <1>6 DEF S, T, Having

(* An exchange of two keys, or none, leaves the number of every key.       *)
LEMMA CountsKept ==
    ASSUME input \in Inputs, input' = input, SettledFacts, SettledFacts',
           Settled' = Settled \/ \E x, y \in Indexes : Exchanged(x, y), NEW key
    PROVE  Count(key)' = Count(key)
<1>1. Indexes' = Indexes /\ IsFiniteSet(Indexes)
  <2>1. 0 \in Int /\ input.num_tuples - 1 \in Int
    BY InputFacts
  <2> QED
    BY <2>1, Constant, FS_Interval DEF Indexes
<1>2. PICK f, g : f = Settled /\ g = Settled'
  OBVIOUS
<1>3. f = [x \in Indexes |-> f[x]]
  BY <1>2 DEF SettledFacts
<1>4. Count(key) = Cardinality({x \in Indexes : f[x] = key})
  BY <1>2 DEF Count
<1>5. Count(key)' = Cardinality({x \in Indexes : g[x] = key})
  BY <1>1, <1>2 DEF Count
<1>6. CASE Settled' = Settled
  BY <1>2, <1>4, <1>5, <1>6
<1>7. CASE \E x, y \in Indexes : Exchanged(x, y)
  <2>1. PICK x \in Indexes, y \in Indexes : Exchanged(x, y)
    BY <1>7
  <2>2. g = [f EXCEPT ![x] = f[y], ![y] = f[x]]
    BY <1>2, <2>1 DEF Exchanged
  <2>3. PICK N : N = Indexes
    OBVIOUS
  <2>4. IsFiniteSet(N) /\ x \in N /\ y \in N /\ f = [z \in N |-> f[z]]
    BY <1>1, <1>3, <2>3
  <2>5. Cardinality(Having(N, g, key)) = Cardinality(Having(N, f, key))
    BY ONLY <2>2, <2>4, ExchangeKeepsCounts
  <2> QED
    BY <1>4, <1>5, <2>3, <2>5 DEF Having
<1> QED
  BY <1>6, <1>7

(* The same numbers of every key are as many as before.                    *)
LEMMA OrderKept ==
    ASSUME input' = input, Filled, KeysAccounted, \A key : Count(key)' = Count(key)
    PROVE  KeysAccounted'
<1> DEFINE B == 0 .. Matched - 1
           O(key) == Cardinality({o \in B : o % input.threshold = key - 1})
           Z == {t \in GenThreads : StartsAtZero(t)}
           U == {t \in GenThreads : StartsAtThreshold(t)}
<1>1. /\ GenThreads' = GenThreads /\ input'.threshold = input.threshold
      /\ input'.num_tuples = input.num_tuples
      /\ \A n : AboveOf(n)' = AboveOf(n)
  BY Constant DEF AboveOf
<1>2. \A t : (StartsAtZero(t)' <=> StartsAtZero(t)) /\ (StartsAtThreshold(t)' <=> StartsAtThreshold(t))
  BY DEF StartsAtZero, StartsAtThreshold, numtuples_below, num_tuples, numtuples_above,
     LastThread, ntuples_lastthr, ntuples_above_lastthr, ntuples_perthr, npages_perthr,
     npages, AboveOf, firstkey, firstkey_above, MAX
<1>3. Z' = Z /\ U' = U
  BY <1>1, <1>2
<1>4. B' = B
  BY DEF Matched, AboveOf
<1>5. PICK h : h = input.threshold
  OBVIOUS
<1>6. /\ \A key \in 1 .. h - 1 : Count(key) = O(key)
      /\ Count(0) = Cardinality(Z)
      /\ Count(h) + Count(0) = O(h) + Cardinality(U)
  BY <1>5 DEF KeysAccounted, InOrder
<1>7. /\ \A key \in 1 .. h - 1 : Count(key)' = O(key)
      /\ Count(0)' = Cardinality(Z)
      /\ Count(h)' + Count(0)' = O(h) + Cardinality(U)
  BY <1>6
<1> QED
  BY <1>1, <1>3, <1>4, <1>5, <1>7 DEF KeysAccounted, Count, InOrder

(* Before the barrier opens, no swap is under way.                         *)
LEMMA LaidAtBarrier ==
    ASSUME TypeInv, SettledFacts, Filling, AllArrived
    PROVE  Laid
<1>1. input \in Inputs /\ tuples \in [Indexes -> Nat]
  BY DEF TypeInv, Typed
<1>2. \A x \in Indexes : Settled[x] = tuples[x]
  BY DEF SettledFacts, AllArrived, InSwap
<1>3. ASSUME NEW t \in GenThreads, NEW i \in Nat, NEW x \in Indexes, At(t, i, x)
      PROVE  RightKey(t, i, Settled[x])
  <2>1. FillingKeys(t) /\ w[t].i = num_tuples(t)
    BY DEF Filling, FillingKeys, AllArrived
  <2>2. i < w[t].i /\ x = ChunkStart(t) + i
    BY <1>3, <2>1 DEF At
  <2>3. RightKey(t, i, tuples[ChunkStart(t) + i])
    BY <2>1, <2>2 DEF FillingKeys
  <2> QED
    BY <1>2, <2>2, <2>3
<1> QED
  BY <1>1, <1>2, <1>3 DEF Laid

(* The keys are as ordered when the last thread reaches the barrier.       *)
AccountedAtBarrier == AllArrived => KeysAccounted

(* They are then, and the shuffle only exchanges them.                     *)
LEMMA OrderedStep ==
    ASSUME Inv, Inv', SettledFacts, SettledFacts', AccountedAtBarrier', KeysAccounted, [GenNext]_genVars
    PROVE  KeysAccounted'
<1> SUFFICES ASSUME Filled' PROVE KeysAccounted'
  BY DEF KeysAccounted
<1>1. input' = input
  <2>1. ASSUME NEW t \in GenThreads, ThreadStep(t) PROVE input' = input
    BY <2>1, InputKept
  <2> QED
    BY <2>1 DEF GenNext, ReleaseGenerators, genVars
<1>2. GenThreads' = GenThreads /\ input \in Inputs
  BY <1>1, Constant DEF Inv, TypeInv, Typed
<1>3. CASE \E t \in GenThreads : gpc'[t] = "barrier"
  <2>1. \A u \in GenThreads : gpc'[u] \in {"fill", "barrier"} /\ gpc'[u] # "fill"
    BY <1>2, <1>3 DEF Inv, OnePhase, Filled
  <2>2. AllArrived'
    BY <1>2, <2>1 DEF AllArrived
  <2> QED
    BY <2>2 DEF AccountedAtBarrier
<1>4. CASE \A t \in GenThreads : gpc'[t] # "barrier"
  <2>1. \A t \in GenThreads : gpc'[t] \notin {"fill", "barrier"}
    BY <1>2, <1>4 DEF Filled
  <2>2. Filled /\ (Settled' = Settled \/ \E x, y \in Indexes : Exchanged(x, y))
    <3>1. CASE ReleaseGenerators
      <4>1. \A t \in GenThreads : gpc[t] = "barrier" /\ ~ InSwap(t)
        BY <3>1 DEF ReleaseGenerators, AllArrived, InSwap
      <4>2. \A t \in GenThreads : ~ InSwap(t)'
        BY <3>1 DEF ReleaseGenerators, InSwap
      <4>3. tuples' = tuples
        BY <3>1 DEF ReleaseGenerators
      <4>4. Settled' = Settled
        BY <1>1, <4>1, <4>2, <4>3, SettledKept
      <4> QED
        BY <4>1, <4>4 DEF Filled
    <3>2. CASE ~ ReleaseGenerators
      <4>1. \A t \in GenThreads : gpc[t] \notin {"fill", "barrier"}
        <5>1. CASE UNCHANGED genVars
          BY <2>1, <5>1 DEF genVars
        <5>2. CASE \E t \in GenThreads : ThreadStep(t)
          <6>1. PICK t \in GenThreads : ThreadStep(t)
            BY <5>2
          <6>2. gpc[t] \in {"fill", "barrier"} => gpc'[t] \in {"fill", "barrier"}
            BY <6>1 DEF Inv, TypeInv, Typed, ThreadStep, FillBelow, FillAbove,
               ArriveAtBarrier, DrawPartner, LockOwn, LockPartner, Lock, ReadOwn, WriteOwn,
               WritePartner, UnlockPartner, Unlock, UnlockOwn, EndThread
          <6>3. \A u \in GenThreads \ {t} : gpc'[u] = gpc[u]
            BY <6>1, OthersKept DEF Inv
          <6> QED
            BY <2>1, <6>2, <6>3
        <5> QED
          BY <3>2, <5>1, <5>2 DEF GenNext
      <4>2. Filled
        BY <4>1 DEF Filled
      <4> QED
        BY <4>1, <4>2, OnlySwapsStep
    <3> QED
      BY <3>1, <3>2
  <2>3. \A key : Count(key)' = Count(key)
    BY <1>1, <1>2, <2>2, CountsKept
  <2> QED
    BY <1>1, <2>2, <2>3, OrderKept
<1> QED
  BY <1>3, <1>4

(* The account is right from when the last thread reaches the barrier to   *)
(* the end of the shuffle.                                                 *)
LEMMA AccountInvariant == GenSpec => []KeysAccounted
<1>1. GenInit => KeysAccounted
  <2>1. ASSUME GenInit PROVE 0 \in GenThreads /\ gpc[0] = "fill"
    <3>1. input \in Inputs
      BY <2>1 DEF GenInit
    <3>2. 0 \in GenThreads
      BY <3>1, InputFacts DEF GenThreads
    <3> QED
      BY <2>1, <3>2 DEF GenInit
  <2> QED
    BY <2>1 DEF KeysAccounted, Filled
<1>2. Inv => SettledFacts
  BY SettledIs DEF Inv
<1>3. Inv /\ Filling /\ [GenNext]_genVars => Filling'
  BY FillingStep DEF Inv
<1>4. Inv /\ SettledFacts /\ Filling => AccountedAtBarrier
  BY LaidAtBarrier, LaidIsAccounted DEF Inv, TypeInv, Typed, AccountedAtBarrier
<1>5. Inv /\ Inv' /\ SettledFacts /\ SettledFacts' /\ AccountedAtBarrier' /\ KeysAccounted
        /\ [GenNext]_genVars => KeysAccounted'
  BY OrderedStep
<1> QED
  BY Invariant, FillingInit, <1>1, <1>2, <1>3, <1>4, <1>5, PTL DEF GenSpec

(* A relation that is filled has the keys that its selectivity asks for,   *)
(* whatever the number of threads, the sizes and the random numbers, unless *)
(* a chunk starts one too low (generator.c:161-228, 340-384).              *)
THEOREM KeysAreAsOrdered == GenSpec => []KeysAsOrdered
<1>1. TypeInv /\ KeysAccounted => KeysAsOrdered
  <2> SUFFICES ASSUME TypeInv, KeysAccounted, Filled, \A t \in GenThreads : ~StartsTooLow(t)
               PROVE  /\ \A key \in 1 .. input.threshold : Count(key) = InOrder(key)
                      /\ Count(0) = 0
    BY DEF KeysAsOrdered
  <2> DEFINE h == input.threshold
  <2>1. input \in Inputs
    BY DEF TypeInv, Typed
  <2>2. h \in Nat \ {0} /\ Count(h) \in Nat /\ InOrder(h) \in Nat
    <3>1. h \in Nat \ {0} /\ Matched \in Nat /\ input.num_tuples \in Nat
      BY <2>1, InputFacts, MatchedSizes
    <3>2. IsFiniteSet(Indexes) /\ IsFiniteSet(0 .. Matched - 1)
      <4>1. 0 \in Int /\ input.num_tuples - 1 \in Int /\ Matched - 1 \in Int
        BY <3>1
      <4> QED
        BY <4>1, FS_Interval DEF Indexes
    <3> QED
      BY <3>1, <3>2, FS_Subset, FS_CardinalityType DEF Count, InOrder
  <2>3. /\ {t \in GenThreads : StartsAtZero(t)} = {}
        /\ {t \in GenThreads : StartsAtThreshold(t)} = {}
    BY DEF StartsTooLow
  <2>4. Cardinality({}) = 0
    BY FS_EmptySet
  <2>5. /\ \A key \in 1 .. h - 1 : Count(key) = InOrder(key)
        /\ Count(0) = 0 /\ Count(h) + Count(0) = InOrder(h) + 0
    BY <2>3, <2>4 DEF KeysAccounted
  <2>6. Count(h) = InOrder(h)
    BY <2>2, <2>5
  <2> HIDE DEF h
  <2>7. ASSUME NEW key \in 1 .. h PROVE Count(key) = InOrder(key)
    <3>1. key = h \/ key \in 1 .. h - 1
      BY <2>2
    <3> QED
      BY <2>5, <2>6, <3>1
  <2> QED
    BY <2>5, <2>7 DEF h
<1>2. Inv => TypeInv
  BY DEF Inv
<1> QED
  BY <1>1, <1>2, Invariant, AccountInvariant, PTL
=============================================================================
