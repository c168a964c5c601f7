---------------------- MODULE NoPartitioningJoinProofs ----------------------
(***************************************************************************)
(* Proofs about NoPartitioningJoin, for any number of threads, any         *)
(* relations and any sizes of buckets, overflow and result buffers.        *)
(*                                                                         *)
(* First the phases: the barriers keep inserting, probing and freeing      *)
(* apart (and NPO_st needs none).  Then the table: who holds the latch of  *)
(* a bucket is alone with its chain, so that a reserved place stays free   *)
(* until its tuple is stored (Exclusion, Reserved), and a new overflow     *)
(* bucket is nobody else's (HandedOut).  Chains says which bucket belongs  *)
(* to which bucket of the table and how far it is from there, Storage that *)
(* the inserted tuples, and only these, are in the chains of their keys,   *)
(* each once, Counting that matches counts the pairs in the part of the    *)
(* chains a thread has passed and that these pairs are what its result     *)
(* buffer holds, and Total that main adds up pairs that no two threads     *)
(* share.  Whole is their conjunction, which every step keeps.  The file   *)
(* that main writes has the contents of all buffers: WellFormed says how a *)
(* buffer is filled, so that reading it back visits each place once.       *)
(***************************************************************************)
EXTENDS NoPartitioningJoin, WellFoundedInduction, FiniteSetTheorems, TLAPS

(* A set of natural numbers has a least element.                           *)
LEMMA LeastNatural ==
    ASSUME NEW T, T \subseteq Nat, T # {}
    PROVE  \E x \in T : \A y \in T : x <= y
<1> DEFINE R == {d \in Nat \X Nat : d[1] < d[2]}
<1>1. IsWellFoundedOn(R, Nat)
  BY NatLessThanWellFounded DEF OpToRel
<1>2. \A x, y \in Nat : <<x, y>> \in R <=> x < y
  OBVIOUS
<1> HIDE DEF R
<1>3. PICK x \in T : \A y \in T : ~ (<<y, x>> \in R)
  BY <1>1, WFMin
<1>4. ASSUME NEW y \in T PROVE x <= y
  <2>1. x \in Nat /\ y \in Nat
    OBVIOUS
  <2>2. ~ (y < x)
    BY <1>2, <1>3, <2>1
  <2> QED
    BY <2>1, <2>2
<1> QED
  BY <1>4

(* A set that holds 0 and the successors of its elements holds them all.   *)
LEMMA Induction ==
    ASSUME NEW T, 0 \in T, \A n \in Nat : n \in T => n + 1 \in T
    PROVE  Nat \subseteq T
<1> DEFINE U == Nat \ T
<1> SUFFICES ASSUME U # {} PROVE FALSE
  OBVIOUS
<1>1. PICK x \in U : \A y \in U : x <= y
  BY LeastNatural
<1>2. x # 0 /\ x - 1 \in Nat
  BY <1>1
<1>3. x - 1 \in T
  BY <1>1, <1>2
<1> QED
  BY <1>2, <1>3

(* f begins with first, and each value follows from the one before.        *)
Follows(f, n, first, step) ==
    f[0] = first /\ \A k \in 1 .. n : f[k] = step[<<k, f[k - 1]>>]

(* The values of a recursive function up to n, one after the other.        *)
LEMMA Recursion ==
    ASSUME NEW V, NEW first \in V, NEW step \in [Nat \X V -> V], NEW n \in Nat
    PROVE  \E f \in [0 .. n -> V] : Follows(f, n, first, step)
<1> DEFINE T == {m \in Nat : \E f \in [0 .. m -> V] : Follows(f, m, first, step)}
<1>1. 0 \in T
  <2>1. [k \in 0 .. 0 |-> first] \in [0 .. 0 -> V] /\ Follows([k \in 0 .. 0 |-> first], 0, first, step)
    BY DEF Follows
  <2> QED
    BY <2>1
<1>2. ASSUME NEW m \in Nat, m \in T PROVE m + 1 \in T
  <2>1. PICK f \in [0 .. m -> V] : Follows(f, m, first, step)
    BY <1>2
  <2> DEFINE g == [k \in 0 .. m + 1 |-> IF k = m + 1 THEN step[<<k, f[m]>>] ELSE f[k]]
  <2>2. step[<<m + 1, f[m]>>] \in V
    OBVIOUS
  <2>3. g \in [0 .. m + 1 -> V]
    BY <2>2
  <2>4. g[0] = first
    BY <2>1 DEF Follows
  <2>5. ASSUME NEW k \in 1 .. m + 1 PROVE g[k] = step[<<k, g[k - 1]>>]
    <3>1. CASE k = m + 1
      <4>1. g[k] = step[<<k, f[m]>>] /\ g[k - 1] = f[m]
        BY <3>1
      <4> QED
        BY <4>1
    <3>2. CASE k # m + 1
      <4>1. k \in 1 .. m /\ k - 1 \in 0 .. m
        BY <3>2
      <4>2. g[k] = f[k] /\ g[k - 1] = f[k - 1]
        BY <3>2, <4>1
      <4>3. f[k] = step[<<k, f[k - 1]>>]
        BY <2>1, <4>1 DEF Follows
      <4> QED
        BY <4>2, <4>3
    <3> QED
      BY <3>1, <3>2
  <2> HIDE DEF g
  <2>6. Follows(g, m + 1, first, step)
    BY <2>4, <2>5 DEF Follows
  <2> QED
    BY <2>3, <2>6
<1>3. n \in T
  <2> HIDE DEF T
  <2> QED
    BY <1>1, <1>2, Induction
<1> QED
  BY <1>3
-----------------------------------------------------------------------------

(* Where threads are in each phase: inserting, probing, at the end. *)
Inserting == {"build", "choose", "count", "store", "built"}
Probing == IF Timing THEN {"probe", "bucket", "probed"}
           ELSE {"probe", "bucket", "free", "done"}
Freeing == {"free", "done"}

(* The places of the one thread of NPO_st, and those of the threads that   *)
(* do not exist.                                                           *)
Alone == {"build", "probe", "bucket", "done", "absent"}

AllIn(places) == \A t \in Threads : pc[t] \in places

Serial ==
    /\ alg = "NPO_st" /\ AllIn(Alone) /\ freed = {}
    /\ \A t \in Threads \ {0} : pc[t] = "absent"

(* The phase that all threads are in.  With timing nobody has freed        *)
(* anything before the last one begins; without, probing and freeing are   *)
(* one phase.                                                              *)
OnePhase ==
    \/ Serial
    \/ alg = "NPO" /\ AllIn(Inserting) /\ freed = {}
    \/ alg = "NPO" /\ AllIn(Probing) /\ (Timing => freed = {})
    \/ alg = "NPO" /\ Timing /\ AllIn(Freeing)

(* pc is a function of the threads; no more of the types is needed.        *)
Inv == DOMAIN pc = Threads /\ OnePhase

(* There is a thread to wait for, so the barrier does not open by itself.  *)
LEMMA SomeThread == 0 \in Threads
  BY NThreadsAssumption DEF Threads

(* A thread goes on in its phase: only the barrier leads to the next one.  *)
LEMMA ThreadKeepsPhase ==
    ASSUME Inv, NEW t \in Threads, Thread(t)
    PROVE  /\ DOMAIN pc' = Threads /\ \A u \in Threads \ {t} : pc'[u] = pc[u]
           /\ alg' = alg
           /\ alg = "NPO_st" /\ pc[t] \in Alone =>
                  pc'[t] \in Alone /\ freed' = freed /\ pc[t] # "absent"
           /\ alg = "NPO" /\ pc[t] \in Inserting => pc'[t] \in Inserting /\ freed' = freed
           /\ alg = "NPO" /\ pc[t] \in Probing => pc'[t] \in Probing /\ (Timing => freed' = freed)
           /\ alg = "NPO" /\ pc[t] \in Freeing => pc'[t] \in Freeing
<1> USE DEF Inv, Goto, Inserting, Probing, Freeing, Alone, constVars
<1>1. CASE Latch(t) \/ ChoosePlace(t) \/ CountTuple(t) \/ Overflow(t) \/ StoreTuple(t)
           \/ BuildDone(t)
  BY <1>1 DEF Latch, ChoosePlace, CountTuple, Overflow, StoreTuple, BuildDone
<1>2. CASE ProbeTuple(t) \/ ProbeBucket(t) \/ ProbeDone(t)
  BY <1>2 DEF ProbeTuple, ProbeBucket, ProbeDone
<1>3. CASE free_bucket_buffer(t)
  BY <1>3 DEF free_bucket_buffer
<1>4. CASE InsertSerially(t)
  <2>1. alg = "NPO_st" /\ pc[t] = "build" /\ pc' = pc /\ freed' = freed /\ alg' = alg
    BY <1>4 DEF InsertSerially
  <2> QED
    BY <2>1
<1> QED
  BY <1>1, <1>2, <1>3, <1>4 DEF Thread

(* No step takes the threads apart: they change the phase all together.    *)
LEMMA InvStep == Inv /\ [Next]_vars => Inv'
<1> SUFFICES ASSUME Inv, [Next]_vars PROVE Inv'
  OBVIOUS
<1>1. CASE UNCHANGED vars
  BY <1>1 DEF vars, constVars, Inv, OnePhase, Serial, AllIn
<1>2. CASE ReleaseBarrier
  <2>1. /\ \A t \in Threads : pc[t] \in {"built", "probed"}
        /\ pc' = [t \in Threads |-> IF pc[t] = "built" THEN "probe" ELSE "free"]
        /\ freed' = freed /\ alg' = alg
    BY <1>2 DEF ReleaseBarrier, Waiting, Leave, constVars
  <2>2. CASE alg = "NPO" /\ AllIn(Inserting) /\ freed = {}
    BY <2>1, <2>2 DEF Inv, OnePhase, AllIn, Inserting, Probing
  <2>3. CASE alg = "NPO" /\ AllIn(Probing) /\ (Timing => freed = {})
    BY <2>1, <2>3, SomeThread DEF Inv, OnePhase, AllIn, Probing, Freeing
  <2>4. CASE alg = "NPO" /\ Timing /\ AllIn(Freeing)
    BY <2>1, <2>4, SomeThread DEF AllIn, Freeing
  <2>5. CASE Serial
    BY <2>1, <2>5, SomeThread DEF Serial, AllIn, Alone
  <2> QED
    BY <2>2, <2>3, <2>4, <2>5 DEF Inv, OnePhase
<1>3. CASE CollectResult \/ write_result_relation
  BY <1>3 DEF CollectResult, write_result_relation, constVars, Inv, OnePhase, Serial, AllIn
<1>4. CASE \E t \in Threads : Thread(t)
  <2>1. PICK t \in Threads : Thread(t)
    BY <1>4
  <2>2. alg' = alg
    BY <2>1, ThreadKeepsPhase
  <2>3. DOMAIN pc' = Threads /\ \A u \in Threads \ {t} : pc'[u] = pc[u]
    BY <2>1, ThreadKeepsPhase
  <2>4. CASE alg = "NPO" /\ AllIn(Inserting) /\ freed = {}
    BY <2>1, <2>2, <2>3, <2>4, ThreadKeepsPhase DEF Inv, OnePhase, AllIn
  <2>5. CASE alg = "NPO" /\ AllIn(Probing) /\ (Timing => freed = {})
    BY <2>1, <2>2, <2>3, <2>5, ThreadKeepsPhase DEF Inv, OnePhase, AllIn, Probing
  <2>6. CASE alg = "NPO" /\ Timing /\ AllIn(Freeing)
    BY <2>1, <2>2, <2>3, <2>6, ThreadKeepsPhase DEF Inv, OnePhase, AllIn
  <2>7. CASE Serial
    <3>1. AllIn(Alone)' /\ freed' = freed /\ t = 0
      BY <2>1, <2>3, <2>7, ThreadKeepsPhase DEF Serial, AllIn
    <3> QED
      BY <2>2, <2>3, <2>7, <3>1 DEF Inv, OnePhase, Serial
  <2> QED
    BY <2>4, <2>5, <2>6, <2>7 DEF Inv, OnePhase
<1> QED
  BY <1>1, <1>2, <1>3, <1>4 DEF Next

(* The threads are always in one phase.                                    *)
LEMMA Invariant == Spec => []Inv
<1>1. Init => Inv
  <2> SUFFICES ASSUME Init PROVE Inv
    OBVIOUS
  <2>1. CASE alg = "NPO"
    BY <2>1, NThreadsAssumption DEF Init, Inv, OnePhase, AllIn, Inserting, Running, nthreads, Threads
  <2>2. CASE alg # "NPO"
    <3>1. alg = "NPO_st"
      BY <2>2, AlgorithmsAssumption DEF Init
    <3> QED
      BY <2>2, <3>1 DEF Init, Inv, OnePhase, Serial, Alone, AllIn, Running, nthreads, Threads
  <2> QED
    BY <2>1, <2>2
<1> QED
  BY <1>1, InvStep, PTL DEF Spec

(* "wait at a barrier until each thread completes build phase": for any    *)
(* number of threads, and with or without timing, nobody probes the table  *)
(* while anyone inserts (npo_thread).                                      *)
THEOREM ProbesReadACompleteTable == Spec => []NoProbeWhileBuilding
<1>1. Inv => NoProbeWhileBuilding
  BY DEF Inv, OnePhase, AllIn, Inserting, Probing, Freeing, Serial, Alone,
         NoProbeWhileBuilding, Building
<1> QED
  BY <1>1, Invariant, PTL

(* Compiled with timing, no thread frees its overflow buckets while        *)
(* another probes: the barrier that is there for the timers suffices.      *)
THEOREM BucketsOutliveProbes == ASSUME Timing PROVE Spec => []NoUseAfterFree
<1>1. Inv => NoUseAfterFree
  BY DEF Inv, OnePhase, AllIn, Inserting, Probing, Freeing, Serial, NoUseAfterFree
<1> QED
  BY <1>1, Invariant, PTL

-----------------------------------------------------------------------------
(* Result buffers.  Those that the code builds: only the first one, when   *)
(* there is no other, can be without a tuple.                              *)
Pairs == Nat \X Nat
Buffers ==
    [buf : Seq([BufferIndex -> Pairs]), readcursor : Nat,
     writepos : 0 .. CHAINEDBUFF_NUMTUPLESPERBUF, readpos : Nat]
WellFormed(cb) ==
    /\ cb \in Buffers /\ Len(cb.buf) > 0
    /\ cb.writepos = 0 => Len(cb.buf) = 1

(* The places that were written, the tuples there, and how many there are. *)
Occupied(cb) ==
    {d \in (1 .. Len(cb.buf)) \X BufferIndex : d[1] = 1 => d[2] < cb.writepos}
Contents(cb) == {cb.buf[d[1]][d[2]] : d \in Occupied(cb)}
Size(cb) == (Len(cb.buf) - 1) * CHAINEDBUFF_NUMTUPLESPERBUF + cb.writepos

(* A product with a successor.                                             *)
LEMMA OneMoreTimes ==
    ASSUME NEW m \in Int, NEW n \in Int
    PROVE  (m + 1) * n = m * n + n /\ m * n \in Int
  OBVIOUS

(* What is in the fields of a buffer.                                      *)
LEMMA BufferFields ==
    ASSUME NEW cb \in Buffers
    PROVE  /\ cb.buf \in Seq([BufferIndex -> Pairs]) /\ Len(cb.buf) \in Nat
           /\ cb.writepos \in 0 .. CHAINEDBUFF_NUMTUPLESPERBUF
           /\ CHAINEDBUFF_NUMTUPLESPERBUF \in Nat \ {0}
           /\ \A q \in 1 .. Len(cb.buf) : cb.buf[q] \in [BufferIndex -> Pairs]
  BY BufferAssumption DEF Buffers

(* A buffer begins empty.                                                  *)
LEMMA EmptyBuffer ==
    /\ WellFormed(chainedtuplebuffer_init) /\ Size(chainedtuplebuffer_init) = 0
    /\ Contents(chainedtuplebuffer_init) = {}
<1>1. PICK c : c = chainedtuplebuffer_init
  OBVIOUS
<1>2. NewBuffer \in [BufferIndex -> Pairs]
  BY DEF NewBuffer, Unwritten, Pairs
<1>3. c.buf = <<NewBuffer>> /\ c.writepos = 0 /\ c.buf \in Seq([BufferIndex -> Pairs]) /\ Len(c.buf) = 1
  BY <1>1, <1>2 DEF chainedtuplebuffer_init
<1>4. c \in Buffers
  <2>1. 0 \in 0 .. CHAINEDBUFF_NUMTUPLESPERBUF
    BY BufferAssumption
  <2> QED
    BY <1>1, <1>3, <2>1 DEF chainedtuplebuffer_init, Buffers
<1>5. Occupied(c) = {}
  <2>1. \A p \in BufferIndex : ~ (p < 0)
    BY BufferAssumption DEF BufferIndex
  <2>2. 1 .. Len(c.buf) = {1}
    BY <1>3
  <2> QED
    BY <1>3, <2>1, <2>2 DEF Occupied
<1>6. Size(c) = 0
  <2>1. CHAINEDBUFF_NUMTUPLESPERBUF \in Nat
    BY BufferAssumption
  <2>2. Len(c.buf) - 1 = 0
    BY <1>3
  <2> QED
    BY <1>3, <2>1, <2>2 DEF Size
<1> QED
  BY <1>1, <1>3, <1>4, <1>5, <1>6 DEF WellFormed, Contents

(* A new buffer in front holds nothing.                                    *)
LEMMA RoomEffect ==
    ASSUME NEW cb, WellFormed(cb)
    PROVE  /\ WithRoom(cb) \in Buffers /\ Len(WithRoom(cb).buf) > 0
           /\ WithRoom(cb).writepos < CHAINEDBUFF_NUMTUPLESPERBUF
           /\ Contents(WithRoom(cb)) = Contents(cb) /\ Size(WithRoom(cb)) = Size(cb)
<1>1. cb \in Buffers /\ Len(cb.buf) > 0
  BY DEF WellFormed
<1>2. CASE cb.writepos # CHAINEDBUFF_NUMTUPLESPERBUF
  <2>1. WithRoom(cb) = cb
    BY <1>2 DEF WithRoom
  <2> QED
    BY <1>1, <1>2, <2>1, BufferFields
<1>3. CASE cb.writepos = CHAINEDBUFF_NUMTUPLESPERBUF
  <2>1. PICK c : c = WithRoom(cb)
    OBVIOUS
  <2>2. c = [cb EXCEPT !.buf = <<NewBuffer>> \o @, !.writepos = 0]
    BY <1>3, <2>1 DEF WithRoom
  <2>3. NewBuffer \in [BufferIndex -> Pairs]
    BY DEF NewBuffer, Unwritten, Pairs
  <2>4. PICK s : s = cb.buf
    OBVIOUS
  <2>5. s \in Seq([BufferIndex -> Pairs]) /\ Len(s) \in Nat \ {0}
    BY <1>1, <2>4, BufferFields
  <2>6. PICK r : r = <<NewBuffer>> \o s
    OBVIOUS
  <2>7. /\ r \in Seq([BufferIndex -> Pairs]) /\ Len(r) = Len(s) + 1
        /\ r[1] = NewBuffer /\ \A q \in 1 .. Len(s) : r[q + 1] = s[q]
    BY <2>3, <2>5, <2>6
  <2>8. /\ c.buf = r /\ c.writepos = 0 /\ c \in Buffers
    <3>1. c = [cb EXCEPT !.buf = r, !.writepos = 0]
      BY <1>1, <2>2, <2>4, <2>6 DEF Buffers
    <3>2. 0 \in 0 .. CHAINEDBUFF_NUMTUPLESPERBUF
      BY BufferAssumption
    <3> QED
      BY <1>1, <2>7, <3>1, <3>2 DEF Buffers
  <2>9. Size(c) = Size(cb)
    <3>1. PICK l, n : l = Len(s) /\ n = CHAINEDBUFF_NUMTUPLESPERBUF
      OBVIOUS
    <3>2. l \in Nat \ {0} /\ n \in Nat
      BY <2>5, <3>1, BufferAssumption
    <3>3. (l + 1 - 1) * n = (l - 1) * n + n
      <4>1. PICK m \in Nat : l = m + 1
        BY <3>2
      <4>2. l + 1 - 1 = m + 1 /\ l - 1 = m
        BY <4>1
      <4> QED
        BY <3>2, <4>2, OneMoreTimes
    <3>4. Size(c) = (l + 1 - 1) * n + 0 /\ Size(cb) = (l - 1) * n + n
      BY <1>3, <2>4, <2>7, <2>8, <3>1 DEF Size
    <3>5. (l - 1) * n + n \in Int
      BY <3>2
    <3> QED
      BY <3>3, <3>4, <3>5
  <2>10. Contents(c) = Contents(cb)
    <3>1. ASSUME NEW d \in Occupied(cb) PROVE cb.buf[d[1]][d[2]] \in Contents(c)
      <4>1. d[1] \in 1 .. Len(s) /\ d[2] \in BufferIndex
        BY <2>4 DEF Occupied
      <4>2. d[1] + 1 \in 1 .. Len(r) /\ d[1] + 1 # 1
        BY <2>5, <2>7, <4>1
      <4>3. PICK e : e = <<d[1] + 1, d[2]>>
        OBVIOUS
      <4>4. e \in Occupied(c)
        BY <2>8, <4>1, <4>2, <4>3 DEF Occupied
      <4>5. c.buf[e[1]][e[2]] = cb.buf[d[1]][d[2]]
        BY <2>4, <2>7, <2>8, <4>1, <4>3
      <4> QED
        BY <4>4, <4>5 DEF Contents
    <3>2. ASSUME NEW d \in Occupied(c) PROVE c.buf[d[1]][d[2]] \in Contents(cb)
      <4>1. d[1] \in 1 .. Len(r) /\ d[2] \in BufferIndex /\ (d[1] = 1 => d[2] < 0)
        BY <2>8 DEF Occupied
      <4>2. d[1] # 1 /\ d[2] < CHAINEDBUFF_NUMTUPLESPERBUF
        BY <4>1, BufferAssumption DEF BufferIndex
      <4>3. d[1] - 1 \in 1 .. Len(s) /\ d[1] - 1 + 1 = d[1]
        BY <2>5, <2>7, <4>1, <4>2
      <4>4. PICK e : e = <<d[1] - 1, d[2]>>
        OBVIOUS
      <4>5. e \in Occupied(cb)
        BY <1>3, <2>4, <4>1, <4>2, <4>3, <4>4 DEF Occupied
      <4>6. r[d[1]] = s[d[1] - 1]
        BY <2>7, <4>3
      <4>7. cb.buf[e[1]][e[2]] = c.buf[d[1]][d[2]]
        BY <2>4, <2>8, <4>4, <4>6
      <4> QED
        BY <4>5, <4>7 DEF Contents
    <3> QED
      BY <3>1, <3>2 DEF Contents
  <2> QED
    BY <2>1, <2>5, <2>7, <2>8, <2>9, <2>10, BufferAssumption
<1> QED
  BY <1>2, <1>3

(* A write adds its tuple.                                                 *)
LEMMA WrittenEffect ==
    ASSUME NEW cb, WellFormed(cb), NEW tuple \in Pairs
    PROVE  /\ WellFormed(Written(cb, tuple))
           /\ Contents(Written(cb, tuple)) = Contents(cb) \cup {tuple}
           /\ Size(Written(cb, tuple)) = Size(cb) + 1
<1>1. PICK c : c = WithRoom(cb)
  OBVIOUS
<1>2. /\ c \in Buffers /\ Len(c.buf) > 0 /\ c.writepos < CHAINEDBUFF_NUMTUPLESPERBUF
      /\ Contents(c) = Contents(cb) /\ Size(c) = Size(cb)
  BY <1>1, RoomEffect
<1>3. PICK w : w = Written(cb, tuple)
  OBVIOUS
<1>4. w = [c EXCEPT !.buf[1][c.writepos] = tuple, !.writepos = @ + 1]
  BY <1>1, <1>3 DEF Written
<1>5. PICK s, p : s = c.buf /\ p = c.writepos
  OBVIOUS
<1>6. /\ s \in Seq([BufferIndex -> Pairs]) /\ Len(s) \in Nat \ {0} /\ p \in BufferIndex /\ p \in Nat
      /\ p + 1 \in 0 .. CHAINEDBUFF_NUMTUPLESPERBUF
      /\ \A q \in 1 .. Len(s) : s[q] \in [BufferIndex -> Pairs]
  BY <1>2, <1>5, BufferFields DEF BufferIndex
<1>7. PICK r : r = [s EXCEPT ![1] = [s[1] EXCEPT ![p] = tuple]]
  OBVIOUS
<1>8. /\ r \in Seq([BufferIndex -> Pairs]) /\ Len(r) = Len(s)
      /\ r[1] = [s[1] EXCEPT ![p] = tuple]
      /\ \A q \in 1 .. Len(s) : q # 1 => r[q] = s[q]
  <2>1. 1 \in 1 .. Len(s)
    BY <1>6
  <2>2. [s[1] EXCEPT ![p] = tuple] \in [BufferIndex -> Pairs]
    BY <1>6, <2>1
  <2> QED
    BY <1>6, <1>7, <2>1, <2>2
<1>9. w.buf = r /\ w.writepos = p + 1 /\ w \in Buffers
  <2>1. w = [c EXCEPT !.buf = r, !.writepos = p + 1]
    BY <1>2, <1>4, <1>5, <1>7 DEF Buffers
  <2> QED
    BY <1>2, <1>6, <1>8, <2>1 DEF Buffers
<1>10. WellFormed(w)
  BY <1>6, <1>8, <1>9 DEF WellFormed
<1>11. Size(w) = Size(cb) + 1
  <2>1. PICK m : m = (Len(s) - 1) * CHAINEDBUFF_NUMTUPLESPERBUF
    OBVIOUS
  <2>2. m \in Int
    BY <1>6, <2>1, BufferAssumption
  <2>3. Size(w) = m + (p + 1) /\ Size(c) = m + p
    BY <1>5, <1>8, <1>9, <2>1 DEF Size
  <2> QED
    BY <1>2, <1>6, <2>2, <2>3
<1>12. ASSUME NEW d \in Occupied(c)
       PROVE  d \in Occupied(w) /\ r[d[1]][d[2]] = s[d[1]][d[2]]
  <2>1. d[1] \in 1 .. Len(s) /\ d[2] \in BufferIndex /\ d[2] \in Int /\ (d[1] = 1 => d[2] < p)
        /\ d = <<d[1], d[2]>>
    BY <1>5 DEF Occupied, BufferIndex
  <2>2. d \in Occupied(w)
    BY <1>6, <1>8, <1>9, <2>1 DEF Occupied
  <2>3. CASE d[1] = 1
    <3>1. s[1] \in [BufferIndex -> Pairs] /\ d[2] # p
      BY <1>6, <2>1, <2>3
    <3> QED
      BY <1>8, <2>1, <2>2, <2>3, <3>1
  <2>4. CASE d[1] # 1
    BY <1>8, <2>1, <2>2, <2>4
  <2> QED
    BY <2>3, <2>4
<1>13. ASSUME NEW d \in Occupied(w)
       PROVE  d \in Occupied(c) \/ (d[1] = 1 /\ d[2] = p)
  <2>1. d[1] \in 1 .. Len(s) /\ d[2] \in BufferIndex /\ d[2] \in Int /\ (d[1] = 1 => d[2] < p + 1)
        /\ d \in (1 .. Len(s)) \X BufferIndex
    BY <1>8, <1>9 DEF Occupied, BufferIndex
  <2>2. CASE d[1] = 1 => d[2] < p
    BY <1>5, <2>1, <2>2 DEF Occupied
  <2>3. CASE d[1] = 1 /\ ~ (d[2] < p)
    BY <1>6, <2>1, <2>3
  <2> QED
    BY <2>2, <2>3
<1>14. r[1][p] = tuple
  <2>1. s[1] \in [BufferIndex -> Pairs]
    BY <1>6
  <2> QED
    BY <1>6, <1>8, <2>1
<1>15. <<1, p>> \in Occupied(w)
  BY <1>6, <1>8, <1>9 DEF Occupied
<1>16. Contents(w) = Contents(c) \cup {tuple}
  <2>1. Contents(w) = {r[d[1]][d[2]] : d \in Occupied(w)}
    BY <1>9 DEF Contents
  <2>2. Contents(c) = {s[d[1]][d[2]] : d \in Occupied(c)}
    BY <1>5 DEF Contents
  <2>3. ASSUME NEW x \in Contents(w) PROVE x \in Contents(c) \cup {tuple}
    <3>1. PICK d \in Occupied(w) : x = r[d[1]][d[2]]
      BY <2>1
    <3>2. CASE d \in Occupied(c)
      BY <1>12, <2>2, <3>1, <3>2
    <3>3. CASE d[1] = 1 /\ d[2] = p
      BY <1>14, <3>1, <3>3
    <3> QED
      BY <1>13, <3>2, <3>3
  <2>4. ASSUME NEW x \in Contents(c) PROVE x \in Contents(w)
    <3>1. PICK d \in Occupied(c) : x = s[d[1]][d[2]]
      BY <2>2
    <3> QED
      BY <1>12, <2>1, <3>1
  <2>5. tuple \in Contents(w)
    <3>1. PICK d : d = <<1, p>>
      OBVIOUS
    <3>2. d \in Occupied(w) /\ r[d[1]][d[2]] = tuple
      BY <1>14, <1>15, <3>1
    <3> QED
      BY <2>1, <3>2
  <2> QED
    BY <2>3, <2>4, <2>5
<1> QED
  BY <1>2, <1>3, <1>10, <1>11, <1>16

(* The order of numbers.                                                   *)
LEMMA Trichotomy ==
    ASSUME NEW k \in Int, NEW l \in Int PROVE k < l \/ l < k \/ k = l
  OBVIOUS

(* A smaller multiple leaves a larger remainder.                           *)
LEMMA NoSmallerQuotient ==
    ASSUME NEW n \in Nat \ {0}, NEW p \in 0 .. n - 1, NEW q \in Nat, NEW k \in Int, NEW l \in Int, k < l
    PROVE  p + k * n # q + l * n
<1>1. PICK o \in Nat : l = k + 1 + o
  <2>1. l - (k + 1) \in Nat /\ l = k + 1 + (l - (k + 1))
    OBVIOUS
  <2> QED
    BY <2>1
<1>2. l * n = k * n + n + o * n
  BY <1>1
<1>3. o * n \in Nat /\ k * n \in Int
  BY <1>1
<1> QED
  BY <1>2, <1>3

(* A number has one quotient and one remainder.                            *)
LEMMA OneQuotient ==
    ASSUME NEW n \in Nat \ {0}, NEW p \in 0 .. n - 1, NEW q \in 0 .. n - 1, NEW k \in Int, NEW l \in Int,
           p + k * n = q + l * n
    PROVE  p = q /\ k = l
<1>1. p \in Nat /\ q \in Nat
  OBVIOUS
<1>2. k = l
  BY <1>1, Trichotomy, NoSmallerQuotient
<1>3. k * n \in Int
  BY OneMoreTimes
<1>4. ASSUME NEW x \in Int, p + x = q + x PROVE p = q
  BY <1>1, <1>4
<1>5. p = q
  BY <1>2, <1>3, <1>4
<1> QED
  BY <1>2, <1>5

(* A quotient, rounded down.                                               *)
LEMMA Quotient ==
    ASSUME NEW n \in Nat, NEW d \in Nat \ {0}
    PROVE  n \div d \in Nat /\ d * (n \div d) <= n /\ n < d * (n \div d) + d
  OBVIOUS

(* A number is its own remainder by a larger one.                          *)
LEMMA SmallRemainder ==
    ASSUME NEW d \in Nat \ {0}, NEW n \in 0 .. d - 1
    PROVE  n % d = n
<1>1. PICK q : q = n \div d
  OBVIOUS
<1>2. q \in Nat /\ d * q <= n
  BY <1>1, Quotient
<1>3. q = 0
  <2>1. CASE q # 0
    <3>1. PICK j \in Nat : q = j + 1
      BY <1>2, <2>1
    <3>2. d * q = d * j + d /\ d * j \in Nat
      BY <3>1
    <3> QED
      BY <1>2, <3>2
  <2> QED
    BY <2>1
<1>4. n = d * q + (n % d)
  BY <1>1
<1>5. d * q = 0 /\ n % d \in Int
  BY <1>3
<1> QED
  BY <1>4, <1>5

(* How many tuples a reader that stands before place <<q, p>> of l buffers *)
(* has yet to read.                                                        *)
Left(l, q, p) == (l - q) * CHAINEDBUFF_NUMTUPLESPERBUF + (p + 1)

(* One less after each read, and the reader stays where tuples are.        *)
LEMMA ReadEffect ==
    ASSUME NEW cb \in Buffers, NEW l \in Nat, NEW q \in 1 .. l, NEW p \in BufferIndex,
           cb.readcursor = q, cb.readpos = p, NEW c, c = cb_read_backwards(cb)
    PROVE  /\ c \in Buffers /\ c.buf = cb.buf
           /\ Left(l, q, p) > 1 =>
                /\ c.readcursor \in 1 .. l /\ c.readpos \in BufferIndex
                /\ Left(l, c.readcursor, c.readpos) = Left(l, q, p) - 1
<1>1. PICK N \in Nat \ {0} : N = CHAINEDBUFF_NUMTUPLESPERBUF
  BY BufferAssumption
<1>2. q \in Nat /\ p \in 0 .. N - 1 /\ p \in Nat
  BY <1>1 DEF BufferIndex
<1>3. PICK k \in Nat : l - q = k
  BY <1>2
<1>4. k * N \in Nat /\ Left(l, q, p) = k * N + (p + 1)
  BY <1>1, <1>3 DEF Left
<1>5. CASE p = 0
  <2>1. c = [cb EXCEPT !.readpos = N - 1, !.readcursor = q + 1]
    BY <1>1, <1>5 DEF cb_read_backwards, Buffers
  <2>2. N - 1 \in Nat /\ q + 1 \in Nat
    BY <1>1, <1>2
  <2>3. c.readpos = N - 1 /\ c.readcursor = q + 1 /\ c.buf = cb.buf /\ c \in Buffers
    BY <2>1, <2>2 DEF Buffers
  <2>4. PICK e : e = Left(l, q, p)
    OBVIOUS
  <2>5. ASSUME e > 1
        PROVE  q + 1 \in 1 .. l /\ N - 1 \in BufferIndex /\ Left(l, q + 1, N - 1) = e - 1
    <3>1. e = k * N + 1
      BY <1>4, <1>5, <2>4
    <3>2. k # 0
      BY <1>1, <2>5, <3>1
    <3>3. PICK j \in Nat : k = j + 1
      BY <3>2
    <3>4. l - (q + 1) = j /\ q + 1 \in 1 .. l
      BY <1>2, <1>3, <3>3
    <3>5. k * N = j * N + N /\ j * N \in Nat
      BY <1>1, <3>3, OneMoreTimes
    <3>6. Left(l, q + 1, N - 1) = j * N + (N - 1 + 1)
      BY <1>1, <3>4 DEF Left
    <3>7. PICK m \in Nat : m = j * N
      BY <3>5
    <3>8. e = m + N + 1 /\ Left(l, q + 1, N - 1) = m + (N - 1 + 1)
      BY <3>1, <3>5, <3>6, <3>7
    <3>9. Left(l, q + 1, N - 1) = e - 1
      BY <3>8
    <3> QED
      BY <1>1, <3>4, <3>9 DEF BufferIndex
  <2> QED
    BY <2>3, <2>4, <2>5
<1>6. CASE p # 0
  <2>1. c = [cb EXCEPT !.readpos = p - 1]
    BY <1>6 DEF cb_read_backwards, Buffers
  <2>2. p - 1 \in Nat /\ p - 1 \in 0 .. N - 1
    BY <1>2, <1>6
  <2>3. c.readpos = p - 1 /\ c.readcursor = q /\ c.buf = cb.buf /\ c \in Buffers
    BY <2>1, <2>2 DEF Buffers
  <2>4. Left(l, q, p - 1) = k * N + (p - 1 + 1)
    BY <1>1, <1>3 DEF Left
  <2>5. Left(l, q, p - 1) = Left(l, q, p) - 1
    <3>1. PICK e \in Nat : e = k * N
      BY <1>4
    <3>2. Left(l, q, p) = e + (p + 1) /\ Left(l, q, p - 1) = e + (p - 1 + 1)
      BY <1>4, <2>4, <3>1
    <3> QED
      BY <1>2, <3>2
  <2> QED
    BY <1>1, <2>2, <2>3, <2>5 DEF BufferIndex
<1> QED
  BY <1>5, <1>6

(* How many tuples are in a buffer.                                        *)
LEMMA SizeIs ==
    ASSUME NEW cb, WellFormed(cb)
    PROVE  \E j \in Nat : /\ Len(cb.buf) = j + 1 /\ j * CHAINEDBUFF_NUMTUPLESPERBUF \in Nat
                          /\ Size(cb) = j * CHAINEDBUFF_NUMTUPLESPERBUF + cb.writepos
                          /\ Size(cb) \in Nat
<1>1. PICK N \in Nat \ {0} : N = CHAINEDBUFF_NUMTUPLESPERBUF
  BY BufferAssumption
<1>2. PICK l \in Nat, w \in Nat : l = Len(cb.buf) /\ w = cb.writepos /\ l > 0
  BY BufferFields DEF WellFormed
<1>3. PICK j \in Nat : l = j + 1
  <2>1. l - 1 \in Nat /\ l = (l - 1) + 1
    BY <1>2
  <2> QED
    BY <2>1
<1>4. l - 1 = j
  BY <1>3
<1>5. j * N \in Nat
  OBVIOUS
<1>6. Size(cb) = j * N + w
  BY <1>1, <1>2, <1>4 DEF Size
<1>7. j * N + w \in Nat
  BY <1>5
<1> QED
  BY <1>1, <1>2, <1>3, <1>5, <1>6, <1>7

(* Where the reader begins: before the place that was written last.        *)
LEMMA BeginEffect ==
    ASSUME NEW cb, WellFormed(cb), NEW c, c = cb_begin_backwards(cb)
    PROVE  /\ c \in Buffers /\ c.buf = cb.buf
           /\ Size(cb) > 0 => /\ c.readcursor \in 1 .. Len(cb.buf) /\ c.readpos \in BufferIndex
                              /\ Left(Len(cb.buf), c.readcursor, c.readpos) = Size(cb)
<1>1. PICK N \in Nat \ {0}, M \in Nat \ {0} :
          N = CHAINEDBUFF_NUMTUPLESPERBUF /\ M = UINT32_SIZE /\ M > N
  BY BufferAssumption
<1>2. PICK w \in 0 .. N : w = cb.writepos
  BY <1>1, BufferFields DEF WellFormed
<1>3. PICK j \in Nat : Len(cb.buf) = j + 1 /\ j * N \in Nat /\ Size(cb) = j * N + w
  BY <1>1, <1>2, SizeIs
<1>4. cb \in Buffers
  BY DEF WellFormed
<1>5. PICK p : p = (w - 1) % M
  OBVIOUS
<1>6. p \in Nat
  <2>1. w - 1 \in Int
    OBVIOUS
  <2> QED
    BY <1>5, <2>1
<1>7. c = [cb EXCEPT !.readpos = p, !.readcursor = 1]
  BY <1>1, <1>2, <1>5 DEF cb_begin_backwards
<1>8. c.readpos = p /\ c.readcursor = 1 /\ c.buf = cb.buf /\ c \in Buffers
  <2>1. 1 \in Nat
    OBVIOUS
  <2> HIDE <1>5
  <2> QED
    BY <1>4, <1>6, <1>7, <2>1 DEF Buffers
<1>9. ASSUME Size(cb) > 0
      PROVE  1 \in 1 .. Len(cb.buf) /\ p \in BufferIndex /\ Left(Len(cb.buf), 1, p) = Size(cb)
  <2>1. w # 0
    <3>1. CASE w = 0
      <4>1. j = 0
        BY <1>2, <1>3, <3>1 DEF WellFormed
      <4>2. j * N = 0
        BY <4>1
      <4>3. Size(cb) = 0
        BY <1>3, <3>1, <4>2
      <4> QED
        BY <1>9, <4>3
    <3> QED
      BY <3>1
  <2>2. w - 1 \in 0 .. N - 1 /\ w - 1 \in 0 .. M - 1
    BY <1>1, <2>1
  <2>3. p = w - 1
    BY <1>5, <2>2, SmallRemainder
  <2>4. Len(cb.buf) - 1 = j
    BY <1>3
  <2>5. Left(Len(cb.buf), 1, p) = j * N + (w - 1 + 1)
    BY <1>1, <2>3, <2>4 DEF Left
  <2> QED
    BY <1>1, <1>3, <2>2, <2>3, <2>5 DEF BufferIndex
<1> QED
  BY <1>8, <1>9

(* The places that were written are those with between 1 and Size(cb)      *)
(* tuples left.                                                            *)
LEMMA OccupiedLeft ==
    ASSUME NEW cb, WellFormed(cb), NEW q \in 1 .. Len(cb.buf), NEW p \in BufferIndex
    PROVE  /\ Left(Len(cb.buf), q, p) \in Nat \ {0}
           /\ Left(Len(cb.buf), q, p) <= Size(cb) <=> <<q, p>> \in Occupied(cb)
<1>1. PICK N \in Nat \ {0} : N = CHAINEDBUFF_NUMTUPLESPERBUF
  BY BufferAssumption
<1>2. PICK w \in 0 .. N : w = cb.writepos
  BY <1>1, BufferFields DEF WellFormed
<1>3. PICK j \in Nat : Len(cb.buf) = j + 1 /\ j * N \in Nat /\ Size(cb) = j * N + w
  BY <1>1, <1>2, SizeIs
<1>4. PICK l \in Nat : l = Len(cb.buf) /\ l = j + 1
  BY <1>3
<1>5. q \in 1 .. l /\ q \in Nat /\ p \in 0 .. N - 1 /\ p \in Nat
  BY <1>1, <1>4 DEF BufferIndex
<1>6. PICK k \in Nat : l - q = k
  BY <1>5
<1>7. k * N \in Nat /\ Left(l, q, p) = k * N + (p + 1)
  BY <1>1, <1>6 DEF Left
<1>8. CASE q = 1
  <2>1. k = j
    BY <1>4, <1>6, <1>8
  <2>2. <<q, p>> \in Occupied(cb) <=> p < w
    BY <1>2, <1>8 DEF Occupied
  <2> QED
    BY <1>3, <1>4, <1>5, <1>7, <2>1, <2>2
<1>9. CASE q # 1
  <2>1. <<q, p>> \in Occupied(cb)
    BY <1>9 DEF Occupied
  <2>2. PICK o \in Nat : j = k + 1 + o
    <3>1. j - (k + 1) \in Nat /\ j = k + 1 + (j - (k + 1))
      BY <1>4, <1>5, <1>6, <1>9
    <3> QED
      BY <3>1
  <2>3. j * N = k * N + N + o * N /\ o * N \in Nat
    BY <2>2
  <2>4. k * N + (p + 1) <= j * N + w
    BY <1>5, <1>7, <2>3
  <2> QED
    BY <1>3, <1>4, <1>5, <1>7, <2>1, <2>4
<1> QED
  BY <1>8, <1>9

(* Reading as many tuples back as were written gives each of them, the     *)
(* last one first.                                                         *)
LEMMA ReadBackIs ==
    ASSUME NEW cb, WellFormed(cb)
    PROVE  LET s == ReadBack(cb, Size(cb))
           IN  DOMAIN s = 1 .. Size(cb) /\ s \in Seq(Pairs) /\ Len(s) = Size(cb)
               /\ ToSet(s) = Contents(cb)
<1>1. PICK m \in Nat, l \in Nat : m = Size(cb) /\ l = Len(cb.buf)
  BY SizeIs
<1> DEFINE step == [d \in Nat \X Buffers |-> cb_read_backwards(d[2])]
           Read == CHOOSE f : f = [n \in 0 .. m |-> IF n = 0 THEN cb_begin_backwards(cb)
                                                    ELSE cb_read_backwards(f[n - 1])]
<1>2. /\ cb_begin_backwards(cb) \in Buffers /\ cb_begin_backwards(cb).buf = cb.buf
      /\ m > 0 => /\ cb_begin_backwards(cb).readcursor \in 1 .. l
                  /\ cb_begin_backwards(cb).readpos \in BufferIndex
                  /\ Left(l, cb_begin_backwards(cb).readcursor, cb_begin_backwards(cb).readpos) = m
  BY <1>1, BeginEffect
<1>3. ASSUME NEW v \in Buffers PROVE cb_read_backwards(v) \in Buffers /\ cb_read_backwards(v).buf = v.buf
  <2>1. CHAINEDBUFF_NUMTUPLESPERBUF - 1 \in Nat
    BY BufferAssumption
  <2>2. CASE v.readpos = 0
    <3>1. cb_read_backwards(v) = [v EXCEPT !.readpos = CHAINEDBUFF_NUMTUPLESPERBUF - 1, !.readcursor = @ + 1]
      BY <2>2 DEF cb_read_backwards
    <3>2. v.readcursor + 1 \in Nat
      BY DEF Buffers
    <3> QED
      BY <2>1, <3>1, <3>2 DEF Buffers
  <2>3. CASE v.readpos # 0
    <3>1. cb_read_backwards(v) = [v EXCEPT !.readpos = @ - 1]
      BY <2>3 DEF cb_read_backwards
    <3>2. v.readpos - 1 \in Nat
      BY <2>3 DEF Buffers
    <3> QED
      BY <3>1, <3>2 DEF Buffers
  <2> QED
    BY <2>2, <2>3
<1>4. PICK g \in [0 .. m -> Buffers] : Follows(g, m, cb_begin_backwards(cb), step)
  <2>1. step \in [Nat \X Buffers -> Buffers]
    BY <1>3
  <2> HIDE DEF step
  <2> QED
    BY <1>2, <2>1, Recursion
<1>5. g[0] = cb_begin_backwards(cb) /\ \A n \in 1 .. m : g[n] = cb_read_backwards(g[n - 1])
  <2>1. ASSUME NEW n \in 1 .. m PROVE g[n] = cb_read_backwards(g[n - 1])
    <3>1. n - 1 \in 0 .. m /\ n \in Nat /\ g[n - 1] \in Buffers
      BY <1>1
    <3>2. step[<<n, g[n - 1]>>] = cb_read_backwards(g[n - 1])
      BY <3>1
    <3> QED
      BY <1>4, <3>2 DEF Follows
  <2> QED
    BY <1>4, <2>1 DEF Follows
<1> HIDE DEF step
<1>6. g = [n \in 0 .. m |-> IF n = 0 THEN cb_begin_backwards(cb) ELSE cb_read_backwards(g[n - 1])]
  <2>1. \A n \in 0 .. m : g[n] = IF n = 0 THEN cb_begin_backwards(cb) ELSE cb_read_backwards(g[n - 1])
    BY <1>5
  <2> QED
    BY <2>1
<1>7. Read = [n \in 0 .. m |-> IF n = 0 THEN cb_begin_backwards(cb) ELSE cb_read_backwards(Read[n - 1])]
  BY <1>6
<1>8. ReadBack(cb, m) = [n \in 1 .. m |-> Current(Read[n - 1])]
  BY DEF ReadBack
<1> HIDE DEF Read
<1>9. Read[0] = cb_begin_backwards(cb)
      /\ \A n \in 0 .. m : n + 1 <= m => Read[n + 1] = cb_read_backwards(Read[n])
  <2>1. Read[0] = cb_begin_backwards(cb)
    BY <1>7
  <2>2. ASSUME NEW n \in 0 .. m, n + 1 <= m PROVE Read[n + 1] = cb_read_backwards(Read[n])
    <3>1. n + 1 \in 0 .. m /\ n + 1 # 0 /\ (n + 1) - 1 = n
      BY <2>2
    <3> QED
      BY <1>7, <3>1
  <2> QED
    BY <2>1, <2>2
<1> DEFINE At(n) ==
              /\ Read[n] \in Buffers /\ Read[n].buf = cb.buf
              /\ n < m => /\ Read[n].readcursor \in 1 .. l /\ Read[n].readpos \in BufferIndex
                          /\ Left(l, Read[n].readcursor, Read[n].readpos) = m - n
           T == {n \in Nat : n <= m => At(n)}
<1>10. 0 \in T
  BY <1>2, <1>9
<1>11. ASSUME NEW n \in Nat, n \in T PROVE n + 1 \in T
  <2> SUFFICES ASSUME n + 1 <= m PROVE At(n + 1)
    OBVIOUS
  <2>1. At(n) /\ n < m
    BY <1>11
  <2>2. PICK v, c : v = Read[n] /\ c = Read[n + 1]
    OBVIOUS
  <2>3. c = cb_read_backwards(v)
    BY <1>9, <2>2
  <2>4. PICK q \in 1 .. l, p \in BufferIndex : q = v.readcursor /\ p = v.readpos
    BY <2>1, <2>2
  <2>5. Left(l, q, p) = m - n /\ v \in Buffers /\ v.buf = cb.buf
    BY <2>1, <2>2, <2>4
  <2>6. /\ c \in Buffers /\ c.buf = v.buf
        /\ Left(l, q, p) > 1 => /\ c.readcursor \in 1 .. l /\ c.readpos \in BufferIndex
                                /\ Left(l, c.readcursor, c.readpos) = Left(l, q, p) - 1
    BY <2>3, <2>4, <2>5, ReadEffect
  <2>7. n + 1 < m => m - n > 1 /\ m - n - 1 = m - (n + 1)
    OBVIOUS
  <2> QED
    BY <2>2, <2>5, <2>6, <2>7
<1>12. \A n \in 0 .. m : At(n)
  <2> HIDE DEF At
  <2>1. Nat \subseteq T
    <3> HIDE DEF T
    <3> QED
      BY <1>10, <1>11, Induction
  <2> QED
    BY <2>1
<1>13. PICK s : s = ReadBack(cb, m)
  OBVIOUS
<1>14. DOMAIN s = 1 .. m /\ \A n \in 1 .. m : s[n] = Current(Read[n - 1])
  BY <1>8, <1>13
<1>15. ASSUME NEW n \in 1 .. m PROVE s[n] \in Contents(cb)
  <2>1. n - 1 \in 0 .. m /\ n - 1 < m /\ m - (n - 1) <= m
    OBVIOUS
  <2>2. At(n - 1)
    BY <1>12, <2>1
  <2>3. PICK q \in 1 .. l, p \in BufferIndex : q = Read[n - 1].readcursor /\ p = Read[n - 1].readpos
    BY <2>1, <2>2
  <2>4. Left(l, q, p) <= Size(cb)
    BY <1>1, <2>1, <2>2, <2>3
  <2>5. <<q, p>> \in Occupied(cb)
    BY <1>1, <2>4, OccupiedLeft
  <2>6. PICK d \in Occupied(cb) : d = <<q, p>>
    BY <2>5
  <2>7. s[n] = cb.buf[d[1]][d[2]]
    BY <1>14, <2>2, <2>3, <2>6 DEF Current
  <2> QED
    BY <2>7 DEF Contents
<1>16. ASSUME NEW x \in Contents(cb) PROVE \E n \in 1 .. m : s[n] = x
  <2>1. PICK d \in Occupied(cb) : x = cb.buf[d[1]][d[2]]
    BY DEF Contents
  <2>2. PICK q \in 1 .. l, p \in BufferIndex : d = <<q, p>>
    BY <1>1 DEF Occupied
  <2>3. PICK k \in Nat \ {0} : k = Left(l, q, p) /\ k <= m
    BY <1>1, <2>2, OccupiedLeft
  <2>4. PICK n : n = m - k
    OBVIOUS
  <2>5. n \in 0 .. m /\ n < m /\ m - n = k /\ n + 1 \in 1 .. m /\ n + 1 - 1 = n
    BY <2>3, <2>4
  <2>6. At(n)
    BY <1>12, <2>5
  <2>7. PICK r \in 1 .. l, o \in BufferIndex : r = Read[n].readcursor /\ o = Read[n].readpos
    BY <2>5, <2>6
  <2>8. Left(l, r, o) = Left(l, q, p)
    BY <2>3, <2>5, <2>6, <2>7
  <2>9. r = q /\ o = p
    <3>1. PICK N \in Nat \ {0} : N = CHAINEDBUFF_NUMTUPLESPERBUF
      BY BufferAssumption
    <3>2. PICK j \in Int, k2 \in Int : j = l - r /\ k2 = l - q
      OBVIOUS
    <3>3. o \in 0 .. N - 1 /\ p \in 0 .. N - 1
      BY <3>1 DEF BufferIndex
    <3>4. j * N \in Int /\ k2 * N \in Int
      BY OneMoreTimes
    <3>5. PICK e \in Int, f \in Int : e = j * N /\ f = k2 * N
      BY <3>4
    <3>6. e + (o + 1) = f + (p + 1)
      BY <2>8, <3>1, <3>2, <3>5 DEF Left
    <3>7. o + e = p + f
      BY <3>3, <3>6
    <3>8. o = p /\ j = k2
      <4>1. o + j * N = p + k2 * N
        BY <3>5, <3>7
      <4> QED
        BY <3>3, <4>1, OneQuotient
    <3> QED
      BY <3>2, <3>8
  <2>10. s[n + 1] = x
    <3>1. s[n + 1] = Current(Read[n])
      BY <1>14, <2>5
    <3>2. Current(Read[n]) = cb.buf[q][p]
      BY <2>6, <2>7, <2>9 DEF Current
    <3> QED
      BY <2>1, <2>2, <3>1, <3>2
  <2> QED
    BY <2>5, <2>10
<1>17. Contents(cb) \subseteq Pairs
  <2>1. ASSUME NEW d \in Occupied(cb) PROVE cb.buf[d[1]][d[2]] \in Pairs
    <3>1. cb.buf[d[1]] \in [BufferIndex -> Pairs] /\ d[2] \in BufferIndex
      BY BufferFields DEF WellFormed, Occupied
    <3> QED
      BY <3>1
  <2> QED
    BY <2>1 DEF Contents
<1>18. s = [n \in 1 .. m |-> s[n]]
  BY <1>8, <1>13
<1>19. \A n \in 1 .. m : s[n] \in Pairs
  BY <1>15, <1>17
<1>20. s \in Seq(Pairs) /\ Len(s) = m
  BY <1>18, <1>19
<1>21. ToSet(s) = Contents(cb)
  BY <1>14, <1>15, <1>16 DEF ToSet
<1> QED
  BY <1>1, <1>13, <1>14, <1>20, <1>21

-----------------------------------------------------------------------------
(* Where a thread holds a latch, and where it is in its chunk of R.        *)
Critical == {"choose", "count", "store"}
Labels == {"build", "choose", "count", "store", "built", "probe", "bucket",
           "probed", "free", "done", "absent"}

(* The positions before t's chunk of X.                                    *)
Offset(X, t) == t * (Len(X) \div nthreads)

(* How far a thread is: within its chunk of R, then of S.                  *)
Progress(t) ==
    /\ pc[t] = "build" => i[t] <= Len(Chunk(rel.R, t))
    /\ pc[t] \in Critical => i[t] < Len(Chunk(rel.R, t))
    /\ pc[t] = "built" => i[t] = 0
    /\ pc[t] = "probe" => i[t] <= Len(Chunk(rel.S, t))
    /\ pc[t] = "bucket" => i[t] < Len(Chunk(rel.S, t)) /\ b[t] \in DOMAIN mem
    /\ pc[t] \in {"probed", "free", "done"} => i[t] = Len(Chunk(rel.S, t))

(* The types of what threads have for themselves.                          *)
ThreadTypes ==
    /\ rel \in Relations /\ alg \in Algorithms
    /\ pc \in [Threads -> Labels] /\ i \in [Threads -> Nat]
    /\ latch \in [Table -> BOOLEAN]
    /\ overflowbuf \in [Threads -> [buffer : Nat \ {0}, count : Nat]]
    /\ dest = [t \in Threads |-> dest[t]] /\ b = [t \in Threads |-> b[t]]
    /\ \A t \in Threads : pc[t] = "absent" <=> t \notin Running
    /\ \A t \in Running : Progress(t)
    /\ \A t \in Threads \ Running : i[t] = 0

(* The types of the results.  Each match that is counted is in a buffer.   *)
ResultTypes ==
    /\ matches \in [Threads -> Nat]
    /\ totalresults \in Nat /\ joined \in 0 .. nthreads
    /\ chainedbuf = [t \in Threads |-> chainedbuf[t]]
    /\ \A t \in Threads : WellFormed(chainedbuf[t]) /\ Size(chainedbuf[t]) = matches[t]

(* The types of the buckets, and where pointers lead.                      *)
BucketTypes ==
    /\ Table \subseteq DOMAIN mem /\ NULL \notin DOMAIN mem /\ IsFiniteSet(DOMAIN mem)
    /\ mem = [x \in DOMAIN mem |-> mem[x]]
    /\ \A x \in DOMAIN mem :
          /\ mem[x] \in [count : 0 .. BUCKET_SIZE, next : DOMAIN mem \cup {NULL},
                         tuples : [0 .. BUCKET_SIZE - 1 -> Nat]]
          /\ x \notin Table => mem[x].count > 0

(* A latch has one holder.                                                 *)
Exclusion ==
    /\ \A t \in Threads : pc[t] \in Critical => latch[Curr(t)]
    /\ \A t, u \in Threads :
          t # u /\ pc[t] \in Critical /\ pc[u] \in Critical => Curr(t) # Curr(u)

(* A thread's place is the first free one of a bucket of its chain, and    *)
(* then the last one that is counted.                                      *)
Reserved ==
    \A t \in Threads : pc[t] \in {"count", "store"} =>
          /\ dest[t] = [bucket |-> dest[t].bucket, n |-> dest[t].n]
          /\ dest[t].bucket \in {Curr(t), mem[Curr(t)].next} \ {NULL}
          /\ dest[t].n \in 0 .. BUCKET_SIZE - 1
          /\ mem[dest[t].bucket].count = dest[t].n + (IF pc[t] = "store" THEN 1 ELSE 0)

(* The overflow buckets that exist are those that were handed out.         *)
HandedOut ==
    \A x \in DOMAIN mem \ Table :
        IF alg = "NPO"
        THEN \E t \in Threads : \E bf \in 1 .. overflowbuf[t].buffer :
             \E n \in 0 .. OVERFLOW_BUF_SIZE - 1 :
                /\ x = <<t, bf, n>>
                /\ bf = overflowbuf[t].buffer => n < overflowbuf[t].count
        ELSE \E n \in 0 .. Cardinality(DOMAIN mem) - 1 : x = <<0, n>>

(* own gives each bucket the bucket of the table to whose chain it         *)
(* belongs, dist its distance from there.                                  *)
Chains(own, dist) ==
    /\ own \in [DOMAIN mem -> Table] /\ dist \in [DOMAIN mem -> Nat]
    /\ \A x \in Table : own[x] = x /\ dist[x] = 0
    /\ \A x \in DOMAIN mem : dist[x] < Cardinality(DOMAIN mem)
    /\ \A x \in DOMAIN mem \ Table : \E y \in DOMAIN mem :
          mem[y].next = x /\ own[y] = own[x] /\ dist[x] = dist[y] + 1
    /\ \A x \in DOMAIN mem : mem[x].next # NULL =>
          /\ mem[x].next \notin Table /\ own[mem[x].next] = own[x]
          /\ dist[mem[x].next] = dist[x] + 1
    /\ \A x, y \in DOMAIN mem : own[x] = own[y] /\ dist[x] = dist[y] => x = y

(* The positions of R that the threads have inserted.                      *)
InsertedBy(t) ==
    IF pc[t] = "build" \/ pc[t] \in Critical THEN i[t] ELSE Len(Chunk(rel.R, t))
Inserted ==
    {p \in DOMAIN rel.R : \E t \in Running : \E k \in 1 .. InsertedBy(t) : p = Offset(rel.R, t) + k}

(* The places that hold a tuple: those that are counted, but for the place *)
(* of a thread between counting and storing.                               *)
Filled ==
    {d \in (DOMAIN mem) \X (0 .. BUCKET_SIZE - 1) :
        /\ d[2] < mem[d[1]].count
        /\ \A t \in Threads : pc[t] = "store" => <<dest[t].bucket, dest[t].n>> # d}
TupleAt(d) == mem[d[1]].tuples[d[2]]

(* The tuples that were inserted are in the table, each once, and each in  *)
(* the chain of its key.                                                   *)
Storage(own) ==
    /\ \A d \in Filled : TupleAt(d) \in Inserted /\ own[d[1]] = HASH(rel.R[TupleAt(d)])
    /\ \A d, e \in Filled : TupleAt(d) = TupleAt(e) => d = e
    /\ \A p \in Inserted : \E d \in Filled : TupleAt(d) = p

(* The pairs a thread has found: those of the S tuples it is done with,    *)
(* and those in the buckets it has looked at for the current one.          *)
Probed(t) ==
    IF pc[t] \in {"probe", "bucket", "probed", "free", "done"} THEN i[t] ELSE 0
Before(own, dist, x) ==
    {d \in Filled : own[d[1]] = own[x] /\ dist[d[1]] < dist[x]}
Found(own, dist, t) ==
    {d \in EqualPairs :
        \/ \E k \in 1 .. Probed(t) : d[2] = Offset(rel.S, t) + k
        \/ /\ pc[t] = "bucket" /\ d[2] = Position(rel.S, t)
           /\ \E e \in Before(own, dist, b[t]) : TupleAt(e) = d[1]}

Counting(own, dist) ==
    \A t \in Running :
        /\ pc[t] = "bucket" => own[b[t]] = HASH(ProbeKey(t))
        /\ matches[t] = Cardinality(Found(own, dist, t))
        /\ Contents(chainedbuf[t]) = Found(own, dist, t)

Structure == \E own, dist : Chains(own, dist) /\ Storage(own) /\ Counting(own, dist)

(* What the threads that were joined have found is what totalresults says. *)
FoundBelow(n) ==
    {d \in EqualPairs : \E t \in 0 .. n - 1 : \E k \in 1 .. i[t] : d[2] = Offset(rel.S, t) + k}
Collected == FoundBelow(joined)
Total ==
    /\ \A t \in 0 .. joined - 1 : pc[t] = "done"
    /\ totalresults = Cardinality(Collected)

-----------------------------------------------------------------------------
(* The table and the chunks.  The next power of two of a positive number   *)
(* exists: the powers grow faster than their exponents.                    *)
LEMMA PowerExists ==
    ASSUME NEW v \in Nat \ {0}
    PROVE  NEXT_POW_2(v) \in Nat \ {0}
<1> DEFINE double == [d \in Nat \X Nat |-> 2 * d[2]]
           Pow == CHOOSE f : f = [e \in 0 .. v |-> IF e = 0 THEN 1 ELSE 2 * f[e - 1]]
           Powers == {Pow[e] : e \in 0 .. v}
<1>1. PICK f \in [0 .. v -> Nat] : Follows(f, v, 1, double)
  <2>1. double \in [Nat \X Nat -> Nat]
    OBVIOUS
  <2> QED
    BY <2>1, Recursion
<1>2. f[0] = 1 /\ \A e \in 1 .. v : f[e] = 2 * f[e - 1]
  <2>1. ASSUME NEW e \in 1 .. v PROVE f[e] = 2 * f[e - 1]
    <3>1. e - 1 \in 0 .. v /\ f[e - 1] \in Nat
      OBVIOUS
    <3>2. double[<<e, f[e - 1]>>] = 2 * f[e - 1]
      BY <3>1
    <3> QED
      BY <1>1, <3>2 DEF Follows
  <2> QED
    BY <1>1, <2>1 DEF Follows
<1>3. f = [e \in 0 .. v |-> IF e = 0 THEN 1 ELSE 2 * f[e - 1]]
  BY <1>2
<1>4. Pow = [e \in 0 .. v |-> IF e = 0 THEN 1 ELSE 2 * Pow[e - 1]]
  BY <1>3
<1> HIDE DEF Pow
<1> DEFINE T == {e \in Nat : e \in 0 .. v => Pow[e] \in Nat /\ Pow[e] >= e + 1}
<1>5. \A e \in 0 .. v : Pow[e] \in Nat /\ Pow[e] >= e + 1
  <2>1. 0 \in T
    BY <1>4
  <2>2. ASSUME NEW e \in Nat, e \in T PROVE e + 1 \in T
    <3>1. CASE e + 1 \in 0 .. v
      <4>1. Pow[e + 1] = 2 * Pow[e]
        BY <1>4, <3>1
      <4> QED
        BY <2>2, <3>1, <4>1
    <3> QED
      BY <3>1
  <2> HIDE DEF T
  <2>3. Nat \subseteq T
    BY <2>1, <2>2, Induction
  <2> QED
    BY <2>3 DEF T
<1> DEFINE Large == {p \in Powers : p >= v}
<1>6. Large \subseteq Nat /\ Large # {}
  <2>1. Pow[v] \in Large
    BY <1>5
  <2> QED
    BY <1>5, <2>1
<1>7. PICK p \in Large : \A q \in Large : p <= q
  BY <1>6, LeastNatural
<1>8. p \in Powers /\ p >= v /\ \A q \in Powers : q >= v => p <= q
  BY <1>7
<1>9. NEXT_POW_2(v) = CHOOSE q \in Powers : q >= v /\ \A r \in Powers : r >= v => q <= r
  BY DEF NEXT_POW_2, Pow
<1>10. NEXT_POW_2(v) \in Powers
  BY <1>8, <1>9
<1> QED
  BY <1>5, <1>10

(* The relations are what allocate_hashtable is given: R fills a bucket.   *)
LEMMA RelationFacts ==
    ASSUME rel \in Relations
    PROVE  /\ rel.R \in Seq(Nat) /\ rel.S \in Seq(Nat)
           /\ num_buckets \in Nat \ {0}
           /\ Len(rel.R) \in Nat \ {0} /\ Len(rel.S) \in Nat
<1>1. rel.R \in Seq(Nat) /\ rel.S \in Seq(Nat) /\ Len(rel.R) >= BUCKET_SIZE
  BY RelationsAssumption
<1> DEFINE len == Len(rel.R)
           v == len \div BUCKET_SIZE
<1>2. len \in Nat /\ len >= BUCKET_SIZE /\ BUCKET_SIZE \in Nat \ {0}
  BY <1>1, BucketsAssumption
<1> HIDE DEF len
<1>3. v \in Nat /\ len < BUCKET_SIZE * v + BUCKET_SIZE
  BY <1>2
<1> HIDE DEF v
<1>4. v # 0
  BY <1>2, <1>3
<1>5. NEXT_POW_2(v) \in Nat \ {0}
  BY <1>3, <1>4, PowerExists
<1>6. num_buckets = NEXT_POW_2(v)
  BY DEF num_buckets, v, len
<1> QED
  BY <1>1, <1>2, <1>5, <1>6 DEF len

(* Keys are mapped to buckets of the table, which no overflow bucket is.   *)
LEMMA Hashed ==
    ASSUME rel \in Relations
    PROVE  /\ \A key \in Nat : HASH(key) \in Table
           /\ NULL \notin Table /\ Table \subseteq Seq(Nat)
           /\ \A x, y : <<x, y>> \notin Table /\ <<x, y>> # NULL
           /\ \A x, y, z : <<x, y, z>> \notin Table /\ <<x, y, z>> # NULL
           /\ IsFiniteSet(Table) /\ Table # {}
<1>1. num_buckets \in Nat \ {0}
  BY RelationFacts
<1> DEFINE bucket == [n \in 0 .. num_buckets - 1 |-> <<n>>]
<1>2. IsFiniteSet(0 .. num_buckets - 1)
  BY <1>1, FS_Interval
<1>3. bucket \in Surjection(0 .. num_buckets - 1, Table)
  BY DEF Surjection, Table
<1>4. IsFiniteSet(Table)
  BY <1>2, <1>3, FS_Surjection
<1>5. ASSUME NEW key \in Nat PROVE HASH(key) \in Table
  <2>1. key % num_buckets \in 0 .. num_buckets - 1
    BY <1>1
  <2> QED
    BY <2>1 DEF HASH, Table
<1>6. <<0>> \in Table
  BY <1>1 DEF Table
<1>7. NULL \notin Table /\ Table \subseteq Seq(Nat)
  <2>1. \A n \in 0 .. num_buckets - 1 : <<n>> \in Seq(Nat) /\ <<n>> # NULL
    BY <1>1 DEF NULL
  <2> QED
    BY <2>1 DEF Table
<1>8. \A x, y : <<x, y>> \notin Table /\ <<x, y>> # NULL
  BY DEF Table, NULL
<1>9. \A x, y, z : <<x, y, z>> \notin Table /\ <<x, y, z>> # NULL
  BY DEF Table, NULL
<1> QED
  BY <1>4, <1>5, <1>6, <1>7, <1>8, <1>9

(* The join has at least one thread, and those that run are threads.       *)
LEMMA SomeRun ==
    /\ nthreads \in Nat \ {0} /\ Running \subseteq Threads /\ 0 \in Running
    /\ Running = 0 .. nthreads - 1 /\ \A t \in Running : t \in Nat /\ t <= nthreads - 1
  BY NThreadsAssumption DEF nthreads, Running, Threads

(* A chunk is a range of the relation: the threads before t have equal     *)
(* ones, and the last thread's goes to the end.                            *)
LEMMA ChunkIsRange ==
    ASSUME NEW X \in Seq(Nat), NEW t \in Running
    PROVE  /\ Offset(X, t) \in Nat /\ Len(Chunk(X, t)) \in Nat
           /\ Offset(X, t) + Len(Chunk(X, t)) <= Len(X)
           /\ Len(Chunk(X, t)) = IF t = nthreads - 1 THEN Len(X) - Offset(X, t)
                                 ELSE Len(X) \div nthreads
           /\ \A k \in 1 .. Len(Chunk(X, t)) : Chunk(X, t)[k] = X[Offset(X, t) + k]
<1> DEFINE len == Len(X)
           each == len \div nthreads
           first == t * each
           last == IF t = nthreads - 1 THEN len ELSE (t + 1) * each
<1>1. len \in Nat /\ nthreads \in Nat \ {0} /\ t \in Nat /\ t <= nthreads - 1
  BY SomeRun
<1> HIDE DEF len
<1>2. each \in Nat /\ nthreads * each <= len
  BY <1>1, Quotient
<1> HIDE DEF each
<1>3. first \in Nat /\ (t + 1) * each \in Nat /\ (t + 1) * each = first + each
      /\ (t + 1) * each <= nthreads * each
  BY <1>1, <1>2
<1> HIDE DEF first
<1>4. last \in Nat /\ first <= last /\ last <= len
  BY <1>1, <1>2, <1>3
<1>5. Chunk(X, t) = SubSeq(X, first + 1, last)
  BY DEF Chunk, first, last, each, len
<1>6. last - first = IF t = nthreads - 1 THEN len - first ELSE each
  BY <1>1, <1>2, <1>3
<1> HIDE DEF last
<1>7. /\ Len(SubSeq(X, first + 1, last)) = last - first
      /\ \A k \in 1 .. last - first : SubSeq(X, first + 1, last)[k] = X[first + k]
  <2>1. first + 1 \in 1 .. Len(X) + 1 /\ last \in first .. Len(X)
    BY <1>1, <1>3, <1>4 DEF len
  <2> QED
    BY <2>1, <1>3
<1>8. Offset(X, t) = first /\ each = Len(X) \div nthreads
  BY DEF Offset, first, each, len
<1>9. Len(Chunk(X, t)) = last - first
  BY <1>5, <1>7
<1>10. \A k \in 1 .. Len(Chunk(X, t)) : Chunk(X, t)[k] = X[Offset(X, t) + k]
  BY <1>5, <1>7, <1>8, <1>9
<1>11. Len(Chunk(X, t)) = IF t = nthreads - 1 THEN Len(X) - Offset(X, t)
                          ELSE Len(X) \div nthreads
  BY <1>6, <1>8, <1>9 DEF len
<1>12. Len(Chunk(X, t)) \in Nat /\ first + Len(Chunk(X, t)) <= len
  BY <1>1, <1>3, <1>4, <1>9
<1> QED
  BY <1>3, <1>8, <1>10, <1>11, <1>12 DEF len

(* No position is in the chunks of two threads.                            *)
LEMMA ChunksApart ==
    ASSUME NEW X \in Seq(Nat), NEW t \in Running, NEW u \in Running,
           NEW k \in 1 .. Len(Chunk(X, t)), NEW l \in 1 .. Len(Chunk(X, u)),
           Offset(X, t) + k = Offset(X, u) + l
    PROVE  t = u /\ k = l
<1> DEFINE each == Len(X) \div nthreads
<1>1. t \in Nat /\ u \in Nat /\ nthreads \in Nat \ {0} /\ t <= nthreads - 1 /\ u <= nthreads - 1
  BY SomeRun
<1>2. each \in Nat
  <2>1. Len(X) \in Nat
    OBVIOUS
  <2> QED
    BY <1>1, <2>1, Quotient
<1> HIDE DEF each
<1>3. Offset(X, t) = t * each /\ Offset(X, u) = u * each
  BY DEF Offset, each
<1>4. t < nthreads - 1 => k <= each
  BY ChunkIsRange, <1>1 DEF each
<1>5. u < nthreads - 1 => l <= each
  BY ChunkIsRange, <1>1 DEF each
<1>6. k \in Nat \ {0} /\ l \in Nat \ {0}
  BY ChunkIsRange
<1>7. CASE t < u
  <2>1. (t + 1) * each <= u * each /\ (t + 1) * each = t * each + each
    BY <1>1, <1>2, <1>7
  <2>2. k <= each
    BY <1>1, <1>4, <1>7
  <2>3. u * each \in Nat /\ t * each \in Nat
    BY <1>1, <1>2
  <2>4. t * each + k < u * each + l
    BY <1>2, <1>6, <2>1, <2>2, <2>3
  <2> QED
    BY <1>3, <1>6, <2>3, <2>4
<1>8. CASE u < t
  <2>1. (u + 1) * each <= t * each /\ (u + 1) * each = u * each + each
    BY <1>1, <1>2, <1>8
  <2>2. l <= each
    BY <1>1, <1>5, <1>8
  <2>3. u * each \in Nat /\ t * each \in Nat
    BY <1>1, <1>2
  <2>4. u * each + l < t * each + k
    BY <1>2, <1>6, <2>1, <2>2, <2>3
  <2> QED
    BY <1>3, <1>6, <2>3, <2>4
<1>9. CASE t = u
  BY <1>3, <1>6, <1>9, <1>1, <1>2
<1> QED
  BY <1>1, <1>7, <1>8, <1>9

(* Every position is in a chunk, the remainder of the division included.   *)
LEMMA ChunksCover ==
    ASSUME NEW X \in Seq(Nat), NEW p \in 1 .. Len(X)
    PROVE  \E t \in Running : \E k \in 1 .. Len(Chunk(X, t)) : p = Offset(X, t) + k
<1> DEFINE len == Len(X)
           each == len \div nthreads
<1>1. len \in Nat /\ p \in 1 .. len /\ nthreads \in Nat \ {0}
  BY SomeRun
<1>2. each \in Nat /\ nthreads * each <= len
  BY <1>1, Quotient
<1> HIDE DEF len
<1> HIDE DEF each
<1>3. CASE each > 0 /\ p - 1 < (nthreads - 1) * each
  <2> DEFINE t == (p - 1) \div each
             k == p - t * each
  <2>1. t \in Nat /\ each * t <= p - 1 /\ p - 1 < each * t + each
    BY <1>1, <1>2, <1>3, Quotient
  <2> HIDE DEF t
  <2>2. t < nthreads - 1
    BY <1>1, <1>2, <1>3, <2>1
  <2>3. t \in Running
    BY <1>1, <2>1, <2>2, SomeRun
  <2>4. Len(Chunk(X, t)) = each /\ Offset(X, t) = t * each
    BY <1>1, <2>1, <2>2, <2>3, ChunkIsRange DEF Offset, each, len
  <2>5. k \in 1 .. each /\ p = t * each + k
    BY <1>1, <1>2, <2>1
  <2> QED
    BY <2>3, <2>4, <2>5
<1>4. CASE ~ (each > 0 /\ p - 1 < (nthreads - 1) * each)
  <2> DEFINE t == nthreads - 1
             k == p - t * each
  <2>1. t \in Running
    BY <1>1, SomeRun
  <2>2. Len(Chunk(X, t)) = len - t * each /\ Offset(X, t) = t * each
    BY <2>1, ChunkIsRange DEF Offset, each, len
  <2>3. t * each \in Nat
    BY <1>1, <1>2
  <2>4. t * each <= p - 1
    <3>1. CASE each = 0
      BY <1>1, <1>2, <3>1
    <3>2. CASE each > 0
      BY <1>1, <1>2, <1>4, <2>3, <3>2
    <3> QED
      BY <1>2, <3>1, <3>2
  <2>5. k \in 1 .. len - t * each /\ p = t * each + k
    BY <1>1, <2>3, <2>4
  <2> QED
    BY <2>1, <2>2, <2>5
<1> QED
  BY <1>3, <1>4

(* A place in a part of a range.                                           *)
LEMMA WithinChunk ==
    \A k, o, l, n \in Nat : k < l /\ o + l <= n => o + (k + 1) \in 1 .. n
  OBVIOUS

(* The position of the tuple that t is at.                                 *)
LEMMA PositionIs ==
    ASSUME NEW X \in Seq(Nat), NEW t \in Running, i[t] \in Nat, i[t] < Len(Chunk(X, t))
    PROVE  /\ Position(X, t) = Offset(X, t) + (i[t] + 1)
           /\ i[t] + 1 \in 1 .. Len(Chunk(X, t))
           /\ Position(X, t) \in 1 .. Len(X)
           /\ Chunk(X, t)[i[t] + 1] = X[Position(X, t)]
           /\ X[Position(X, t)] \in Nat
<1>1. Offset(X, t) \in Nat /\ Len(Chunk(X, t)) \in Nat /\ Offset(X, t) + Len(Chunk(X, t)) <= Len(X)
  BY ChunkIsRange
<1>2. Position(X, t) = Offset(X, t) + (i[t] + 1)
  BY <1>1 DEF Position, Offset
<1>3. i[t] + 1 \in 1 .. Len(Chunk(X, t))
  BY <1>1
<1>4. Position(X, t) \in 1 .. Len(X)
  <2>1. PICK k \in Nat, o \in Nat, l \in Nat :
            k = i[t] /\ o = Offset(X, t) /\ l = Len(Chunk(X, t)) /\ k < l
    BY <1>1
  <2>2. PICK n \in Nat : n = Len(X) /\ o + l <= n
    BY <1>1, <2>1
  <2>3. o + (k + 1) \in 1 .. n
    BY <2>1, <2>2, WithinChunk
  <2> QED
    BY <1>2, <2>1, <2>2, <2>3
<1>5. Chunk(X, t)[i[t] + 1] = X[Offset(X, t) + (i[t] + 1)]
  BY <1>3, ChunkIsRange
<1>6. X[Position(X, t)] \in Nat
  BY <1>4
<1> QED
  BY <1>2, <1>3, <1>4, <1>5, <1>6

-----------------------------------------------------------------------------
(* What every step relies on.                                              *)
Typed ==
    /\ Inv /\ ThreadTypes /\ ResultTypes /\ BucketTypes
    /\ Exclusion /\ Reserved /\ HandedOut

(* The relations and the algorithm stay, and all that depends on them.     *)
LEMMA InputStays ==
    ASSUME rel' = rel, alg' = alg
    PROVE  /\ nthreads' = nthreads /\ Running' = Running /\ Table' = Table
           /\ \A t : Chunk(rel.R, t)' = Chunk(rel.R, t) /\ Chunk(rel.S, t)' = Chunk(rel.S, t)
           /\ \A t : Offset(rel.R, t)' = Offset(rel.R, t) /\ Offset(rel.S, t)' = Offset(rel.S, t)
           /\ \A key : HASH(key)' = HASH(key)
           /\ EqualPairs' = EqualPairs
  BY DEF nthreads, Running, Table, num_buckets, Chunk, Offset, HASH, EqualPairs

(* A thread's step changes what is the thread's own, and mem and latch: it *)
(* adds buckets but takes none away.                                       *)
LEMMA ThreadStep ==
    ASSUME ThreadTypes, NEW t \in Threads, Thread(t)
    PROVE  /\ rel' = rel /\ alg' = alg
           /\ pc' = [pc EXCEPT ![t] = pc'[t]] /\ i' = [i EXCEPT ![t] = i'[t]]
           /\ \A u \in Threads \ {t} : pc'[u] = pc[u] /\ i'[u] = i[u]
           /\ overflowbuf' = [overflowbuf EXCEPT ![t] = overflowbuf'[t]]
           /\ \A u \in Threads \ {t} : b'[u] = b[u] /\ dest'[u] = dest[u]
           /\ DOMAIN mem \subseteq DOMAIN mem'
           /\ totalresults' = totalresults /\ joined' = joined
           /\ t \in Running
<1> USE DEF Goto, constVars, buildVars, probeVars, mainVars
<1>1. t \in Running
  <2>1. pc[t] # "absent"
    BY DEF Thread, Latch, ChoosePlace, CountTuple, Overflow, StoreTuple, InsertSerially, BuildDone,
           ProbeTuple, ProbeBucket, ProbeDone, free_bucket_buffer
  <2> QED
    BY <2>1 DEF ThreadTypes
<1>2. CASE Latch(t) \/ ChoosePlace(t)
  BY <1>1, <1>2 DEF Latch, ChoosePlace, ThreadTypes
<1>3. CASE CountTuple(t) \/ StoreTuple(t)
  BY <1>1, <1>3 DEF CountTuple, StoreTuple, ThreadTypes
<1>4. CASE Overflow(t)
  BY <1>1, <1>4 DEF Overflow, ThreadTypes
<1>5. CASE InsertSerially(t)
  BY <1>1, <1>5 DEF InsertSerially, ThreadTypes
<1>6. CASE BuildDone(t) \/ ProbeTuple(t) \/ ProbeDone(t) \/ free_bucket_buffer(t)
  BY <1>1, <1>6 DEF BuildDone, ProbeTuple, ProbeDone, free_bucket_buffer, ThreadTypes
<1>7. CASE ProbeBucket(t)
  BY <1>1, <1>7 DEF ProbeBucket, MatchBucket, ThreadTypes
<1> QED
  BY <1>2, <1>3, <1>4, <1>5, <1>6, <1>7 DEF Thread

(* The bucket of the tuple that a thread inserts, and that of the tuple    *)
(* that it probes for, are in the table.                                   *)
LEMMA CurrInTable ==
    ASSUME ThreadTypes, NEW t \in Running, i[t] < Len(Chunk(rel.R, t))
    PROVE  Curr(t) \in Table
<1>1. rel.R \in Seq(Nat) /\ i[t] \in Nat /\ rel \in Relations
  BY RelationFacts, SomeRun DEF ThreadTypes
<1>2. rel.R[Position(rel.R, t)] \in Nat
  BY <1>1, PositionIs
<1> QED
  BY <1>1, <1>2, Hashed DEF Curr

(* The key a thread probes for, and its bucket of the table.               *)
LEMMA ProbeKeyIs ==
    ASSUME ThreadTypes, NEW t \in Running, i[t] < Len(Chunk(rel.S, t))
    PROVE  /\ ProbeKey(t) = rel.S[Position(rel.S, t)] /\ ProbeKey(t) \in Nat
           /\ HASH(ProbeKey(t)) \in Table
<1>1. rel.S \in Seq(Nat) /\ i[t] \in Nat /\ rel \in Relations
  BY RelationFacts, SomeRun DEF ThreadTypes
<1>2. ProbeKey(t) = rel.S[Position(rel.S, t)] /\ ProbeKey(t) \in Nat
  BY <1>1, PositionIs DEF ProbeKey
<1> QED
  BY <1>1, <1>2, Hashed

(* Where a thread is after its step.                                       *)
LEMMA OwnProgress ==
    ASSUME Typed, NEW t \in Threads, Thread(t)
    PROVE  /\ pc'[t] \in Labels \ {"absent"} /\ i'[t] \in Nat /\ Progress(t)'
           /\ overflowbuf'[t] \in [buffer : Nat \ {0}, count : Nat]
           /\ latch' \in [Table -> BOOLEAN]
<1> USE DEF Goto, constVars, buildVars, probeVars, mainVars, Labels, Critical
<1>1. /\ t \in Running /\ Progress(t) /\ i[t] \in Nat /\ rel' = rel /\ alg' = alg /\ rel \in Relations
      /\ pc \in [Threads -> Labels] /\ i \in [Threads -> Nat]
      /\ overflowbuf[t] \in [buffer : Nat \ {0}, count : Nat]
      /\ latch \in [Table -> BOOLEAN]
  BY ThreadStep, SomeRun DEF Typed, ThreadTypes
<1>2. Chunk(rel.R, t)' = Chunk(rel.R, t) /\ Chunk(rel.S, t)' = Chunk(rel.S, t)
  BY <1>1, InputStays
<1>3. Len(Chunk(rel.R, t)) \in Nat /\ Len(Chunk(rel.S, t)) \in Nat
  BY <1>1, RelationFacts, ChunkIsRange
<1>4. CASE Latch(t)
  BY <1>1, <1>2, <1>3, <1>4 DEF Latch, Progress
<1>5. CASE ChoosePlace(t)
  BY <1>1, <1>2, <1>3, <1>5 DEF ChoosePlace, Progress
<1>6. CASE CountTuple(t)
  BY <1>1, <1>2, <1>3, <1>6 DEF CountTuple, Progress
<1>7. CASE Overflow(t)
  <2>1. overflowbuf'[t] = get_new_bucket(t)
    BY <1>1, <1>7 DEF Overflow, Typed, ThreadTypes
  <2>2. get_new_bucket(t) \in [buffer : Nat \ {0}, count : Nat]
    BY <1>1, BucketsAssumption DEF get_new_bucket
  <2>3. pc[t] = "choose" /\ pc'[t] = "store" /\ i' = i /\ latch' = latch
    BY <1>1, <1>7 DEF Overflow
  <2> QED
    BY <1>1, <1>2, <1>3, <2>1, <2>2, <2>3 DEF Progress
<1>8. CASE StoreTuple(t)
  <2>1. pc[t] = "store" /\ pc'[t] = "build" /\ i'[t] = i[t] + 1
    BY <1>1, <1>8 DEF StoreTuple
  <2>2. latch' \in [Table -> BOOLEAN] /\ overflowbuf' = overflowbuf
    BY <1>1, <1>8 DEF StoreTuple
  <2> QED
    BY <1>1, <1>2, <1>3, <2>1, <2>2 DEF Progress
<1>9. CASE InsertSerially(t)
  <2>1. pc[t] = "build" /\ pc' = pc /\ i'[t] = i[t] + 1 /\ i[t] < Len(Chunk(rel.R, t))
        /\ latch' = latch /\ overflowbuf' = overflowbuf
    BY <1>1, <1>9 DEF InsertSerially
  <2> QED
    BY <1>1, <1>2, <1>3, <2>1 DEF Progress
<1>10. CASE BuildDone(t)
  BY <1>1, <1>2, <1>3, <1>10 DEF BuildDone, Progress
<1>11. CASE ProbeTuple(t)
  <2>1. pc[t] = "probe" /\ pc'[t] = "bucket" /\ i' = i /\ i[t] < Len(Chunk(rel.S, t))
        /\ latch' = latch /\ overflowbuf' = overflowbuf /\ mem' = mem
        /\ b' = [b EXCEPT ![t] = HASH(ProbeKey(t))]
    BY <1>1, <1>11 DEF ProbeTuple
  <2>2. b'[t] = HASH(ProbeKey(t))
    BY <2>1 DEF Typed, ThreadTypes
  <2>3. b'[t] \in DOMAIN mem
    BY <1>1, <2>1, <2>2, ProbeKeyIs DEF Typed, BucketTypes
  <2> QED
    BY <1>1, <1>2, <1>3, <2>1, <2>3 DEF Progress
<1>12. CASE ProbeBucket(t)
  <2> DEFINE next == mem[b[t]].next
  <2>1. /\ pc[t] = "bucket" /\ mem' = mem /\ latch' = latch /\ overflowbuf' = overflowbuf
        /\ b' = [b EXCEPT ![t] = next]
        /\ i'[t] = IF next = NULL THEN i[t] + 1 ELSE i[t]
        /\ pc'[t] = IF next = NULL THEN "probe" ELSE "bucket"
    BY <1>1, <1>12 DEF ProbeBucket
  <2>2. b[t] \in DOMAIN mem /\ i[t] < Len(Chunk(rel.S, t))
    BY <1>1, <2>1 DEF Progress
  <2>3. next \in DOMAIN mem \cup {NULL}
    BY <2>2 DEF Typed, BucketTypes
  <2>4. b'[t] = next
    BY <2>1 DEF Typed, ThreadTypes
  <2> HIDE DEF next
  <2> QED
    BY <1>1, <1>2, <1>3, <2>1, <2>2, <2>3, <2>4 DEF Progress
<1>13. CASE ProbeDone(t)
  BY <1>1, <1>2, <1>3, <1>13 DEF ProbeDone, Progress
<1>14. CASE free_bucket_buffer(t)
  BY <1>1, <1>2, <1>3, <1>14 DEF free_bucket_buffer, Progress
<1> QED
  BY <1>4, <1>5, <1>6, <1>7, <1>8, <1>9, <1>10, <1>11, <1>12, <1>13, <1>14 DEF Thread

-----------------------------------------------------------------------------
(* What the steps of building do to the buckets.  Only NPO has a critical  *)
(* section, and whoever is in it has a tuple left.                         *)
LEMMA InCritical ==
    ASSUME Typed, NEW t \in Threads, pc[t] \in Critical
    PROVE  /\ alg = "NPO" /\ t \in Running /\ i[t] < Len(Chunk(rel.R, t))
           /\ Curr(t) \in Table /\ Curr(t) \in DOMAIN mem
<1>1. alg = "NPO"
  BY DEF Typed, Inv, OnePhase, Serial, AllIn, Alone, Critical
<1>2. t \in Running /\ i[t] < Len(Chunk(rel.R, t))
  BY DEF Typed, ThreadTypes, Progress, Critical
<1>3. Curr(t) \in Table
  BY <1>2, CurrInTable DEF Typed
<1> QED
  BY <1>1, <1>2, <1>3 DEF Typed, BucketTypes

(* The place a thread has reserved is in a bucket.                         *)
LEMMA DestIsBucket ==
    ASSUME Typed, NEW t \in Threads, pc[t] \in {"count", "store"}
    PROVE  /\ dest[t].bucket \in DOMAIN mem /\ dest[t].n \in 0 .. BUCKET_SIZE - 1
           /\ mem[dest[t].bucket].count = dest[t].n + (IF pc[t] = "store" THEN 1 ELSE 0)
<1>1. Curr(t) \in DOMAIN mem
  BY InCritical DEF Critical
<1> QED
  BY <1>1 DEF Typed, Reserved, BucketTypes

(* A bucket is what it may be.                                             *)
BucketType(B) ==
    [count : 0 .. BUCKET_SIZE, next : B \cup {NULL}, tuples : [0 .. BUCKET_SIZE - 1 -> Nat]]

(* A step that adds no bucket and moves no pointer.                        *)
SamePointers ==
    /\ DOMAIN mem' = DOMAIN mem /\ mem' = [x \in DOMAIN mem |-> mem'[x]]
    /\ \A x \in DOMAIN mem : mem'[x].next = mem[x].next

(* A step that adds the bucket new behind the bucket curr of the table.    *)
LinkedBehind(new, curr) ==
    /\ curr \in Table /\ new \notin DOMAIN mem /\ new # NULL
    /\ DOMAIN mem' = DOMAIN mem \cup {new}
    /\ mem' = [x \in DOMAIN mem \cup {new} |-> mem'[x]]
    /\ mem'[new].next = mem[curr].next /\ mem'[curr].next = new
    /\ \A x \in DOMAIN mem \ {curr} : mem'[x].next = mem[x].next
    /\ \A x \in DOMAIN mem : mem'[x].count = mem[x].count /\ mem'[x].tuples = mem[x].tuples

(* What CountTuple does: one more place of one bucket is counted.          *)
LEMMA CountEffect ==
    ASSUME Typed, NEW t \in Threads, CountTuple(t)
    PROVE  /\ SamePointers
           /\ \A x \in DOMAIN mem :
                 /\ mem'[x].count = mem[x].count + IF x = dest[t].bucket THEN 1 ELSE 0
                 /\ mem'[x].tuples = mem[x].tuples
                 /\ mem'[x] \in BucketType(DOMAIN mem)
<1> DEFINE d == dest[t].bucket
<1>1. /\ d \in DOMAIN mem /\ mem[d].count \in 0 .. BUCKET_SIZE - 1
      /\ mem[d] \in BucketType(DOMAIN mem)
  BY DestIsBucket DEF CountTuple, Typed, BucketTypes, BucketType
<1>2. mem' = [mem EXCEPT ![d].count = @ + 1]
  BY DEF CountTuple
<1> HIDE DEF d
<1>3. \A x \in DOMAIN mem : mem[x] \in BucketType(DOMAIN mem)
  BY DEF Typed, BucketTypes, BucketType
<1>4. DOMAIN mem' = DOMAIN mem /\ mem' = [x \in DOMAIN mem |-> mem'[x]]
  BY <1>2
<1>5. \A x \in DOMAIN mem \ {d} : mem'[x] = mem[x]
  BY <1>2
<1>6. mem'[d] = [mem[d] EXCEPT !.count = @ + 1]
  BY <1>1, <1>2
<1>7. /\ mem'[d].count = mem[d].count + 1 /\ mem'[d].tuples = mem[d].tuples
      /\ mem'[d].next = mem[d].next /\ mem'[d] \in BucketType(DOMAIN mem)
  BY <1>1, <1>6, BucketsAssumption DEF BucketType
<1>8. ASSUME NEW x \in DOMAIN mem
      PROVE  /\ mem'[x].count = mem[x].count + IF x = d THEN 1 ELSE 0
             /\ mem'[x].tuples = mem[x].tuples /\ mem'[x].next = mem[x].next
             /\ mem'[x] \in BucketType(DOMAIN mem)
  <2>1. mem[x].count \in Nat
    BY <1>3 DEF BucketType
  <2> QED
    BY <1>3, <1>5, <1>7, <2>1
<1> QED
  BY <1>4, <1>8 DEF SamePointers, d

(* Writing one place of a bucket.                                          *)
LEMMA StoreEffect ==
    ASSUME Typed, NEW t \in Threads, StoreTuple(t)
    PROVE  /\ SamePointers
           /\ \A x \in DOMAIN mem :
                 /\ mem'[x].count = mem[x].count /\ mem'[x] \in BucketType(DOMAIN mem)
                 /\ \A n \in 0 .. BUCKET_SIZE - 1 :
                       mem'[x].tuples[n] = IF x = dest[t].bucket /\ n = dest[t].n
                                           THEN Position(rel.R, t) ELSE mem[x].tuples[n]
<1> DEFINE d == dest[t].bucket
           m == dest[t].n
           p == Position(rel.R, t)
<1>1. d \in DOMAIN mem /\ m \in 0 .. BUCKET_SIZE - 1
  BY DestIsBucket DEF StoreTuple
<1>2. p \in Nat
  <2>1. rel.R \in Seq(Nat) /\ t \in Running /\ i[t] \in Nat /\ i[t] < Len(Chunk(rel.R, t))
    BY InCritical, RelationFacts DEF StoreTuple, Typed, ThreadTypes, Critical
  <2> QED
    BY <2>1, PositionIs
<1>3. mem' = [mem EXCEPT ![d].tuples[m] = p]
  BY DEF StoreTuple
<1> HIDE DEF d, m, p
<1>4. \A x \in DOMAIN mem : mem[x] \in BucketType(DOMAIN mem)
  BY DEF Typed, BucketTypes, BucketType
<1>5. DOMAIN mem' = DOMAIN mem /\ mem' = [x \in DOMAIN mem |-> mem'[x]]
  BY <1>3
<1>6. \A x \in DOMAIN mem \ {d} : mem'[x] = mem[x]
  BY <1>3
<1>7. mem'[d] = [mem[d] EXCEPT !.tuples = [mem[d].tuples EXCEPT ![m] = p]]
  BY <1>1, <1>3
<1>8. /\ mem'[d].count = mem[d].count /\ mem'[d].next = mem[d].next
      /\ mem'[d].tuples = [mem[d].tuples EXCEPT ![m] = p]
      /\ mem[d].tuples \in [0 .. BUCKET_SIZE - 1 -> Nat]
  BY <1>1, <1>4, <1>7 DEF BucketType
<1>9. [mem[d].tuples EXCEPT ![m] = p] \in [0 .. BUCKET_SIZE - 1 -> Nat]
  BY <1>1, <1>2, <1>8
<1>10. mem'[d] \in BucketType(DOMAIN mem)
  BY <1>1, <1>4, <1>7, <1>9 DEF BucketType
<1>11. \A n \in 0 .. BUCKET_SIZE - 1 :
          mem'[d].tuples[n] = IF n = m THEN p ELSE mem[d].tuples[n]
  BY <1>8
<1> QED
  BY <1>4, <1>5, <1>6, <1>8, <1>10, <1>11 DEF SamePointers, d, m, p

(* The place that get_new_bucket finds was not handed out before.          *)
NewBucket(t) ==
    LET taken == get_new_bucket(t)
    IN  <<t, taken.buffer, IF taken.buffer = overflowbuf[t].buffer THEN overflowbuf[t].count ELSE 0>>

(* Neither in the table nor among the overflow buckets of any thread.      *)
LEMMA NewIsNew ==
    ASSUME Typed, NEW t \in Threads, Overflow(t)
    PROVE  NewBucket(t) \notin DOMAIN mem /\ NewBucket(t) # NULL /\ NewBucket(t) \notin Table
<1>1. alg = "NPO" /\ rel \in Relations
  BY InCritical DEF Overflow, Critical, Typed, ThreadTypes
<1>2. NewBucket(t) \notin Table /\ NewBucket(t) # NULL
  BY <1>1, Hashed DEF NewBucket
<1>3. overflowbuf[t] \in [buffer : Nat \ {0}, count : Nat]
  BY DEF Typed, ThreadTypes
<1>4. SUFFICES ASSUME NewBucket(t) \in DOMAIN mem PROVE FALSE
  BY <1>2
<1>a. PICK u \in Threads : \E bf \in 1 .. overflowbuf[u].buffer : \E n \in 0 .. OVERFLOW_BUF_SIZE - 1 :
        /\ NewBucket(t) = <<u, bf, n>>
        /\ bf = overflowbuf[u].buffer => n < overflowbuf[u].count
  BY <1>1, <1>2, <1>4 DEF Typed, HandedOut
<1>5. PICK bf \in 1 .. overflowbuf[u].buffer, n \in 0 .. OVERFLOW_BUF_SIZE - 1 :
        /\ NewBucket(t) = <<u, bf, n>>
        /\ bf = overflowbuf[u].buffer => n < overflowbuf[u].count
  BY <1>a
<1>6. CASE overflowbuf[t].count < OVERFLOW_BUF_SIZE
  <2>1. get_new_bucket(t).buffer = overflowbuf[t].buffer
    BY <1>3, <1>6 DEF get_new_bucket
  <2>2. NewBucket(t) = <<t, overflowbuf[t].buffer, overflowbuf[t].count>>
    BY <2>1 DEF NewBucket
  <2>3. u = t /\ bf = overflowbuf[t].buffer /\ n = overflowbuf[t].count
    BY <1>5, <2>2
  <2> QED
    BY <1>3, <1>5, <2>3
<1>7. CASE ~ (overflowbuf[t].count < OVERFLOW_BUF_SIZE)
  <2>1. get_new_bucket(t).buffer = overflowbuf[t].buffer + 1
    BY <1>7 DEF get_new_bucket
  <2>2. u = t /\ bf = overflowbuf[t].buffer + 1
    BY <1>5, <2>1 DEF NewBucket
  <2> QED
    BY <1>3, <1>5, <2>2
<1> QED
  BY <1>6, <1>7

(* What Overflow does: a bucket with one counted place is linked behind.   *)
LEMMA OverflowEffect ==
    ASSUME Typed, NEW t \in Threads, Overflow(t)
    PROVE  /\ LinkedBehind(NewBucket(t), Curr(t))
           /\ mem'[NewBucket(t)].count = 1 /\ mem'[NewBucket(t)].tuples = mem[Curr(t)].tuples
           /\ \A x \in DOMAIN mem' : mem'[x] \in BucketType(DOMAIN mem')
           /\ dest' = [dest EXCEPT ![t] = [bucket |-> NewBucket(t), n |-> 0]]
           /\ overflowbuf' = [overflowbuf EXCEPT ![t] = get_new_bucket(t)]
           /\ mem[Curr(t)].count = BUCKET_SIZE
<1> DEFINE new == NewBucket(t)
           curr == Curr(t)
<1>1. new \notin DOMAIN mem /\ new # NULL
  BY NewIsNew
<1>2. curr \in DOMAIN mem /\ curr \in Table
  BY InCritical DEF Overflow, Critical
<1>3. /\ mem' = [x \in DOMAIN mem \cup {new} |->
                   IF x = new THEN [mem[curr] EXCEPT !.count = 1, !.next = mem[curr].next]
                   ELSE IF x = curr THEN [mem[curr] EXCEPT !.next = new]
                   ELSE mem[x]]
      /\ dest' = [dest EXCEPT ![t] = [bucket |-> new, n |-> 0]]
      /\ overflowbuf' = [overflowbuf EXCEPT ![t] = get_new_bucket(t)]
      /\ Full(curr)
  BY DEF Overflow, NewBucket
<1> HIDE DEF new, curr
<1>4. \A x \in DOMAIN mem : mem[x] \in BucketType(DOMAIN mem)
  BY DEF Typed, BucketTypes, BucketType
<1>5. DOMAIN mem' = DOMAIN mem \cup {new}
      /\ mem' = [x \in DOMAIN mem \cup {new} |-> mem'[x]]
  BY <1>3
<1>6. mem'[new] = [mem[curr] EXCEPT !.count = 1, !.next = mem[curr].next]
  BY <1>3
<1>7. mem'[curr] = [mem[curr] EXCEPT !.next = new]
  BY <1>1, <1>2, <1>3
<1>8. \A x \in DOMAIN mem \ {curr} : mem'[x] = mem[x]
  BY <1>1, <1>3
<1>9. mem[curr] \in BucketType(DOMAIN mem) /\ mem[curr].next \in DOMAIN mem \cup {NULL}
  BY <1>2, <1>4 DEF BucketType
<1>10. /\ mem'[new].count = 1 /\ mem'[new].next = mem[curr].next
       /\ mem'[new].tuples = mem[curr].tuples
       /\ mem'[new] \in BucketType(DOMAIN mem)
  <2>1. 1 \in 0 .. BUCKET_SIZE
    BY BucketsAssumption
  <2> QED
    BY <1>6, <1>9, <2>1 DEF BucketType
<1>11. /\ mem'[curr].count = mem[curr].count /\ mem'[curr].tuples = mem[curr].tuples
       /\ mem'[curr].next = new /\ mem'[curr] \in BucketType(DOMAIN mem \cup {new})
  BY <1>7, <1>9 DEF BucketType
<1>12. ASSUME NEW x \in DOMAIN mem'
       PROVE  mem'[x] \in BucketType(DOMAIN mem')
  <2>1. CASE x \in DOMAIN mem \ {curr}
    <3>1. mem'[x] = mem[x] /\ mem[x] \in BucketType(DOMAIN mem)
      BY <1>4, <1>8, <2>1
    <3> QED
      BY <1>5, <3>1 DEF BucketType
  <2>2. CASE x = new
    BY <1>5, <1>10, <2>2 DEF BucketType
  <2>3. CASE x = curr
    BY <1>5, <1>11, <2>3
  <2> QED
    BY <1>5, <2>1, <2>2, <2>3
<1>13. LinkedBehind(new, curr)
  BY <1>1, <1>2, <1>5, <1>8, <1>10, <1>11 DEF LinkedBehind
<1>14. mem[curr].count = BUCKET_SIZE
  BY <1>3 DEF Full
<1> QED
  BY <1>3, <1>10, <1>12, <1>13, <1>14 DEF new, curr

(* NPO_st has one thread.  Its tuple goes to a bucket with room ...        *)
SerialPlace(t) == IF Full(Curr(t)) THEN mem[Curr(t)].next ELSE Curr(t)

(* Nobody else is inserting.                                               *)
LEMMA InsertingSerially ==
    ASSUME Typed, NEW t \in Threads, InsertSerially(t)
    PROVE  /\ alg = "NPO_st" /\ t = 0 /\ t \in Running /\ i[t] < Len(Chunk(rel.R, t))
           /\ Curr(t) \in Table /\ Curr(t) \in DOMAIN mem
           /\ \A u \in Threads : pc[u] \notin Critical
           /\ Position(rel.R, t) \in DOMAIN rel.R /\ Position(rel.R, t) \in Nat
<1>1. alg = "NPO_st" /\ pc[t] = "build" /\ i[t] < Len(Chunk(rel.R, t))
  BY DEF InsertSerially
<1>2. Serial
  BY <1>1 DEF Typed, Inv, OnePhase
<1>3. t = 0 /\ \A u \in Threads : pc[u] \notin Critical
  BY <1>1, <1>2 DEF Serial, AllIn, Alone, Critical
<1>4. t \in Running
  BY <1>3, SomeRun
<1>5. Curr(t) \in Table
  BY <1>1, <1>4, CurrInTable DEF Typed
<1>6. rel.R \in Seq(Nat) /\ i[t] \in Nat
  BY RelationFacts DEF Typed, ThreadTypes
<1>7. Position(rel.R, t) \in 1 .. Len(rel.R)
  BY <1>1, <1>4, <1>6, PositionIs
<1>8. DOMAIN rel.R = 1 .. Len(rel.R)
  BY <1>6
<1> QED
  BY <1>1, <1>3, <1>4, <1>5, <1>7, <1>8 DEF Typed, BucketTypes

(* The place is counted and filled at once.                                *)
LEMMA SerialRoomEffect ==
    ASSUME Typed, NEW t \in Threads, InsertSerially(t), HasRoom(SerialPlace(t))
    PROVE  /\ SamePointers
           /\ SerialPlace(t) \in DOMAIN mem /\ mem[SerialPlace(t)].count \in 0 .. BUCKET_SIZE - 1
           /\ \A x \in DOMAIN mem :
                 /\ mem'[x].count = mem[x].count + IF x = SerialPlace(t) THEN 1 ELSE 0
                 /\ mem'[x] \in BucketType(DOMAIN mem)
                 /\ \A n \in 0 .. BUCKET_SIZE - 1 :
                       mem'[x].tuples[n] = IF x = SerialPlace(t) /\ n = mem[x].count
                                           THEN Position(rel.R, t) ELSE mem[x].tuples[n]
<1> DEFINE d == SerialPlace(t)
           m == mem[d].count
           p == Position(rel.R, t)
<1>1. \A x \in DOMAIN mem : mem[x] \in BucketType(DOMAIN mem)
  BY DEF Typed, BucketTypes, BucketType
<1>2. d \in DOMAIN mem /\ m \in 0 .. BUCKET_SIZE - 1
  <2>1. Curr(t) \in DOMAIN mem
    BY InsertingSerially
  <2>2. mem[Curr(t)].next \in DOMAIN mem \cup {NULL}
    BY <1>1, <2>1 DEF BucketType
  <2>3. d \in DOMAIN mem /\ m # BUCKET_SIZE
    BY <2>1, <2>2 DEF HasRoom, Full, SerialPlace
  <2>4. m \in 0 .. BUCKET_SIZE
    BY <1>1, <2>3 DEF BucketType
  <2> QED
    BY <2>3, <2>4, BucketsAssumption
<1>3. p \in Nat
  BY InsertingSerially
<1>4. mem' = [mem EXCEPT ![d].tuples[m] = p, ![d].count = @ + 1]
  BY DEF InsertSerially, SerialPlace
<1> HIDE DEF d, m, p
<1>5. DOMAIN mem' = DOMAIN mem /\ mem' = [x \in DOMAIN mem |-> mem'[x]]
  BY <1>4
<1>6. \A x \in DOMAIN mem \ {d} : mem'[x] = mem[x]
  BY <1>4
<1>7. mem'[d] = [mem[d] EXCEPT !.tuples = [mem[d].tuples EXCEPT ![m] = p], !.count = @ + 1]
  BY <1>2, <1>4
<1>8. mem[d] \in BucketType(DOMAIN mem) /\ mem[d].tuples \in [0 .. BUCKET_SIZE - 1 -> Nat]
      /\ mem[d].count = m
  BY <1>1, <1>2 DEF BucketType, m
<1>9. [mem[d].tuples EXCEPT ![m] = p] \in [0 .. BUCKET_SIZE - 1 -> Nat]
  BY <1>2, <1>3, <1>8
<1>10. /\ mem'[d].count = m + 1 /\ mem'[d].next = mem[d].next
       /\ mem'[d].tuples = [mem[d].tuples EXCEPT ![m] = p]
  BY <1>7, <1>8 DEF BucketType
<1>11. mem'[d] \in BucketType(DOMAIN mem)
  <2>1. m + 1 \in 0 .. BUCKET_SIZE
    BY <1>2, BucketsAssumption
  <2>2. mem'[d] = [mem[d] EXCEPT !.tuples = [mem[d].tuples EXCEPT ![m] = p], !.count = m + 1]
    BY <1>7, <1>8
  <2> QED
    BY <1>8, <1>9, <2>1, <2>2 DEF BucketType
<1>12. \A n \in 0 .. BUCKET_SIZE - 1 :
          mem'[d].tuples[n] = IF n = m THEN p ELSE mem[d].tuples[n]
  BY <1>8, <1>10
<1>13. \A x \in DOMAIN mem : mem[x].count \in Nat
  BY <1>1 DEF BucketType
<1>14. SamePointers
  BY <1>5, <1>6, <1>10 DEF SamePointers
<1>15. ASSUME NEW x \in DOMAIN mem
       PROVE  /\ mem'[x].count = mem[x].count + IF x = d THEN 1 ELSE 0
              /\ mem'[x] \in BucketType(DOMAIN mem)
              /\ \A n \in 0 .. BUCKET_SIZE - 1 :
                    mem'[x].tuples[n] = IF x = d /\ n = mem[x].count THEN p ELSE mem[x].tuples[n]
  <2>1. CASE x = d
    BY <1>8, <1>10, <1>11, <1>12, <2>1
  <2>2. CASE x # d
    <3>1. mem'[x] = mem[x]
      BY <1>6, <2>2
    <3> QED
      BY <1>1, <1>13, <2>2, <3>1
  <2> QED
    BY <2>1, <2>2
<1> QED
  BY <1>2, <1>14, <1>15 DEF d, m, p

(* ... or to a new one from the heap.                                      *)
HeapBucket == <<0, Cardinality(DOMAIN mem)>>

(* It is linked behind, with the tuple in its first place.                 *)
LEMMA SerialNewEffect ==
    ASSUME Typed, NEW t \in Threads, InsertSerially(t), ~ HasRoom(SerialPlace(t))
    PROVE  /\ LinkedBehind(HeapBucket, Curr(t)) /\ HeapBucket \notin Table
           /\ mem'[HeapBucket].count = 1 /\ mem'[HeapBucket].tuples[0] = Position(rel.R, t)
           /\ \A x \in DOMAIN mem' : mem'[x] \in BucketType(DOMAIN mem')
           /\ Cardinality(DOMAIN mem) \in Nat
<1> DEFINE new == HeapBucket
           curr == Curr(t)
           p == Position(rel.R, t)
<1>1. Cardinality(DOMAIN mem) \in Nat
  BY FS_CardinalityType DEF Typed, BucketTypes
<1>2. new \notin Table /\ new # NULL
  BY Hashed DEF Typed, ThreadTypes, HeapBucket
<1>3. new \notin DOMAIN mem
  <2> SUFFICES ASSUME new \in DOMAIN mem PROVE FALSE
    OBVIOUS
  <2>1. alg # "NPO"
    BY InsertingSerially
  <2>2. PICK n \in 0 .. Cardinality(DOMAIN mem) - 1 : new = <<0, n>>
    BY <1>2, <2>1 DEF Typed, HandedOut
  <2> QED
    BY <1>1, <2>2 DEF HeapBucket
<1>4. curr \in DOMAIN mem /\ curr \in Table /\ p \in Nat
  BY InsertingSerially
<1>5. mem' = [y \in DOMAIN mem \cup {new} |->
                IF y = new THEN [count |-> 1, next |-> mem[curr].next,
                                 tuples |-> [NoTuples EXCEPT ![0] = p]]
                ELSE IF y = curr THEN [mem[curr] EXCEPT !.next = new]
                ELSE mem[y]]
  BY DEF InsertSerially, SerialPlace, HeapBucket
<1> HIDE DEF new, curr, p
<1>6. \A x \in DOMAIN mem : mem[x] \in BucketType(DOMAIN mem)
  BY DEF Typed, BucketTypes, BucketType
<1>7. DOMAIN mem' = DOMAIN mem \cup {new}
      /\ mem' = [x \in DOMAIN mem \cup {new} |-> mem'[x]]
  BY <1>5
<1>8. mem'[new] = [count |-> 1, next |-> mem[curr].next, tuples |-> [NoTuples EXCEPT ![0] = p]]
  BY <1>5
<1>9. mem'[curr] = [mem[curr] EXCEPT !.next = new]
  BY <1>3, <1>4, <1>5
<1>10. \A x \in DOMAIN mem \ {curr} : mem'[x] = mem[x]
  BY <1>3, <1>5
<1>11. mem[curr] \in BucketType(DOMAIN mem) /\ mem[curr].next \in DOMAIN mem \cup {NULL}
  BY <1>4, <1>6 DEF BucketType
<1>12. /\ [NoTuples EXCEPT ![0] = p] \in [0 .. BUCKET_SIZE - 1 -> Nat]
       /\ [NoTuples EXCEPT ![0] = p][0] = p
  BY <1>4, BucketsAssumption DEF NoTuples
<1>13. /\ mem'[new].count = 1 /\ mem'[new].next = mem[curr].next
       /\ mem'[new].tuples[0] = p /\ mem'[new] \in BucketType(DOMAIN mem)
  BY <1>8, <1>11, <1>12, BucketsAssumption DEF BucketType
<1>14. /\ mem'[curr].count = mem[curr].count /\ mem'[curr].tuples = mem[curr].tuples
       /\ mem'[curr].next = new /\ mem'[curr] \in BucketType(DOMAIN mem \cup {new})
  BY <1>9, <1>11 DEF BucketType
<1>15. ASSUME NEW x \in DOMAIN mem'
       PROVE  mem'[x] \in BucketType(DOMAIN mem')
  <2>1. CASE x \in DOMAIN mem \ {curr}
    <3>1. mem'[x] = mem[x] /\ mem[x] \in BucketType(DOMAIN mem)
      BY <1>6, <1>10, <2>1
    <3> QED
      BY <1>7, <3>1 DEF BucketType
  <2>2. CASE x = new
    BY <1>7, <1>13, <2>2 DEF BucketType
  <2>3. CASE x = curr
    BY <1>7, <1>14, <2>3
  <2> QED
    BY <1>7, <2>1, <2>2, <2>3
<1>16. LinkedBehind(new, curr)
  BY <1>2, <1>3, <1>4, <1>7, <1>10, <1>13, <1>14 DEF LinkedBehind
<1> QED
  BY <1>1, <1>2, <1>13, <1>15, <1>16 DEF new, curr, p

-----------------------------------------------------------------------------
(* Which steps leave the buckets as they are.                              *)
LEMMA BucketsStay ==
    ASSUME NEW t \in Threads, Thread(t)
    PROVE  CountTuple(t) \/ StoreTuple(t) \/ Overflow(t) \/ InsertSerially(t) \/ mem' = mem
  BY DEF Thread, Latch, ChoosePlace, BuildDone, ProbeTuple, ProbeBucket, ProbeDone,
         free_bucket_buffer, buildVars

(* No step spoils a bucket, takes one away or lets a pointer lead astray.  *)
LEMMA BucketTypesStep ==
    ASSUME Typed, NEW t \in Threads, Thread(t)
    PROVE  BucketTypes'
<1>1. Table' = Table
  BY ThreadStep, InputStays DEF Typed
<1>2. ASSUME SamePointers, \A x \in DOMAIN mem : mem'[x] \in BucketType(DOMAIN mem),
             \A x \in DOMAIN mem : mem'[x].count >= mem[x].count
      PROVE  BucketTypes'
  <2>1. ASSUME NEW x \in DOMAIN mem, x \notin Table PROVE mem'[x].count > 0
    <3>1. mem[x].count \in Nat /\ mem[x].count > 0
      BY <2>1 DEF Typed, BucketTypes
    <3>2. mem'[x].count \in Nat
      BY <1>2, <2>1 DEF BucketType
    <3> QED
      BY <1>2, <3>1, <3>2
  <2> QED
    BY <1>1, <1>2, <2>1 DEF Typed, BucketTypes, SamePointers, BucketType
<1>3. ASSUME NEW new, NEW curr, LinkedBehind(new, curr), mem'[new].count = 1,
             \A x \in DOMAIN mem' : mem'[x] \in BucketType(DOMAIN mem')
      PROVE  BucketTypes'
  <2>1. IsFiniteSet(DOMAIN mem') /\ Table \subseteq DOMAIN mem' /\ NULL \notin DOMAIN mem'
    BY <1>3, FS_AddElement DEF Typed, BucketTypes, LinkedBehind
  <2>2. ASSUME NEW x \in DOMAIN mem', x \notin Table PROVE mem'[x].count > 0
    BY <1>3, <2>2 DEF Typed, BucketTypes, LinkedBehind
  <2>3. mem' = [x \in DOMAIN mem' |-> mem'[x]]
    BY <1>3 DEF LinkedBehind
  <2>4. \A x \in DOMAIN mem' : mem'[x] \in [count : 0 .. BUCKET_SIZE, next : DOMAIN mem' \cup {NULL},
                         tuples : [0 .. BUCKET_SIZE - 1 -> Nat]]
    BY <1>3 DEF BucketType
  <2> QED
    BY <1>1, <2>1, <2>2, <2>3, <2>4 DEF BucketTypes
<1>4. \A x \in DOMAIN mem : mem[x].count \in Nat
  BY DEF Typed, BucketTypes
<1>5. CASE CountTuple(t)
  BY <1>2, <1>4, <1>5, CountEffect
<1>6. CASE StoreTuple(t)
  BY <1>2, <1>4, <1>6, StoreEffect
<1>7. CASE Overflow(t)
  BY <1>3, <1>7, OverflowEffect
<1>8. CASE InsertSerially(t) /\ HasRoom(SerialPlace(t))
  BY <1>2, <1>4, <1>8, SerialRoomEffect
<1>9. CASE InsertSerially(t) /\ ~ HasRoom(SerialPlace(t))
  BY <1>3, <1>9, SerialNewEffect
<1>10. CASE mem' = mem
  BY <1>1, <1>10 DEF Typed, BucketTypes
<1> QED
  BY <1>5, <1>6, <1>7, <1>8, <1>9, <1>10, BucketsStay

(* While a thread does not move on in its chunk, its bucket is the same.   *)
LEMMA CurrStays ==
    ASSUME rel' = rel, alg' = alg, NEW u, i'[u] = i[u]
    PROVE  Curr(u)' = Curr(u)
  BY InputStays DEF Curr, HASH, Position, nthreads, num_buckets

(* The latch of a bucket passes from one thread to the next.               *)
LEMMA ExclusionStep ==
    ASSUME Typed, NEW t \in Threads, Thread(t)
    PROVE  Exclusion'
<1>1. /\ rel' = rel /\ alg' = alg /\ t \in Running
      /\ \A u \in Threads \ {t} : pc'[u] = pc[u] /\ i'[u] = i[u]
  BY ThreadStep DEF Typed
<1>2. \A u \in Threads \ {t} : Curr(u)' = Curr(u)
  BY <1>1, CurrStays
<1>3. CASE /\ \A u \in Threads \ {t} : pc[u] \in Critical => latch'[Curr(u)]
           /\ pc'[t] \in Critical => /\ latch'[Curr(t)'] /\ Curr(t)' = Curr(t)
                                     /\ \A u \in Threads \ {t} : pc[u] \in Critical => Curr(u) # Curr(t)
  BY <1>1, <1>2, <1>3 DEF Typed, Exclusion
<1>4. CASE Latch(t)
  <2>1. /\ pc'[t] = "choose" /\ i' = i /\ latch' = [latch EXCEPT ![Curr(t)] = TRUE]
        /\ ~ latch[Curr(t)] /\ i[t] < Len(Chunk(rel.R, t))
    BY <1>4 DEF Latch, Goto, Typed, ThreadTypes
  <2>2. Curr(t)' = Curr(t)
    BY <1>1, <2>1, CurrStays
  <2>3. Curr(t) \in Table
    BY <1>1, <2>1, CurrInTable DEF Typed
  <2>4. latch'[Curr(t)] /\ \A u \in Threads : latch[Curr(u)] => Curr(u) # Curr(t)
    BY <2>1, <2>3 DEF Typed, ThreadTypes
  <2>5. \A u \in Threads : latch[Curr(u)] => latch'[Curr(u)]
    BY <2>1, <2>3 DEF Typed, ThreadTypes
  <2> QED
    BY <1>3, <2>2, <2>4, <2>5 DEF Typed, Exclusion
<1>5. CASE ChoosePlace(t) \/ CountTuple(t) \/ Overflow(t)
  <2>1. pc[t] \in Critical /\ i' = i /\ latch' = latch
    BY <1>5 DEF ChoosePlace, CountTuple, Overflow, Critical
  <2>2. Curr(t)' = Curr(t)
    BY <1>1, <2>1, CurrStays
  <2> QED
    BY <1>3, <2>1, <2>2 DEF Typed, Exclusion
<1>6. CASE StoreTuple(t)
  <2>1. pc[t] \in Critical /\ pc'[t] = "build" /\ latch' = [latch EXCEPT ![Curr(t)] = FALSE]
    BY <1>6 DEF StoreTuple, Goto, Critical, Typed, ThreadTypes
  <2>2. \A u \in Threads \ {t} : pc[u] \in Critical => latch'[Curr(u)]
    BY <2>1, InCritical DEF Typed, Exclusion, ThreadTypes
  <2> QED
    BY <1>3, <2>1, <2>2 DEF Critical
<1>7. CASE pc'[t] \notin Critical /\ latch' = latch
  BY <1>3, <1>7 DEF Typed, Exclusion
<1>8. CASE InsertSerially(t)
  <2>1. pc'[t] \notin Critical /\ latch' = latch
    BY <1>8 DEF InsertSerially, Critical
  <2> QED
    BY <1>7, <2>1
<1>9. CASE BuildDone(t) \/ ProbeTuple(t) \/ ProbeBucket(t) \/ ProbeDone(t) \/ free_bucket_buffer(t)
  <2>1. pc'[t] \notin Critical /\ latch' = latch
    BY <1>9 DEF BuildDone, ProbeTuple, ProbeBucket, ProbeDone, free_bucket_buffer,
                Goto, Critical, buildVars, Typed, ThreadTypes
  <2> QED
    BY <1>7, <2>1
<1> QED
  BY <1>4, <1>5, <1>6, <1>8, <1>9 DEF Thread

(* The chains of two buckets of the table do not meet.                     *)
LEMMA ChainsApart ==
    ASSUME BucketTypes, NEW own, NEW dist, Chains(own, dist),
           NEW x \in Table, NEW y \in Table, x # y
    PROVE  \A d \in {x, mem[x].next} \ {NULL}, e \in {y, mem[y].next} \ {NULL} : d # e
<1>1. x \in DOMAIN mem /\ y \in DOMAIN mem
  BY DEF BucketTypes
<1>2. own[x] = x /\ own[y] = y
  BY DEF Chains
<1>3. \A d \in {x, mem[x].next} \ {NULL} : own[d] = x
  BY <1>1, <1>2 DEF Chains
<1>4. \A d \in {y, mem[y].next} \ {NULL} : own[d] = y
  BY <1>1, <1>2 DEF Chains
<1> QED
  BY <1>3, <1>4

(* Nobody else touches the bucket in which a thread has reserved a place.  *)
LEMMA ReservedStep ==
    ASSUME Typed, NEW own, NEW dist, Chains(own, dist), NEW t \in Threads, Thread(t)
    PROVE  Reserved'
<1>1. /\ rel' = rel /\ alg' = alg
      /\ \A u \in Threads \ {t} : pc'[u] = pc[u] /\ i'[u] = i[u] /\ dest'[u] = dest[u]
  BY ThreadStep DEF Typed
<1> DEFINE Right(u) == pc[u] \in {"count", "store"} =>
              /\ dest[u] = [bucket |-> dest[u].bucket, n |-> dest[u].n]
              /\ dest[u].bucket \in {Curr(u), mem[Curr(u)].next} \ {NULL}
              /\ dest[u].n \in 0 .. BUCKET_SIZE - 1
              /\ mem[dest[u].bucket].count = dest[u].n + (IF pc[u] = "store" THEN 1 ELSE 0)
<1>2. Reserved <=> \A u \in Threads : Right(u)
  BY DEF Reserved
<1>3. ASSUME NEW u \in Threads \ {t}, pc[u] \in {"count", "store"}
      PROVE  /\ mem'[Curr(u)].next = mem[Curr(u)].next
             /\ mem'[dest[u].bucket].count = mem[dest[u].bucket].count
  <2>1. /\ pc[u] \in Critical /\ Curr(u) \in DOMAIN mem /\ Curr(u) \in Table
        /\ dest[u].bucket \in DOMAIN mem /\ alg = "NPO"
        /\ dest[u].bucket \in {Curr(u), mem[Curr(u)].next} \ {NULL}
    BY <1>3, InCritical, DestIsBucket DEF Critical, Typed, Reserved
  <2>2. ~ InsertSerially(t)
    BY <2>1, InsertingSerially
  <2>3. ASSUME pc[t] \in Critical PROVE Curr(t) # Curr(u) /\ Curr(t) \in Table
    BY <2>1, <2>3, InCritical DEF Typed, Exclusion
  <2>4. CASE CountTuple(t)
    <3>1. pc[t] \in Critical /\ dest[t].bucket \in {Curr(t), mem[Curr(t)].next} \ {NULL}
      BY <2>4 DEF CountTuple, Critical, Typed, Reserved
    <3>2. dest[t].bucket # dest[u].bucket
      BY <2>1, <2>3, <3>1, ChainsApart DEF Typed
    <3>3. mem[dest[u].bucket].count \in Nat
      BY <2>1 DEF Typed, BucketTypes
    <3> QED
      BY <2>1, <2>4, <3>2, <3>3, CountEffect DEF SamePointers
  <2>5. CASE StoreTuple(t)
    BY <2>1, <2>5, StoreEffect DEF SamePointers
  <2>6. CASE Overflow(t)
    <3>1. LinkedBehind(NewBucket(t), Curr(t)) /\ Curr(t) # Curr(u)
      BY <2>3, <2>6, OverflowEffect DEF Overflow, Critical
    <3> QED
      BY <2>1, <3>1 DEF LinkedBehind
  <2> QED
    BY <2>2, <2>4, <2>5, <2>6, BucketsStay
<1>4. \A u \in Threads \ {t} : Right(u)'
  BY <1>1, <1>2, <1>3, CurrStays DEF Typed
<1>5. Right(t)'
  <2>1. CASE ChoosePlace(t)
    <3> DEFINE x == IF Full(Curr(t)) THEN mem[Curr(t)].next ELSE Curr(t)
    <3>1. /\ HasRoom(x) /\ dest'[t] = [bucket |-> x, n |-> mem[x].count]
          /\ pc'[t] = "count" /\ mem' = mem /\ i' = i /\ pc[t] \in Critical
      BY <2>1 DEF ChoosePlace, Goto, Critical, Typed, ThreadTypes
    <3>2. Curr(t) \in DOMAIN mem /\ Curr(t)' = Curr(t)
      BY <1>1, <3>1, InCritical, CurrStays
    <3>3. x \in DOMAIN mem /\ mem[x].count # BUCKET_SIZE /\ x # NULL
      BY <3>1, <3>2 DEF HasRoom, Full, Typed, BucketTypes
    <3>4. mem[x].count \in 0 .. BUCKET_SIZE - 1
      BY <3>3, BucketsAssumption DEF Typed, BucketTypes
    <3>5. x \in {Curr(t), mem[Curr(t)].next} \ {NULL}
      BY <3>3
    <3> HIDE DEF x
    <3> QED
      BY <3>1, <3>2, <3>4, <3>5
  <2>2. CASE CountTuple(t)
    <3>1. pc[t] = "count" /\ pc'[t] = "store" /\ dest' = dest /\ i' = i
      BY <2>2 DEF CountTuple, Goto, Typed, ThreadTypes
    <3>2. /\ Curr(t)' = Curr(t) /\ Curr(t) \in DOMAIN mem /\ dest[t].bucket \in DOMAIN mem
          /\ dest[t].n \in 0 .. BUCKET_SIZE - 1
      BY <1>1, <3>1, CurrStays, InCritical, DestIsBucket DEF Critical
    <3>3. /\ mem'[dest[t].bucket].count = mem[dest[t].bucket].count + 1
          /\ mem'[Curr(t)].next = mem[Curr(t)].next
      BY <2>2, <3>2, CountEffect DEF SamePointers
    <3> QED
      BY <1>2, <3>1, <3>2, <3>3 DEF Typed
  <2>3. CASE Overflow(t)
    <3>1. /\ pc'[t] = "store" /\ i' = i /\ dest'[t] = [bucket |-> NewBucket(t), n |-> 0]
          /\ mem'[NewBucket(t)].count = 1 /\ mem'[Curr(t)].next = NewBucket(t)
          /\ NewBucket(t) # NULL
      <4>1. pc'[t] = "store" /\ i' = i
        BY <2>3 DEF Overflow, Goto, Typed, ThreadTypes
      <4>2. dest'[t] = [bucket |-> NewBucket(t), n |-> 0] /\ LinkedBehind(NewBucket(t), Curr(t))
        BY <2>3, OverflowEffect DEF Typed, ThreadTypes
      <4>3. /\ mem'[NewBucket(t)].count = 1 /\ mem'[Curr(t)].next = NewBucket(t)
            /\ NewBucket(t) # NULL
        BY <2>3, <4>2, OverflowEffect DEF LinkedBehind
      <4> QED
        BY <4>1, <4>2, <4>3
    <3>2. Curr(t)' = Curr(t)
      BY <1>1, <3>1, CurrStays
    <3> QED
      BY <3>1, <3>2, BucketsAssumption
  <2>4. CASE pc'[t] \notin {"count", "store"}
    BY <2>4
  <2>5. CASE Latch(t) \/ StoreTuple(t)
    BY <2>4, <2>5 DEF Latch, StoreTuple, Goto, Typed, ThreadTypes
  <2>6. CASE InsertSerially(t)
    BY <2>4, <2>6 DEF InsertSerially
  <2>7. CASE BuildDone(t) \/ ProbeTuple(t) \/ ProbeBucket(t) \/ ProbeDone(t) \/ free_bucket_buffer(t)
    <3>1. pc'[t] \notin {"count", "store"}
      BY <2>7 DEF BuildDone, ProbeTuple, ProbeBucket, ProbeDone, free_bucket_buffer,
                  Goto, Typed, ThreadTypes
    <3> QED
      BY <2>4, <3>1
  <2> QED
    BY <2>1, <2>2, <2>3, <2>5, <2>6, <2>7 DEF Thread
<1> QED
  BY <1>4, <1>5 DEF Reserved

(* Buffers are used up from the first place to the last, one after another.*)
LEMMA HandedOutStep ==
    ASSUME Typed, NEW t \in Threads, Thread(t)
    PROVE  HandedOut'
<1>1. /\ alg' = alg /\ Table' = Table
      /\ overflowbuf' = [overflowbuf EXCEPT ![t] = overflowbuf'[t]]
  BY ThreadStep, InputStays DEF Typed
<1>2. overflowbuf[t] \in [buffer : Nat \ {0}, count : Nat]
  BY DEF Typed, ThreadTypes
<1>3. CASE Overflow(t)
  <2>0. PICK new : new = NewBucket(t)
    OBVIOUS
  <2> DEFINE taken == get_new_bucket(t)
  <2>1. alg = "NPO" /\ DOMAIN mem' = DOMAIN mem \cup {new} /\ overflowbuf'[t] = taken
    BY <1>3, <2>0, InCritical, OverflowEffect DEF Overflow, Critical, LinkedBehind, Typed, ThreadTypes
  <2>2. /\ taken.buffer \in Nat \ {0}
        /\ \/ /\ taken.buffer = overflowbuf[t].buffer /\ taken.count = overflowbuf[t].count + 1
              /\ overflowbuf[t].count \in 0 .. OVERFLOW_BUF_SIZE - 1
           \/ taken.buffer = overflowbuf[t].buffer + 1 /\ taken.count = 1
    <3>1. CASE overflowbuf[t].count < OVERFLOW_BUF_SIZE
      BY <1>2, <3>1, BucketsAssumption DEF get_new_bucket
    <3>2. CASE ~ (overflowbuf[t].count < OVERFLOW_BUF_SIZE)
      BY <1>2, <3>2 DEF get_new_bucket
    <3> QED
      BY <3>1, <3>2
  <2> DEFINE Out(x) == \E u \in Threads : \E bf \in 1 .. overflowbuf[u].buffer :
                       \E n \in 0 .. OVERFLOW_BUF_SIZE - 1 :
                          /\ x = <<u, bf, n>>
                          /\ bf = overflowbuf[u].buffer => n < overflowbuf[u].count
  <2>3. ASSUME NEW x \in DOMAIN mem \ Table PROVE Out(x)'
    <3>a. PICK u \in Threads : \E bf \in 1 .. overflowbuf[u].buffer : \E n \in 0 .. OVERFLOW_BUF_SIZE - 1 :
            /\ x = <<u, bf, n>>
            /\ bf = overflowbuf[u].buffer => n < overflowbuf[u].count
      BY <2>1, <2>3 DEF Typed, HandedOut
    <3>1. PICK bf \in 1 .. overflowbuf[u].buffer, n \in 0 .. OVERFLOW_BUF_SIZE - 1 :
            /\ x = <<u, bf, n>>
            /\ bf = overflowbuf[u].buffer => n < overflowbuf[u].count
      BY <3>a
    <3>2. CASE u # t
      <4>1. overflowbuf'[u] = overflowbuf[u]
        BY <1>1, <3>2 DEF Typed, ThreadTypes
      <4> QED
        BY <3>1, <4>1
    <3>3. CASE u = t
      <4>1. bf \in 1 .. overflowbuf'[t].buffer
        BY <1>2, <2>1, <2>2, <3>3
      <4>2. bf = overflowbuf'[t].buffer => n < overflowbuf'[t].count
        BY <1>2, <2>1, <2>2, <3>1, <3>3
      <4> QED
        BY <3>1, <3>3, <4>1, <4>2
    <3> QED
      BY <3>2, <3>3
  <2>4. Out(new)'
    <3> DEFINE place == IF taken.buffer = overflowbuf[t].buffer THEN overflowbuf[t].count ELSE 0
    <3>1. new = <<t, taken.buffer, place>>
      BY <2>0 DEF NewBucket
    <3>2. place \in 0 .. OVERFLOW_BUF_SIZE - 1 /\ place < taken.count
      BY <1>2, <2>2, BucketsAssumption
    <3>3. taken.buffer \in 1 .. taken.buffer
      BY <2>2
    <3> HIDE DEF place, taken
    <3>4. \E bf \in 1 .. overflowbuf'[t].buffer : \E n \in 0 .. OVERFLOW_BUF_SIZE - 1 :
             /\ <<t, taken.buffer, place>> = <<t, bf, n>>
             /\ bf = overflowbuf'[t].buffer => n < overflowbuf'[t].count
      BY <2>1, <3>2, <3>3
    <3> QED
      BY <3>1, <3>4
  <2> HIDE DEF Out
  <2>5. \A x \in DOMAIN mem' \ Table : Out(x)'
    BY <2>1, <2>3, <2>4
  <2> QED
    BY <1>1, <2>1, <2>5 DEF HandedOut, Out
<1>4. ASSUME DOMAIN mem' = DOMAIN mem, overflowbuf' = overflowbuf PROVE HandedOut'
  BY <1>1, <1>4 DEF Typed, HandedOut
<1>5. CASE CountTuple(t) \/ StoreTuple(t)
  <2>1. DOMAIN mem' = DOMAIN mem /\ overflowbuf' = overflowbuf
    BY <1>5 DEF CountTuple, StoreTuple
  <2> QED
    BY <1>4, <2>1
<1>6. CASE InsertSerially(t) /\ HasRoom(SerialPlace(t))
  <2>1. DOMAIN mem' = DOMAIN mem /\ overflowbuf' = overflowbuf
    BY <1>6, SerialRoomEffect DEF SamePointers, InsertSerially
  <2> QED
    BY <1>4, <2>1
<1>7. CASE InsertSerially(t) /\ ~ HasRoom(SerialPlace(t))
  <2> DEFINE size == Cardinality(DOMAIN mem)
  <2>1. /\ DOMAIN mem' = DOMAIN mem \cup {HeapBucket} /\ HeapBucket \notin DOMAIN mem
        /\ size \in Nat /\ alg # "NPO"
    BY <1>7, SerialNewEffect, InsertingSerially DEF LinkedBehind
  <2>2. Cardinality(DOMAIN mem') = size + 1
    BY <2>1, FS_AddElement DEF Typed, BucketTypes
  <2>3. \A x \in DOMAIN mem \ Table : \E n \in 0 .. size - 1 : x = <<0, n>>
    BY <2>1 DEF Typed, HandedOut
  <2>4. HeapBucket = <<0, size>>
    BY DEF HeapBucket
  <2> HIDE DEF size
  <2>5. \A x \in DOMAIN mem' \ Table : \E n \in 0 .. (size + 1) - 1 : x = <<0, n>>
    BY <2>1, <2>3, <2>4
  <2> QED
    BY <1>1, <2>1, <2>2, <2>5 DEF HandedOut
<1>8. CASE Latch(t) \/ ChoosePlace(t) \/ BuildDone(t) \/ ProbeTuple(t) \/ ProbeBucket(t) \/ ProbeDone(t)
           \/ free_bucket_buffer(t)
  <2>1. mem' = mem /\ overflowbuf' = overflowbuf
    BY <1>8 DEF Latch, ChoosePlace, BuildDone, ProbeTuple, ProbeBucket, ProbeDone,
                free_bucket_buffer, buildVars
  <2> QED
    BY <1>4, <2>1
<1> QED
  BY <1>3, <1>5, <1>6, <1>7, <1>8 DEF Thread

(* What others have for themselves is left alone.                          *)
LEMMA ThreadTypesStep ==
    ASSUME Typed, NEW t \in Threads, Thread(t)
    PROVE  ThreadTypes'
<1>1. /\ rel' = rel /\ alg' = alg /\ t \in Running
      /\ pc' = [pc EXCEPT ![t] = pc'[t]] /\ i' = [i EXCEPT ![t] = i'[t]]
      /\ overflowbuf' = [overflowbuf EXCEPT ![t] = overflowbuf'[t]]
      /\ \A u \in Threads \ {t} : pc'[u] = pc[u] /\ i'[u] = i[u] /\ b'[u] = b[u]
      /\ DOMAIN mem \subseteq DOMAIN mem'
  BY ThreadStep DEF Typed
<1>2. /\ pc'[t] \in Labels \ {"absent"} /\ i'[t] \in Nat /\ Progress(t)'
      /\ overflowbuf'[t] \in [buffer : Nat \ {0}, count : Nat]
      /\ latch' \in [Table -> BOOLEAN]
  BY OwnProgress
<1>3. Running' = Running /\ Table' = Table
  BY <1>1, InputStays
<1>4. ASSUME NEW u \in Running \ {t} PROVE Progress(u)'
  <2>1. u \in Threads /\ Progress(u) /\ pc'[u] = pc[u] /\ i'[u] = i[u] /\ b'[u] = b[u]
    BY <1>1, SomeRun DEF Typed, ThreadTypes
  <2>2. Chunk(rel.R, u)' = Chunk(rel.R, u) /\ Chunk(rel.S, u)' = Chunk(rel.S, u)
    BY <1>1, InputStays
  <2> QED
    BY <1>1, <2>1, <2>2 DEF Progress
<1>5. dest' = [u \in Threads |-> dest'[u]] /\ b' = [u \in Threads |-> b'[u]]
  <2> USE DEF buildVars, probeVars
  <2>1. \/ dest' = dest
        \/ \E v : dest' = [dest EXCEPT ![t] = v]
    BY DEF Thread, Latch, ChoosePlace, CountTuple, Overflow, StoreTuple, InsertSerially, BuildDone,
           ProbeTuple, ProbeBucket, ProbeDone, free_bucket_buffer
  <2>2. \/ b' = b
        \/ \E v : b' = [b EXCEPT ![t] = v]
    BY DEF Thread, Latch, ChoosePlace, CountTuple, Overflow, StoreTuple, InsertSerially, BuildDone,
           ProbeTuple, ProbeBucket, ProbeDone, free_bucket_buffer
  <2>3. dest = [u \in Threads |-> dest[u]] /\ b = [u \in Threads |-> b[u]]
    BY DEF Typed, ThreadTypes
  <2> QED
    BY <2>1, <2>2, <2>3
<1>6. pc' \in [Threads -> Labels] /\ i' \in [Threads -> Nat]
      /\ overflowbuf' \in [Threads -> [buffer : Nat \ {0}, count : Nat]]
  BY <1>1, <1>2 DEF Typed, ThreadTypes
<1>7. \A u \in Threads : pc'[u] = "absent" <=> u \notin Running
  BY <1>1, <1>2 DEF Typed, ThreadTypes
<1>8. \A u \in Threads \ Running : i'[u] = 0
  BY <1>1 DEF Typed, ThreadTypes
<1>9. \A u \in Running : Progress(u)'
  BY <1>2, <1>4
<1> QED
  BY <1>1, <1>2, <1>3, <1>5, <1>6, <1>7, <1>8, <1>9 DEF Typed, ThreadTypes

(* The S tuple whose chain a thread follows.                               *)
LEMMA AtBucket ==
    ASSUME Typed, NEW t \in Threads, pc[t] = "bucket"
    PROVE  /\ t \in Running /\ t \in Threads /\ b[t] \in DOMAIN mem
           /\ i[t] \in Nat /\ i[t] < Len(Chunk(rel.S, t))
           /\ Position(rel.S, t) = Offset(rel.S, t) + (i[t] + 1)
           /\ Position(rel.S, t) \in DOMAIN rel.S
           /\ ProbeKey(t) = rel.S[Position(rel.S, t)]
           /\ Offset(rel.S, t) \in Nat
<1>1. t \in Running /\ Progress(t) /\ i[t] \in Nat /\ rel \in Relations
  BY DEF Typed, ThreadTypes
<1>2. b[t] \in DOMAIN mem /\ i[t] < Len(Chunk(rel.S, t))
  BY <1>1 DEF Progress
<1>3. rel.S \in Seq(Nat) /\ DOMAIN rel.S = 1 .. Len(rel.S)
  BY <1>1, RelationFacts
<1> QED
  BY <1>1, <1>2, <1>3, PositionIs, ProbeKeyIs, ChunkIsRange DEF Typed

(* How many matches a bucket has.                                          *)
LEMMA MatchesFinite ==
    ASSUME BucketTypes, NEW x \in DOMAIN mem, NEW key
    PROVE  IsFiniteSet(MatchingPlaces(x, key)) /\ Cardinality(MatchingPlaces(x, key)) \in Nat
<1>1. mem[x].count \in Nat
  BY DEF BucketTypes
<1>2. IsFiniteSet(0 .. mem[x].count - 1)
  BY <1>1, FS_Interval
<1>3. MatchingPlaces(x, key) \in SUBSET (0 .. mem[x].count - 1)
  BY DEF MatchingPlaces
<1> QED
  BY <1>2, <1>3, FS_Subset, FS_CardinalityType

(* The matches of a bucket are written, each once.                         *)
LEMMA MatchesWritten ==
    ASSUME BucketTypes, NEW cb, WellFormed(cb), NEW x \in DOMAIN mem, NEW key, NEW p \in Nat
    PROVE  LET c == WithMatches(cb, x, key, p)
           IN  /\ WellFormed(c)
               /\ Contents(c) = Contents(cb) \cup {<<mem[x].tuples[n], p>> : n \in MatchingPlaces(x, key)}
               /\ Size(c) = Size(cb) + Cardinality(MatchingPlaces(x, key))
<1>1. PICK N \in Nat : N = mem[x].count /\ N <= BUCKET_SIZE
  BY BucketsAssumption DEF BucketTypes
<1> DEFINE V == {c \in Buffers : WellFormed(c)}
           Match(n) == rel.R[mem[x].tuples[n - 1]] = key
           add(n, c) == IF Match(n) THEN Written(c, <<mem[x].tuples[n - 1], p>>) ELSE c
           step == [d \in Nat \X V |-> IF d[1] \in 1 .. N THEN add(d[1], d[2]) ELSE d[2]]
           Fill == CHOOSE f : f = [n \in 0 .. N |-> IF n = 0 THEN cb ELSE add(n, f[n - 1])]
<1>2. ASSUME NEW n \in 1 .. N PROVE mem[x].tuples[n - 1] \in Nat
  <2>1. n - 1 \in 0 .. BUCKET_SIZE - 1
    BY <1>1, BucketsAssumption
  <2>2. mem[x].tuples \in [0 .. BUCKET_SIZE - 1 -> Nat]
    BY DEF BucketTypes
  <2> QED
    BY <2>1, <2>2
<1>3. ASSUME NEW n \in 1 .. N, NEW c, WellFormed(c)
      PROVE  /\ WellFormed(add(n, c))
             /\ Match(n) => /\ Contents(add(n, c)) = Contents(c) \cup {<<mem[x].tuples[n - 1], p>>}
                            /\ Size(add(n, c)) = Size(c) + 1
             /\ ~ Match(n) => add(n, c) = c
  <2>1. <<mem[x].tuples[n - 1], p>> \in Pairs
    BY <1>2 DEF Pairs
  <2> QED
    BY <1>3, <2>1, WrittenEffect
<1>4. \A n \in 1 .. N, c \in V : add(n, c) \in V
  <2>1. \A c : WellFormed(c) => c \in Buffers
    BY DEF WellFormed
  <2> HIDE DEF add, Match
  <2> QED
    BY <1>3, <2>1
<1> HIDE DEF add, Match
<1>5. cb \in V
  BY DEF WellFormed
<1>6. PICK g \in [0 .. N -> V] : Follows(g, N, cb, step)
  <2>1. step \in [Nat \X V -> V]
    BY <1>4
  <2> HIDE DEF step, V
  <2> QED
    BY <1>5, <2>1, Recursion
<1>7. g[0] = cb /\ \A n \in 1 .. N : g[n] = add(n, g[n - 1])
  <2>1. ASSUME NEW n \in 1 .. N PROVE g[n] = add(n, g[n - 1])
    <3>1. n - 1 \in 0 .. N /\ n \in Nat /\ g[n - 1] \in V
      BY <1>1, <1>6
    <3>2. step[<<n, g[n - 1]>>] = add(n, g[n - 1])
      BY <3>1
    <3> QED
      BY <1>6, <3>2 DEF Follows
  <2> QED
    BY <1>6, <2>1 DEF Follows
<1> HIDE DEF step, V
<1>8. g = [n \in 0 .. N |-> IF n = 0 THEN cb ELSE add(n, g[n - 1])]
  <2>1. \A n \in 0 .. N : g[n] = IF n = 0 THEN cb ELSE add(n, g[n - 1])
    BY <1>7
  <2> QED
    BY <1>6, <2>1
<1>9. Fill = [n \in 0 .. N |-> IF n = 0 THEN cb ELSE add(n, Fill[n - 1])]
  BY <1>8
<1>10. WithMatches(cb, x, key, p) = Fill[N]
  BY <1>1 DEF WithMatches, add, Match
<1> HIDE DEF Fill
<1>11. Fill[0] = cb /\ \A n \in 0 .. N : n + 1 <= N => Fill[n + 1] = add(n + 1, Fill[n])
  <2>1. Fill[0] = cb
    BY <1>9
  <2>2. ASSUME NEW n \in 0 .. N, n + 1 <= N PROVE Fill[n + 1] = add(n + 1, Fill[n])
    <3>1. n + 1 \in 0 .. N /\ n + 1 # 0 /\ (n + 1) - 1 = n
      BY <2>2
    <3> QED
      BY <1>9, <3>1
  <2> QED
    BY <2>1, <2>2
<1> DEFINE Places(n) == {k \in 0 .. n - 1 : rel.R[mem[x].tuples[k]] = key}
           At(n) == /\ WellFormed(Fill[n]) /\ IsFiniteSet(Places(n))
                    /\ Contents(Fill[n]) = Contents(cb) \cup {<<mem[x].tuples[k], p>> : k \in Places(n)}
                    /\ Size(Fill[n]) = Size(cb) + Cardinality(Places(n))
           T == {n \in Nat : n <= N => At(n)}
<1>12. Size(cb) \in Nat
  BY SizeIs
<1>13. 0 \in T
  <2>1. Places(0) = {}
    OBVIOUS
  <2>2. IsFiniteSet(Places(0)) /\ Cardinality(Places(0)) = 0
    BY <2>1, FS_EmptySet
  <2>3. {<<mem[x].tuples[k], p>> : k \in Places(0)} = {}
    BY <2>1
  <2> HIDE DEF Places
  <2> QED
    BY <1>11, <1>12, <2>2, <2>3
<1>14. ASSUME NEW n \in Nat, n \in T PROVE n + 1 \in T
  <2> SUFFICES ASSUME n + 1 <= N PROVE At(n + 1)
    OBVIOUS
  <2>1. At(n) /\ n + 1 \in 1 .. N /\ n + 1 - 1 = n /\ Fill[n + 1] = add(n + 1, Fill[n])
    BY <1>1, <1>11, <1>14
  <2>2. Match(n + 1) <=> rel.R[mem[x].tuples[n]] = key
    BY <2>1 DEF Match
  <2>3. CASE Match(n + 1)
    <3>1. Places(n + 1) = Places(n) \cup {n} /\ n \notin Places(n)
      BY <2>2, <2>3
    <3>2. IsFiniteSet(Places(n + 1)) /\ Cardinality(Places(n + 1)) = Cardinality(Places(n)) + 1
          /\ Cardinality(Places(n)) \in Nat
      <4> HIDE DEF Places
      <4> QED
        BY <2>1, <3>1, FS_AddElement, FS_CardinalityType
    <3>3. {<<mem[x].tuples[k], p>> : k \in Places(n + 1)} =
            {<<mem[x].tuples[k], p>> : k \in Places(n)} \cup {<<mem[x].tuples[n], p>>}
      <4> HIDE DEF Places
      <4> QED
        BY <3>1
    <3>4. /\ WellFormed(Fill[n + 1])
          /\ Contents(Fill[n + 1]) = Contents(Fill[n]) \cup {<<mem[x].tuples[n], p>>}
          /\ Size(Fill[n + 1]) = Size(Fill[n]) + 1
      BY <1>3, <2>1, <2>3
    <3> HIDE DEF Places
    <3>5. Contents(Fill[n + 1]) = Contents(cb) \cup {<<mem[x].tuples[k], p>> : k \in Places(n + 1)}
      BY <2>1, <3>3, <3>4
    <3>6. Size(Fill[n + 1]) = Size(cb) + Cardinality(Places(n + 1))
      BY <1>12, <2>1, <3>2, <3>4
    <3> QED
      BY <3>2, <3>4, <3>5, <3>6
  <2>4. CASE ~ Match(n + 1)
    <3>1. Places(n + 1) = Places(n)
      BY <2>2, <2>4
    <3>2. Fill[n + 1] = Fill[n]
      BY <1>3, <2>1, <2>4
    <3> HIDE DEF Places
    <3> QED
      BY <2>1, <3>1, <3>2
  <2> QED
    BY <2>3, <2>4
<1>15. At(N)
  <2> HIDE DEF At
  <2>1. N \in T
    <3> HIDE DEF T
    <3> QED
      BY <1>13, <1>14, Induction
  <2> QED
    BY <2>1
<1>16. Places(N) = MatchingPlaces(x, key)
  BY <1>1 DEF MatchingPlaces
<1> HIDE DEF Places
<1> QED
  BY <1>10, <1>15, <1>16

(* Counts of matches stay numbers, and nobody but main collects them.      *)
LEMMA ResultTypesStep ==
    ASSUME Typed, NEW t \in Threads, Thread(t)
    PROVE  ResultTypes'
<1>1. /\ totalresults' = totalresults /\ joined' = joined /\ nthreads' = nthreads /\ t \in Running
  BY ThreadStep, InputStays DEF Typed
<1>2. /\ matches' \in [Threads -> Nat] /\ chainedbuf' = [u \in Threads |-> chainedbuf'[u]]
      /\ \A u \in Threads : WellFormed(chainedbuf'[u]) /\ Size(chainedbuf'[u]) = matches'[u]
  <2>1. CASE ProbeBucket(t)
    <3>1. pc[t] = "bucket" /\ MatchBucket(t)
      BY <2>1 DEF ProbeBucket
    <3>2. b[t] \in DOMAIN mem
      BY <1>1, <3>1 DEF Typed, ThreadTypes, Progress
    <3>3. Cardinality(MatchingPlaces(b[t], ProbeKey(t))) \in Nat
      BY <3>2, MatchesFinite DEF Typed
    <3>4. PICK c : c = WithMatches(chainedbuf[t], b[t], ProbeKey(t), Position(rel.S, t))
      OBVIOUS
    <3>5. Position(rel.S, t) \in Nat
      <4>1. rel.S \in Seq(Nat) /\ Position(rel.S, t) \in DOMAIN rel.S
        BY <3>1, AtBucket, RelationFacts DEF Typed, ThreadTypes
      <4> QED
        BY <4>1
    <3>6. /\ WellFormed(c)
          /\ Size(c) = Size(chainedbuf[t]) + Cardinality(MatchingPlaces(b[t], ProbeKey(t)))
      <4>1. WellFormed(chainedbuf[t]) /\ BucketTypes
        BY DEF Typed, ResultTypes
      <4> QED
        BY <3>2, <3>4, <3>5, <4>1, MatchesWritten
    <3>7. /\ matches' = [matches EXCEPT ![t] = @ + Cardinality(MatchingPlaces(b[t], ProbeKey(t)))]
          /\ chainedbuf' = [chainedbuf EXCEPT ![t] = c]
      BY <3>1, <3>4 DEF MatchBucket, Typed, ResultTypes
    <3> QED
      BY <3>3, <3>6, <3>7 DEF Typed, ResultTypes
  <2>2. CASE ~ ProbeBucket(t)
    <3>1. matches' = matches /\ chainedbuf' = chainedbuf
      BY <2>2 DEF Thread, Latch, ChoosePlace, CountTuple, Overflow, StoreTuple, InsertSerially,
                  BuildDone, ProbeTuple, ProbeDone, free_bucket_buffer, probeVars
    <3> QED
      BY <3>1 DEF Typed, ResultTypes
  <2> QED
    BY <2>1, <2>2
<1> QED
  BY <1>1, <1>2 DEF Typed, ResultTypes

-----------------------------------------------------------------------------
(* Steps that move no pointer leave the chains as they are.                *)
LEMMA ChainsKept ==
    ASSUME NEW own, NEW dist, Chains(own, dist), SamePointers, Table' = Table
    PROVE  Chains(own, dist)'
<1>1. DOMAIN mem' = DOMAIN mem /\ \A x \in DOMAIN mem : mem'[x].next = mem[x].next
  BY DEF SamePointers
<1> QED
  BY <1>1 DEF Chains

(* A bucket that is put behind curr belongs to the chain of curr, and the  *)
(* rest of that chain is one step further away.                            *)
LEMMA ChainsExtended ==
    ASSUME BucketTypes, NEW own, NEW dist, Chains(own, dist),
           NEW new, NEW curr, LinkedBehind(new, curr), new \notin Table, Table' = Table
    PROVE  \E own2, dist2 :
              /\ Chains(own2, dist2)'
              /\ own2[new] = curr /\ \A x \in DOMAIN mem : own2[x] = own[x]
<1> DEFINE B == DOMAIN mem
           B2 == B \cup {new}
           Moves(x) == x # new /\ own[x] = curr /\ x # curr
           ownF == [x \in B2 |-> IF x = new THEN curr ELSE own[x]]
           distF == [x \in B2 |-> IF x = new THEN 1
                                  ELSE IF Moves(x) THEN dist[x] + 1 ELSE dist[x]]
<1>1. PICK own2 : own2 = ownF
  OBVIOUS
<1>2. PICK dist2 : dist2 = distF
  OBVIOUS
<1>3. /\ new \notin B /\ DOMAIN mem' = B2 /\ curr \in Table /\ curr \in B /\ new # NULL
      /\ mem'[new].next = mem[curr].next /\ mem'[curr].next = new
      /\ \A x \in B \ {curr} : mem'[x].next = mem[x].next
      /\ Table \subseteq B
  BY DEF LinkedBehind, BucketTypes
<1>4. /\ \A x \in B : own[x] \in Table /\ dist[x] \in Nat
      /\ \A x \in Table : own[x] = x /\ dist[x] = 0
      /\ \A x \in B : dist[x] < Cardinality(B)
      /\ \A x, y \in B : own[x] = own[y] /\ dist[x] = dist[y] => x = y
  BY DEF Chains
<1>5. \A x \in B \ Table : \E y \in B : mem[y].next = x /\ own[y] = own[x] /\ dist[x] = dist[y] + 1
  BY DEF Chains
<1>6. \A x \in B : mem[x].next # NULL =>
         mem[x].next \notin Table /\ own[mem[x].next] = own[x] /\ dist[mem[x].next] = dist[x] + 1
         /\ mem[x].next \in B
  BY DEF Chains, BucketTypes
<1>7. own2[new] = curr /\ \A x \in B : own2[x] = own[x]
  BY <1>1, <1>3
<1>8. /\ dist2[new] = 1
      /\ \A x \in B : own[x] = curr /\ x # curr => dist2[x] = dist[x] + 1
      /\ \A x \in B : ~ (own[x] = curr /\ x # curr) => dist2[x] = dist[x]
  BY <1>2, <1>3
<1>9. own2 \in [B2 -> Table] /\ dist2 \in [B2 -> Nat]
  <2>1. \A x \in B2 : ownF[x] \in Table
    BY <1>3, <1>4
  <2>2. \A x \in B2 : distF[x] \in Nat
    BY <1>4
  <2>3. ownF \in [B2 -> Table]
    BY <2>1
  <2>4. distF \in [B2 -> Nat]
    BY <2>2
  <2> QED
    BY <1>1, <1>2, <2>3, <2>4
<1> HIDE DEF ownF, distF, Moves
<1>10. \A x \in Table : own2[x] = x /\ dist2[x] = 0
  <2> TAKE x \in Table
  <2>1. x \in B /\ own[x] = x /\ dist[x] = 0
    BY <1>3, <1>4
  <2> QED
    BY <1>7, <1>8, <2>1
<1>11. Cardinality(B2) = Cardinality(B) + 1 /\ Cardinality(B) \in Nat
  BY <1>3, FS_AddElement, FS_CardinalityType DEF BucketTypes
<1>12. \A x \in B2 : dist2[x] < Cardinality(B2)
  <2>1. ASSUME NEW x \in B PROVE dist2[x] < Cardinality(B2)
    BY <1>4, <1>8, <1>11
  <2>2. dist2[new] < Cardinality(B2)
    <3>1. dist[curr] < Cardinality(B) /\ dist[curr] = 0
      BY <1>3, <1>4
    <3> QED
      BY <1>8, <1>11, <3>1
  <2> QED
    BY <2>1, <2>2
<1>13. ASSUME NEW x \in B2 \ Table
       PROVE  \E y \in B2 : mem'[y].next = x /\ own2[y] = own2[x] /\ dist2[x] = dist2[y] + 1
  <2>1. CASE x = new
    <3>1. own2[curr] = curr /\ dist2[curr] = 0
      BY <1>3, <1>10
    <3> QED
      BY <1>3, <1>7, <1>8, <2>1, <3>1
  <2>2. CASE x # new
    <3>1. x \in B
      BY <2>2
    <3>2. PICK y \in B : mem[y].next = x /\ own[y] = own[x] /\ dist[x] = dist[y] + 1
      BY <1>5, <3>1
    <3>3. CASE y = curr
      <4>1. mem'[new].next = x /\ own[x] = curr /\ dist[x] = 1 /\ x # curr
        BY <1>3, <1>4, <3>2, <3>3
      <4>2. own2[x] = curr /\ dist2[x] = 2
        BY <1>7, <1>8, <3>1, <4>1
      <4> QED
        BY <1>7, <1>8, <4>1, <4>2
    <3>4. CASE y # curr
      <4>1. mem'[y].next = x /\ own2[y] = own2[x]
        BY <1>3, <1>7, <3>1, <3>2, <3>4
      <4>2. x # curr
        BY <1>3
      <4>3. dist2[x] = dist2[y] + 1
        BY <1>4, <1>8, <3>1, <3>2, <3>4, <4>2
      <4> QED
        BY <4>1, <4>3
    <3> QED
      BY <3>3, <3>4
  <2> QED
    BY <2>1, <2>2
<1>14. ASSUME NEW x \in B2, mem'[x].next # NULL
       PROVE  /\ mem'[x].next \notin Table /\ own2[mem'[x].next] = own2[x]
              /\ dist2[mem'[x].next] = dist2[x] + 1
  <2>1. CASE x = curr
    <3>1. own2[curr] = curr /\ dist2[curr] = 0
      BY <1>3, <1>10
    <3> QED
      BY <1>3, <1>7, <1>8, <2>1, <3>1
  <2>2. CASE x = new
    <3> DEFINE z == mem[curr].next
    <3>1. mem'[x].next = z /\ z # NULL
      BY <1>3, <1>14, <2>2
    <3>2. z \notin Table /\ own[z] = curr /\ dist[z] = 1 /\ z \in B
      BY <1>3, <1>4, <1>6, <3>1
    <3> HIDE DEF z
    <3>3. own2[z] = curr /\ dist2[z] = 2
      BY <1>3, <1>7, <1>8, <3>2
    <3> QED
      BY <1>7, <1>8, <2>2, <3>1, <3>2, <3>3
  <2>3. CASE x # curr /\ x # new
    <3> DEFINE z == mem[x].next
    <3>1. x \in B /\ mem'[x].next = z /\ z # NULL
      BY <1>3, <1>14, <2>3
    <3>2. z \notin Table /\ own[z] = own[x] /\ dist[z] = dist[x] + 1 /\ z \in B
      BY <1>6, <3>1
    <3> HIDE DEF z
    <3>3. own2[z] = own2[x] /\ z # curr
      BY <1>3, <1>7, <3>1, <3>2
    <3>4. dist2[z] = dist2[x] + 1
      BY <1>4, <1>8, <2>3, <3>1, <3>2, <3>3
    <3> QED
      BY <3>1, <3>2, <3>3, <3>4
  <2> QED
    BY <2>1, <2>2, <2>3
<1>15. ASSUME NEW x \in B2, NEW y \in B2, own2[x] = own2[y], dist2[x] = dist2[y]
       PROVE  x = y
  <2>1. ASSUME NEW z \in B, own2[z] = curr PROVE dist2[z] # 1
    <3>1. own[z] = curr
      BY <1>7, <2>1
    <3>2. CASE z = curr
      BY <1>3, <1>10, <3>2
    <3>3. CASE z # curr
      <4>1. dist[z] # 0
        BY <1>3, <1>4, <3>1, <3>3
      <4> QED
        BY <1>4, <1>8, <3>1, <3>3, <4>1
    <3> QED
      BY <3>2, <3>3
  <2>2. CASE x = new \/ y = new
    BY <1>7, <1>8, <1>15, <2>1, <2>2
  <2>3. CASE x # new /\ y # new
    <3>1. x \in B /\ y \in B /\ own[x] = own[y]
      BY <1>7, <1>15, <2>3
    <3>2. CASE x = curr \/ y = curr
      <4>1. ASSUME NEW z \in B, own[z] = curr, z # curr PROVE dist2[z] # 0
        BY <1>4, <1>8, <4>1
      <4>2. own[curr] = curr /\ dist2[curr] = 0
        BY <1>3, <1>4, <1>10
      <4> QED
        BY <1>15, <3>1, <3>2, <4>1, <4>2
    <3>3. CASE x # curr /\ y # curr
      <4>1. dist[x] = dist[y]
        BY <1>4, <1>8, <1>15, <3>1, <3>3
      <4> QED
        BY <1>4, <3>1, <4>1
    <3> QED
      BY <3>2, <3>3
  <2> QED
    BY <2>2, <2>3
<1> HIDE DEF B, B2
<1>a. DOMAIN mem' = B2 /\ Table' = Table
  BY <1>3
<1>16. Chains(own2, dist2)'
  BY <1>a, <1>9, <1>10, <1>12, <1>13, <1>14, <1>15 DEF Chains
<1> QED
  BY <1>7, <1>16 DEF B

-----------------------------------------------------------------------------
(* A step that stores no tuple, and one that stores the tuple at p in the  *)
(* place d.                                                                *)
NothingStored ==
    /\ Filled' = Filled /\ Inserted' = Inserted
    /\ \A d \in Filled : TupleAt(d)' = TupleAt(d)

StoredAt(d, p) ==
    /\ d \notin Filled /\ Filled' = Filled \cup {d}
    /\ p \in DOMAIN rel.R /\ p \notin Inserted /\ Inserted' = Inserted \cup {p}
    /\ mem'[d[1]].tuples[d[2]] = p /\ \A e \in Filled : TupleAt(e)' = TupleAt(e)

(* No thread has inserted more than its chunk.                             *)
LEMMA InsertedBound ==
    ASSUME ThreadTypes, NEW t \in Running
    PROVE  InsertedBy(t) \in Nat /\ InsertedBy(t) <= Len(Chunk(rel.R, t))
<1>1. rel.R \in Seq(Nat) /\ i[t] \in Nat /\ Progress(t) /\ t \in Threads
  BY RelationFacts, SomeRun DEF ThreadTypes
<1>2. Len(Chunk(rel.R, t)) \in Nat
  BY <1>1, ChunkIsRange
<1> QED
  BY <1>1, <1>2 DEF InsertedBy, Progress, Critical

(* The steps that insert a tuple insert the next one of the chunk, which   *)
(* no thread has inserted before.                                          *)
LEMMA InsertedGrows ==
    ASSUME Typed, NEW t \in Threads, StoreTuple(t) \/ InsertSerially(t)
    PROVE  /\ Position(rel.R, t) \in DOMAIN rel.R /\ Position(rel.R, t) \notin Inserted
           /\ Inserted' = Inserted \cup {Position(rel.R, t)}
<1> DEFINE p == Position(rel.R, t)
<1>1. /\ rel' = rel /\ alg' = alg /\ t \in Running
      /\ \A u \in Threads \ {t} : pc'[u] = pc[u] /\ i'[u] = i[u]
  BY ThreadStep DEF Thread, Typed
<1>2. /\ InsertedBy(t) = i[t] /\ i[t] \in Nat /\ i[t] < Len(Chunk(rel.R, t))
      /\ InsertedBy(t)' = i[t] + 1
  <2>1. /\ pc[t] = "build" \/ pc[t] \in Critical
        /\ pc'[t] = "build" /\ i'[t] = i[t] + 1
    BY DEF StoreTuple, InsertSerially, Goto, Critical, Typed, ThreadTypes
  <2>2. i[t] < Len(Chunk(rel.R, t))
    BY InCritical DEF StoreTuple, InsertSerially, Critical
  <2> QED
    BY <2>1, <2>2 DEF InsertedBy, Typed, ThreadTypes
<1>3. rel.R \in Seq(Nat) /\ DOMAIN rel.R = 1 .. Len(rel.R)
  BY RelationFacts DEF Typed, ThreadTypes
<1>4. /\ p = Offset(rel.R, t) + (i[t] + 1) /\ i[t] + 1 \in 1 .. Len(Chunk(rel.R, t))
      /\ p \in DOMAIN rel.R
  BY <1>1, <1>2, <1>3, PositionIs
<1>5. ASSUME p \in Inserted PROVE FALSE
  <2>a. PICK u \in Running : \E k \in 1 .. InsertedBy(u) : p = Offset(rel.R, u) + k
    BY <1>5 DEF Inserted
  <2>1. PICK k \in 1 .. InsertedBy(u) : p = Offset(rel.R, u) + k
    BY <2>a
  <2>2. k \in 1 .. Len(Chunk(rel.R, u))
    BY <1>3, InsertedBound, ChunkIsRange DEF Typed
  <2>3. u = t /\ k = i[t] + 1
    BY <1>1, <1>3, <1>4, <2>1, <2>2, ChunksApart
  <2> QED
    BY <1>2, <2>3
<1>6. Running' = Running /\ \A u : Offset(rel.R, u)' = Offset(rel.R, u)
  BY <1>1, InputStays
<1>7. ASSUME NEW u \in Running \ {t} PROVE InsertedBy(u)' = InsertedBy(u)
  BY <1>1, InputStays, SomeRun DEF InsertedBy
<1>8. ASSUME NEW q \in DOMAIN rel.R
      PROVE  (\E u \in Running : \E k \in 1 .. InsertedBy(u)' : q = Offset(rel.R, u) + k)
             <=> (\E u \in Running : \E k \in 1 .. InsertedBy(u) : q = Offset(rel.R, u) + k) \/ q = p
  <2>1. ASSUME NEW u \in Running, NEW k \in 1 .. InsertedBy(u), q = Offset(rel.R, u) + k
        PROVE  k \in 1 .. InsertedBy(u)'
    <3>1. CASE u = t
      BY <1>2, <3>1
    <3>2. CASE u # t
      BY <1>7, <3>2
    <3> QED
      BY <3>1, <3>2
  <2>2. i[t] + 1 \in 1 .. InsertedBy(t)'
    BY <1>2
  <2>3. ASSUME NEW u \in Running, NEW k \in 1 .. InsertedBy(u)', q = Offset(rel.R, u) + k
        PROVE  k \in 1 .. InsertedBy(u) \/ q = p
    <3>1. CASE u = t
      <4>1. k \in 1 .. i[t] \/ k = i[t] + 1
        BY <1>2, <2>3, <3>1
      <4> QED
        BY <1>2, <1>4, <2>3, <3>1, <4>1
    <3>2. CASE u # t
      BY <1>7, <2>3, <3>2
    <3> QED
      BY <3>1, <3>2
  <2> HIDE DEF p
  <2> QED
    BY <1>1, <1>4, <2>1, <2>2, <2>3
<1> HIDE DEF p
<1>9. Inserted' = {q \in DOMAIN rel.R : \E u \in Running : \E k \in 1 .. InsertedBy(u)' : q = Offset(rel.R, u) + k}
  BY <1>1, <1>6 DEF Inserted
<1>10. Inserted' = Inserted \cup {p}
  BY <1>4, <1>8, <1>9 DEF Inserted
<1> QED
  BY <1>4, <1>5, <1>10 DEF p

(* All other steps insert nothing: who is done with R has inserted all of  *)
(* its chunk.                                                              *)
LEMMA InsertedStays ==
    ASSUME Typed, NEW t \in Threads, Thread(t), ~ StoreTuple(t), ~ InsertSerially(t)
    PROVE  Inserted' = Inserted
<1>1. /\ rel' = rel /\ alg' = alg /\ t \in Running
      /\ \A u \in Threads \ {t} : pc'[u] = pc[u] /\ i'[u] = i[u]
  BY ThreadStep DEF Typed
<1>2. /\ Running' = Running
      /\ \A u : Offset(rel.R, u)' = Offset(rel.R, u)
      /\ \A u : Chunk(rel.R, u)' = Chunk(rel.R, u)
  BY <1>1, InputStays
<1>3. InsertedBy(t)' = InsertedBy(t)
  <2> USE DEF Goto, Critical
  <2>1. CASE Latch(t) \/ ChoosePlace(t) \/ CountTuple(t) \/ Overflow(t)
    <3>1. /\ pc[t] = "build" \/ pc[t] \in Critical
          /\ pc'[t] = "build" \/ pc'[t] \in Critical
          /\ i' = i
      BY <2>1 DEF Latch, ChoosePlace, CountTuple, Overflow, Typed, ThreadTypes
    <3> QED
      BY <3>1 DEF InsertedBy
  <2>2. CASE BuildDone(t)
    <3>1. pc[t] = "build" /\ i[t] = Len(Chunk(rel.R, t)) /\ pc'[t] \in {"built", "probe"}
      BY <2>2 DEF BuildDone, Typed, ThreadTypes
    <3> QED
      BY <1>2, <3>1 DEF InsertedBy
  <2>3. CASE ProbeTuple(t) \/ ProbeBucket(t) \/ ProbeDone(t) \/ free_bucket_buffer(t)
    <3>1. /\ ~ (pc[t] = "build" \/ pc[t] \in Critical)
          /\ ~ (pc'[t] = "build" \/ pc'[t] \in Critical)
      BY <2>3 DEF ProbeTuple, ProbeBucket, ProbeDone, free_bucket_buffer, Typed, ThreadTypes
    <3> QED
      BY <1>2, <3>1 DEF InsertedBy
  <2> QED
    BY <2>1, <2>2, <2>3 DEF Thread
<1>4. ASSUME NEW u \in Running PROVE InsertedBy(u)' = InsertedBy(u)
  BY <1>1, <1>2, <1>3, SomeRun DEF InsertedBy
<1> QED
  BY <1>1, <1>2, <1>4 DEF Inserted

(* Place k of bucket x holds a tuple.                                      *)
FilledAt(x, k) ==
    /\ x \in DOMAIN mem /\ k \in 0 .. BUCKET_SIZE - 1 /\ k < mem[x].count
    /\ \A u \in Threads : pc[u] = "store" => ~ (dest[u].bucket = x /\ dest[u].n = k)

FilledPoints ==
    /\ \A x, k : <<x, k>> \in Filled <=> FilledAt(x, k)
    /\ \A d \in Filled : d = <<d[1], d[2]>>

(* That is what Filled says.                                               *)
LEMMA FilledIs == FilledPoints
<1>1. ASSUME NEW x, NEW k PROVE <<x, k>> \in Filled <=> FilledAt(x, k)
  BY DEF Filled, FilledAt
<1> QED
  BY <1>1 DEF Filled, FilledPoints

(* A step that fills no place, and one that fills place n of bucket d.     *)
LEMMA SameFilled ==
    ASSUME \A x, k : FilledAt(x, k)' <=> FilledAt(x, k)
    PROVE  Filled' = Filled
<1>1. FilledPoints /\ FilledPoints'
  BY FilledIs, PTL
<1> QED
  BY <1>1 DEF FilledPoints

(* The place is then new in Filled.                                        *)
LEMMA OneMoreFilled ==
    ASSUME NEW d, NEW n, ~ FilledAt(d, n),
           \A x, k : FilledAt(x, k)' <=> FilledAt(x, k) \/ (x = d /\ k = n)
    PROVE  <<d, n>> \notin Filled /\ Filled' = Filled \cup {<<d, n>>}
<1>1. FilledPoints /\ FilledPoints'
  BY FilledIs, PTL
<1>2. \A x, k : <<x, k>> \in Filled' <=> <<x, k>> \in Filled \cup {<<d, n>>}
  BY <1>1 DEF FilledPoints
<1>3. \A e \in Filled' : e = <<e[1], e[2]>>
  BY <1>1 DEF FilledPoints
<1>4. \A e \in Filled \cup {<<d, n>>} : e = <<e[1], e[2]>>
  BY <1>1 DEF FilledPoints
<1> QED
  BY <1>1, <1>2, <1>3, <1>4 DEF FilledPoints

(* Counting a place does not fill it: the thread has yet to store there.   *)
LEMMA CountFillsNothing ==
    ASSUME Typed, NEW t \in Threads, CountTuple(t)
    PROVE  Filled' = Filled /\ \A e \in Filled : TupleAt(e)' = TupleAt(e)
<1> DEFINE d == dest[t].bucket
           n == dest[t].n
<1>1. /\ pc[t] = "count" /\ pc' = [pc EXCEPT ![t] = "store"] /\ dest' = dest
      /\ pc \in [Threads -> Labels]
  BY DEF CountTuple, Goto, Typed, ThreadTypes
<1>2. d \in DOMAIN mem /\ n \in 0 .. BUCKET_SIZE - 1 /\ mem[d].count = n
  BY <1>1, DestIsBucket
<1>3. /\ DOMAIN mem' = DOMAIN mem
      /\ \A x \in DOMAIN mem : /\ mem'[x].count = mem[x].count + IF x = d THEN 1 ELSE 0
                               /\ mem'[x].tuples = mem[x].tuples
      /\ \A x \in DOMAIN mem : mem[x].count \in Nat
  BY CountEffect DEF SamePointers, Typed, BucketTypes
<1>4. \A u \in Threads : pc'[u] = "store" <=> pc[u] = "store" \/ u = t
  BY <1>1
<1> HIDE DEF d, n
<1>5. ASSUME NEW x, NEW k PROVE FilledAt(x, k)' <=> FilledAt(x, k)
  <2>1. (k \in Nat /\ x \in DOMAIN mem) => (k < mem'[x].count <=> k < mem[x].count \/ (x = d /\ k = n))
    BY <1>2, <1>3
  <2>2. (\A u \in Threads : pc'[u] = "store" => ~ (dest[u].bucket = x /\ dest[u].n = k))
        <=> /\ \A u \in Threads : pc[u] = "store" => ~ (dest[u].bucket = x /\ dest[u].n = k)
            /\ ~ (x = d /\ k = n)
    BY <1>4 DEF d, n
  <2>3. k \in Nat /\ x \in DOMAIN mem /\ x = d /\ k = n => ~ (k < mem[x].count)
    BY <1>2
  <2>4. k \in 0 .. BUCKET_SIZE - 1 => k \in Nat
    OBVIOUS
  <2> QED
    BY <1>1, <1>3, <2>1, <2>2, <2>3, <2>4 DEF FilledAt
<1>6. ASSUME NEW e \in Filled PROVE TupleAt(e)' = TupleAt(e)
  BY <1>3 DEF TupleAt, Filled
<1> QED
  BY <1>5, <1>6, SameFilled

(* Nor does linking a new bucket, in which one place is counted.           *)
LEMMA OverflowFillsNothing ==
    ASSUME Typed, NEW t \in Threads, Overflow(t)
    PROVE  Filled' = Filled /\ \A e \in Filled : TupleAt(e)' = TupleAt(e)
<1> DEFINE new == NewBucket(t)
<1>1. /\ pc[t] = "choose" /\ pc' = [pc EXCEPT ![t] = "store"]
      /\ pc \in [Threads -> Labels]
  BY DEF Overflow, Goto, Typed, ThreadTypes
<1>2. /\ DOMAIN mem' = DOMAIN mem \cup {new} /\ new \notin DOMAIN mem
      /\ \A x \in DOMAIN mem : mem'[x].count = mem[x].count /\ mem'[x].tuples = mem[x].tuples
      /\ mem'[new].count = 1 /\ dest' = [dest EXCEPT ![t] = [bucket |-> new, n |-> 0]]
  BY OverflowEffect DEF LinkedBehind
<1>3. /\ \A u \in Threads \ {t} : dest'[u] = dest[u]
      /\ dest'[t].bucket = new /\ dest'[t].n = 0
  BY <1>2 DEF Typed, ThreadTypes
<1>4. \A u \in Threads : pc'[u] = "store" <=> pc[u] = "store" \/ u = t
  BY <1>1
<1>5. \A u \in Threads : pc[u] = "store" => dest[u].bucket \in DOMAIN mem
  BY DestIsBucket
<1> HIDE DEF new
<1>6. ASSUME NEW x, NEW k PROVE FilledAt(x, k)' <=> FilledAt(x, k)
  <2>1. CASE x = new
    <3>1. ~ FilledAt(x, k)
      BY <1>2, <2>1 DEF FilledAt
    <3>2. k \in 0 .. BUCKET_SIZE - 1 /\ k < 1 => k = 0
      OBVIOUS
    <3>3. ~ FilledAt(x, k)'
      BY <1>2, <1>3, <1>4, <2>1, <3>2 DEF FilledAt
    <3> QED
      BY <3>1, <3>3
  <2>2. CASE x # new
    <3>1. \A u \in Threads : (pc'[u] = "store" => ~ (dest'[u].bucket = x /\ dest'[u].n = k))
                             <=> (pc[u] = "store" => ~ (dest[u].bucket = x /\ dest[u].n = k))
      BY <1>1, <1>3, <1>4, <2>2
    <3>2. x \in DOMAIN mem' <=> x \in DOMAIN mem
      BY <1>2, <2>2
    <3> QED
      BY <1>2, <3>1, <3>2 DEF FilledAt
  <2> QED
    BY <2>1, <2>2
<1>7. ASSUME NEW e \in Filled PROVE TupleAt(e)' = TupleAt(e)
  BY <1>2 DEF TupleAt, Filled
<1> QED
  BY <1>6, <1>7, SameFilled

(* The store fills the place that the thread has reserved, and no other.   *)
LEMMA StoreFillsDest ==
    ASSUME Typed, NEW own, NEW dist, Chains(own, dist), NEW t \in Threads, StoreTuple(t)
    PROVE  /\ StoredAt(<<dest[t].bucket, dest[t].n>>, Position(rel.R, t))
           /\ own[dest[t].bucket] = Curr(t) /\ dest[t].bucket \in DOMAIN mem
<1> DEFINE d == dest[t].bucket
           n == dest[t].n
           p == Position(rel.R, t)
<1>1. /\ pc[t] = "store" /\ pc' = [pc EXCEPT ![t] = "build"] /\ dest' = dest
      /\ pc \in [Threads -> Labels]
  BY DEF StoreTuple, Goto, Typed, ThreadTypes
<1>2. d \in DOMAIN mem /\ n \in 0 .. BUCKET_SIZE - 1 /\ mem[d].count = n + 1
  BY <1>1, DestIsBucket
<1>3. /\ DOMAIN mem' = DOMAIN mem
      /\ \A x \in DOMAIN mem :
            /\ mem'[x].count = mem[x].count
            /\ \A k \in 0 .. BUCKET_SIZE - 1 :
                  mem'[x].tuples[k] = IF x = d /\ k = n THEN p ELSE mem[x].tuples[k]
  BY StoreEffect DEF SamePointers
<1>4. \A u \in Threads : pc'[u] = "store" <=> pc[u] = "store" /\ u # t
  BY <1>1
<1>5. ASSUME NEW u \in Threads \ {t}, pc[u] = "store" PROVE dest[u].bucket # d
  <2>1. /\ pc[t] \in Critical /\ pc[u] \in Critical
        /\ d \in {Curr(t), mem[Curr(t)].next} \ {NULL}
        /\ dest[u].bucket \in {Curr(u), mem[Curr(u)].next} \ {NULL}
    BY <1>1, <1>5 DEF Critical, Typed, Reserved
  <2>2. Curr(t) # Curr(u) /\ Curr(t) \in Table /\ Curr(u) \in Table
    BY <2>1, InCritical DEF Typed, Exclusion
  <2> QED
    BY <2>1, <2>2, ChainsApart DEF Typed
<1>6. own[d] = Curr(t)
  <2>1. /\ d \in {Curr(t), mem[Curr(t)].next} \ {NULL}
        /\ Curr(t) \in Table /\ Curr(t) \in DOMAIN mem
    BY <1>1, InCritical DEF Critical, Typed, Reserved
  <2> QED
    BY <2>1 DEF Chains
<1>7. /\ p \in DOMAIN rel.R /\ p \notin Inserted /\ Inserted' = Inserted \cup {p}
  BY InsertedGrows
<1> HIDE DEF d, n, p
<1>8. ~ FilledAt(d, n)
  BY <1>1 DEF FilledAt, d, n
<1>9. ASSUME NEW x, NEW k PROVE FilledAt(x, k)' <=> FilledAt(x, k) \/ (x = d /\ k = n)
  <2>1. CASE x = d /\ k = n
    <3>1. \A u \in Threads : pc'[u] = "store" => ~ (dest'[u].bucket = x /\ dest'[u].n = k)
      BY <1>1, <1>4, <1>5, <2>1
    <3>2. k < mem'[x].count
      BY <1>2, <1>3, <2>1
    <3> QED
      BY <1>2, <1>3, <2>1, <3>1, <3>2 DEF FilledAt
  <2>2. CASE ~ (x = d /\ k = n)
    <3>1. \A u \in Threads : (pc'[u] = "store" => ~ (dest'[u].bucket = x /\ dest'[u].n = k))
                             <=> (pc[u] = "store" => ~ (dest[u].bucket = x /\ dest[u].n = k))
      BY <1>1, <1>4, <2>2 DEF d, n
    <3> QED
      BY <1>3, <2>2, <3>1 DEF FilledAt
  <2> QED
    BY <2>1, <2>2
<1>10. <<d, n>> \notin Filled /\ Filled' = Filled \cup {<<d, n>>}
  BY <1>8, <1>9, OneMoreFilled
<1>11. mem'[d].tuples[n] = p
  BY <1>2, <1>3
<1>12. ASSUME NEW e \in Filled PROVE TupleAt(e)' = TupleAt(e)
  <2>1. /\ e[1] \in DOMAIN mem /\ e[2] \in 0 .. BUCKET_SIZE - 1
        /\ ~ (e[1] = d /\ e[2] = n)
    BY <1>1 DEF Filled, d, n
  <2> QED
    BY <1>3, <2>1 DEF TupleAt
<1>13. StoredAt(<<d, n>>, p)
  BY <1>7, <1>10, <1>11, <1>12 DEF StoredAt
<1> QED
  BY <1>2, <1>6, <1>13 DEF d, n, p

(* NPO_st has no latches, no reserved places and no other thread.          *)
LEMMA SerialFillsPlace ==
    ASSUME Typed, NEW own, NEW dist, Chains(own, dist), NEW t \in Threads, InsertSerially(t),
           HasRoom(SerialPlace(t))
    PROVE  /\ StoredAt(<<SerialPlace(t), mem[SerialPlace(t)].count>>, Position(rel.R, t))
           /\ own[SerialPlace(t)] = Curr(t) /\ SerialPlace(t) \in DOMAIN mem
<1> DEFINE d == SerialPlace(t)
           n == mem[d].count
           p == Position(rel.R, t)
<1>1. pc' = pc /\ dest' = dest /\ \A u \in Threads : pc[u] # "store"
  BY InsertingSerially DEF InsertSerially, Critical
<1>2. d \in DOMAIN mem /\ n \in 0 .. BUCKET_SIZE - 1
  BY SerialRoomEffect
<1>3. /\ DOMAIN mem' = DOMAIN mem
      /\ \A x \in DOMAIN mem :
            /\ mem'[x].count = mem[x].count + IF x = d THEN 1 ELSE 0
            /\ \A k \in 0 .. BUCKET_SIZE - 1 :
                  mem'[x].tuples[k] = IF x = d /\ k = mem[x].count THEN p ELSE mem[x].tuples[k]
      /\ \A x \in DOMAIN mem : mem[x].count \in Nat
  BY SerialRoomEffect DEF SamePointers, Typed, BucketTypes
<1>4. own[d] = Curr(t)
  BY <1>2, InsertingSerially DEF SerialPlace, Chains, HasRoom, Typed, BucketTypes
<1>5. /\ p \in DOMAIN rel.R /\ p \notin Inserted /\ Inserted' = Inserted \cup {p}
  BY InsertedGrows
<1>6. mem[d].count = n
  OBVIOUS
<1> HIDE DEF d, n, p
<1>7. ~ FilledAt(d, n)
  BY <1>2, <1>6 DEF FilledAt
<1>8. ASSUME NEW x, NEW k PROVE FilledAt(x, k)' <=> FilledAt(x, k) \/ (x = d /\ k = n)
  <2>1. k \in 0 .. BUCKET_SIZE - 1 /\ x \in DOMAIN mem =>
           (k < mem'[x].count <=> k < mem[x].count \/ (x = d /\ k = n))
    BY <1>2, <1>3, <1>6
  <2> QED
    BY <1>1, <1>2, <1>3, <2>1 DEF FilledAt
<1>9. <<d, n>> \notin Filled /\ Filled' = Filled \cup {<<d, n>>}
  BY <1>7, <1>8, OneMoreFilled
<1>10. mem'[d].tuples[n] = p
  BY <1>2, <1>3, <1>6
<1>11. ASSUME NEW e \in Filled PROVE TupleAt(e)' = TupleAt(e)
  <2>1. e[1] \in DOMAIN mem /\ e[2] \in 0 .. BUCKET_SIZE - 1 /\ e[2] < mem[e[1]].count
    BY DEF Filled
  <2>2. ~ (e[1] = d /\ e[2] = mem[e[1]].count)
    BY <1>3, <2>1
  <2> QED
    BY <1>3, <2>1, <2>2 DEF TupleAt
<1>12. StoredAt(<<d, n>>, p)
  BY <1>5, <1>9, <1>10, <1>11 DEF StoredAt
<1> QED
  BY <1>2, <1>4, <1>12 DEF d, n, p

(* The first place of the bucket from the heap.                            *)
LEMMA SerialFillsNew ==
    ASSUME Typed, NEW t \in Threads, InsertSerially(t), ~ HasRoom(SerialPlace(t))
    PROVE  StoredAt(<<HeapBucket, 0>>, Position(rel.R, t))
<1> DEFINE new == HeapBucket
           p == Position(rel.R, t)
<1>1. pc' = pc /\ dest' = dest /\ \A u \in Threads : pc[u] # "store"
  BY InsertingSerially DEF InsertSerially, Critical
<1>2. /\ DOMAIN mem' = DOMAIN mem \cup {new} /\ new \notin DOMAIN mem
      /\ \A x \in DOMAIN mem : mem'[x].count = mem[x].count /\ mem'[x].tuples = mem[x].tuples
      /\ mem'[new].count = 1 /\ mem'[new].tuples[0] = p
  BY SerialNewEffect DEF LinkedBehind
<1>3. /\ p \in DOMAIN rel.R /\ p \notin Inserted /\ Inserted' = Inserted \cup {p}
  BY InsertedGrows
<1> HIDE DEF new, p
<1>5. ~ FilledAt(new, 0)
  BY <1>2 DEF FilledAt
<1>6. ASSUME NEW x, NEW k PROVE FilledAt(x, k)' <=> FilledAt(x, k) \/ (x = new /\ k = 0)
  <2>1. CASE x = new
    <3>1. 0 \in 0 .. BUCKET_SIZE - 1 /\ 0 < mem'[x].count
      BY <1>2, <2>1, BucketsAssumption
    <3>2. k \in 0 .. BUCKET_SIZE - 1 /\ k < mem'[x].count => k = 0
      BY <1>2, <2>1
    <3> QED
      BY <1>1, <1>2, <2>1, <3>1, <3>2 DEF FilledAt
  <2>2. CASE x # new
    BY <1>1, <1>2, <2>2 DEF FilledAt
  <2> QED
    BY <2>1, <2>2
<1>7. <<new, 0>> \notin Filled /\ Filled' = Filled \cup {<<new, 0>>}
  BY <1>5, <1>6, OneMoreFilled
<1>8. ASSUME NEW e \in Filled PROVE TupleAt(e)' = TupleAt(e)
  <2>1. e[1] \in DOMAIN mem
    BY DEF Filled
  <2> QED
    BY <1>2, <2>1 DEF TupleAt
<1> QED
  BY <1>2, <1>3, <1>7, <1>8 DEF StoredAt, new, p

(* Who stores nothing leaves the table in order, and so does who stores a  *)
(* tuple in the chain of its key.                                          *)
LEMMA StorageKept ==
    ASSUME NEW own, Storage(own), NEW own2, \A x \in DOMAIN mem : own2[x] = own[x],
           NothingStored, rel' = rel
    PROVE  Storage(own2)'
<1>1. Filled' = Filled /\ Inserted' = Inserted /\ \A d \in Filled : TupleAt(d)' = TupleAt(d)
  BY DEF NothingStored
<1>2. num_buckets' = num_buckets
  BY DEF num_buckets
<1>3. \A d \in Filled : own2[d[1]] = own[d[1]]
  BY DEF Filled
<1>4. ASSUME NEW d \in Filled
      PROVE  TupleAt(d)' \in Inserted /\ own2[d[1]] = HASH(rel.R[TupleAt(d)])'
  <2>1. TupleAt(d) \in Inserted /\ own[d[1]] = HASH(rel.R[TupleAt(d)])
    BY DEF Storage
  <2> QED
    BY <1>1, <1>2, <1>3, <2>1 DEF HASH
<1>5. \A d, e \in Filled : TupleAt(d)' = TupleAt(e)' => d = e
  BY <1>1 DEF Storage
<1>6. \A p \in Inserted : \E d \in Filled : TupleAt(d)' = p
  BY <1>1 DEF Storage
<1> QED
  BY <1>1, <1>4, <1>5, <1>6 DEF Storage

(* The new tuple is in one place, and nothing else was there.              *)
LEMMA StorageExtended ==
    ASSUME NEW own, Storage(own), NEW own2, \A x \in DOMAIN mem : own2[x] = own[x],
           NEW d, NEW p, StoredAt(d, p), own2[d[1]] = HASH(rel.R[p]), rel' = rel
    PROVE  Storage(own2)'
<1>1. /\ d \notin Filled /\ Filled' = Filled \cup {d} /\ p \notin Inserted
      /\ Inserted' = Inserted \cup {p}
      /\ TupleAt(d)' = p /\ \A e \in Filled : TupleAt(e)' = TupleAt(e)
  BY DEF StoredAt, TupleAt
<1>2. num_buckets' = num_buckets
  BY DEF num_buckets
<1>3. \A e \in Filled : own2[e[1]] = own[e[1]]
  BY DEF Filled
<1>4. ASSUME NEW e \in Filled'
      PROVE  TupleAt(e)' \in Inserted' /\ own2[e[1]] = HASH(rel.R[TupleAt(e)])'
  <2>1. CASE e = d
    BY <1>1, <1>2, <2>1 DEF HASH
  <2>2. CASE e \in Filled
    <3>1. TupleAt(e) \in Inserted /\ own[e[1]] = HASH(rel.R[TupleAt(e)])
      BY <2>2 DEF Storage
    <3>2. TupleAt(e)' = TupleAt(e)
      BY <1>1, <2>2
    <3> QED
      BY <1>1, <1>2, <1>3, <2>2, <3>1, <3>2 DEF HASH
  <2> QED
    BY <1>1, <2>1, <2>2
<1>5. ASSUME NEW e \in Filled', NEW f \in Filled', TupleAt(e)' = TupleAt(f)' PROVE e = f
  <2>1. \A g \in Filled : TupleAt(g)' # p
    BY <1>1 DEF Storage
  <2> QED
    BY <1>1, <1>5, <2>1 DEF Storage
<1>6. ASSUME NEW q \in Inserted' PROVE \E e \in Filled' : TupleAt(e)' = q
  BY <1>1 DEF Storage
<1> QED
  BY <1>4, <1>5, <1>6 DEF Storage

(* Chains and their contents after a thread's step.                        *)
LEMMA TableStep ==
    ASSUME Typed, NEW own, NEW dist, Chains(own, dist), Storage(own), NEW t \in Threads, Thread(t)
    PROVE  \E own2, dist2 :
              /\ Chains(own2, dist2)' /\ Storage(own2)'
              /\ pc[t] \in {"probe", "bucket", "free"} => own2 = own /\ dist2 = dist
<1>1. rel' = rel /\ alg' = alg /\ Table' = Table /\ BucketTypes
  BY ThreadStep, InputStays DEF Typed
<1>2. CASE CountTuple(t)
  <2>1. Chains(own, dist)'
    BY <1>1, <1>2, CountEffect, ChainsKept
  <2>2. NothingStored
    BY <1>2, CountFillsNothing, InsertedStays DEF NothingStored, CountTuple, StoreTuple, InsertSerially
  <2>3. Storage(own)'
    BY <1>1, <2>2, StorageKept
  <2> QED
    BY <2>1, <2>3
<1>3. CASE Overflow(t)
  <2>1. PICK own2, dist2 : /\ Chains(own2, dist2)'
                           /\ \A x \in DOMAIN mem : own2[x] = own[x]
    BY <1>1, <1>3, OverflowEffect, NewIsNew, ChainsExtended
  <2>2. NothingStored
    BY <1>3, OverflowFillsNothing, InsertedStays DEF NothingStored, Overflow, StoreTuple, InsertSerially
  <2>3. Storage(own2)'
    BY <1>1, <2>1, <2>2, StorageKept
  <2>4. pc[t] = "choose"
    BY <1>3 DEF Overflow
  <2> QED
    BY <2>1, <2>3, <2>4
<1>4. CASE StoreTuple(t)
  <2>1. Chains(own, dist)'
    BY <1>1, <1>4, StoreEffect, ChainsKept
  <2>2. PICK d : d = <<dest[t].bucket, dest[t].n>>
    OBVIOUS
  <2>3. StoredAt(d, Position(rel.R, t)) /\ own[d[1]] = HASH(rel.R[Position(rel.R, t)])
    BY <1>4, <2>2, StoreFillsDest DEF Curr
  <2>4. Storage(own)'
    BY <1>1, <2>3, StorageExtended
  <2> QED
    BY <2>1, <2>4
<1>5. CASE InsertSerially(t) /\ HasRoom(SerialPlace(t))
  <2>1. Chains(own, dist)'
    BY <1>1, <1>5, SerialRoomEffect, ChainsKept
  <2>2. PICK d : d = <<SerialPlace(t), mem[SerialPlace(t)].count>>
    OBVIOUS
  <2>3. StoredAt(d, Position(rel.R, t)) /\ own[d[1]] = HASH(rel.R[Position(rel.R, t)])
    BY <1>5, <2>2, SerialFillsPlace DEF Curr
  <2>4. Storage(own)'
    BY <1>1, <2>3, StorageExtended
  <2> QED
    BY <2>1, <2>4
<1>6. CASE InsertSerially(t) /\ ~ HasRoom(SerialPlace(t))
  <2>1. PICK new : new = HeapBucket
    OBVIOUS
  <2>2. PICK own2, dist2 : /\ Chains(own2, dist2)' /\ own2[new] = Curr(t)
                           /\ \A x \in DOMAIN mem : own2[x] = own[x]
    BY <1>1, <1>6, <2>1, SerialNewEffect, ChainsExtended
  <2>3. PICK d : d = <<new, 0>>
    OBVIOUS
  <2>4. StoredAt(d, Position(rel.R, t)) /\ own2[d[1]] = HASH(rel.R[Position(rel.R, t)])
    BY <1>6, <2>1, <2>2, <2>3, SerialFillsNew DEF Curr
  <2>5. Storage(own2)'
    BY <1>1, <2>2, <2>4, StorageExtended
  <2>6. pc[t] = "build"
    BY <1>6 DEF InsertSerially
  <2> QED
    BY <2>2, <2>5, <2>6
<1>7. CASE Latch(t) \/ ChoosePlace(t) \/ BuildDone(t) \/ ProbeTuple(t) \/ ProbeBucket(t) \/ ProbeDone(t)
           \/ free_bucket_buffer(t)
  <2>1. /\ mem' = mem /\ pc[t] # "store" /\ pc'[t] # "store"
        /\ ~ StoreTuple(t) /\ ~ InsertSerially(t)
    <3>1. CASE Latch(t) \/ ChoosePlace(t) \/ BuildDone(t)
      BY <3>1 DEF Latch, ChoosePlace, BuildDone, StoreTuple, InsertSerially,
                  Goto, buildVars, Typed, ThreadTypes
    <3>2. CASE ProbeTuple(t) \/ ProbeBucket(t) \/ ProbeDone(t) \/ free_bucket_buffer(t)
      BY <3>2 DEF ProbeTuple, ProbeBucket, ProbeDone, free_bucket_buffer, StoreTuple, InsertSerially,
                  Goto, buildVars, Typed, ThreadTypes
    <3> QED
      BY <1>7, <3>1, <3>2
  <2>2. \A u \in Threads \ {t} : pc'[u] = pc[u] /\ dest'[u] = dest[u]
    BY ThreadStep DEF Typed
  <2>3. \A u \in Threads : /\ pc'[u] = "store" <=> pc[u] = "store"
                           /\ pc[u] = "store" => dest'[u] = dest[u]
    BY <2>1, <2>2
  <2>4. Filled' = Filled /\ \A d \in Filled : TupleAt(d)' = TupleAt(d)
    <3>1. Filled' = Filled
      BY <2>1, <2>3 DEF Filled
    <3> QED
      BY <2>1, <3>1 DEF TupleAt
  <2>5. NothingStored
    BY <2>1, <2>4, InsertedStays DEF NothingStored
  <2>6. Storage(own)'
    BY <1>1, <2>5, StorageKept
  <2>7. SamePointers
    BY <2>1 DEF SamePointers, Typed, BucketTypes
  <2>8. Chains(own, dist)'
    BY <1>1, <2>7, ChainsKept
  <2> QED
    BY <2>6, <2>8
<1> QED
  BY <1>2, <1>3, <1>4, <1>5, <1>6, <1>7 DEF Thread

(* Steps of all threads, or of none: the barrier, and main collecting what *)
(* threads have found.  Nobody stores anything or moves on in its chunk.   *)
GoOn ==
    /\ pc' = [t \in Threads |-> pc'[t]]
    /\ \A t \in Threads : \/ pc'[t] = pc[t]
                          \/ pc[t] = "built" /\ pc'[t] = "probe"
                          \/ pc[t] = "probed" /\ pc'[t] = "free"
    /\ UNCHANGED <<alg, rel, i, latch, mem, dest, overflowbuf, b, matches, chainedbuf>>

(* All these steps are of that kind.                                       *)
LEMMA JointStepIs ==
    ASSUME Typed, UNCHANGED vars \/ ReleaseBarrier \/ CollectResult \/ write_result_relation
    PROVE  GoOn
<1>1. pc = [t \in Threads |-> pc[t]]
  BY DEF Typed, ThreadTypes
<1>2. CASE UNCHANGED vars \/ CollectResult \/ write_result_relation
  BY <1>1, <1>2 DEF GoOn, vars, CollectResult, write_result_relation, constVars, buildVars, probeVars
<1>3. CASE ReleaseBarrier
  <2>1. \A t \in Threads : pc[t] = "built" \/ pc[t] = "probed"
    BY <1>3 DEF ReleaseBarrier, Waiting
  <2>2. pc' = [t \in Threads |-> IF pc[t] = "built" THEN "probe" ELSE "free"]
    BY <1>3 DEF ReleaseBarrier, Leave
  <2> QED
    BY <1>3, <2>1, <2>2 DEF GoOn, ReleaseBarrier, Leave, constVars, buildVars, probeVars
<1> QED
  BY <1>2, <1>3

(* They keep the types, the latches and the reserved places ...            *)
LEMMA JointTypes ==
    ASSUME Typed, GoOn
    PROVE  ThreadTypes' /\ BucketTypes' /\ Exclusion' /\ Reserved' /\ HandedOut'
<1>1. /\ rel' = rel /\ alg' = alg /\ i' = i /\ latch' = latch /\ mem' = mem /\ dest' = dest
      /\ overflowbuf' = overflowbuf /\ b' = b
  BY DEF GoOn
<1>2. /\ nthreads' = nthreads /\ Running' = Running /\ Table' = Table
      /\ \A t : Chunk(rel.R, t)' = Chunk(rel.R, t) /\ Chunk(rel.S, t)' = Chunk(rel.S, t)
  BY <1>1, InputStays
<1>3. \A t \in Threads : /\ pc'[t] = pc[t] \/ (pc[t] = "built" /\ pc'[t] = "probe")
                            \/ (pc[t] = "probed" /\ pc'[t] = "free")
                         /\ pc'[t] \in Critical <=> pc[t] \in Critical
                         /\ pc'[t] = pc[t] \/ pc[t] \notin Critical
  BY DEF GoOn, Critical
<1>4. ThreadTypes'
  <2>1. ASSUME NEW t \in Threads PROVE pc'[t] \in Labels /\ (pc'[t] = "absent" <=> pc[t] = "absent")
    BY <1>3 DEF Typed, ThreadTypes, Labels
  <2>2. pc' \in [Threads -> Labels]
    BY <2>1 DEF GoOn
  <2>3. ASSUME NEW t \in Running PROVE Progress(t)'
    <3>1. Progress(t) /\ i[t] \in Nat /\ t \in Threads
      BY SomeRun DEF Typed, ThreadTypes
    <3>2. Len(Chunk(rel.S, t)) \in Nat
      BY ChunkIsRange, RelationFacts DEF Typed, ThreadTypes
    <3>3. CASE pc'[t] = pc[t]
      BY <1>1, <1>2, <3>1, <3>3 DEF Progress
    <3>4. CASE pc[t] = "built" /\ pc'[t] = "probe"
      BY <1>1, <1>2, <3>1, <3>2, <3>4 DEF Progress, Critical
    <3>5. CASE pc[t] = "probed" /\ pc'[t] = "free"
      BY <1>1, <1>2, <3>1, <3>5 DEF Progress, Critical
    <3> QED
      BY <1>3, <3>1, <3>3, <3>4, <3>5
  <2> QED
    BY <1>1, <1>2, <2>1, <2>2, <2>3 DEF Typed, ThreadTypes
<1>5. BucketTypes'
  BY <1>1, <1>2 DEF Typed, BucketTypes
<1>6. \A t : Curr(t)' = Curr(t)
  BY <1>1, CurrStays
<1>7. Exclusion'
  BY <1>1, <1>3, <1>6 DEF Typed, Exclusion
<1>8. Reserved'
  <2>1. ASSUME NEW t \in Threads, pc'[t] \in {"count", "store"} PROVE pc'[t] = pc[t]
    BY <1>3, <2>1
  <2> QED
    BY <1>1, <1>6, <2>1 DEF Typed, Reserved
<1>9. HandedOut'
  BY <1>1, <1>2 DEF Typed, HandedOut
<1> QED
  BY <1>4, <1>5, <1>7, <1>8, <1>9

(* ... and the chains, what is stored in them, and what was found.         *)
LEMMA JointStructure ==
    ASSUME Typed, GoOn, NEW own, NEW dist, Chains(own, dist), Storage(own), Counting(own, dist)
    PROVE  Chains(own, dist)' /\ Storage(own)' /\ Counting(own, dist)'
<1>1. /\ rel' = rel /\ alg' = alg /\ i' = i /\ mem' = mem /\ dest' = dest /\ b' = b
      /\ matches' = matches /\ chainedbuf' = chainedbuf
  BY DEF GoOn
<1>2. /\ Running' = Running /\ Table' = Table /\ EqualPairs' = EqualPairs
      /\ \A t : Chunk(rel.R, t)' = Chunk(rel.R, t) /\ Chunk(rel.S, t)' = Chunk(rel.S, t)
      /\ \A t : Offset(rel.R, t)' = Offset(rel.R, t) /\ Offset(rel.S, t)' = Offset(rel.S, t)
      /\ \A key : HASH(key)' = HASH(key)
  BY <1>1, InputStays
<1>3. \A t \in Threads : \/ pc'[t] = pc[t]
                         \/ pc[t] = "built" /\ pc'[t] = "probe"
                         \/ pc[t] = "probed" /\ pc'[t] = "free"
  BY DEF GoOn
<1>4. SamePointers
  BY <1>1 DEF SamePointers, Typed, BucketTypes
<1>5. Chains(own, dist)'
  BY <1>2, <1>4, ChainsKept
<1>6. Filled' = Filled /\ \A d \in Filled : TupleAt(d)' = TupleAt(d)
  <2>1. \A t \in Threads : pc'[t] = "store" <=> pc[t] = "store"
    BY <1>3
  <2>2. Filled' = Filled
    BY <1>1, <2>1 DEF Filled
  <2> QED
    BY <1>1, <2>2 DEF TupleAt
<1>7. Inserted' = Inserted
  <2>1. \A t \in Running : InsertedBy(t)' = InsertedBy(t)
    BY <1>1, <1>2, <1>3, SomeRun DEF InsertedBy, Critical
  <2> QED
    BY <1>1, <1>2, <2>1 DEF Inserted
<1>8. Storage(own)'
  <2>1. NothingStored
    BY <1>6, <1>7 DEF NothingStored
  <2> QED
    BY <1>1, <2>1, StorageKept
<1>9. Counting(own, dist)'
  <2>1. ASSUME NEW t \in Running
        PROVE  /\ Probed(t)' = Probed(t) /\ (pc'[t] = "bucket" <=> pc[t] = "bucket")
               /\ t \in Threads
    <3>1. Progress(t) /\ t \in Threads
      BY SomeRun DEF Typed, ThreadTypes
    <3>2. CASE pc[t] = "built" /\ pc'[t] = "probe"
      BY <1>1, <3>1, <3>2 DEF Probed, Progress
    <3>3. CASE pc[t] # "built"
      BY <1>1, <1>3, <3>1, <3>3 DEF Probed
    <3> QED
      BY <1>1, <1>3, <3>1, <3>2, <3>3 DEF Probed
  <2>2. \A x : Before(own, dist, x)' = Before(own, dist, x)
    BY <1>6 DEF Before
  <2>3. ASSUME NEW t \in Running PROVE Found(own, dist, t)' = Found(own, dist, t)
    <3>1. Position(rel.S, t)' = Position(rel.S, t)
      BY <1>1, <1>2 DEF Position, nthreads
    <3>2. \A e \in Before(own, dist, b[t]) : TupleAt(e)' = TupleAt(e)
      BY <1>6 DEF Before
    <3>3. Before(own, dist, b[t])' = Before(own, dist, b[t])
      BY <1>1, <1>6 DEF Before
    <3>4. Offset(rel.S, t)' = Offset(rel.S, t) /\ Probed(t)' = Probed(t)
          /\ (pc'[t] = "bucket" <=> pc[t] = "bucket")
      BY <1>2, <2>1
    <3> QED
      BY <1>2, <3>1, <3>2, <3>3, <3>4 DEF Found
  <2>4. ASSUME NEW t \in Running, pc'[t] = "bucket"
        PROVE  own[b'[t]] = HASH(ProbeKey(t))'
    <3>1. own[b[t]] = HASH(ProbeKey(t))
      BY <2>1, <2>4 DEF Counting
    <3>2. ProbeKey(t)' = ProbeKey(t)
      BY <1>1, <1>2 DEF ProbeKey
    <3>3. HASH(ProbeKey(t))' = HASH(ProbeKey(t))
      BY <1>1, <3>2 DEF HASH, num_buckets
    <3> QED
      BY <1>1, <3>1, <3>3
  <2> QED
    BY <1>1, <1>2, <2>3, <2>4 DEF Counting
<1> QED
  BY <1>5, <1>8, <1>9

(* The count of the matches.  While the table is built nobody has found    *)
(* anything.                                                               *)
LEMMA NothingFound ==
    ASSUME NEW own, NEW dist, NEW t, Probed(t) = 0, pc[t] # "bucket"
    PROVE  Found(own, dist, t) = {}
  BY DEF Found

(* There are finitely many pairs to find.                                  *)
LEMMA FoundFinite ==
    ASSUME rel \in Relations
    PROVE  /\ IsFiniteSet(EqualPairs)
           /\ \A own, dist, t : IsFiniteSet(Found(own, dist, t)) /\ Found(own, dist, t) \subseteq EqualPairs
<1>1. IsFiniteSet(DOMAIN rel.R) /\ IsFiniteSet(DOMAIN rel.S)
  <2>1. DOMAIN rel.R = 1 .. Len(rel.R) /\ DOMAIN rel.S = 1 .. Len(rel.S)
        /\ Len(rel.R) \in Nat /\ Len(rel.S) \in Nat
    BY RelationFacts
  <2>2. \A n \in Nat : IsFiniteSet(1 .. n)
    BY FS_Interval
  <2> QED
    BY <2>1, <2>2
<1>2. IsFiniteSet((DOMAIN rel.R) \X (DOMAIN rel.S))
  BY <1>1, FS_Product
<1>3. IsFiniteSet(EqualPairs)
  BY <1>2, FS_Subset DEF EqualPairs
<1>4. ASSUME NEW own, NEW dist, NEW t
      PROVE  IsFiniteSet(Found(own, dist, t)) /\ Found(own, dist, t) \subseteq EqualPairs
  <2>1. Found(own, dist, t) \subseteq EqualPairs
    BY DEF Found
  <2> QED
    BY <1>3, <2>1, FS_Subset
<1> QED
  BY <1>3, <1>4

(* And it stays so while threads insert.                                   *)
LEMMA CountingWhileBuilding ==
    ASSUME Typed, NEW own, NEW dist, Counting(own, dist), NEW t \in Threads, Thread(t),
           pc[t] \in Inserting, NEW own2, NEW dist2
    PROVE  Counting(own2, dist2)'
<1>1. /\ rel' = rel /\ alg' = alg /\ t \in Running
      /\ \A u \in Threads \ {t} : pc'[u] = pc[u]
      /\ Running' = Running
  BY ThreadStep, InputStays DEF Typed
<1>2. \A u \in Running : pc[u] \in Inserting /\ u \in Threads
  <2>1. CASE Serial
    <3>1. Running = {0}
      BY <2>1, SomeRun DEF Serial, nthreads
    <3> QED
      BY <1>1, <3>1, SomeRun
  <2>2. CASE ~ Serial
    BY <2>2, SomeRun DEF Typed, Inv, OnePhase, AllIn, Inserting, Probing, Freeing
  <2> QED
    BY <2>1, <2>2
<1>3. pc'[t] \in Inserting \/ (pc'[t] = "probe" /\ i'[t] = 0)
  <2>1. CASE Latch(t) \/ ChoosePlace(t) \/ CountTuple(t) \/ Overflow(t) \/ StoreTuple(t)
             \/ InsertSerially(t)
    BY <2>1 DEF Latch, ChoosePlace, CountTuple, Overflow, StoreTuple, InsertSerially, Goto,
                Inserting, Typed, ThreadTypes
  <2>2. CASE BuildDone(t)
    BY <2>2 DEF BuildDone, Goto, Inserting, Typed, ThreadTypes
  <2>3. CASE ProbeTuple(t) \/ ProbeBucket(t) \/ ProbeDone(t) \/ free_bucket_buffer(t)
    BY <2>3 DEF ProbeTuple, ProbeBucket, ProbeDone, free_bucket_buffer, Inserting
  <2> QED
    BY <2>1, <2>2, <2>3 DEF Thread
<1>4. matches' = matches /\ chainedbuf' = chainedbuf
  <2>1. CASE Latch(t) \/ ChoosePlace(t) \/ CountTuple(t) \/ Overflow(t) \/ StoreTuple(t)
             \/ InsertSerially(t) \/ BuildDone(t)
    BY <2>1 DEF Latch, ChoosePlace, CountTuple, Overflow, StoreTuple, InsertSerially, BuildDone,
                probeVars
  <2>2. CASE ProbeTuple(t) \/ ProbeBucket(t) \/ ProbeDone(t) \/ free_bucket_buffer(t)
    BY <2>2 DEF ProbeTuple, ProbeBucket, ProbeDone, free_bucket_buffer, Inserting
  <2> QED
    BY <2>1, <2>2 DEF Thread
<1>5. ASSUME NEW u \in Running
      PROVE  /\ pc'[u] # "bucket" /\ matches'[u] = Cardinality(Found(own2, dist2, u)')
             /\ Contents(chainedbuf'[u]) = Found(own2, dist2, u)'
  <2>1. Found(own, dist, u) = {}
    BY <1>2, NothingFound DEF Probed, Inserting
  <2>2. matches[u] = 0 /\ Contents(chainedbuf[u]) = {}
    BY <2>1, FS_EmptySet DEF Counting
  <2>3. pc'[u] # "bucket" /\ Probed(u)' = 0
    BY <1>1, <1>2, <1>3 DEF Probed, Inserting
  <2>4. Found(own2, dist2, u)' = {}
    BY <2>3 DEF Found
  <2> QED
    BY <1>4, <2>2, <2>3, <2>4, FS_EmptySet
<1> QED
  BY <1>1, <1>5 DEF Counting

(* When a thread is beyond building, all threads are: they have inserted   *)
(* all of R, and every place that is counted holds its tuple.              *)
PastBuild == {"probe", "bucket", "probed", "free", "done"}

(* Then Inserted is the whole of R.                                        *)
LEMMA AllBuilt ==
    ASSUME Typed, NEW t \in Running, pc[t] \in PastBuild
    PROVE  /\ \A u \in Running : pc[u] \in PastBuild
           /\ \A u \in Threads : pc[u] # "build" /\ pc[u] \notin Critical
           /\ Inserted = DOMAIN rel.R
           /\ Filled = {d \in (DOMAIN mem) \X (0 .. BUCKET_SIZE - 1) : d[2] < mem[d[1]].count}
<1>1. /\ \A u \in Running : pc[u] \in PastBuild /\ u \in Threads
      /\ \A u \in Threads : pc[u] # "build" /\ pc[u] \notin Critical
  <2>1. CASE Serial
    <3>1. Running = {0}
      BY <2>1, SomeRun DEF Serial, nthreads
    <3> QED
      BY <2>1, <3>1, SomeRun DEF Serial, PastBuild, Critical
  <2>2. CASE ~ Serial
    BY <2>2, SomeRun DEF Typed, Inv, OnePhase, AllIn, Inserting, Probing, Freeing, PastBuild, Critical
  <2> QED
    BY <2>1, <2>2
<1>2. Inserted = DOMAIN rel.R
  <2>1. DOMAIN rel.R = 1 .. Len(rel.R) /\ rel.R \in Seq(Nat)
    BY RelationFacts DEF Typed, ThreadTypes
  <2>2. ASSUME NEW p \in DOMAIN rel.R PROVE p \in Inserted
    <3>1. PICK u \in Running : \E k \in 1 .. Len(Chunk(rel.R, u)) : p = Offset(rel.R, u) + k
      BY <2>1, ChunksCover
    <3>2. InsertedBy(u) = Len(Chunk(rel.R, u))
      BY <1>1 DEF InsertedBy, PastBuild, Critical
    <3> QED
      BY <3>1, <3>2 DEF Inserted
  <2> QED
    BY <2>2 DEF Inserted
<1>3. \A u \in Threads : pc[u] # "store"
  BY <1>1 DEF Critical
<1> QED
  BY <1>1, <1>2, <1>3 DEF Filled

(* A probe goes on, and leaves the table and the other threads alone.      *)
LEMMA ProbingStep ==
    ASSUME Typed, NEW t \in Threads, Thread(t), pc[t] \in {"probe", "bucket", "free"},
           NEW own, NEW dist
    PROVE  /\ ProbeTuple(t) \/ ProbeBucket(t) \/ ProbeDone(t) \/ free_bucket_buffer(t)
           /\ mem' = mem /\ pc'[t] \in PastBuild
           /\ Filled' = Filled /\ \A x : Before(own, dist, x)' = Before(own, dist, x)
           /\ \A u \in Running \ {t} : Found(own, dist, u)' = Found(own, dist, u)
           /\ \A u \in Running \ {t} : pc'[u] = pc[u] /\ b'[u] = b[u] /\ ProbeKey(u)' = ProbeKey(u)
<1>1. ProbeTuple(t) \/ ProbeBucket(t) \/ ProbeDone(t) \/ free_bucket_buffer(t)
  BY DEF Thread, Latch, ChoosePlace, CountTuple, Overflow, StoreTuple, InsertSerially, BuildDone
<1>2. mem' = mem /\ pc'[t] \in PastBuild
  BY <1>1 DEF ProbeTuple, ProbeBucket, ProbeDone, free_bucket_buffer, buildVars, Goto, PastBuild,
              Typed, ThreadTypes
<1>3. /\ rel' = rel /\ alg' = alg /\ t \in Running
      /\ \A u \in Threads \ {t} : pc'[u] = pc[u] /\ i'[u] = i[u] /\ b'[u] = b[u] /\ dest'[u] = dest[u]
      /\ Running' = Running /\ EqualPairs' = EqualPairs
      /\ \A u : Chunk(rel.S, u)' = Chunk(rel.S, u)
      /\ \A u : Offset(rel.S, u)' = Offset(rel.S, u)
  BY ThreadStep, InputStays DEF Typed
<1>4. Filled' = Filled
  <2>1. \A u \in Threads : pc'[u] # "store" /\ pc[u] # "store"
    BY <1>2, <1>3, AllBuilt DEF PastBuild, Critical
  <2> QED
    BY <1>2, <2>1 DEF Filled
<1>5. \A d : TupleAt(d)' = TupleAt(d)
  BY <1>2 DEF TupleAt
<1>6. \A x : Before(own, dist, x)' = Before(own, dist, x)
  BY <1>4 DEF Before
<1>7. ASSUME NEW u \in Running \ {t}
      PROVE  /\ Found(own, dist, u)' = Found(own, dist, u)
             /\ pc'[u] = pc[u] /\ b'[u] = b[u] /\ ProbeKey(u)' = ProbeKey(u)
  <2>1. u \in Threads \ {t}
    BY SomeRun
  <2>2. pc'[u] = pc[u] /\ i'[u] = i[u] /\ b'[u] = b[u]
    BY <1>3, <2>1
  <2>3. Position(rel.S, u)' = Position(rel.S, u)
    BY <1>3, <2>2 DEF Position, nthreads
  <2>4. Probed(u)' = Probed(u)
    BY <2>2 DEF Probed
  <2>5. ProbeKey(u)' = ProbeKey(u)
    BY <1>3, <2>2 DEF ProbeKey
  <2>6. Before(own, dist, b[u])' = Before(own, dist, b[u])
    BY <1>4, <2>2 DEF Before
  <2> QED
    BY <1>3, <1>5, <2>2, <2>3, <2>4, <2>5, <2>6 DEF Found
<1> QED
  BY <1>1, <1>2, <1>4, <1>6, <1>7

(* The buckets behind the last one: there are none.                        *)
LEMMA EndOfChain ==
    ASSUME BucketTypes, NEW own, NEW dist, Chains(own, dist),
           NEW x \in DOMAIN mem, mem[x].next = NULL, NEW y \in DOMAIN mem, own[y] = own[x]
    PROVE  dist[y] <= dist[x]
<1> DEFINE Behind == {n \in Nat : \E z \in DOMAIN mem : own[z] = own[x] /\ dist[z] = n /\ n > dist[x]}
<1>1. \A z \in DOMAIN mem : dist[z] \in Nat
  BY DEF Chains
<1>2. SUFFICES ASSUME ~ (dist[y] <= dist[x]) PROVE FALSE
  OBVIOUS
<1>3. dist[y] \in Behind
  BY <1>1, <1>2
<1>4. PICK n \in Behind : \A m \in Behind : n <= m
  BY <1>3, LeastNatural
<1>5. PICK z \in DOMAIN mem : own[z] = own[x] /\ dist[z] = n /\ n > dist[x]
  BY <1>4
<1>6. z \notin Table
  BY <1>1, <1>5 DEF Chains
<1>7. PICK w \in DOMAIN mem : mem[w].next = z /\ own[w] = own[z] /\ dist[z] = dist[w] + 1
  BY <1>6 DEF Chains
<1>8. ~ (dist[w] > dist[x])
  BY <1>1, <1>4, <1>5, <1>7
<1>9. dist[w] = dist[x]
  BY <1>1, <1>5, <1>7, <1>8
<1>10. w = x
  BY <1>5, <1>7, <1>9 DEF Chains
<1>11. z # NULL
  BY DEF BucketTypes
<1> QED
  BY <1>7, <1>10, <1>11

(* Sizes of sets that have nothing in common add up.                       *)
LEMMA DisjointUnion ==
    ASSUME NEW T, IsFiniteSet(T), NEW U, IsFiniteSet(U), T \cap U = {}
    PROVE  Cardinality(T \cup U) = Cardinality(T) + Cardinality(U)
<1>1. Cardinality(T \cup U) = Cardinality(T) + Cardinality(U) - Cardinality(T \cap U)
  BY FS_Union
<1>2. Cardinality(T \cap U) = 0
  BY FS_EmptySet
<1>3. Cardinality(T) \in Nat /\ Cardinality(U) \in Nat
  BY FS_CardinalityType
<1> QED
  BY <1>1, <1>2, <1>3

(* A set has as many elements as there are values of a function that is    *)
(* one-to-one.                                                             *)
LEMMA OneToOne ==
    ASSUME NEW T, IsFiniteSet(T), NEW U, NEW f \in [T -> U],
           \A x, y \in T : f[x] = f[y] => x = y,
           \A z \in U : \E x \in T : f[x] = z
    PROVE  IsFiniteSet(U) /\ Cardinality(U) = Cardinality(T)
<1>1. IsInjective(f)
  BY DEF IsInjective
<1>2. f \in Bijection(T, U)
  BY <1>1 DEF Bijection, Injection, Surjection
<1>3. ExistsBijection(T, U)
  BY <1>2 DEF ExistsBijection
<1> QED
  BY <1>3, FS_Bijection

(* The pairs that a thread finds in the bucket it looks at: one for each   *)
(* place with the key, and none that it has found before.                  *)
FoundHere(t) ==
    {d \in EqualPairs : /\ d[2] = Position(rel.S, t)
                        /\ \E e \in Filled : e[1] = b[t] /\ TupleAt(e) = d[1]}

(* As many as probe_hashtable adds to matches.                             *)
LEMMA NewMatches ==
    ASSUME Typed, NEW own, Storage(own), NEW t \in Threads, pc[t] = "bucket"
    PROVE  /\ IsFiniteSet(FoundHere(t))
           /\ Cardinality(FoundHere(t)) = Cardinality(MatchingPlaces(b[t], ProbeKey(t)))
           /\ FoundHere(t) = {<<mem[b[t]].tuples[n], Position(rel.S, t)>> :
                                 n \in MatchingPlaces(b[t], ProbeKey(t))}
<1> DEFINE x == b[t]
           p == Position(rel.S, t)
           M == MatchingPlaces(x, ProbeKey(t))
           f == [n \in M |-> <<mem[x].tuples[n], p>>]
<1>1. x \in DOMAIN mem /\ p \in DOMAIN rel.S /\ ProbeKey(t) = rel.S[p] /\ t \in Running
  BY AtBucket
<1>2. mem[x].count \in 0 .. BUCKET_SIZE /\ BUCKET_SIZE \in Nat
  BY <1>1, BucketsAssumption DEF Typed, BucketTypes
<1>3. /\ Filled = {d \in (DOMAIN mem) \X (0 .. BUCKET_SIZE - 1) : d[2] < mem[d[1]].count}
      /\ Inserted = DOMAIN rel.R
  BY <1>1, AllBuilt DEF PastBuild
<1>4. IsFiniteSet(M)
  BY <1>1, MatchesFinite DEF Typed
<1>5. ASSUME NEW n \in M
      PROVE  /\ <<x, n>> \in Filled /\ mem[x].tuples[n] \in DOMAIN rel.R
             /\ rel.R[mem[x].tuples[n]] = rel.S[p]
             /\ f[n] \in FoundHere(t)
  <2>1. n \in 0 .. mem[x].count - 1 /\ rel.R[mem[x].tuples[n]] = rel.S[p]
    BY <1>1 DEF MatchingPlaces
  <2>2. n \in 0 .. BUCKET_SIZE - 1 /\ n < mem[x].count
    BY <1>2, <2>1
  <2>3. <<x, n>> \in Filled
    BY <1>1, <1>3, <2>2
  <2>4. PICK e : e = <<x, n>>
    OBVIOUS
  <2>5. TupleAt(e) = mem[x].tuples[n] /\ e[1] = x
    BY <2>4 DEF TupleAt
  <2>6. TupleAt(e) \in DOMAIN rel.R
    BY <1>3, <2>3, <2>4 DEF Storage
  <2>7. f[n] \in EqualPairs
    BY <1>1, <2>1, <2>5, <2>6 DEF EqualPairs
  <2>8. f[n] \in FoundHere(t)
    BY <2>3, <2>4, <2>5, <2>7 DEF FoundHere
  <2> QED
    BY <2>1, <2>3, <2>5, <2>6, <2>8
<1>6. ASSUME NEW n \in M, NEW m \in M, f[n] = f[m] PROVE n = m
  <2>1. PICK d, e : d = <<x, n>> /\ e = <<x, m>>
    OBVIOUS
  <2>2. d \in Filled /\ e \in Filled
    BY <1>5, <2>1
  <2>3. TupleAt(d) = TupleAt(e)
    BY <1>6, <2>1 DEF TupleAt
  <2>4. d = e
    BY <2>2, <2>3 DEF Storage
  <2> QED
    BY <2>1, <2>4
<1>7. ASSUME NEW d \in FoundHere(t) PROVE \E n \in M : f[n] = d
  <2>1. PICK e \in Filled : e[1] = x /\ TupleAt(e) = d[1]
    BY DEF FoundHere
  <2>2. /\ d[2] = p /\ d = <<d[1], d[2]>> /\ rel.R[d[1]] = rel.S[d[2]]
    BY DEF FoundHere, EqualPairs
  <2>3. e[2] \in 0 .. BUCKET_SIZE - 1 /\ e[2] < mem[x].count
    BY <1>3, <2>1
  <2>4. e[2] \in 0 .. mem[x].count - 1
    BY <1>2, <2>3
  <2>5. mem[x].tuples[e[2]] = d[1]
    BY <2>1 DEF TupleAt
  <2>6. e[2] \in M
    BY <1>1, <2>2, <2>4, <2>5 DEF MatchingPlaces
  <2>7. f[e[2]] = d
    BY <2>2, <2>5, <2>6
  <2> QED
    BY <2>6, <2>7
<1>8. f \in [M -> FoundHere(t)]
  BY <1>5
<1>9. FoundHere(t) = {<<mem[x].tuples[n], p>> : n \in M}
  <2>1. \A n \in M : f[n] = <<mem[x].tuples[n], p>>
    OBVIOUS
  <2> HIDE DEF f, M
  <2>2. ASSUME NEW d \in FoundHere(t) PROVE \E n \in M : d = <<mem[x].tuples[n], p>>
    BY <1>7, <2>1
  <2>3. \A n \in M : <<mem[x].tuples[n], p>> \in FoundHere(t)
    BY <1>5, <2>1
  <2> QED
    BY <2>2, <2>3
<1> HIDE DEF f, M
<1>10. IsFiniteSet(FoundHere(t)) /\ Cardinality(FoundHere(t)) = Cardinality(M)
  BY <1>4, <1>6, <1>7, <1>8, OneToOne
<1> QED
  BY <1>9, <1>10 DEF M

(* A pair found before is in a bucket that was passed before.              *)
LEMMA NewApart ==
    ASSUME Typed, NEW own, NEW dist, Chains(own, dist), Storage(own),
           NEW t \in Threads, pc[t] = "bucket"
    PROVE  FoundHere(t) \cap Found(own, dist, t) = {}
<1> SUFFICES ASSUME NEW d \in FoundHere(t), d \in Found(own, dist, t) PROVE FALSE
  OBVIOUS
<1>1. /\ Position(rel.S, t) = Offset(rel.S, t) + (i[t] + 1)
      /\ Offset(rel.S, t) \in Nat /\ i[t] \in Nat
  BY AtBucket
<1>2. PICK e \in Filled : e[1] = b[t] /\ TupleAt(e) = d[1]
  BY DEF FoundHere
<1>3. d[2] = Position(rel.S, t)
  BY DEF FoundHere
<1>4. CASE \E k \in 1 .. Probed(t) : d[2] = Offset(rel.S, t) + k
  BY <1>1, <1>3, <1>4 DEF Probed
<1>5. CASE \E f \in Before(own, dist, b[t]) : TupleAt(f) = d[1]
  <2>1. PICK f \in Filled : dist[f[1]] < dist[b[t]] /\ TupleAt(f) = d[1]
    BY <1>5 DEF Before
  <2>2. f = e
    BY <1>2, <2>1 DEF Storage
  <2>3. dist[b[t]] \in Nat
    BY AtBucket DEF Chains
  <2> QED
    BY <1>2, <2>1, <2>2, <2>3
<1> QED
  BY <1>4, <1>5 DEF Found

(* A bucket further on, the thread has found what is in this one, too ...  *)
LEMMA FoundOnTheWay ==
    ASSUME Typed, NEW own, NEW dist, Chains(own, dist), Counting(own, dist),
           NEW t \in Threads, ProbeBucket(t), mem[b[t]].next # NULL
    PROVE  /\ Found(own, dist, t)' = Found(own, dist, t) \cup FoundHere(t)
           /\ pc'[t] = "bucket" /\ own[b'[t]] = HASH(ProbeKey(t))'
<1>1. pc[t] = "bucket" /\ Thread(t)
  BY DEF ProbeBucket, Thread
<1>2. b[t] \in DOMAIN mem /\ t \in Running
  BY <1>1, AtBucket
<1>3. /\ pc'[t] = "bucket" /\ i' = i /\ rel' = rel /\ alg' = alg /\ mem' = mem
      /\ b'[t] = mem[b[t]].next
  BY DEF ProbeBucket, Goto, buildVars, constVars, Typed, ThreadTypes
<1>4. PICK x, y : x = b[t] /\ y = mem[b[t]].next
  OBVIOUS
<1>5. /\ x \in DOMAIN mem /\ y \in DOMAIN mem
      /\ own[y] = own[x] /\ dist[y] = dist[x] + 1 /\ dist[x] \in Nat
  BY <1>2, <1>4 DEF Chains, Typed, BucketTypes
<1>6. \A z \in DOMAIN mem : dist[z] \in Nat
  BY DEF Chains
<1>7. \A z \in DOMAIN mem : own[z] = own[x] => (dist[z] < dist[y] <=> dist[z] < dist[x] \/ z = x)
  <2>1. ASSUME NEW z \in DOMAIN mem, own[z] = own[x], dist[z] = dist[x] PROVE z = x
    BY <1>5, <2>1 DEF Chains
  <2> QED
    BY <1>5, <1>6, <2>1
<1>8. Before(own, dist, y) = Before(own, dist, x) \cup {d \in Filled : d[1] = x}
  <2>1. \A d \in Filled : d[1] \in DOMAIN mem
    BY DEF Filled
  <2> QED
    BY <1>5, <1>7, <2>1 DEF Before
<1>9. /\ Filled' = Filled /\ \A z : Before(own, dist, z)' = Before(own, dist, z)
  BY <1>1, ProbingStep
<1>10. /\ EqualPairs' = EqualPairs /\ Offset(rel.S, t)' = Offset(rel.S, t)
       /\ Chunk(rel.S, t)' = Chunk(rel.S, t) /\ nthreads' = nthreads
  BY <1>3, InputStays
<1>11. Position(rel.S, t)' = Position(rel.S, t) /\ Probed(t)' = Probed(t)
       /\ ProbeKey(t)' = ProbeKey(t)
  BY <1>1, <1>3, <1>10 DEF Position, Probed, ProbeKey
<1>12. \A d : TupleAt(d)' = TupleAt(d)
  BY <1>3 DEF TupleAt
<1>13. Before(own, dist, b[t])' = Before(own, dist, y)
  BY <1>3, <1>4, <1>9 DEF Before
<1>14. Found(own, dist, t)' =
          {d \in EqualPairs :
              \/ \E k \in 1 .. Probed(t) : d[2] = Offset(rel.S, t) + k
              \/ /\ d[2] = Position(rel.S, t)
                 /\ \E e \in Before(own, dist, y) : TupleAt(e) = d[1]}
  BY <1>3, <1>10, <1>11, <1>12, <1>13 DEF Found
<1>15. Found(own, dist, t)' = Found(own, dist, t) \cup FoundHere(t)
  BY <1>1, <1>4, <1>8, <1>14 DEF Found, FoundHere
<1>16. own[b'[t]] = HASH(ProbeKey(t))'
  <2>1. own[x] = HASH(ProbeKey(t))
    BY <1>1, <1>2, <1>4 DEF Counting
  <2>2. HASH(ProbeKey(t))' = HASH(ProbeKey(t))
    BY <1>3, <1>11 DEF HASH, num_buckets
  <2> QED
    BY <1>3, <1>4, <1>5, <2>1, <2>2
<1> QED
  BY <1>3, <1>15, <1>16

(* ... and behind the last one of the chain, everything that the S tuple   *)
(* matches: R tuples with its key are in that chain and nowhere else.      *)
LEMMA FoundInTheEnd ==
    ASSUME Typed, NEW own, NEW dist, Chains(own, dist), Storage(own), Counting(own, dist),
           NEW t \in Threads, ProbeBucket(t), mem[b[t]].next = NULL
    PROVE  /\ Found(own, dist, t)' = Found(own, dist, t) \cup FoundHere(t)
           /\ pc'[t] # "bucket"
<1>1. pc[t] = "bucket" /\ Thread(t)
  BY DEF ProbeBucket, Thread
<1>2. /\ b[t] \in DOMAIN mem /\ t \in Running /\ i[t] \in Nat
      /\ Position(rel.S, t) = Offset(rel.S, t) + (i[t] + 1)
      /\ ProbeKey(t) = rel.S[Position(rel.S, t)] /\ Offset(rel.S, t) \in Nat
  BY <1>1, AtBucket
<1>3. /\ pc'[t] = "probe" /\ i'[t] = i[t] + 1 /\ rel' = rel /\ alg' = alg
  BY DEF ProbeBucket, Goto, buildVars, constVars, Typed, ThreadTypes
<1>4. /\ EqualPairs' = EqualPairs /\ Offset(rel.S, t)' = Offset(rel.S, t)
  BY <1>3, InputStays
<1>5. Probed(t) = i[t] /\ Probed(t)' = i[t] + 1
  BY <1>1, <1>3 DEF Probed
<1>6. Found(own, dist, t)' = {d \in EqualPairs : \E k \in 1 .. i[t] + 1 : d[2] = Offset(rel.S, t) + k}
  BY <1>3, <1>4, <1>5 DEF Found
<1>7. \A n : (\E k \in 1 .. i[t] + 1 : n = Offset(rel.S, t) + k)
             <=> (\E k \in 1 .. i[t] : n = Offset(rel.S, t) + k) \/ n = Position(rel.S, t)
  <2>1. PICK m, o : m = i[t] /\ o = Offset(rel.S, t)
    OBVIOUS
  <2>2. \A n : (\E k \in 1 .. m + 1 : n = o + k) <=> (\E k \in 1 .. m : n = o + k) \/ n = o + (m + 1)
    BY <1>2, <2>1
  <2> QED
    BY <1>2, <2>1, <2>2
<1>8. ASSUME NEW d \in EqualPairs, d[2] = Position(rel.S, t)
      PROVE  \/ \E e \in Before(own, dist, b[t]) : TupleAt(e) = d[1]
             \/ \E e \in Filled : e[1] = b[t] /\ TupleAt(e) = d[1]
  <2>1. d[1] \in DOMAIN rel.R /\ rel.R[d[1]] = ProbeKey(t)
    BY <1>2, <1>8 DEF EqualPairs
  <2>2. Inserted = DOMAIN rel.R
    BY <1>1, <1>2, AllBuilt DEF PastBuild
  <2>3. PICK e \in Filled : TupleAt(e) = d[1]
    BY <2>1, <2>2 DEF Storage
  <2>4. own[e[1]] = HASH(ProbeKey(t)) /\ e[1] \in DOMAIN mem
    BY <2>1, <2>3 DEF Storage, Filled
  <2>5. own[e[1]] = own[b[t]]
    BY <1>1, <1>2, <2>4 DEF Counting
  <2>6. dist[e[1]] <= dist[b[t]]
    BY <1>2, <2>4, <2>5, EndOfChain DEF Typed
  <2>7. dist[e[1]] \in Nat /\ dist[b[t]] \in Nat
    BY <1>2, <2>4 DEF Chains
  <2>8. CASE dist[e[1]] < dist[b[t]]
    BY <2>3, <2>5, <2>8 DEF Before
  <2>9. CASE dist[e[1]] = dist[b[t]]
    <3>1. e[1] = b[t]
      BY <1>2, <2>4, <2>5, <2>9 DEF Chains
    <3> QED
      BY <2>3, <3>1
  <2> QED
    BY <2>6, <2>7, <2>8, <2>9
<1>9. \A d \in EqualPairs : d \in Found(own, dist, t)' <=>
         (\E k \in 1 .. i[t] : d[2] = Offset(rel.S, t) + k) \/ d[2] = Position(rel.S, t)
  BY <1>6, <1>7
<1>10. \A d \in EqualPairs : d \in Found(own, dist, t) \cup FoundHere(t) <=>
         (\E k \in 1 .. i[t] : d[2] = Offset(rel.S, t) + k) \/ d[2] = Position(rel.S, t)
  BY <1>1, <1>5, <1>8 DEF Found, FoundHere
<1>11. Found(own, dist, t)' \subseteq EqualPairs /\ Found(own, dist, t) \cup FoundHere(t) \subseteq EqualPairs
  BY <1>6 DEF Found, FoundHere
<1>12. Found(own, dist, t)' = Found(own, dist, t) \cup FoundHere(t)
  BY <1>9, <1>10, <1>11
<1> QED
  BY <1>3, <1>12

(* A probe counts what it finds, once.                                     *)
LEMMA CountingWhileProbing ==
    ASSUME Typed, NEW own, NEW dist, Chains(own, dist), Storage(own), Counting(own, dist),
           NEW t \in Threads, Thread(t), pc[t] \in {"probe", "bucket", "free"}
    PROVE  Counting(own, dist)'
<1>1. /\ rel' = rel /\ alg' = alg /\ t \in Running /\ Running' = Running
      /\ EqualPairs' = EqualPairs /\ Offset(rel.S, t)' = Offset(rel.S, t)
      /\ Chunk(rel.S, t)' = Chunk(rel.S, t)
      /\ pc' = [pc EXCEPT ![t] = pc'[t]]
  BY ThreadStep, InputStays DEF Typed
<1>2. /\ rel \in Relations /\ matches \in [Threads -> Nat] /\ t \in Threads
      /\ chainedbuf = [u \in Threads |-> chainedbuf[u]] /\ WellFormed(chainedbuf[t])
  BY DEF Typed, ThreadTypes, ResultTypes
<1>3. /\ IsFiniteSet(Found(own, dist, t)) /\ IsFiniteSet(EqualPairs)
      /\ matches[t] = Cardinality(Found(own, dist, t))
      /\ Contents(chainedbuf[t]) = Found(own, dist, t)
  BY <1>1, <1>2, FoundFinite DEF Counting
<1>4. /\ matches'[t] = Cardinality(Found(own, dist, t)')
      /\ Contents(chainedbuf'[t]) = Found(own, dist, t)'
      /\ pc'[t] = "bucket" => own[b'[t]] = HASH(ProbeKey(t))'
      /\ \A u \in Threads \ {t} : matches'[u] = matches[u] /\ chainedbuf'[u] = chainedbuf[u]
  <2>1. CASE ProbeTuple(t)
    <3>1. /\ pc[t] = "probe" /\ pc'[t] = "bucket" /\ i' = i /\ matches' = matches
          /\ chainedbuf' = chainedbuf
          /\ i[t] < Len(Chunk(rel.S, t)) /\ b'[t] = HASH(ProbeKey(t))
      BY <1>2, <2>1 DEF ProbeTuple, Goto, Typed, ThreadTypes
    <3>2. HASH(ProbeKey(t)) \in Table
      BY <1>1, <3>1, ProbeKeyIs DEF Typed
    <3>3. own[b'[t]] = b'[t] /\ dist[b'[t]] = 0
      BY <3>1, <3>2 DEF Chains
    <3>4. Before(own, dist, b[t])' = {}
      <4>1. \A d \in Filled' : dist[d[1]] \in Nat
        <5>1. Filled' = Filled
          BY <3>1, ProbingStep
        <5> QED
          BY <5>1 DEF Filled, Chains
      <4>2. \A d \in Filled' : ~ (dist[d[1]] < dist[b'[t]])
        BY <3>3, <4>1
      <4> QED
        BY <4>2 DEF Before
    <3>5. Probed(t)' = Probed(t)
      BY <3>1 DEF Probed
    <3>6. Found(own, dist, t)' = Found(own, dist, t)
      BY <1>1, <3>1, <3>4, <3>5 DEF Found
    <3>7. HASH(ProbeKey(t))' = HASH(ProbeKey(t))
      <4>1. ProbeKey(t)' = ProbeKey(t)
        BY <1>1, <3>1 DEF ProbeKey
      <4> QED
        BY <1>1, <4>1 DEF HASH, num_buckets
    <3> QED
      BY <1>3, <3>1, <3>3, <3>6, <3>7
  <2>2. CASE ProbeBucket(t)
    <3>1. /\ Found(own, dist, t)' = Found(own, dist, t) \cup FoundHere(t)
          /\ pc'[t] = "bucket" => own[b'[t]] = HASH(ProbeKey(t))'
      BY <2>2, FoundOnTheWay, FoundInTheEnd
    <3>2. pc[t] = "bucket"
      BY <2>2 DEF ProbeBucket
    <3>3. PICK F, H : F = Found(own, dist, t) /\ H = FoundHere(t)
      OBVIOUS
    <3>4. /\ IsFiniteSet(H) /\ H \cap F = {}
          /\ Cardinality(H) = Cardinality(MatchingPlaces(b[t], ProbeKey(t)))
          /\ H = {<<mem[b[t]].tuples[n], Position(rel.S, t)>> : n \in MatchingPlaces(b[t], ProbeKey(t))}
      BY <3>2, <3>3, NewMatches, NewApart
    <3>5. Cardinality(F \cup H) = Cardinality(F) + Cardinality(H)
      <4>1. F \cap H = {} /\ IsFiniteSet(F)
        BY <1>3, <3>3, <3>4
      <4> QED
        BY <3>4, <4>1, DisjointUnion
    <3>6. /\ matches'[t] = matches[t] + Cardinality(MatchingPlaces(b[t], ProbeKey(t)))
          /\ \A u \in Threads \ {t} : matches'[u] = matches[u] /\ chainedbuf'[u] = chainedbuf[u]
          /\ chainedbuf'[t] = WithMatches(chainedbuf[t], b[t], ProbeKey(t), Position(rel.S, t))
      BY <1>2, <2>2 DEF ProbeBucket, MatchBucket
    <3>7. Contents(chainedbuf'[t]) = F \cup H
      <4>1. BucketTypes /\ b[t] \in DOMAIN mem
        BY <3>2, AtBucket DEF Typed
      <4>2. Position(rel.S, t) \in Nat
        <5>1. rel.S \in Seq(Nat) /\ Position(rel.S, t) \in DOMAIN rel.S
          BY <1>2, <3>2, AtBucket, RelationFacts
        <5> QED
          BY <5>1
      <4> QED
        BY <1>2, <1>3, <3>3, <3>4, <3>6, <4>1, <4>2, MatchesWritten
    <3> QED
      BY <1>3, <3>1, <3>3, <3>4, <3>5, <3>6, <3>7
  <2>3. CASE ProbeDone(t) \/ free_bucket_buffer(t)
    <3>1. /\ i' = i /\ matches' = matches /\ pc'[t] # "bucket" /\ pc[t] # "bucket"
          /\ chainedbuf' = chainedbuf
          /\ pc[t] \in PastBuild /\ pc'[t] \in PastBuild
      BY <1>2, <2>3 DEF ProbeDone, free_bucket_buffer, probeVars, Goto, PastBuild, Typed, ThreadTypes
    <3>2. Probed(t)' = Probed(t)
      BY <3>1 DEF Probed, PastBuild
    <3>3. Found(own, dist, t)' = Found(own, dist, t)
      BY <1>1, <3>1, <3>2 DEF Found
    <3> QED
      BY <1>3, <3>1, <3>3
  <2> QED
    BY <2>1, <2>2, <2>3, ProbingStep
<1>5. ASSUME NEW u \in Running
      PROVE  /\ matches'[u] = Cardinality(Found(own, dist, u)')
             /\ Contents(chainedbuf'[u]) = Found(own, dist, u)'
             /\ pc'[u] = "bucket" => own[b'[u]] = HASH(ProbeKey(u))'
  <2>1. CASE u = t
    BY <1>4, <2>1
  <2>2. CASE u # t
    <3>1. /\ Found(own, dist, u)' = Found(own, dist, u)
          /\ pc'[u] = pc[u] /\ b'[u] = b[u] /\ ProbeKey(u)' = ProbeKey(u)
      BY <2>2, ProbingStep
    <3>2. matches'[u] = matches[u] /\ chainedbuf'[u] = chainedbuf[u]
      BY <1>4, <2>2, SomeRun
    <3>3. HASH(ProbeKey(u))' = HASH(ProbeKey(u))
      BY <1>1, <3>1 DEF HASH, num_buckets
    <3> QED
      BY <3>1, <3>2, <3>3 DEF Counting
  <2> QED
    BY <2>1, <2>2
<1> QED
  BY <1>1, <1>5 DEF Counting

(* What the table holds and what has been found stay right, whatever a     *)
(* thread does.                                                            *)
LEMMA StructureStep ==
    ASSUME Typed, Structure, NEW t \in Threads, Thread(t)
    PROVE  Structure'
<1>1. PICK own, dist : Chains(own, dist) /\ Storage(own) /\ Counting(own, dist)
  BY DEF Structure
<1>2. PICK own2, dist2 : /\ Chains(own2, dist2)' /\ Storage(own2)'
                         /\ pc[t] \in {"probe", "bucket", "free"} => own2 = own /\ dist2 = dist
  BY <1>1, TableStep
<1>3. pc[t] \in Inserting \/ pc[t] \in {"probe", "bucket", "free"}
  BY DEF Thread, Latch, ChoosePlace, CountTuple, Overflow, StoreTuple, InsertSerially, BuildDone,
         ProbeTuple, ProbeBucket, ProbeDone, free_bucket_buffer, Inserting
<1>4. Counting(own2, dist2)'
  <2>1. CASE pc[t] \in Inserting
    BY <1>1, <2>1, CountingWhileBuilding
  <2>2. CASE pc[t] \in {"probe", "bucket", "free"}
    <3>1. Counting(own, dist)'
      BY <1>1, <2>2, CountingWhileProbing
    <3> QED
      BY <1>2, <2>2, <3>1
  <2> QED
    BY <1>3, <2>1, <2>2
<1> QED
  BY <1>2, <1>4 DEF Structure

(* The pairs of the first threads, one thread after the other.             *)
LEMMA OneMoreThread ==
    ASSUME Typed, NEW own, NEW dist, Counting(own, dist), NEW n \in 0 .. nthreads - 1,
           \A t \in 0 .. n : pc[t] = "done"
    PROVE  /\ FoundBelow(n + 1) = FoundBelow(n) \cup Contents(chainedbuf[n])
           /\ Cardinality(FoundBelow(n + 1)) = Cardinality(FoundBelow(n)) + matches[n]
<1>1. nthreads \in Nat /\ n \in Nat /\ n \in Running /\ n \in Threads /\ pc[n] = "done"
  BY SomeRun
<1>2. rel.S \in Seq(Nat) /\ rel \in Relations
  BY RelationFacts DEF Typed, ThreadTypes
<1>3. PICK F : F = Found(own, dist, n)
  OBVIOUS
<1>4. F = {d \in EqualPairs : \E k \in 1 .. i[n] : d[2] = Offset(rel.S, n) + k}
  BY <1>1, <1>3 DEF Found, Probed
<1>5. /\ IsFiniteSet(F) /\ IsFiniteSet(EqualPairs) /\ matches[n] = Cardinality(F)
      /\ Contents(chainedbuf[n]) = F
  BY <1>1, <1>2, <1>3, FoundFinite DEF Counting
<1>6. IsFiniteSet(FoundBelow(n))
  BY <1>5, FS_Subset DEF FoundBelow
<1>7. \A t : t \in 0 .. n + 1 - 1 <=> t \in 0 .. n - 1 \/ t = n
  BY <1>1
<1>8. FoundBelow(n + 1) = FoundBelow(n) \cup F
  BY <1>4, <1>7 DEF FoundBelow
<1>9. ASSUME NEW d \in FoundBelow(n), d \in F PROVE FALSE
  <2>1. PICK t \in 0 .. n - 1 : \E k \in 1 .. i[t] : d[2] = Offset(rel.S, t) + k
    BY DEF FoundBelow
  <2>2. PICK k \in 1 .. i[t] : d[2] = Offset(rel.S, t) + k
    BY <2>1
  <2>3. PICK l \in 1 .. i[n] : d[2] = Offset(rel.S, n) + l
    BY <1>4, <1>9
  <2>4. t \in Running /\ t # n /\ t \in 0 .. n
    BY <1>1, <2>1, SomeRun
  <2>5. i[t] = Len(Chunk(rel.S, t)) /\ i[n] = Len(Chunk(rel.S, n))
    BY <1>1, <2>4 DEF Typed, ThreadTypes, Progress
  <2> QED
    BY <1>1, <1>2, <2>2, <2>3, <2>4, <2>5, ChunksApart
<1>10. Cardinality(FoundBelow(n) \cup F) = Cardinality(FoundBelow(n)) + Cardinality(F)
  BY <1>5, <1>6, <1>9, DisjointUnion
<1> QED
  BY <1>5, <1>8, <1>10

(* What main has collected: the threads it waited for no longer change     *)
(* what they found, ...                                                    *)
LEMMA TotalKept ==
    ASSUME Typed, Total, joined' = joined, totalresults' = totalresults, rel' = rel, alg' = alg,
           \A t \in Threads : pc[t] = "done" => pc'[t] = "done" /\ i'[t] = i[t]
    PROVE  Total'
<1>1. \A t \in 0 .. joined - 1 : t \in Threads /\ pc[t] = "done"
  <2>1. joined \in 0 .. nthreads
    BY DEF Typed, ResultTypes
  <2> QED
    BY <2>1, SomeRun DEF Total
<1>2. EqualPairs' = EqualPairs /\ \A t : Offset(rel.S, t)' = Offset(rel.S, t)
  BY InputStays
<1>3. Collected' = Collected
  BY <1>1, <1>2 DEF Collected, FoundBelow
<1> QED
  BY <1>1, <1>3 DEF Total

(* ... and no pair was found by two of them.                               *)
LEMMA TotalStep ==
    ASSUME Typed, NEW own, NEW dist, Counting(own, dist), Total, CollectResult
    PROVE  Total' /\ totalresults' \in Nat /\ joined' \in 0 .. nthreads
<1>1. /\ joined \in 0 .. nthreads - 1 /\ pc[joined] = "done"
      /\ totalresults' = totalresults + matches[joined] /\ joined' = joined + 1
      /\ rel' = rel /\ alg' = alg /\ pc' = pc /\ i' = i /\ nthreads \in Nat
      /\ totalresults \in Nat /\ matches \in [Threads -> Nat]
  BY SomeRun DEF Typed, ResultTypes, CollectResult, constVars
<1>2. joined \in Running /\ joined \in Threads
  BY <1>1, SomeRun
<1>3. rel.S \in Seq(Nat) /\ rel \in Relations
  BY RelationFacts DEF Typed, ThreadTypes
<1>4. /\ nthreads' = nthreads /\ EqualPairs' = EqualPairs
      /\ \A t : Offset(rel.S, t)' = Offset(rel.S, t)
  BY <1>1, InputStays
<1>5. Cardinality(FoundBelow(joined + 1)) = Cardinality(FoundBelow(joined)) + matches[joined]
  <2>1. \A t \in 0 .. joined : t \in 0 .. joined - 1 \/ t = joined
    BY <1>1
  <2>2. \A t \in 0 .. joined : pc[t] = "done"
    BY <1>1, <2>1 DEF Total
  <2> QED
    BY <1>1, <2>2, OneMoreThread
<1>6. Collected' = FoundBelow(joined + 1)
  BY <1>1, <1>4 DEF Collected, FoundBelow
<1>7. Cardinality(Collected') = totalresults'
  BY <1>1, <1>5, <1>6 DEF Total, Collected
<1>8. \A t \in 0 .. joined' - 1 : pc'[t] = "done"
  <2>1. \A t \in 0 .. joined' - 1 : t \in 0 .. joined - 1 \/ t = joined
    BY <1>1
  <2> QED
    BY <1>1, <2>1 DEF Total
<1>9. matches[joined] \in Nat /\ joined' \in 0 .. nthreads
  BY <1>1, <1>2
<1> QED
  BY <1>1, <1>7, <1>8, <1>9 DEF Total

(* The whole invariant.                                                    *)
Whole == Typed /\ Structure /\ Total

(* It is inductive: threads keep it, and so do the barrier and main.       *)
LEMMA WholeStep == Whole /\ [Next]_vars => Whole'
<1> SUFFICES ASSUME Whole, [Next]_vars PROVE Whole'
  OBVIOUS
<1>1. Typed /\ Structure /\ Total
  BY DEF Whole
<1>2. Inv'
  BY <1>1, InvStep DEF Typed
<1>3. PICK own, dist : Chains(own, dist) /\ Storage(own) /\ Counting(own, dist)
  BY <1>1 DEF Structure
<1>4. CASE UNCHANGED vars \/ ReleaseBarrier \/ CollectResult \/ write_result_relation
  <2>1. GoOn
    BY <1>1, <1>4, JointStepIs
  <2>2. ThreadTypes' /\ BucketTypes' /\ Exclusion' /\ Reserved' /\ HandedOut'
    BY <1>1, <2>1, JointTypes
  <2>3. Structure'
    BY <1>1, <1>3, <2>1, JointStructure DEF Structure
  <2>4. nthreads' = nthreads /\ matches' = matches /\ chainedbuf' = chainedbuf /\ rel' = rel /\ alg' = alg
    BY <2>1, InputStays DEF GoOn
  <2>5. ResultTypes' /\ Total'
    <3>1. CASE CollectResult
      BY <1>1, <1>3, <2>4, <3>1, TotalStep DEF Typed, ResultTypes
    <3>2. CASE UNCHANGED vars \/ ReleaseBarrier \/ write_result_relation
      <4>1. joined' = joined /\ totalresults' = totalresults
        BY <3>2 DEF vars, mainVars, ReleaseBarrier, Leave, write_result_relation
      <4>2. \A t \in Threads : pc[t] = "done" => pc'[t] = "done" /\ i'[t] = i[t]
        BY <2>1 DEF GoOn
      <4> QED
        BY <1>1, <2>4, <4>1, <4>2, TotalKept DEF Typed, ResultTypes
    <3> QED
      BY <1>4, <3>1, <3>2
  <2> QED
    BY <1>2, <2>2, <2>3, <2>5 DEF Whole, Typed
<1>5. CASE \E t \in Threads : Thread(t)
  <2>1. PICK t \in Threads : Thread(t)
    BY <1>5
  <2>2. /\ ThreadTypes' /\ ResultTypes' /\ BucketTypes' /\ Exclusion' /\ HandedOut' /\ Reserved'
    BY <1>1, <1>3, <2>1, ThreadTypesStep, ResultTypesStep, BucketTypesStep, ExclusionStep,
       HandedOutStep, ReservedStep
  <2>3. Structure'
    BY <1>1, <2>1, StructureStep
  <2>4. pc[t] # "done"
    BY <2>1 DEF Thread, Latch, ChoosePlace, CountTuple, Overflow, StoreTuple, InsertSerially,
                BuildDone, ProbeTuple, ProbeBucket, ProbeDone, free_bucket_buffer
  <2>5. /\ rel' = rel /\ alg' = alg /\ joined' = joined /\ totalresults' = totalresults
        /\ \A u \in Threads \ {t} : pc'[u] = pc[u] /\ i'[u] = i[u]
    BY <1>1, <2>1, ThreadStep DEF Typed
  <2>6. Total'
    BY <1>1, <2>4, <2>5, TotalKept
  <2> QED
    BY <1>2, <2>2, <2>3, <2>6 DEF Whole, Typed
<1> QED
  BY <1>4, <1>5 DEF Next

(* It holds of the empty table.                                            *)
LEMMA InitialTypes == Init => Typed
<1> SUFFICES ASSUME Init PROVE Typed
  OBVIOUS
<1>1. Inv
  <2>1. CASE alg = "NPO"
    BY <2>1, NThreadsAssumption DEF Init, Inv, OnePhase, AllIn, Inserting, Running, nthreads, Threads
  <2>2. CASE alg # "NPO"
    <3>1. alg = "NPO_st"
      BY <2>2, AlgorithmsAssumption DEF Init
    <3> QED
      BY <2>2, <3>1 DEF Init, Inv, OnePhase, Serial, Alone, AllIn, Running, nthreads, Threads
  <2> QED
    BY <2>1, <2>2
<1>2. \A t \in Threads : pc[t] = IF t \in Running THEN "build" ELSE "absent"
  BY DEF Init
<1>3. rel \in Relations /\ alg \in Algorithms
  BY DEF Init
<1>4. \A t \in Running : Len(Chunk(rel.R, t)) \in Nat
  BY <1>3, RelationFacts, ChunkIsRange
<1>5. ThreadTypes
  <2>1. pc \in [Threads -> Labels] /\ i \in [Threads -> Nat] /\ \A t \in Threads : i[t] = 0
    BY DEF Init, Labels
  <2>2. \A t \in Running : Progress(t)
    BY <1>2, <1>4, <2>1, SomeRun DEF Progress, Critical
  <2>3. latch \in [Table -> BOOLEAN]
    BY DEF Init
  <2>4. overflowbuf \in [Threads -> [buffer : Nat \ {0}, count : Nat]]
    BY DEF Init
  <2>5. dest = [t \in Threads |-> dest[t]] /\ b = [t \in Threads |-> b[t]]
    BY DEF Init
  <2> QED
    BY <1>2, <1>3, <2>1, <2>2, <2>3, <2>4, <2>5 DEF ThreadTypes
<1>6. ResultTypes
  <2>1. /\ matches = [t \in Threads |-> 0] /\ joined = 0 /\ totalresults = 0
        /\ chainedbuf = [t \in Threads |-> chainedtuplebuffer_init]
    BY DEF Init
  <2>2. chainedbuf = [t \in Threads |-> chainedbuf[t]]
    BY <2>1
  <2> QED
    BY <2>1, <2>2, EmptyBuffer, SomeRun DEF ResultTypes
<1>7. BucketTypes
  <2>1. DOMAIN mem = Table /\ mem = [x \in DOMAIN mem |-> mem[x]]
    BY DEF Init
  <2>2. NULL \notin DOMAIN mem /\ IsFiniteSet(DOMAIN mem)
    BY <1>3, <2>1, Hashed
  <2>3. NoTuples \in [0 .. BUCKET_SIZE - 1 -> Nat]
    BY DEF NoTuples
  <2>4. \A x \in DOMAIN mem : mem[x] = [count |-> 0, next |-> NULL, tuples |-> NoTuples]
    BY DEF Init
  <2>5. 0 \in 0 .. BUCKET_SIZE
    BY BucketsAssumption
  <2> QED
    BY <2>1, <2>2, <2>3, <2>4, <2>5 DEF BucketTypes
<1>8. \A t \in Threads : pc[t] \notin Critical
  BY <1>2 DEF Critical
<1>9. Exclusion /\ Reserved
  BY <1>8 DEF Exclusion, Reserved, Critical
<1>10. HandedOut
  BY DEF HandedOut, Init
<1> QED
  BY <1>1, <1>5, <1>6, <1>7, <1>9, <1>10 DEF Typed

(* Nothing is stored, inserted, found or collected yet.                    *)
LEMMA InitialStructure == Init => Structure /\ Total
<1> SUFFICES ASSUME Init PROVE Structure /\ Total
  OBVIOUS
<1>1. rel \in Relations /\ DOMAIN mem = Table
      /\ \A x \in Table : mem[x] = [count |-> 0, next |-> NULL, tuples |-> NoTuples]
  BY DEF Init
<1>2. \A t \in Threads : /\ i[t] = 0 /\ pc[t] \in {"build", "absent"} /\ matches[t] = 0
                         /\ chainedbuf[t] = chainedtuplebuffer_init
  BY DEF Init
<1>3. \A t \in Running : t \in Threads /\ pc[t] = "build"
  BY SomeRun DEF Init
<1>4. PICK own, dist : own = [x \in Table |-> x] /\ dist = [x \in Table |-> 0]
  OBVIOUS
<1>5. Chains(own, dist)
  <2>1. IsFiniteSet(Table) /\ Table # {}
    BY <1>1, Hashed
  <2>2. Cardinality(Table) \in Nat /\ 0 < Cardinality(Table)
    BY <2>1, FS_EmptySet, FS_CardinalityType
  <2> QED
    BY <1>1, <1>4, <2>2 DEF Chains
<1>6. Filled = {}
  BY <1>1 DEF Filled
<1>7. Inserted = {}
  BY <1>2, <1>3 DEF Inserted, InsertedBy
<1>8. Storage(own)
  BY <1>6, <1>7 DEF Storage
<1>9. Counting(own, dist)
  <2>1. ASSUME NEW t \in Running
        PROVE  /\ matches[t] = Cardinality(Found(own, dist, t)) /\ pc[t] # "bucket"
               /\ Contents(chainedbuf[t]) = Found(own, dist, t)
    <3>1. Found(own, dist, t) = {}
      BY <1>3, NothingFound DEF Probed
    <3> QED
      BY <1>2, <1>3, <3>1, EmptyBuffer, FS_EmptySet
  <2> QED
    BY <2>1 DEF Counting
<1>10. Total
  <2>1. joined = 0 /\ totalresults = 0
    BY DEF Init
  <2>2. 0 .. joined - 1 = {}
    BY <2>1
  <2>3. Collected = {}
    BY <2>2 DEF Collected, FoundBelow
  <2> QED
    BY <2>1, <2>2, <2>3, FS_EmptySet DEF Total
<1> QED
  BY <1>5, <1>8, <1>9, <1>10 DEF Structure

(* So it holds in every state.                                             *)
LEMMA WholeInvariant == Spec => []Whole
<1>1. Init => Whole
  BY InitialTypes, InitialStructure DEF Whole
<1> QED
  BY <1>1, WholeStep, PTL DEF Spec

(* No bucket overflows and no pointer leads to memory that was not handed  *)
(* out (build_hashtable_mt, build_hashtable_st, get_new_bucket), for any   *)
(* number of threads and any sizes of relations, buckets and buffers.      *)
THEOREM TableIsWellFormed == Spec => []TableOK
<1>1. Typed => TableOK
  <2> SUFFICES ASSUME Typed PROVE TableOK
    OBVIOUS
  <2>1. i \in [Threads -> 0 .. Len(rel.R) + Len(rel.S)]
    <3>1. rel.R \in Seq(Nat) /\ rel.S \in Seq(Nat) /\ Len(rel.R) \in Nat /\ Len(rel.S) \in Nat
      BY RelationFacts DEF Typed, ThreadTypes
    <3>2. ASSUME NEW t \in Threads PROVE i[t] \in 0 .. Len(rel.R) + Len(rel.S)
      <4>1. i[t] \in Nat /\ pc[t] \in Labels
        BY DEF Typed, ThreadTypes
      <4>2. PICK m \in Nat, n \in Nat : m = Len(rel.R) /\ n = Len(rel.S)
        BY <3>1
      <4>3. CASE t \notin Running
        <5>1. i[t] = 0
          BY <4>3 DEF Typed, ThreadTypes
        <5>2. i[t] \in 0 .. m + n
          BY <5>1
        <5> QED
          BY <4>2, <5>2, Zenon
      <4>4. CASE t \in Running
        <5>1. Progress(t) /\ pc[t] # "absent"
          BY <4>4 DEF Typed, ThreadTypes
        <5>2. /\ Len(Chunk(rel.R, t)) \in Nat /\ Len(Chunk(rel.S, t)) \in Nat
              /\ Offset(rel.R, t) \in Nat /\ Offset(rel.R, t) + Len(Chunk(rel.R, t)) <= m
              /\ Offset(rel.S, t) \in Nat /\ Offset(rel.S, t) + Len(Chunk(rel.S, t)) <= n
          BY <3>1, <4>2, <4>4, ChunkIsRange
        <5>3. i[t] <= Len(Chunk(rel.R, t)) \/ i[t] <= Len(Chunk(rel.S, t))
          BY <4>1, <5>1, <5>2 DEF Progress, Labels, Critical
        <5>4. i[t] <= m \/ i[t] <= n
          BY <4>1, <4>2, <5>2, <5>3
        <5>5. i[t] \in 0 .. m + n
          BY <4>1, <5>4
        <5> QED
          BY <4>2, <5>5, Zenon
      <4> QED
        BY <4>3, <4>4
    <3>3. i = [t \in Threads |-> i[t]]
      BY DEF Typed, ThreadTypes
    <3> QED
      BY <3>2, <3>3
  <2>2. \A t \in Threads : pc[t] \in {"count", "store"} => dest[t].n \in 0 .. BUCKET_SIZE - 1
    BY DEF Typed, Reserved
  <2>3. \A x \in DOMAIN mem : /\ mem[x].count \in 0 .. BUCKET_SIZE
                              /\ mem[x].next \in DOMAIN mem \cup {NULL}
                              /\ x \notin Table => mem[x].count > 0
    BY DEF Typed, BucketTypes
  <2> QED
    BY <2>1, <2>2, <2>3 DEF TableOK, Typed, ThreadTypes, ResultTypes
<1> QED
  BY <1>1, WholeInvariant, PTL DEF Whole

(* What two sequences hold, one after the other.                           *)
LEMMA Joined ==
    ASSUME NEW V, NEW s \in Seq(V), NEW t \in Seq(V)
    PROVE  /\ s \o t \in Seq(V) /\ Len(s \o t) = Len(s) + Len(t)
           /\ ToSet(s \o t) = ToSet(s) \cup ToSet(t)
<1>1. PICK r : r = s \o t
  OBVIOUS
<1>2. PICK m \in Nat, n \in Nat : m = Len(s) /\ n = Len(t)
  OBVIOUS
<1>3. /\ r \in Seq(V) /\ Len(r) = m + n /\ DOMAIN r = 1 .. m + n
      /\ DOMAIN s = 1 .. m /\ DOMAIN t = 1 .. n
      /\ \A k \in 1 .. m + n : r[k] = IF k <= m THEN s[k] ELSE t[k - m]
  BY <1>1, <1>2
<1>4. ASSUME NEW k \in 1 .. m + n PROVE r[k] \in ToSet(s) \cup ToSet(t)
  <2>1. CASE k <= m
    <3>1. r[k] = s[k] /\ k \in DOMAIN s
      BY <1>3, <2>1
    <3> QED
      BY <3>1 DEF ToSet
  <2>2. CASE ~ (k <= m)
    <3>1. k - m \in 1 .. n
      BY <2>2
    <3>2. r[k] = t[k - m] /\ k - m \in DOMAIN t
      BY <1>3, <2>2, <3>1
    <3> QED
      BY <3>2 DEF ToSet
  <2> QED
    BY <2>1, <2>2
<1>5. ASSUME NEW k \in 1 .. m PROVE s[k] \in ToSet(r)
  <2>1. k \in 1 .. m + n /\ k <= m
    OBVIOUS
  <2>2. r[k] = s[k] /\ k \in DOMAIN r
    BY <1>3, <2>1
  <2> QED
    BY <2>2 DEF ToSet
<1>6. ASSUME NEW k \in 1 .. n PROVE t[k] \in ToSet(r)
  <2>1. PICK l : l = m + k
    OBVIOUS
  <2>2. l \in 1 .. m + n /\ ~ (l <= m) /\ l - m = k
    BY <2>1
  <2>3. r[l] = t[k] /\ l \in DOMAIN r
    BY <1>3, <2>2
  <2> QED
    BY <2>3 DEF ToSet
<1>7. ToSet(r) = ToSet(s) \cup ToSet(t)
  BY <1>3, <1>4, <1>5, <1>6 DEF ToSet
<1> QED
  BY <1>1, <1>2, <1>3, <1>7

(* When all threads are done, they have found all pairs.                   *)
LEMMA AllFound ==
    ASSUME Typed, \A t \in 0 .. nthreads - 1 : pc[t] = "done"
    PROVE  FoundBelow(nthreads) = EqualPairs
<1>1. rel.S \in Seq(Nat) /\ DOMAIN rel.S = 1 .. Len(rel.S)
  BY RelationFacts DEF Typed, ThreadTypes
<1>2. ASSUME NEW d \in EqualPairs PROVE d \in FoundBelow(nthreads)
  <2>1. d[2] \in 1 .. Len(rel.S)
    BY <1>1 DEF EqualPairs
  <2>2. PICK t \in Running : \E k \in 1 .. Len(Chunk(rel.S, t)) : d[2] = Offset(rel.S, t) + k
    BY <1>1, <2>1, ChunksCover
  <2>3. t \in 0 .. nthreads - 1 /\ pc[t] = "done"
    BY SomeRun
  <2>4. i[t] = Len(Chunk(rel.S, t))
    BY <2>3 DEF Typed, ThreadTypes, Progress
  <2> QED
    BY <2>2, <2>3, <2>4 DEF FoundBelow
<1> QED
  BY <1>2 DEF FoundBelow

(* So the sum of the matches is their number.                              *)
LEMMA WholeCounts == Whole => TotalRight
<1>1. ASSUME Whole, joined = nthreads PROVE totalresults = Cardinality(EqualPairs)
  <2>1. FoundBelow(nthreads) = EqualPairs
    BY <1>1, AllFound DEF Whole, Total
  <2> QED
    BY <1>1, <2>1 DEF Whole, Total, Collected
<1> QED
  BY <1>1 DEF TotalRight

(* What main writes, when it has waited for all threads.                   *)
LEMMA FileIs ==
    ASSUME Whole, write_result_relation
    PROVE  out' \in Seq(Pairs) /\ Len(out') = Cardinality(EqualPairs) /\ ToSet(out') = EqualPairs
<1>1. PICK own, dist : Counting(own, dist)
  BY DEF Whole, Structure
<1>2. Typed /\ joined = nthreads /\ \A t \in 0 .. nthreads - 1 : pc[t] = "done"
  BY DEF Whole, Total, write_result_relation
<1>3. PICK N \in Nat : N = nthreads
  BY SomeRun
<1> DEFINE V == Seq(Pairs)
           part(n) == ReadBack(chainedbuf[n - 1], matches[n - 1])
           add(n, s) == s \o part(n)
           step == [d \in Nat \X V |-> IF d[1] \in 1 .. N THEN add(d[1], d[2]) ELSE d[2]]
           Lines == CHOOSE f : f = [n \in 0 .. N |-> IF n = 0 THEN <<>> ELSE add(n, f[n - 1])]
<1>4. ASSUME NEW n \in 1 .. N
      PROVE  /\ part(n) \in V /\ Len(part(n)) = matches[n - 1]
             /\ ToSet(part(n)) = Contents(chainedbuf[n - 1]) /\ matches[n - 1] \in Nat
  <2>1. n - 1 \in Threads
    BY <1>3, SomeRun
  <2>2. WellFormed(chainedbuf[n - 1]) /\ Size(chainedbuf[n - 1]) = matches[n - 1] /\ matches[n - 1] \in Nat
    BY <1>2, <2>1 DEF Typed, ResultTypes
  <2> QED
    BY <2>2, ReadBackIs
<1> HIDE DEF part
<1>4a. \A u, v \in Seq(Pairs) :
          u \o v \in V /\ Len(u \o v) = Len(u) + Len(v) /\ ToSet(u \o v) = ToSet(u) \cup ToSet(v)
  BY Joined
<1>5. ASSUME NEW n \in 1 .. N, NEW s \in V PROVE add(n, s) \in V
  BY <1>4, <1>4a
<1> HIDE DEF add
<1>6. PICK g \in [0 .. N -> V] : Follows(g, N, <<>>, step)
  <2>1. step \in [Nat \X V -> V]
    BY <1>5
  <2>2. <<>> \in V
    OBVIOUS
  <2> HIDE DEF step, V
  <2> QED
    BY <2>1, <2>2, Recursion
<1>7. g[0] = <<>> /\ \A n \in 1 .. N : g[n] = add(n, g[n - 1])
  <2>1. ASSUME NEW n \in 1 .. N PROVE g[n] = add(n, g[n - 1])
    <3>1. n - 1 \in 0 .. N /\ n \in Nat /\ g[n - 1] \in V
      BY <1>3, <1>6
    <3>2. step[<<n, g[n - 1]>>] = add(n, g[n - 1])
      <4> HIDE DEF V
      <4> QED
        BY <3>1
    <3> QED
      BY <1>6, <3>2 DEF Follows
  <2> QED
    BY <1>6, <2>1 DEF Follows
<1> HIDE DEF step
<1>8. g = [n \in 0 .. N |-> IF n = 0 THEN <<>> ELSE add(n, g[n - 1])]
  <2>1. \A n \in 0 .. N : g[n] = IF n = 0 THEN <<>> ELSE add(n, g[n - 1])
    BY <1>7
  <2> QED
    BY <1>6, <2>1
<1>9. Lines = [n \in 0 .. N |-> IF n = 0 THEN <<>> ELSE add(n, Lines[n - 1])]
  BY <1>8
<1>10. out' = Lines[N]
  BY <1>3 DEF write_result_relation, add, part
<1> HIDE DEF Lines
<1>11. Lines[0] = <<>> /\ \A n \in 0 .. N : n + 1 <= N => Lines[n + 1] = add(n + 1, Lines[n])
  <2>1. Lines[0] = <<>>
    BY <1>9
  <2>2. ASSUME NEW n \in 0 .. N, n + 1 <= N PROVE Lines[n + 1] = add(n + 1, Lines[n])
    <3>1. n + 1 \in 0 .. N /\ n + 1 # 0 /\ (n + 1) - 1 = n
      BY <2>2
    <3> QED
      BY <1>9, <3>1
  <2> QED
    BY <2>1, <2>2
<1> DEFINE At(n) == /\ Lines[n] \in V /\ ToSet(Lines[n]) = FoundBelow(n)
                    /\ Len(Lines[n]) = Cardinality(FoundBelow(n))
           T == {n \in Nat : n <= N => At(n)}
<1>12. 0 \in T
  <2>1. 0 .. 0 - 1 = {}
    OBVIOUS
  <2>2. FoundBelow(0) = {}
    BY <2>1 DEF FoundBelow
  <2>3. Lines[0] \in V /\ ToSet(Lines[0]) = {} /\ Len(Lines[0]) = 0
    BY <1>11 DEF ToSet
  <2> QED
    BY <2>2, <2>3, FS_EmptySet
<1>13. ASSUME NEW n \in Nat, n \in T PROVE n + 1 \in T
  <2> SUFFICES ASSUME n + 1 <= N PROVE At(n + 1)
    OBVIOUS
  <2>1. At(n) /\ n + 1 \in 1 .. N /\ n \in 0 .. N /\ n + 1 - 1 = n
    BY <1>13
  <2>2. /\ FoundBelow(n + 1) = FoundBelow(n) \cup Contents(chainedbuf[n])
        /\ Cardinality(FoundBelow(n + 1)) = Cardinality(FoundBelow(n)) + matches[n]
    <3>1. n \in 0 .. nthreads - 1 /\ \A t \in 0 .. n : t \in 0 .. nthreads - 1
      BY <1>3, <2>1
    <3> QED
      BY <1>1, <1>2, <3>1, OneMoreThread
  <2>3. PICK s, t : s = Lines[n] /\ t = part(n + 1)
    OBVIOUS
  <2>4. /\ s \in V /\ ToSet(s) = FoundBelow(n) /\ Len(s) = Cardinality(FoundBelow(n))
        /\ t \in V /\ ToSet(t) = Contents(chainedbuf[n]) /\ Len(t) = matches[n]
    BY <1>4, <2>1, <2>3
  <2>5. Lines[n + 1] = s \o t
    BY <1>11, <2>1, <2>3 DEF add
  <2>6. s \o t \in V /\ Len(s \o t) = Len(s) + Len(t) /\ ToSet(s \o t) = ToSet(s) \cup ToSet(t)
    BY <1>4a, <2>4
  <2> HIDE DEF V
  <2> QED
    BY <2>2, <2>4, <2>5, <2>6
<1>14. At(N)
  <2> HIDE DEF At
  <2>1. N \in T
    <3> HIDE DEF T
    <3> QED
      BY <1>12, <1>13, Induction
  <2> QED
    BY <2>1
<1>15. FoundBelow(N) = EqualPairs
  BY <1>2, <1>3, AllFound
<1> QED
  BY <1>10, <1>14, <1>15

(* After that the file stays as it is, and so does what it is compared     *)
(* with.                                                                   *)
FileRight ==
    out # NotWritten => /\ joined = nthreads /\ Len(out) = Cardinality(EqualPairs)
                        /\ ToSet(out) = EqualPairs

LEMMA FileStep == Whole /\ FileRight /\ [Next]_vars => FileRight'
<1> SUFFICES ASSUME Whole, FileRight, [Next]_vars PROVE FileRight'
  OBVIOUS
<1>1. Typed
  BY DEF Whole
<1>2. CASE write_result_relation
  <2>1. rel' = rel /\ alg' = alg /\ joined' = joined /\ joined = nthreads
    BY <1>2 DEF write_result_relation, constVars
  <2>2. nthreads' = nthreads /\ EqualPairs' = EqualPairs
    BY <2>1, InputStays
  <2> QED
    BY <1>2, <2>1, <2>2, FileIs DEF FileRight
<1>3. CASE UNCHANGED vars \/ ReleaseBarrier \/ CollectResult
  <2>1. rel' = rel /\ alg' = alg /\ out' = out /\ (joined = nthreads => joined' = joined)
    <3>1. joined = nthreads => ~ (joined < nthreads)
      BY SomeRun
    <3> QED
      BY <1>3, <3>1 DEF vars, ReleaseBarrier, Leave, CollectResult, constVars, mainVars
  <2>2. nthreads' = nthreads /\ EqualPairs' = EqualPairs
    BY <2>1, InputStays
  <2> QED
    BY <2>1, <2>2 DEF FileRight
<1>4. ASSUME NEW t \in Threads, Thread(t) PROVE FileRight'
  <2>1. rel' = rel /\ alg' = alg /\ joined' = joined
    BY <1>1, <1>4, ThreadStep DEF Typed
  <2>2. out' = out
    BY <1>4 DEF Thread, Latch, ChoosePlace, CountTuple, Overflow, StoreTuple, InsertSerially,
                BuildDone, ProbeTuple, ProbeBucket, ProbeDone, free_bucket_buffer, mainVars
  <2>3. nthreads' = nthreads /\ EqualPairs' = EqualPairs
    BY <2>1, InputStays
  <2> QED
    BY <2>1, <2>2, <2>3 DEF FileRight
<1> QED
  BY <1>2, <1>3, <1>4 DEF Next

(* The join returns the number of the pairs with equal keys, and the file  *)
(* that main writes has each of them once (probe_hashtable with            *)
(* JOIN_RESULT_MATERIALIZE, cb_next_writepos, cb_read_backwards,           *)
(* write_result_relation), whatever fits into a result buffer and in       *)
(* whatever order the threads find the pairs.                              *)
THEOREM ResultIsRight == Spec => []ResultRight
<1>1. Init => Whole /\ FileRight
  <2>1. Init => Whole
    BY InitialTypes, InitialStructure DEF Whole
  <2> QED
    BY <2>1 DEF Init, FileRight
<1>2. Whole /\ FileRight /\ [Next]_vars => (Whole /\ FileRight)'
  BY WholeStep, FileStep
<1>3. Whole /\ FileRight => ResultRight
  <2> SUFFICES ASSUME Whole, FileRight PROVE ResultRight
    OBVIOUS
  <2>1. TotalRight
    BY WholeCounts
  <2> QED
    BY <2>1 DEF FileRight, ResultRight, TotalRight
<1> QED
  BY <1>1, <1>2, <1>3, PTL DEF Spec

(* Following the pointers from a bucket of the table leads to the buckets  *)
(* that belong to it, and to all of them.                                  *)
LEMMA ChainIs ==
    ASSUME BucketTypes, NEW own, NEW dist, Chains(own, dist), NEW x \in Table
    PROVE  Chain(x) = {y \in DOMAIN mem : own[y] = x}
<1>1. PICK N \in Nat : N = Cardinality(DOMAIN mem)
  BY FS_CardinalityType DEF BucketTypes
<1> DEFINE V == SUBSET ((DOMAIN mem) \cup {NULL})
           next(X) == X \cup {mem[y].next : y \in X \ {NULL}}
           step == [d \in Nat \X V |-> next(d[2])]
           From == CHOOSE f : f = [n \in 0 .. N |-> IF n = 0 THEN {x} ELSE next(f[n - 1])]
<1>2. x \in DOMAIN mem /\ NULL \notin DOMAIN mem /\ own[x] = x /\ dist[x] = 0
      /\ \A y \in DOMAIN mem : mem[y].next \in (DOMAIN mem) \cup {NULL}
  BY DEF BucketTypes, Chains
<1>3. PICK g \in [0 .. N -> V] : Follows(g, N, {x}, step)
  <2>1. {x} \in V /\ \A X \in V : next(X) \in V
    BY <1>2
  <2>2. step \in [Nat \X V -> V]
    BY <2>1
  <2> HIDE DEF step, V
  <2> QED
    BY <1>1, <2>1, <2>2, Recursion
<1>4. g[0] = {x} /\ \A n \in 1 .. N : g[n] = next(g[n - 1])
  <2>1. ASSUME NEW n \in 1 .. N PROVE g[n] = next(g[n - 1])
    <3>1. n - 1 \in 0 .. N /\ n \in Nat /\ g[n - 1] \in V
      BY <1>1
    <3>2. step[<<n, g[n - 1]>>] = next(g[n - 1])
      BY <3>1
    <3> QED
      BY <1>3, <3>2 DEF Follows
  <2> QED
    BY <1>3, <2>1 DEF Follows
<1> HIDE DEF step
<1>5. g = [n \in 0 .. N |-> IF n = 0 THEN {x} ELSE next(g[n - 1])]
  <2>1. \A n \in 0 .. N : g[n] = IF n = 0 THEN {x} ELSE next(g[n - 1])
    BY <1>1, <1>4
  <2> HIDE DEF next
  <2> QED
    BY <2>1
<1>6. From = [n \in 0 .. N |-> IF n = 0 THEN {x} ELSE next(From[n - 1])]
  BY <1>5
<1>7. Chain(x) = From[N] \ {NULL}
  BY <1>1 DEF Chain
<1> HIDE DEF From
<1>8. From[0] = {x} /\ \A n \in 0 .. N : n + 1 <= N => From[n + 1] = next(From[n])
  <2>1. From[0] = {x}
    BY <1>1, <1>6
  <2>2. ASSUME NEW n \in 0 .. N, n + 1 <= N PROVE From[n + 1] = next(From[n])
    <3>1. n + 1 \in 0 .. N /\ n + 1 # 0 /\ (n + 1) - 1 = n
      BY <1>1, <2>2
    <3> HIDE DEF next
    <3> QED
      BY <1>6, <3>1
  <2> QED
    BY <2>1, <2>2
<1> DEFINE Reached(n) ==
              /\ From[n] \subseteq {y \in DOMAIN mem : own[y] = x} \cup {NULL}
              /\ \A y \in DOMAIN mem : own[y] = x /\ dist[y] <= n => y \in From[n]
           T == {n \in Nat : n <= N => Reached(n)}
<1>9. 0 \in T
  <2>1. ASSUME NEW y \in DOMAIN mem, own[y] = x, dist[y] <= 0 PROVE y = x
    <3>1. dist[y] \in Nat
      BY DEF Chains
    <3>2. dist[y] = dist[x] /\ own[y] = own[x]
      BY <1>2, <2>1, <3>1
    <3> QED
      BY <1>2, <3>2 DEF Chains
  <2> QED
    BY <1>2, <1>8, <2>1
<1>10. ASSUME NEW n \in Nat, n \in T PROVE n + 1 \in T
  <2> SUFFICES ASSUME n + 1 <= N PROVE Reached(n + 1)
    OBVIOUS
  <2>1. Reached(n) /\ From[n + 1] = From[n] \cup {mem[y].next : y \in From[n] \ {NULL}}
    BY <1>1, <1>8, <1>10
  <2>2. ASSUME NEW y \in From[n] \ {NULL}
        PROVE  mem[y].next \in {z \in DOMAIN mem : own[z] = x} \cup {NULL}
    BY <1>2, <2>1 DEF Chains
  <2>3. ASSUME NEW y \in DOMAIN mem, own[y] = x, dist[y] <= n + 1 PROVE y \in From[n + 1]
    <3>1. dist[y] \in Nat
      BY DEF Chains
    <3>2. CASE dist[y] <= n
      BY <2>1, <2>3, <3>2
    <3>3. CASE dist[y] = n + 1
      <4>1. y \notin Table
        BY <3>3 DEF Chains
      <4>2. PICK z \in DOMAIN mem : mem[z].next = y /\ own[z] = own[y] /\ dist[y] = dist[z] + 1
        BY <4>1 DEF Chains
      <4>3. dist[z] \in Nat
        BY DEF Chains
      <4>4. dist[z] <= n
        BY <3>3, <4>2, <4>3
      <4>5. z \in From[n] /\ z # NULL
        BY <1>2, <2>1, <2>3, <4>2, <4>4
      <4> QED
        BY <2>1, <4>2, <4>5
    <3> QED
      BY <2>3, <3>1, <3>2, <3>3
  <2> QED
    BY <2>1, <2>2, <2>3
<1>11. Reached(N)
  <2> HIDE DEF Reached
  <2>1. N \in T
    <3> HIDE DEF T
    <3> QED
      BY <1>9, <1>10, Induction
  <2> QED
    BY <2>1
<1>12. \A y \in DOMAIN mem : dist[y] <= N
  <2>1. \A y \in DOMAIN mem : dist[y] \in Nat /\ dist[y] < N
    BY <1>1 DEF Chains
  <2> QED
    BY <2>1
<1> QED
  BY <1>2, <1>7, <1>11, <1>12

(* What is built is the whole of R: no tuple overwrote another's place or  *)
(* was cut off with its overflow bucket, whatever the threads' order.      *)
THEOREM TableHoldsR == Spec => []EveryTupleStored
<1>1. ASSUME Whole, \A t \in Threads : ~ Building(t), NEW p \in DOMAIN rel.R
      PROVE  Cardinality(PlacesOf(p)) = 1
  <2>1. PICK own, dist : Chains(own, dist) /\ Storage(own)
    BY <1>1 DEF Whole, Structure
  <2>2. Typed /\ BucketTypes /\ rel \in Relations
    BY <1>1 DEF Whole, Typed, ThreadTypes
  <2>3. 0 \in Running /\ pc[0] \in PastBuild
    <3>1. 0 \in Running /\ 0 \in Threads
      BY SomeRun
    <3>2. pc[0] \in Labels /\ pc[0] # "absent" /\ ~ Building(0)
      BY <1>1, <2>2, <3>1 DEF Typed, ThreadTypes
    <3> QED
      BY <3>1, <3>2 DEF Labels, Building, PastBuild
  <2>4. /\ Inserted = DOMAIN rel.R
        /\ Filled = {d \in (DOMAIN mem) \X (0 .. BUCKET_SIZE - 1) : d[2] < mem[d[1]].count}
    BY <2>2, <2>3, AllBuilt
  <2>5. PICK d \in Filled : TupleAt(d) = p
    BY <1>1, <2>1, <2>4 DEF Storage
  <2>6. PICK x : x = HASH(rel.R[p])
    OBVIOUS
  <2>7. x \in Table
    <3>1. rel.R[p] \in Nat
      BY <1>1, <2>2, RelationFacts
    <3> QED
      BY <2>2, <2>6, <3>1, Hashed
  <2>8. Chain(x) = {y \in DOMAIN mem : own[y] = x}
    BY <2>1, <2>2, <2>7, ChainIs
  <2>9. own[d[1]] = x
    BY <2>1, <2>5, <2>6 DEF Storage
  <2>10. PlacesOf(p) = {e \in {y \in DOMAIN mem : own[y] = x} \X (0 .. BUCKET_SIZE - 1) :
                           e[2] < mem[e[1]].count /\ mem[e[1]].tuples[e[2]] = p}
    BY <2>6, <2>8 DEF PlacesOf
  <2>11. d \in PlacesOf(p)
    BY <2>4, <2>5, <2>9, <2>10 DEF TupleAt
  <2>12. ASSUME NEW e \in PlacesOf(p) PROVE e = d
    <3>1. e \in Filled /\ TupleAt(e) = p
      BY <2>4, <2>10 DEF TupleAt
    <3> QED
      BY <2>1, <2>5, <3>1 DEF Storage
  <2>13. PlacesOf(p) = {d}
    BY <2>11, <2>12
  <2> QED
    BY <2>13, FS_Singleton
<1>2. Whole => EveryTupleStored
  BY <1>1 DEF EveryTupleStored
<1> QED
  BY <1>2, WholeInvariant, PTL
=============================================================================
