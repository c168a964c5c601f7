-------------------------- MODULE FirstPassProofs ---------------------------
(***************************************************************************)
(* Proofs about the first pass, for every number of threads, partitions    *)
(* and hash functions and every pair of relations: first of RadixPartition *)
(* by itself, then of the four programs of FirstPass.                      *)
(*                                                                         *)
(* The invariant of the four programs is PassInv.  Beyond types and places *)
(* it says that there is an account: for each relation the set of the      *)
(* tuples that were counted, and of each thread that its histogram, its    *)
(* offsets, its next slots, its buffers and what it has stored are what    *)
(* this set makes them.                                                    *)
(***************************************************************************)
EXTENDS FirstPass, FiniteSetTheorems, TLAPS


(* What / means in C for non-negative integers. *)
LEMMA DivisionFacts ==
    ASSUME NEW a \in Nat, NEW b \in Nat \ {0}
    PROVE  /\ a \div b \in Nat
           /\ b * (a \div b) <= a
  OBVIOUS

(* Thread numbers are small naturals, as my_tid is.                        *)
LEMMA ThreadsFacts ==
    /\ NThreads \in Nat \ {0}
    /\ Threads \subseteq Nat
    /\ \A t \in Threads : t \in Nat /\ 0 <= t /\ t <= NThreads - 1
  BY NThreadsAssumption DEF Threads

(* Each thread's chunk is a range of tuples of the relation.               *)
LEMMA ChunkInRelation ==
    ASSUME NEW X \in Inputs, NEW t \in Threads
    PROVE  /\ num_tuples(X, t) \in Nat
           /\ \A n \in 0 .. num_tuples(X, t) - 1 :
                 Position(X, t, n) \in 1 .. Len(X)
  <1> DEFINE len == Len(X)
             q   == len \div NThreads
  <1>1. len \in Nat
    BY InputsAssumption
  <1>2. /\ NThreads \in Nat \ {0}
        /\ t \in Nat /\ t <= NThreads - 1
    BY ThreadsFacts
  <1>3. q \in Nat /\ NThreads * q <= len
    BY <1>1, <1>2, DivisionFacts
  <1> HIDE DEF q
  <1>4. t * q \in Nat /\ t * q <= (NThreads - 1) * q
    BY <1>2, <1>3
  <1>5. (NThreads - 1) * q = NThreads * q - q /\ NThreads * q \in Nat
    BY <1>2, <1>3
  <1>6. numperthr(X) = q
    BY DEF numperthr, q
  <1>7. num_tuples(X, t) = IF t = NThreads - 1 THEN len - t * q ELSE q
    BY <1>6 DEF num_tuples
  <1> HIDE DEF len
  <1>8. num_tuples(X, t) \in Nat
    BY <1>1, <1>3, <1>4, <1>5, <1>7
  <1>9. t * q + num_tuples(X, t) <= len
    BY <1>1, <1>2, <1>3, <1>4, <1>5, <1>7
  <1>10. ASSUME NEW n \in 0 .. num_tuples(X, t) - 1
         PROVE  Position(X, t, n) \in 1 .. len
    BY <1>1, <1>4, <1>6, <1>8, <1>9 DEF Position
  <1>11. QED
    BY <1>8, <1>10 DEF len

(* Every tuple is in some thread's chunk: the last one takes the remainder *)
(* of the division (join_init_run).                                        *)
LEMMA EveryTupleInAChunk ==
    ASSUME NEW X \in Inputs, NEW p \in 1 .. Len(X)
    PROVE  \E t \in Threads : \E n \in 0 .. num_tuples(X, t) - 1 :
              p = Position(X, t, n)
  <1> DEFINE len == Len(X)
             q   == len \div NThreads
  <1>1. len \in Nat /\ p \in 1 .. len
    BY InputsAssumption
  <1>2. NThreads \in Nat \ {0}
    BY NThreadsAssumption
  <1>3. q \in Nat /\ NThreads * q <= len
    BY <1>1, <1>2, DivisionFacts
  <1>4. numperthr(X) = q
    BY DEF numperthr, q
  <1> HIDE DEF q
  <1>5. CASE q > 0 /\ p - 1 < (NThreads - 1) * q
    <2> DEFINE t == (p - 1) \div q
               n == (p - 1) - t * q
    <2>1. /\ t \in Nat /\ q * t <= p - 1
          /\ p - 1 < q * t + q
      BY <1>1, <1>3, <1>5
    <2>2. t < NThreads - 1
      BY <1>1, <1>2, <1>3, <1>5, <2>1
    <2>3. t \in Threads
      BY <1>2, <2>1, <2>2 DEF Threads
    <2>4. num_tuples(X, t) = q
      BY <1>4, <2>2, <1>2, <2>1 DEF num_tuples
    <2>5. n \in 0 .. q - 1 /\ p = t * q + n + 1
      BY <1>1, <1>3, <2>1
    <2>6. QED
      BY <1>4, <2>3, <2>4, <2>5 DEF Position
  <1>6. CASE ~(q > 0 /\ p - 1 < (NThreads - 1) * q)
    <2> DEFINE t == NThreads - 1
               n == (p - 1) - t * q
    <2>1. t * q <= p - 1 /\ t * q \in Nat
      BY <1>1, <1>2, <1>3, <1>6
    <2>2. t \in Threads
      BY <1>2 DEF Threads
    <2>3. num_tuples(X, t) = len - t * q
      BY <1>4 DEF num_tuples
    <2>4. n \in 0 .. num_tuples(X, t) - 1 /\ p = t * q + n + 1
      BY <1>1, <1>2, <1>3, <2>1, <2>3
    <2>5. QED
      BY <1>4, <2>2, <2>4 DEF Position
  <1>7. QED
    BY <1>5, <1>6

-----------------------------------------------------------------------------
(***************************************************************************)
(* Type correctness.                                                       *)
(***************************************************************************)
(* HASH_BIT_MODULO yields the number of a partition.                       *)
LEMMA ClusterType ==
    ASSUME NEW key \in Keys
    PROVE  HASH_BIT_MODULO(key) \in Clusters
  BY FanOutAssumption, InputsAssumption DEF HASH_BIT_MODULO, Clusters

(* A tuple of a thread's chunk has a key of the join.                      *)
LEMMA KeyType ==
    ASSUME NEW X \in Inputs, NEW t \in Threads, NEW n \in 0 .. num_tuples(X, t) - 1
    PROVE  Key(X, t, n) \in Keys
  BY ChunkInRelation, InputsAssumption DEF Key

(* The threads start with counters and tables of their types.              *)
LEMMA InitType == Init => TypeOK
  <1> SUFFICES ASSUME Init PROVE TypeOK
    OBVIOUS
  <1>1. \A t \in Threads : num_tuples(rel[0], t) \in Nat
    BY ChunkInRelation DEF Init, Rels
  <1>2. \A t \in Threads : WithinLoop(t)
    BY <1>1 DEF Init, WithinLoop, Rel, Rels
  <1>3. QED
    BY <1>2, FilterAssumption, FanOutAssumption
    DEF Init, TypeOK, Rels, Clusters

(* Updating one entry of a table keeps its type. *)
LEMMA UpdateRow ==
    ASSUME NEW A, NEW B, NEW C, NEW f \in [A -> [B -> C]],
           NEW a \in A, NEW b \in B, NEW v \in C
    PROVE  [f EXCEPT ![a][b] = v] \in [A -> [B -> C]]
  OBVIOUS

(* So does updating one entry of a row. *)
LEMMA UpdateEntry ==
    ASSUME NEW A, NEW B, NEW C, NEW D, NEW f \in [A -> [B -> [C -> D]]],
           NEW a \in A, NEW b \in B, NEW c \in C, NEW v \in D
    PROVE  [f EXCEPT ![a][b][c] = v] \in [A -> [B -> [C -> D]]]
  <1>1. [f[a] EXCEPT ![b][c] = v] \in [B -> [C -> D]]
    BY UpdateRow
  <1>2. [f EXCEPT ![a][b][c] = v] = [f EXCEPT ![a] = [f[a] EXCEPT ![b][c] = v]]
    OBVIOUS
  <1>3. QED
    BY <1>1, <1>2

(* A step that moves only thread t's counter and place in the program      *)
(* leaves every other thread within its loop.                              *)
LEMMA OthersWithinLoop ==
    ASSUME TypeOK, NEW t \in Threads, rel' = rel, relidx' = relidx,
           \A u \in Threads \ {t} : pc'[u] = pc[u] /\ i'[u] = i[u],
           WithinLoop(t)'
    PROVE  \A u \in Threads : WithinLoop(u)'
  <1> TAKE u \in Threads
  <1>1. CASE u = t
    BY <1>1
  <1>2. CASE u # t
    BY <1>2 DEF TypeOK, WithinLoop, Rel
  <1>3. QED
    BY <1>1, <1>2

(* No step of prj_thread or of the barrier breaks the types and loops.     *)
LEMMA NextType == TypeOK /\ [Next]_vars => TypeOK'
  <1> SUFFICES ASSUME TypeOK, [Next]_vars PROVE TypeOK'
    OBVIOUS
  <1>0. /\ NThreads \in Nat \ {0} /\ FanOut \in Nat \ {0} /\ K \in Nat
        /\ Padding \in Nat
        /\ \A t \in Threads : \A X \in Inputs : num_tuples(X, t) \in Nat
        /\ \A t \in Threads : Rel(t) \in Inputs
    BY NThreadsAssumption, FanOutAssumption, FilterAssumption,
       PaddingAssumption, ChunkInRelation DEF Rel, TypeOK
  <1>1. ASSUME NEW t \in Threads, AddBit(t) PROVE TypeOK'
    <2>1. CurrentBit(t) \in Nat
      BY <1>1, <1>0, KeyType, FilterAssumption
      DEF AddBit, InHistogram, CurrentBit, TypeOK
    <2>2. bit' \in [Threads -> 0 .. K] /\ bitmap' \subseteq Nat
      <3>1. bit' = [bit EXCEPT ![t] = bit[t] + 1] /\ bit[t] < K
        BY <1>1 DEF AddBit
      <3>2. bitmap' = bitmap \cup {CurrentBit(t)}
        BY <1>1 DEF AddBit
      <3>3. bit' \in [Threads -> 0 .. K]
        BY <1>0, <3>1 DEF TypeOK
      <3>4. bitmap' \subseteq Nat
        BY <2>1, <3>2 DEF TypeOK
      <3>5. QED
        BY <3>3, <3>4
    <2>3. \A u \in Threads : WithinLoop(u)'
      BY <1>1 DEF AddBit, TypeOK, WithinLoop, Rel
    <2>4. QED
      BY <1>1, <2>2, <2>3 DEF AddBit, TypeOK
  <1>2. ASSUME NEW t \in Threads, TestBit(t) PROVE TypeOK'
    <2>1. bit' \in [Threads -> 0 .. K]
      BY <1>2, <1>0 DEF TestBit, TypeOK
    <2>2. \A u \in Threads : WithinLoop(u)'
      BY <1>2 DEF TestBit, TypeOK, WithinLoop, Rel
    <2>3. QED
      BY <1>2, <2>1, <2>2 DEF TestBit, TypeOK
  <1>3. ASSUME NEW t \in Threads, FilterOut(t) PROVE TypeOK'
    <2>1. i' \in [Threads -> Nat] /\ bit' \in [Threads -> 0 .. K]
      BY <1>3, <1>0 DEF FilterOut, TypeOK
    <2>2. WithinLoop(t)'
      BY <1>3, <1>0 DEF FilterOut, InHistogram, TypeOK, WithinLoop, Rel
    <2>3. \A u \in Threads : WithinLoop(u)'
      BY <1>3, <2>2, OthersWithinLoop DEF FilterOut, TypeOK
    <2>4. QED
      BY <1>3, <2>1, <2>3 DEF FilterOut, TypeOK
  <1>4. ASSUME NEW t \in Threads, CountTuple(t) PROVE TypeOK'
    <2> DEFINE r == relidx[t]
               c == HASH_BIT_MODULO(Key(Rel(t), t, i[t]))
    <2>1. c \in Clusters /\ r \in Rels
      BY <1>4, <1>0, KeyType, ClusterType DEF CountTuple, InHistogram, TypeOK
    <2>2. hist[r][t][c] + 1 \in Nat
      BY <2>1 DEF TypeOK
    <2>3. hist' = [hist EXCEPT ![r][t][c] = hist[r][t][c] + 1]
      BY <1>4 DEF CountTuple
    <2> HIDE DEF c, r
    <2> DEFINE table == [Rels -> [Threads -> [Clusters -> Nat]]]
    <2>4. hist' \in table
      <3>1. hist \in table
        BY DEF TypeOK
      <3>2. [hist EXCEPT ![r][t][c] = hist[r][t][c] + 1] \in table
        BY <2>1, <2>2, <3>1, UpdateEntry
      <3>3. QED
        BY <2>3, <3>2
    <2>5. contains_cache' \in [Threads -> SUBSET Nat]
      BY <1>4 DEF CountTuple, TypeOK
    <2>6. i' \in [Threads -> Nat] /\ bit' \in [Threads -> 0 .. K]
      BY <1>4, <1>0 DEF CountTuple, TypeOK
    <2>7. WithinLoop(t)'
      BY <1>4, <1>0 DEF CountTuple, InHistogram, TypeOK, WithinLoop, Rel
    <2>8. \A u \in Threads : WithinLoop(u)'
      BY <1>4, <2>7, OthersWithinLoop DEF CountTuple, TypeOK
    <2>9. QED
      BY <1>4, <2>4, <2>5, <2>6, <2>8 DEF CountTuple, TypeOK
  <1>5. ASSUME NEW t \in Threads, HistogramDone(t) PROVE TypeOK'
    <2>1. WithinLoop(t)'
      BY <1>5, <1>0 DEF HistogramDone, TypeOK, WithinLoop
    <2>2. \A u \in Threads : WithinLoop(u)'
      BY <1>5, <2>1, OthersWithinLoop DEF HistogramDone, TypeOK
    <2>3. QED
      BY <1>5, <2>2 DEF HistogramDone, TypeOK
  <1>6. ASSUME NEW t \in Threads, PrefixSum(t) PROVE TypeOK'
    <2> DEFINE r == relidx[t]
               v == hist[r][t][i[t]] + IF i[t] = 0 THEN 0 ELSE hist[r][t][i[t] - 1]
    <2>1. i[t] \in Clusters /\ r \in Rels
      BY <1>6, <1>0 DEF PrefixSum, TypeOK, Clusters
    <2>2. v \in Nat
      <3>1. hist[r][t] \in [Clusters -> Nat]
        BY <2>1 DEF TypeOK
      <3>2. i[t] # 0 => i[t] - 1 \in Clusters
        BY <2>1, <1>0 DEF Clusters
      <3>3. QED
        BY <2>1, <3>1, <3>2
    <2>3. hist' = [hist EXCEPT ![r][t][i[t]] = v]
      BY <1>6 DEF PrefixSum
    <2> HIDE DEF v, r
    <2> DEFINE table == [Rels -> [Threads -> [Clusters -> Nat]]]
    <2>4. hist' \in table
      <3>1. hist \in table
        BY DEF TypeOK
      <3>2. [hist EXCEPT ![r][t][i[t]] = v] \in table
        BY <2>1, <2>2, <3>1, UpdateEntry
      <3>3. QED
        BY <2>3, <3>2
    <2>5. WithinLoop(t)' /\ i' \in [Threads -> Nat]
      BY <1>6, <1>0 DEF PrefixSum, TypeOK, WithinLoop
    <2>6. \A u \in Threads : WithinLoop(u)'
      BY <1>6, <2>5, OthersWithinLoop DEF PrefixSum, TypeOK
    <2>7. QED
      BY <1>6, <2>4, <2>5, <2>6 DEF PrefixSum, TypeOK
  <1>7. ASSUME NEW t \in Threads, ArriveAtSync1(t) PROVE TypeOK'
    <2>1. WithinLoop(t)'
      BY <1>7 DEF ArriveAtSync1, TypeOK, WithinLoop
    <2>2. \A u \in Threads : WithinLoop(u)'
      BY <1>7, <2>1, OthersWithinLoop DEF ArriveAtSync1, TypeOK
    <2>3. QED
      BY <1>7, <2>2 DEF ArriveAtSync1, TypeOK
  <1>8. ASSUME NEW t \in Threads, AddRow(t) PROVE TypeOK'
    <2> DEFINE r == relidx[t]
               row == hist[r][i[t]]
               new == [c \in 0 .. FanOut |->
                          output[r][t][c] + IF c < FanOut /\ i[t] < t THEN row[c]
                                            ELSE IF c > 0 THEN row[c - 1] ELSE 0]
    <2>1. i[t] \in Threads /\ r \in Rels
      BY <1>8, <1>0 DEF AddRow, TypeOK, Threads
    <2>2. row \in [Clusters -> Nat] /\ output[r][t] \in [0 .. FanOut -> Nat]
      BY <2>1 DEF TypeOK
    <2>3. output' = [output EXCEPT ![r][t] = new]
      BY <1>8 DEF AddRow
    <2> HIDE DEF row, r
    <2>4. new \in [0 .. FanOut -> Nat]
      <3>1. ASSUME NEW c \in 0 .. FanOut PROVE output[r][t][c] \in Nat
        BY <2>2
      <3>2. ASSUME NEW c \in 0 .. FanOut, c < FanOut PROVE row[c] \in Nat
        BY <1>0, <2>2, <3>2 DEF Clusters
      <3>3. ASSUME NEW c \in 0 .. FanOut, c > 0 PROVE row[c - 1] \in Nat
        BY <1>0, <2>2, <3>3 DEF Clusters
      <3>4. QED
        BY <3>1, <3>2, <3>3
    <2> HIDE DEF new
    <2>5. output' \in [Rels -> [Threads -> [0 .. FanOut -> Nat]]]
      BY <2>1, <2>3, <2>4, UpdateRow DEF TypeOK
    <2>6. WithinLoop(t)' /\ i' \in [Threads -> Nat]
      BY <1>8, <1>0 DEF AddRow, TypeOK, WithinLoop
    <2>7. \A u \in Threads : WithinLoop(u)'
      BY <1>8, <2>6, OthersWithinLoop DEF AddRow, TypeOK
    <2>8. QED
      BY <1>8, <2>5, <2>6, <2>7 DEF AddRow, TypeOK
  <1>9. ASSUME NEW t \in Threads, AddPadding(t) PROVE TypeOK'
    <2> DEFINE r == relidx[t]
               padded == [c \in 0 .. FanOut |-> output[r][t][c] + c * Padding]
    <2>1. r \in Rels /\ output[r][t] \in [0 .. FanOut -> Nat]
      BY DEF TypeOK
    <2>2. /\ output' = [output EXCEPT ![r][t] = padded]
          /\ dst' = [dst EXCEPT ![t] = [c \in Clusters |-> padded[c]]]
      BY <1>9 DEF AddPadding
    <2> HIDE DEF r
    <2>3. padded \in [0 .. FanOut -> Nat]
      <3>1. ASSUME NEW c \in 0 .. FanOut PROVE c * Padding \in Nat
        BY <1>0
      <3>2. ASSUME NEW c \in 0 .. FanOut PROVE output[r][t][c] \in Nat
        BY <2>1
      <3>3. ASSUME NEW c \in 0 .. FanOut PROVE output[r][t][c] + c * Padding \in Nat
        BY <3>1, <3>2
      <3>4. QED
        BY <3>3
    <2> HIDE DEF padded
    <2>4. output' \in [Rels -> [Threads -> [0 .. FanOut -> Nat]]]
      BY <2>1, <2>2, <2>3, UpdateRow DEF TypeOK
    <2>5. dst' \in [Threads -> [Clusters -> Nat]]
      <3>1. [c \in Clusters |-> padded[c]] \in [Clusters -> Nat]
        BY <1>0, <2>3 DEF Clusters
      <3>2. dst \in [Threads -> [Clusters -> Nat]]
        BY DEF TypeOK
      <3>3. QED
        BY <2>2, <3>1, <3>2
    <2>6. WithinLoop(t)' /\ i' \in [Threads -> Nat]
      BY <1>9, <1>0 DEF AddPadding, TypeOK, WithinLoop, Rel
    <2>7. \A u \in Threads : WithinLoop(u)'
      BY <1>9, <2>6, OthersWithinLoop DEF AddPadding, TypeOK
    <2>8. QED
      BY <1>9, <2>4, <2>5, <2>6, <2>7 DEF AddPadding, TypeOK
  <1>10. ASSUME NEW t \in Threads, CopyTuple(t) PROVE TypeOK'
    <2> DEFINE r == relidx[t]
               c == HASH_BIT_MODULO(Key(Rel(t), t, i[t]))
               p == Position(Rel(t), t, i[t])
               slot == dst[t][c]
    <2>1. i[t] \in 0 .. num_tuples(Rel(t), t) - 1
      BY <1>10, <1>0 DEF CopyTuple, TypeOK
    <2>2. c \in Clusters /\ p \in Nat /\ slot \in Nat /\ r \in Rels
      BY <1>0, <2>1, KeyType, ClusterType, ChunkInRelation DEF TypeOK
    <2>3. /\ tmp' = [tmp EXCEPT ![r] = [s \in DOMAIN tmp[r] \cup {slot} |->
                         IF s = slot THEN p ELSE tmp[r][s]]]
          /\ dst' = [dst EXCEPT ![t][c] = slot + 1]
      BY <1>10 DEF CopyTuple
    <2> HIDE DEF c, p, slot, r
    <2>4. /\ DOMAIN tmp' = Rels
          /\ \A q \in Rels : \A s \in DOMAIN tmp'[q] : s \in Nat /\ tmp'[q][s] \in Nat
      BY <2>2, <2>3 DEF TypeOK
    <2>5. dst' \in [Threads -> [Clusters -> Nat]]
      BY <2>2, <2>3, UpdateRow DEF TypeOK
    <2>6. WithinLoop(t)' /\ i' \in [Threads -> Nat]
      BY <1>10, <1>0 DEF CopyTuple, TypeOK, WithinLoop, Rel
    <2>7. \A u \in Threads : WithinLoop(u)'
      BY <1>10, <2>6, OthersWithinLoop DEF CopyTuple, TypeOK
    <2>8. QED
      BY <1>10, <2>4, <2>5, <2>6, <2>7 DEF CopyTuple, TypeOK
  <1>11. ASSUME NEW t \in Threads, SkipTuple(t) PROVE TypeOK'
    <2>1. WithinLoop(t)' /\ i' \in [Threads -> Nat]
      BY <1>11, <1>0 DEF SkipTuple, TypeOK, WithinLoop, Rel
    <2>2. \A u \in Threads : WithinLoop(u)'
      BY <1>11, <2>1, OthersWithinLoop DEF SkipTuple, TypeOK
    <2>3. QED
      BY <1>11, <2>1, <2>2 DEF SkipTuple, TypeOK
  <1>12. ASSUME NEW t \in Threads, ArriveAtSync2(t) PROVE TypeOK'
    <2>1. WithinLoop(t)'
      BY <1>12 DEF ArriveAtSync2, TypeOK, WithinLoop
    <2>2. \A u \in Threads : WithinLoop(u)'
      BY <1>12, <2>1, OthersWithinLoop DEF ArriveAtSync2, TypeOK
    <2>3. QED
      BY <1>12, <2>2 DEF ArriveAtSync2, TypeOK
  <1>13. CASE ReleaseBarrier
    <2>1. relidx' \in [Threads -> Rels]
      BY <1>13 DEF ReleaseBarrier, Leave, Rels, TypeOK
    <2>2. pc' \in [Threads -> {"histogram", "offsets", "done"}]
      BY <1>13 DEF ReleaseBarrier, Leave
    <2>3. \A t \in Threads : i[t] = 0 /\ i'[t] = 0
      BY <1>13 DEF ReleaseBarrier, Leave, Waiting, WithinLoop, TypeOK
    <2>4. \A t \in Threads : rel'[relidx'[t]] \in Inputs
      BY <1>13, <2>1 DEF ReleaseBarrier, Leave, TypeOK
    <2>5. \A t \in Threads : num_tuples(rel'[relidx'[t]], t) >= 0
      BY <1>0, <2>4
    <2>6. \A t \in Threads : WithinLoop(t)'
      BY <1>0, <2>2, <2>3, <2>5 DEF WithinLoop, Rel
    <2>7. QED
      BY <1>13, <2>1, <2>2, <2>6 DEF ReleaseBarrier, Leave, TypeOK
  <1>14. CASE UNCHANGED vars
    BY <1>14 DEF vars, WithinLoop, Rel, TypeOK
  <1>15. QED
    BY <1>1, <1>2, <1>3, <1>4, <1>5, <1>6, <1>7, <1>8, <1>9, <1>10, <1>11,
       <1>12, <1>13, <1>14 DEF Next, Done, Thread

(* No thread's counter leaves its loop and every variable keeps its type.  *)
THEOREM TypeCorrect == Spec => []TypeOK
  BY InitType, NextType, PTL DEF Spec

-----------------------------------------------------------------------------
(***************************************************************************)
(* The threads are always on the same side of the same barrier.            *)
(***************************************************************************)
(* All threads start before the first barrier of R.                        *)
LEMMA InitInStep == Init => InStep
  BY DEF Init, InStep, BeforeSync1

(* Only the barrier takes threads past a barrier, and it takes all.        *)
LEMMA NextInStep == TypeOK /\ InStep /\ [Next]_vars => InStep'
  <1> SUFFICES ASSUME TypeOK, InStep, [Next]_vars PROVE InStep'
    OBVIOUS
  <1>1. ASSUME NEW t \in Threads, Thread(t) PROVE InStep'
    <2>1. relidx' = relidx
      BY <1>1 DEF Thread, AddBit, TestBit, FilterOut, CountTuple, HistogramDone,
                  PrefixSum, ArriveAtSync1, AddRow, AddPadding, CopyTuple,
                  SkipTuple, ArriveAtSync2
    <2>2. \A u \in Threads : BeforeSync1(u)' <=> BeforeSync1(u)
      BY <1>1 DEF Thread, AddBit, TestBit, FilterOut, CountTuple, HistogramDone,
                  PrefixSum, ArriveAtSync1, AddRow, AddPadding, CopyTuple,
                  SkipTuple, ArriveAtSync2, BeforeSync1, InHistogram, TypeOK
    <2>3. QED
      BY <2>1, <2>2 DEF InStep
  <1>2. CASE ReleaseBarrier
    <2>1. \A t \in Threads : pc[t] \in {"sync1", "sync2"}
      BY <1>2 DEF ReleaseBarrier, Waiting
    <2>2. (\A t \in Threads : pc[t] = "sync1") \/ (\A t \in Threads : pc[t] = "sync2")
      BY <2>1 DEF InStep, BeforeSync1
    <2>3. CASE \A t \in Threads : pc[t] = "sync1"
      <3>1. \A t \in Threads : pc'[t] = "offsets" /\ relidx'[t] = relidx[t]
        BY <1>2, <2>3 DEF ReleaseBarrier, Leave
      <3>2. QED
        BY <3>1 DEF InStep, BeforeSync1
    <2>4. CASE \A t \in Threads : pc[t] = "sync2"
      <3>1. \A t \in Threads :
               /\ pc'[t] = IF relidx[t] = 0 THEN "histogram" ELSE "done"
               /\ relidx'[t] = 1
        BY <1>2, <2>4 DEF ReleaseBarrier, Leave
      <3>2. QED
        BY <3>1 DEF InStep, BeforeSync1
    <2>5. QED
      BY <2>2, <2>3, <2>4
  <1>3. CASE UNCHANGED vars
    BY <1>3 DEF vars, InStep, BeforeSync1
  <1>4. QED
    BY <1>1, <1>2, <1>3 DEF Next, Done

(* No thread is ever on the other side of a barrier than the others, or    *)
(* partitions another relation: between BARRIER_ARRIVE and BARRIER_ARRIVE. *)
THEOREM ThreadsInStep == Spec => []InStep
  <1>1. QED
    BY InitInStep, NextInStep, TypeCorrect, PTL DEF Spec

(* While one thread tests the filter no thread adds to it: without that    *)
(* the plain loads of contains_generic would race with add_generic.        *)
THEOREM FilterHasNoRace == Spec => []FilterRaceFree
  <1>1. InStep => FilterRaceFree
    BY DEF InStep, FilterRaceFree, InHistogram, build
  <1>2. QED
    BY <1>1, ThreadsInStep, PTL

(* A thread sums histograms only when every thread has finished its own.   *)
THEOREM HistogramsAreComplete == Spec => []HistogramsComplete
  <1>1. ASSUME TypeOK, InStep, NEW t \in Threads, NEW u \in Threads, pc[t] = "offsets"
        PROVE  relidx[u] >= relidx[t] /\ ~BeforeSync1(u)
    <2>1. relidx[u] = relidx[t] /\ relidx[t] \in Rels
      BY <1>1 DEF InStep, TypeOK
    <2>2. ~BeforeSync1(u)
      BY <1>1 DEF InStep, BeforeSync1
    <2>3. QED
      BY <2>1, <2>2 DEF Rels
  <1>2. TypeOK /\ InStep => HistogramsComplete
    BY <1>1 DEF HistogramsComplete
  <1>3. QED
    BY <1>2, ThreadsInStep, TypeCorrect, PTL

-----------------------------------------------------------------------------
(***************************************************************************)
(* The filter holds every key of R that has been scanned.                  *)
(***************************************************************************)
(* Before the first scan nothing has to be in the filter.                  *)
LEMMA InitFilterFilled == Init => FilterFilled
  <1> SUFFICES ASSUME Init, NEW t \in Threads
               PROVE  ScannedAdded(t) /\ BeingAdded(t) /\ AllAdded(t)
    BY DEF FilterFilled
  <1>1. ScannedAdded(t)
    BY DEF Init, ScannedAdded, Scanned
  <1>2. BeingAdded(t)
    BY DEF Init, BeingAdded
  <1>3. AllAdded(t)
    BY DEF Init, AllAdded
  <1>4. QED
    BY <1>1, <1>2, <1>3

(* What was added stays: no step clears a bit or changes a relation.       *)
LEMMA FilterGrows ==
    ASSUME [Next]_vars
    PROVE  bitmap \subseteq bitmap' /\ rel' = rel
  BY DEF Next, Done, vars, Thread, AddBit, TestBit, FilterOut, CountTuple,
         HistogramDone, PrefixSum, ArriveAtSync1, AddRow, AddPadding, CopyTuple,
         SkipTuple, ArriveAtSync2, ReleaseBarrier, Leave

(* A key that is in the filter stays there.                                *)
LEMMA KeysStayAdded ==
    ASSUME bitmap \subseteq bitmap', NEW key
    PROVE  KeyAdded(key) => KeyAdded(key)'
  BY DEF KeyAdded

(* A step that leaves a thread's place in the scan alone leaves what is    *)
(* known of that thread.                                                   *)
LEMMA ScanFrame ==
    ASSUME FilterFilled, bitmap \subseteq bitmap', rel' = rel, NEW t \in Threads,
           relidx'[t] = relidx[t], pc'[t] = pc[t], i'[t] = i[t], bit'[t] = bit[t]
    PROVE  ScannedAdded(t)' /\ BeingAdded(t)' /\ AllAdded(t)'
  <1>1. ScannedAdded(t)'
    BY DEF FilterFilled, ScannedAdded, Scanned, KeyAdded, Rel
  <1>2. BeingAdded(t)'
    BY DEF FilterFilled, BeingAdded, InHistogram, Rel
  <1>3. AllAdded(t)'
    BY DEF FilterFilled, AllAdded, KeyAdded
  <1>4. QED
    BY <1>1, <1>2, <1>3

(* The same for a step outside the scan. *)
LEMMA AfterScanFrame ==
    ASSUME FilterFilled, bitmap \subseteq bitmap', rel' = rel, NEW t \in Threads,
           relidx'[t] = relidx[t], pc[t] # "histogram", pc'[t] # "histogram"
    PROVE  ScannedAdded(t)' /\ BeingAdded(t)' /\ AllAdded(t)'
  <1>1. ScannedAdded(t)'
    BY DEF FilterFilled, ScannedAdded, Scanned, KeyAdded, Rel
  <1>2. BeingAdded(t)'
    BY DEF BeingAdded, InHistogram
  <1>3. AllAdded(t)'
    BY DEF FilterFilled, AllAdded, KeyAdded
  <1>4. QED
    BY <1>1, <1>2, <1>3

(* Every step keeps the scanned keys of R in the filter: a tuple counts as *)
(* scanned when its last bit was set, and at the barrier every chunk was.  *)
LEMMA NextFilterFilled ==
    TypeOK /\ InStep /\ FilterFilled /\ [Next]_vars => FilterFilled'
  <1> SUFFICES ASSUME TypeOK, InStep, FilterFilled, [Next]_vars PROVE FilterFilled'
    OBVIOUS
  <1> DEFINE Known(t) == ScannedAdded(t) /\ BeingAdded(t) /\ AllAdded(t)
  <1>0. bitmap \subseteq bitmap' /\ rel' = rel /\ K \in Nat
    BY FilterGrows, FilterAssumption
  <1>1. ASSUME NEW t \in Threads, AddBit(t) PROVE FilterFilled'
    <2>1. /\ relidx' = relidx /\ pc' = pc /\ i' = i
          /\ \A u \in Threads \ {t} : bit'[u] = bit[u]
          /\ bit'[t] = bit[t] + 1
      BY <1>1 DEF AddBit, TypeOK
    <2>2. ScannedAdded(t)'
      BY <1>0, <2>1 DEF FilterFilled, ScannedAdded, Scanned, KeyAdded, Rel
    <2>3. BeingAdded(t)'
      <3>1. SUFFICES ASSUME relidx[t] = 0, NEW b \in 0 .. bit[t]
                     PROVE  Positions[Key(rel[0], t, i[t])][b] \in bitmap'
        BY <1>0, <2>1 DEF BeingAdded, TypeOK
      <3>2. CASE b = bit[t]
        BY <1>1, <3>1, <3>2 DEF AddBit, CurrentBit, Rel
      <3>3. CASE b # bit[t]
        <4>1. b \in 0 .. bit[t] - 1 /\ InHistogram(t)
          BY <1>0, <1>1, <3>3 DEF AddBit, TypeOK
        <4>2. QED
          BY <1>0, <3>1, <4>1 DEF FilterFilled, BeingAdded
      <3>4. QED
        BY <3>2, <3>3
    <2>4. AllAdded(t)'
      BY <1>0, <2>1 DEF FilterFilled, AllAdded, KeyAdded
    <2>5. \A u \in Threads \ {t} : Known(u)'
      BY <1>0, <2>1, ScanFrame
    <2>6. QED
      BY <2>2, <2>3, <2>4, <2>5 DEF FilterFilled
  <1>2. ASSUME NEW t \in Threads, TestBit(t) \/ FilterOut(t) PROVE FilterFilled'
    <2>1. /\ relidx' = relidx /\ pc' = pc /\ relidx[t] = 1
          /\ \A u \in Threads \ {t} : i'[u] = i[u] /\ bit'[u] = bit[u]
      BY <1>2 DEF TestBit, FilterOut, build, TypeOK, Rels
    <2>2. Known(t)'
      <3>1. bitmap' = bitmap /\ rel' = rel
        BY <1>2 DEF TestBit, FilterOut
      <3>2. ScannedAdded(t)' /\ BeingAdded(t)'
        BY <2>1 DEF ScannedAdded, BeingAdded
      <3>3. AllAdded(t)'
        BY <2>1, <3>1 DEF FilterFilled, AllAdded, KeyAdded
      <3>4. QED
        BY <3>2, <3>3
    <2>3. \A u \in Threads \ {t} : Known(u)'
      BY <1>0, <2>1, ScanFrame
    <2>4. QED
      BY <2>2, <2>3 DEF FilterFilled
  <1>3. ASSUME NEW t \in Threads, CountTuple(t) PROVE FilterFilled'
    <2>1. /\ relidx' = relidx /\ pc' = pc
          /\ \A u \in Threads \ {t} : i'[u] = i[u] /\ bit'[u] = bit[u]
          /\ i'[t] = i[t] + 1 /\ bit'[t] = 0 /\ bit[t] = K
          /\ InHistogram(t) /\ i[t] \in Nat /\ bitmap' = bitmap
      BY <1>3 DEF CountTuple, TypeOK
    <2>2. ScannedAdded(t)'
      <3>1. SUFFICES ASSUME relidx[t] = 0, NEW n \in 0 .. i[t]
                     PROVE  KeyAdded(Key(rel[0], t, n))
        BY <1>0, <2>1 DEF ScannedAdded, Scanned, InHistogram, KeyAdded
      <3>2. CASE n = i[t]
        BY <2>1, <3>1, <3>2 DEF FilterFilled, BeingAdded, KeyAdded
      <3>3. CASE n # i[t]
        <4>1. n \in 0 .. i[t] - 1
          BY <2>1, <3>3
        <4>2. QED
          BY <2>1, <3>1, <4>1 DEF FilterFilled, ScannedAdded, Scanned, InHistogram
      <3>4. QED
        BY <3>2, <3>3
    <2>3. BeingAdded(t)'
      BY <2>1 DEF BeingAdded
    <2>4. AllAdded(t)'
      BY <1>0, <2>1 DEF FilterFilled, AllAdded, KeyAdded
    <2>5. \A u \in Threads \ {t} : Known(u)'
      BY <1>0, <2>1, ScanFrame
    <2>6. QED
      BY <2>2, <2>3, <2>4, <2>5 DEF FilterFilled
  <1>4. ASSUME NEW t \in Threads, HistogramDone(t) PROVE FilterFilled'
    <2>1. /\ relidx' = relidx /\ pc'[t] = "prefix" /\ pc[t] = "histogram"
          /\ \A u \in Threads \ {t} : i'[u] = i[u] /\ bit'[u] = bit[u] /\ pc'[u] = pc[u]
          /\ i[t] = num_tuples(Rel(t), t)
      BY <1>4 DEF HistogramDone, TypeOK
    <2>2. ScannedAdded(t)'
      BY <1>0, <2>1 DEF FilterFilled, ScannedAdded, Scanned, KeyAdded, Rel
    <2>3. BeingAdded(t)'
      BY <2>1 DEF BeingAdded, InHistogram
    <2>4. AllAdded(t)'
      BY <1>0, <2>1 DEF FilterFilled, AllAdded, KeyAdded
    <2>5. \A u \in Threads \ {t} : Known(u)'
      BY <1>0, <2>1, ScanFrame
    <2>6. QED
      BY <2>2, <2>3, <2>4, <2>5 DEF FilterFilled
  <1>5. ASSUME NEW t \in Threads,
               \/ PrefixSum(t) \/ ArriveAtSync1(t) \/ AddRow(t) \/ AddPadding(t)
               \/ CopyTuple(t) \/ SkipTuple(t) \/ ArriveAtSync2(t)
        PROVE  FilterFilled'
    <2>1. /\ relidx' = relidx /\ bit' = bit
          /\ pc[t] # "histogram" /\ pc'[t] # "histogram"
          /\ \A u \in Threads \ {t} : i'[u] = i[u] /\ pc'[u] = pc[u]
      BY <1>5 DEF PrefixSum, ArriveAtSync1, AddRow, AddPadding, CopyTuple,
                  SkipTuple, ArriveAtSync2, TypeOK
    <2>2. Known(t)'
      BY <1>0, <2>1, AfterScanFrame
    <2>3. \A u \in Threads \ {t} : Known(u)'
      BY <1>0, <2>1, ScanFrame
    <2>4. QED
      BY <2>2, <2>3 DEF FilterFilled
  <1>6. CASE ReleaseBarrier
    <2>1. \A t \in Threads : pc[t] \in {"sync1", "sync2"}
      BY <1>6 DEF ReleaseBarrier, Waiting
    <2> SUFFICES ASSUME NEW t \in Threads PROVE Known(t)'
      BY DEF FilterFilled
    <2>2. CASE pc[t] = "sync1"
      <3>1. relidx'[t] = relidx[t] /\ pc'[t] = "offsets"
        BY <1>6, <2>2 DEF ReleaseBarrier, Leave
      <3>2. QED
        BY <1>0, <2>2, <3>1, AfterScanFrame
    <2>3. CASE pc[t] = "sync2"
      <3>1. relidx'[t] = 1
        BY <1>6, <2>3 DEF ReleaseBarrier, Leave
      <3>2. ScannedAdded(t)' /\ BeingAdded(t)'
        BY <3>1 DEF ScannedAdded, BeingAdded
      <3>3. ASSUME NEW p \in DOMAIN rel[0] PROVE KeyAdded(rel[0][p])
        <4>1. CASE relidx[t] = 1
          BY <4>1, <3>3 DEF FilterFilled, AllAdded
        <4>2. CASE relidx[t] = 0
          <5>1. rel[0] \in Inputs /\ p \in 1 .. Len(rel[0])
            BY <3>3, InputsAssumption DEF TypeOK, Rels
          <5>2. PICK u \in Threads :
                   \E n \in 0 .. num_tuples(rel[0], u) - 1 : p = Position(rel[0], u, n)
            BY <5>1, EveryTupleInAChunk
          <5> PICK n \in 0 .. num_tuples(rel[0], u) - 1 : p = Position(rel[0], u, n)
            BY <5>2
          <5>3. relidx[u] = 0 /\ pc[u] # "histogram"
            BY <2>1, <4>2 DEF InStep
          <5>4. n \in Scanned(u)
            BY <5>3 DEF Scanned, Rel
          <5>5. KeyAdded(Key(rel[0], u, n))
            BY <5>3, <5>4 DEF FilterFilled, ScannedAdded
          <5>6. QED
            BY <5>5 DEF Key
        <4>3. QED
          BY <4>1, <4>2 DEF TypeOK, Rels
      <3>4. AllAdded(t)'
        BY <1>0, <3>3 DEF AllAdded, KeyAdded
      <3>5. QED
        BY <3>2, <3>4
    <2>4. QED
      BY <2>1, <2>2, <2>3
  <1>7. CASE UNCHANGED vars
    BY <1>0, <1>7, ScanFrame DEF vars, FilterFilled
  <1>8. QED
    BY <1>1, <1>2, <1>3, <1>4, <1>5, <1>6, <1>7 DEF Next, Done, Thread

(* When the threads scan S the filter holds every key of R, and before it  *)
(* holds those that have been scanned (add, in the histogram loop).        *)
THEOREM FilterHoldsR == Spec => []FilterFilled
  <1>1. QED
    BY InitFilterFilled, NextFilterFilled, TypeCorrect, ThreadsInStep, PTL DEF Spec

-----------------------------------------------------------------------------
(***************************************************************************)
(* No S tuple with a partner in R is dropped.                              *)
(***************************************************************************)
(* No tuple of S has been decided on before the first scan.                *)
LEMMA InitPartnersKept == Init => NoFalseNegative
  BY DEF Init, NoFalseNegative, PartnersKept

(* A step that leaves a thread's scan and its cache alone drops nothing.   *)
LEMMA KeptFrame ==
    ASSUME NoFalseNegative, rel' = rel, NEW t \in Threads,
           relidx'[t] = relidx[t], contains_cache'[t] = contains_cache[t],
           \/ pc'[t] = pc[t] /\ i'[t] = i[t]
           \/ pc[t] \notin {"histogram", "sync2", "done"} /\ pc'[t] # "histogram"
    PROVE  PartnersKept(t)'
  BY DEF NoFalseNegative, PartnersKept, Scanned, HasPartner, Rel

(* No step drops a tuple of S that has a partner: contains fails on a bit  *)
(* that is not set, and all bits of the partner's key are.                 *)
LEMMA NextPartnersKept ==
    TypeOK /\ FilterFilled /\ NoFalseNegative /\ [Next]_vars => NoFalseNegative'
  <1> SUFFICES ASSUME TypeOK, FilterFilled, NoFalseNegative, [Next]_vars
               PROVE  NoFalseNegative'
    OBVIOUS
  <1>0. rel' = rel /\ K \in Nat
    BY FilterGrows, FilterAssumption
  <1>1. ASSUME NEW t \in Threads, AddBit(t) \/ TestBit(t) PROVE NoFalseNegative'
    BY <1>0, <1>1, KeptFrame DEF AddBit, TestBit, NoFalseNegative
  <1>2. ASSUME NEW t \in Threads, FilterOut(t) PROVE NoFalseNegative'
    <2>1. /\ relidx' = relidx /\ pc' = pc /\ contains_cache' = contains_cache
          /\ \A u \in Threads \ {t} : i'[u] = i[u]
          /\ i'[t] = i[t] + 1 /\ i[t] \in Nat /\ pc[t] = "histogram"
          /\ relidx[t] = 1 /\ bit[t] \in 0 .. K-1
          /\ CurrentBit(t) \notin bitmap
      BY <1>0, <1>2 DEF FilterOut, InHistogram, build, TypeOK, Rels
    <2>2. ~HasPartner(Key(rel[1], t, i[t]))
      <3>1. ASSUME NEW p \in DOMAIN rel[0] PROVE KeyAdded(rel[0][p])
        BY <2>1, <3>1 DEF FilterFilled, AllAdded
      <3>2. ~KeyAdded(Key(rel[1], t, i[t]))
        BY <2>1 DEF KeyAdded, CurrentBit, Rel
      <3>3. QED
        BY <3>1, <3>2 DEF HasPartner
    <2>3. PartnersKept(t)'
      <3>1. SUFFICES ASSUME NEW n \in 0 .. i[t], HasPartner(Key(rel[1], t, n))
                     PROVE  n \in contains_cache[t]
        BY <1>0, <2>1 DEF PartnersKept, Scanned, HasPartner
      <3>2. n \in 0 .. i[t] - 1
        BY <2>1, <2>2, <3>1
      <3>3. QED
        BY <2>1, <3>1, <3>2 DEF NoFalseNegative, PartnersKept, Scanned
    <2>4. \A u \in Threads \ {t} : PartnersKept(u)'
      BY <1>0, <2>1, KeptFrame
    <2>5. QED
      BY <2>3, <2>4 DEF NoFalseNegative
  <1>3. ASSUME NEW t \in Threads, CountTuple(t) PROVE NoFalseNegative'
    <2>1. /\ relidx' = relidx /\ pc' = pc
          /\ \A u \in Threads \ {t} :
                i'[u] = i[u] /\ contains_cache'[u] = contains_cache[u]
          /\ i'[t] = i[t] + 1 /\ i[t] \in Nat /\ pc[t] = "histogram"
          /\ relidx[t] = 1 => contains_cache'[t] = contains_cache[t] \cup {i[t]}
      BY <1>3 DEF CountTuple, InHistogram, build, TypeOK
    <2>2. PartnersKept(t)'
      <3>1. SUFFICES ASSUME relidx[t] = 1, NEW n \in 0 .. i[t],
                            HasPartner(Key(rel[1], t, n))
                     PROVE  n \in contains_cache[t] \cup {i[t]}
        BY <1>0, <2>1 DEF PartnersKept, Scanned, HasPartner
      <3>2. CASE n = i[t]
        BY <3>2
      <3>3. CASE n # i[t]
        <4>1. n \in 0 .. i[t] - 1
          BY <2>1, <3>3
        <4>2. QED
          BY <2>1, <3>1, <4>1 DEF NoFalseNegative, PartnersKept, Scanned
      <3>4. QED
        BY <3>2, <3>3
    <2>3. \A u \in Threads \ {t} : PartnersKept(u)'
      BY <1>0, <2>1, KeptFrame
    <2>4. QED
      BY <2>2, <2>3 DEF NoFalseNegative
  <1>4. ASSUME NEW t \in Threads, HistogramDone(t) PROVE NoFalseNegative'
    <2>1. /\ relidx' = relidx /\ contains_cache' = contains_cache
          /\ \A u \in Threads \ {t} : i'[u] = i[u] /\ pc'[u] = pc[u]
          /\ pc[t] = "histogram" /\ pc'[t] = "prefix"
          /\ i[t] = num_tuples(Rel(t), t)
      BY <1>4 DEF HistogramDone, TypeOK
    <2>2. PartnersKept(t)'
      BY <1>0, <2>1 DEF NoFalseNegative, PartnersKept, Scanned, HasPartner, Rel
    <2>3. \A u \in Threads \ {t} : PartnersKept(u)'
      BY <1>0, <2>1, KeptFrame
    <2>4. QED
      BY <2>2, <2>3 DEF NoFalseNegative
  <1>5. ASSUME NEW t \in Threads,
               \/ PrefixSum(t) \/ ArriveAtSync1(t) \/ AddRow(t) \/ AddPadding(t)
               \/ CopyTuple(t) \/ SkipTuple(t)
        PROVE  NoFalseNegative'
    <2>1. /\ relidx' = relidx /\ contains_cache' = contains_cache
          /\ pc[t] \notin {"histogram", "sync2", "done"} /\ pc'[t] # "histogram"
          /\ \A u \in Threads \ {t} : i'[u] = i[u] /\ pc'[u] = pc[u]
      BY <1>5 DEF PrefixSum, ArriveAtSync1, AddRow, AddPadding, CopyTuple,
                  SkipTuple, TypeOK
    <2>2. \A u \in Threads : PartnersKept(u)'
      BY <1>0, <2>1, KeptFrame
    <2>3. QED
      BY <2>2 DEF NoFalseNegative
  <1>6. ASSUME NEW t \in Threads, ArriveAtSync2(t) PROVE NoFalseNegative'
    <2>1. /\ relidx' = relidx /\ pc'[t] = "sync2"
          /\ \A u \in Threads \ {t} : /\ i'[u] = i[u] /\ pc'[u] = pc[u]
                                       /\ contains_cache'[u] = contains_cache[u]
      BY <1>6 DEF ArriveAtSync2, TypeOK
    <2>2. PartnersKept(t)'
      BY <2>1 DEF PartnersKept
    <2>3. \A u \in Threads \ {t} : PartnersKept(u)'
      BY <1>0, <2>1, KeptFrame
    <2>4. QED
      BY <2>2, <2>3 DEF NoFalseNegative
  <1>7. CASE ReleaseBarrier
    <2>1. \A t \in Threads : pc[t] \in {"sync1", "sync2"} /\ i[t] = 0
      BY <1>7 DEF ReleaseBarrier, Waiting, TypeOK, WithinLoop
    <2>2. i' = i /\ contains_cache' = contains_cache
      BY <1>7 DEF ReleaseBarrier, Leave
    <2> SUFFICES ASSUME NEW t \in Threads PROVE PartnersKept(t)'
      BY DEF NoFalseNegative
    <2>3. CASE pc[t] = "sync1"
      <3>1. relidx'[t] = relidx[t] /\ pc'[t] = "offsets"
        BY <1>7, <2>3 DEF ReleaseBarrier, Leave
      <3>2. QED
        BY <1>0, <2>2, <2>3, <3>1, KeptFrame
    <2>4. CASE pc[t] = "sync2"
      <3>1. pc'[t] \in {"histogram", "done"}
        BY <1>7, <2>4 DEF ReleaseBarrier, Leave
      <3>2. pc'[t] = "histogram" => Scanned(t)' = {}
        BY <2>1, <2>2 DEF Scanned
      <3>3. QED
        BY <3>1, <3>2 DEF PartnersKept
    <2>5. QED
      BY <2>1, <2>3, <2>4
  <1>8. CASE UNCHANGED vars
    BY <1>0, <1>8, KeptFrame DEF vars, NoFalseNegative
  <1>9. QED
    BY <1>1, <1>2, <1>3, <1>4, <1>5, <1>6, <1>7, <1>8 DEF Next, Done, Thread

(* Whatever the number of threads, the sizes of the relations and of the   *)
(* filter, and however the threads interleave: every S tuple that joins    *)
(* with some R tuple survives the filter.                                  *)
THEOREM NoMatchIsLost == Spec => []NoFalseNegative
  <1>1. QED
    BY InitPartnersKept, NextPartnersKept, TypeCorrect, FilterHoldsR, PTL DEF Spec

(***************************************************************************)
(* Where tuples belong.  X is a relation, Q the positions of X that are    *)
(* kept.                                                                   *)
(***************************************************************************)
(* The chunks follow each other: thread t's lies between End(X, t) and     *)
(* End(X, t + 1).                                                          *)
End(X, n) == IF n = NThreads THEN Len(X) ELSE n * numperthr(X)
Chunk(X, t) == End(X, t) + 1 .. End(X, t + 1)

RadixOf(X, p) == HASH_BIT_MODULO(X[p])

(* What a thread counts for partition c, before and after the prefix sum.  *)
Exactly(X, Q, t, c) == {p \in Q \cap Chunk(X, t) : RadixOf(X, p) = c}
UpTo(X, Q, t, c) == {p \in Q \cap Chunk(X, t) : RadixOf(X, p) <= c}

(* The tuples that go before thread t's in partition c, and its place.     *)
Earlier(X, Q, t, c) ==
    {p \in Q : RadixOf(X, p) < c \/ (RadixOf(X, p) = c /\ p <= End(X, t))}
Start(X, Q, t, c) == c * Padding + Cardinality(Earlier(X, Q, t, c))

(* Those that the first n rows stand for.                                  *)
EarlierIn(X, Q, t, c, n) == {p \in Earlier(X, Q, t, c) : p <= End(X, n)}

(* The slot for the tuple at position p.                                   *)
Preceding(X, Q, p) ==
    {q \in Q : RadixOf(X, q) < RadixOf(X, p) \/ (RadixOf(X, q) = RadixOf(X, p) /\ q < p)}
SlotFor(X, Q, p) == RadixOf(X, p) * Padding + Cardinality(Preceding(X, Q, p))

(* The slots thread t may write for partition c, in whole lines.           *)
LineStart(s) == s - (s % Line)
LinesOf(X, Q, t, c) ==
    LineStart(Start(X, Q, t, c)) .. Start(X, Q, t, c) + Cardinality(Exactly(X, Q, t, c)) - 1

(* An entry of a line is the tuple that belongs there, or garbage.         *)
Belongs(X, Q, s, v) == v = Garbage \/ (v \in Q /\ s = SlotFor(X, Q, v))

-----------------------------------------------------------------------------
(***************************************************************************)
(* Where threads are.                                                      *)
(***************************************************************************)
(* Thread t has left sync1 of relation r behind. *)
AfterSync1(r, t) == relidx[t] > r \/ (relidx[t] = r /\ ~BeforeSync1(t))

(* Nobody leaves a barrier of the one relation while another has not even  *)
(* come there.                                                             *)
Met ==
    /\ \A r \in Rels, t, u \in Threads : AfterSync1(r, t) => AfterSync1(r, u)
    /\ program.filter => \A t, u \in Threads : relidx[t] = relidx[u]

(* The places in each program. *)
Labels ==
    (IF program.filter THEN {"histogram"} ELSE {"count"})
        \cup {"prefix", "sync1", "offsets", "copy", "sync2", "done"}
        \cup (IF program.swwc THEN {"remainder"} ELSE {})

(* What the filter's cache holds, and the types of what TypeOK does not    *)
(* speak of.                                                               *)
PlaceOf(t) ==
    /\ pc[t] \in Labels
    /\ (pc[t] = "done" \/ (pc[t] = "sync2" /\ ~program.filter)) => relidx[t] = 1
    /\ program.filter /\ (relidx[t] = 0 \/ pc[t] \in {"sync2", "done"}) =>
          contains_cache[t] = {}
    /\ program.filter /\ pc[t] = "histogram" => contains_cache[t] \subseteq 0 .. i[t] - 1
    /\ ~program.filter /\ pc[t] \notin {"sync2", "done"} =>
          Unfiltered \subseteq contains_cache[t]

Places ==
    /\ program \in Programs
    /\ \A t \in Threads : PlaceOf(t)
    /\ \A r \in Rels : DOMAIN tmp[r] # {} => \A t \in Threads : AfterSync1(r, t)
    /\ buffer \in [Threads -> [Clusters -> [0 .. Line - 1 -> Nat]]]

-----------------------------------------------------------------------------
(***************************************************************************)
(* What the arrays hold.  kept[r] are the positions of r that were counted.*)
(***************************************************************************)
(* The positions of relation r that the histogram loop of thread t has     *)
(* decided on, and those that its copy loop has passed.                    *)
Counting(r, t) == relidx[t] = r /\ pc[t] \in {"histogram", "count"}
Decided(r, t) ==
    IF relidx[t] < r THEN {}
    ELSE IF Counting(r, t) THEN End(rel[r], t) + 1 .. End(rel[r], t) + i[t]
    ELSE Chunk(rel[r], t)

Passed(r, t) ==
    IF relidx[t] = r /\ pc[t] = "copy" THEN End(rel[r], t) + 1 .. End(rel[r], t) + i[t]
    ELSE IF AfterSync1(r, t) /\ ~(relidx[t] = r /\ pc[t] = "offsets") THEN Chunk(rel[r], t)
    ELSE {}

KeptAt(kept, r, t) ==
    /\ kept[r] \cap Chunk(rel[r], t) \subseteq Decided(r, t)
    /\ (r = 0 \/ ~program.filter) => Decided(r, t) \subseteq kept[r]
    /\ relidx[t] = r /\ pc[t] \notin {"sync2", "done"} =>
          \A p \in Decided(r, t) :
             p \in kept[r] <=> (r = 0 \/ p - End(rel[r], t) - 1 \in contains_cache[t])
    /\ r = 1 /\ relidx[t] = r /\ pc[t] \in {"sync2", "done"} =>
          \A p \in Chunk(rel[r], t) : HasPartner(rel[r][p]) => p \in kept[r]

KeptType(kept) ==
    kept \in [Rels -> SUBSET Nat] /\ \A r \in Rels : kept[r] \subseteq 1 .. Len(rel[r])

Summed(r, t, c) ==
    \/ relidx[t] > r
    \/ /\ relidx[t] = r /\ pc[t] \notin {"histogram", "count"}
       /\ pc[t] = "prefix" => c < i[t]

HistAt(kept, r, t) ==
    \A c \in Clusters :
        hist[r][t][c] = IF Summed(r, t, c) THEN Cardinality(UpTo(rel[r], kept[r], t, c))
                        ELSE Cardinality(Exactly(rel[r], kept[r], t, c))

OutputAt(kept, r, t) ==
    \A c \in 0 .. FanOut :
        output[r][t][c] =
            IF ~AfterSync1(r, t) THEN 0
            ELSE IF relidx[t] = r /\ pc[t] = "offsets"
                 THEN Cardinality(EarlierIn(rel[r], kept[r], t, c, i[t]))
            ELSE Start(rel[r], kept[r], t, c)

(* Where thread t's next tuple of partition c goes. *)
NextOf(t, c) == IF program.swwc THEN Slot(t, c) ELSE dst[t][c]
PassedOf(kept, r, t, c) == Exactly(rel[r], kept[r], t, c) \cap Passed(r, t)

NextAt(kept, r, t) ==
    relidx[t] = r /\ pc[t] \in {"copy", "remainder"} =>
        \A c \in Clusters :
            NextOf(t, c) = Start(rel[r], kept[r], t, c) + Cardinality(PassedOf(kept, r, t, c))

(* The entries of a thread's lines before the next slot.                   *)
BufferAt(kept, r, t) ==
    program.swwc /\ relidx[t] = r /\ pc[t] \in {"copy", "remainder"} =>
        \A c \in Clusters :
            /\ \A k \in 0 .. (Slot(t, c) % Line) - 1 :
                  Belongs(rel[r], kept[r], LineStart(Slot(t, c)) + k, buffer[t][c][k])
            /\ \A p \in PassedOf(kept, r, t, c) :
                  SlotFor(rel[r], kept[r], p) >= LineStart(Slot(t, c)) =>
                      buffer[t][c][SlotFor(rel[r], kept[r], p) % Line] = p

(* Thread t has written the line of position p of its chunk. *)
WrittenOut(kept, r, t, p) ==
    /\ p \in Passed(r, t)
    /\ program.swwc /\ relidx[t] = r /\ pc[t] \in {"copy", "remainder"} =>
          \/ SlotFor(rel[r], kept[r], p) < LineStart(Slot(t, RadixOf(rel[r], p)))
          \/ pc[t] = "remainder" /\ RadixOf(rel[r], p) < i[t]

(* With whole lines another thread may write over a slot.                  *)
Exposed(kept, r, t, p) ==
    program.swwc /\ \E u \in Threads \ {t}, c \in Clusters :
        SlotFor(rel[r], kept[r], p) \in LinesOf(rel[r], kept[r], u, c)

StoredAt(kept, r, t) ==
    \A p \in kept[r] \cap Chunk(rel[r], t) :
        WrittenOut(kept, r, t, p) /\ ~Exposed(kept, r, t, p) =>
            /\ SlotFor(rel[r], kept[r], p) \in DOMAIN tmp[r]
            /\ tmp[r][SlotFor(rel[r], kept[r], p)] = p

NothingElse(kept, r) ==
    \A s \in DOMAIN tmp[r] :
        /\ s \in Nat /\ s < AllocatedTuples(r)
        /\ Belongs(rel[r], kept[r], s, tmp[r][s])
        /\ program.swwc \/ tmp[r][s] # Garbage

(* What is said of thread t and relation r. *)
AccountOf(kept, r, t) ==
    /\ KeptAt(kept, r, t) /\ HistAt(kept, r, t) /\ OutputAt(kept, r, t)
    /\ NextAt(kept, r, t) /\ BufferAt(kept, r, t) /\ StoredAt(kept, r, t)

Account(kept) ==
    /\ KeptType(kept)
    /\ \A r \in Rels : NothingElse(kept, r)
    /\ \A r \in Rels, t \in Threads : AccountOf(kept, r, t)

-----------------------------------------------------------------------------
(***************************************************************************)
(* The chunks and the ranks of tuples.                                     *)
(***************************************************************************)
(* Two disjoint finite sets have as many elements as both together.        *)
LEMMA DisjointUnion ==
    ASSUME NEW A, NEW B, NEW C, IsFiniteSet(C), A \cup B = C, A \cap B = {}
    PROVE  /\ Cardinality(C) = Cardinality(A) + Cardinality(B)
           /\ Cardinality(A) \in Nat /\ Cardinality(B) \in Nat
<1>1. IsFiniteSet(A) /\ IsFiniteSet(B)
  <2>1. A \in SUBSET C /\ B \in SUBSET C
    OBVIOUS
  <2> QED
    BY <2>1, FS_Subset
<1>2. Cardinality(A \cup B) = Cardinality(A) + Cardinality(B) - Cardinality(A \cap B)
  BY <1>1, FS_Union
<1>3. Cardinality(A \cap B) = 0
  BY FS_EmptySet
<1>4. Cardinality(A) \in Nat /\ Cardinality(B) \in Nat
  BY <1>1, FS_CardinalityType
<1>5. Cardinality(C) = Cardinality(A) + Cardinality(B) - 0
  BY <1>2, <1>3
<1> QED
  BY <1>4, <1>5

(* A one-to-one function into as many successive numbers hits them all.    *)
LEMMA IntervalFilled ==
    ASSUME NEW W, IsFiniteSet(W), NEW f, f = [p \in W |-> f[p]], NEW a \in Nat,
           \A p \in W : f[p] \in a .. a + Cardinality(W) - 1,
           \A p, q \in W : f[p] = f[q] => p = q
    PROVE  \A s \in a .. a + Cardinality(W) - 1 : \E p \in W : f[p] = s
<1> DEFINE n == Cardinality(W)
           T == a .. a + n - 1
<1>1. n \in Nat
  BY FS_CardinalityType
<1>2. IsFiniteSet(T) /\ Cardinality(T) = n
  <2> DEFINE b == a + n - 1
  <2> HIDE DEF n
  <2>1. a \in Int /\ b \in Int
    BY <1>1
  <2>2. IsFiniteSet(a .. b) /\ Cardinality(a .. b) = IF a > b THEN 0 ELSE b - a + 1
    <3> HIDE DEF b
    <3> QED
      BY <2>1, FS_Interval
  <2>3. (IF a > b THEN 0 ELSE b - a + 1) = n
    BY <1>1
  <2> QED
    BY <2>2, <2>3
<1>3. f \in Injection(W, T)
  BY DEF Injection, IsInjective
<1>4. Cardinality(W) = Cardinality(T) <=> f \in Surjection(W, T)
  BY <1>2, <1>3, FS_Injection
<1>5. f \in Surjection(W, T)
  BY <1>2, <1>4
<1> QED
  BY <1>5 DEF Surjection

(* Where chunks end.                                                       *)
LEMMA EndFacts ==
    ASSUME NEW X \in Inputs
    PROVE  /\ Len(X) \in Nat /\ numperthr(X) \in Nat
           /\ End(X, 0) = 0 /\ End(X, NThreads) = Len(X)
           /\ \A n \in 0 .. NThreads : End(X, n) \in Nat /\ End(X, n) <= Len(X)
           /\ \A t \in Threads :
                 /\ t + 1 \in 0 .. NThreads /\ t \in 0 .. NThreads
                 /\ End(X, t) <= End(X, t + 1)
                 /\ num_tuples(X, t) = End(X, t + 1) - End(X, t)
                 /\ \A n : Position(X, t, n) = End(X, t) + n + 1
<1> DEFINE len == Len(X)
           q == len \div NThreads
<1>1. len \in Nat /\ NThreads \in Nat \ {0}
  BY InputsAssumption, NThreadsAssumption
<1>2. q \in Nat /\ NThreads * q <= len
  BY <1>1, DivisionFacts
<1>3. numperthr(X) = q
  BY DEF numperthr
<1> HIDE DEF q
<1>4. \A n \in 0 .. NThreads : n * q \in Nat /\ n * q <= NThreads * q
  BY <1>1, <1>2
<1> HIDE DEF len
<1>5. \A n : End(X, n) = IF n = NThreads THEN len ELSE n * q
  BY <1>3 DEF End, len
<1>6. \A n \in 0 .. NThreads : End(X, n) \in Nat /\ End(X, n) <= len
  BY <1>1, <1>2, <1>4, <1>5
<1>7. ASSUME NEW t \in Threads
      PROVE  /\ t + 1 \in 0 .. NThreads /\ t \in 0 .. NThreads
             /\ End(X, t) <= End(X, t + 1)
             /\ num_tuples(X, t) = End(X, t + 1) - End(X, t)
             /\ \A n : Position(X, t, n) = End(X, t) + n + 1
  <2>1. t \in Nat /\ t <= NThreads - 1
    BY ThreadsFacts
  <2>2. End(X, t) = t * q
    BY <1>1, <1>5, <2>1
  <2>3. (t + 1) * q = t * q + q
    BY <1>2, <2>1
  <2>4. num_tuples(X, t) = IF t = NThreads - 1 THEN len - t * q ELSE q
    BY <1>3 DEF num_tuples, len
  <2>5. t * q \in Nat
    BY <1>2, <2>1
  <2>6. t = NThreads - 1 \/ t + 1 # NThreads
    BY <1>1, <2>1
  <2>7. num_tuples(X, t) = End(X, t + 1) - End(X, t)
    <3>1. CASE t = NThreads - 1
      <4>1. t + 1 = NThreads
        BY <1>1, <2>1, <3>1
      <4> QED
        BY <1>5, <2>2, <2>4, <3>1, <4>1
    <3>2. CASE t # NThreads - 1
      <4>1. End(X, t + 1) = (t + 1) * q
        BY <1>5, <2>6, <3>2
      <4>2. (t + 1) * q - t * q = q
        BY <1>2, <2>3, <2>5
      <4> QED
        BY <2>2, <2>4, <3>2, <4>1, <4>2
    <3> QED
      BY <3>1, <3>2
  <2>8. End(X, t) <= End(X, t + 1)
    BY <1>1, <1>2, <1>4, <1>5, <2>1, <2>2, <2>3, <2>5, <2>6
  <2>9. \A n : Position(X, t, n) = End(X, t) + n + 1
    BY <1>3, <2>2 DEF Position
  <2> QED
    BY <1>1, <2>1, <2>7, <2>8, <2>9
<1>8. End(X, 0) = 0 /\ End(X, NThreads) = len
  BY <1>1, <1>2, <1>5
<1> QED
  BY <1>1, <1>2, <1>3, <1>6, <1>7, <1>8 DEF len

(* Later chunks end later.                                                 *)
LEMMA EndsInOrder ==
    ASSUME NEW X \in Inputs, NEW m \in 0 .. NThreads, NEW n \in 0 .. NThreads, m <= n
    PROVE  End(X, m) <= End(X, n)
<1> DEFINE q == numperthr(X)
<1>1. q \in Nat /\ End(X, n) <= Len(X) /\ End(X, m) \in Nat /\ End(X, m) <= Len(X)
      /\ m \in Nat /\ n \in Nat /\ NThreads \in Nat
  BY EndFacts, NThreadsAssumption
<1>2. CASE n = NThreads
  BY <1>1, <1>2 DEF End
<1>3. CASE n # NThreads
  <2>1. End(X, m) = m * q /\ End(X, n) = n * q
    BY <1>1, <1>3 DEF End
  <2> HIDE DEF q
  <2>2. PICK d \in Nat : n = m + d
    BY <1>1
  <2>3. n * q = m * q + d * q /\ d * q \in Nat /\ m * q \in Nat
    BY <1>1, <2>2
  <2> QED
    BY <2>1, <2>3
<1> QED
  BY <1>2, <1>3

(* Chunks are parts of the relation, in the threads' order, and cover it.  *)
LEMMA Chunks ==
    ASSUME NEW X \in Inputs
    PROVE  /\ \A t \in Threads : Chunk(X, t) \subseteq 1 .. Len(X)
           /\ \A t \in Threads : \A n \in 0 .. num_tuples(X, t) - 1 :
                 Position(X, t, n) \in Chunk(X, t)
           /\ \A t, u \in Threads : t < u => \A p \in Chunk(X, t) : p <= End(X, u)
           /\ \A t, u \in Threads : t # u => Chunk(X, t) \cap Chunk(X, u) = {}
           /\ \A p \in 1 .. Len(X) : \E t \in Threads : p \in Chunk(X, t)
<1>1. \A t \in Threads : /\ End(X, t) \in Nat /\ End(X, t + 1) \in Nat
                         /\ End(X, t + 1) <= Len(X) /\ Len(X) \in Nat
                         /\ t \in Nat /\ t \in 0 .. NThreads /\ t + 1 \in 0 .. NThreads
  BY EndFacts, ThreadsFacts
<1>2. \A t \in Threads : Chunk(X, t) \subseteq 1 .. Len(X)
  BY <1>1 DEF Chunk
<1>3. ASSUME NEW t \in Threads, NEW n \in 0 .. num_tuples(X, t) - 1
      PROVE  Position(X, t, n) \in Chunk(X, t)
  BY <1>1, EndFacts DEF Chunk
<1>4. ASSUME NEW t \in Threads, NEW u \in Threads, t < u, NEW p \in Chunk(X, t)
      PROVE  p <= End(X, u)
  <2>1. End(X, t + 1) <= End(X, u)
    BY <1>1, <1>4, EndsInOrder
  <2> QED
    BY <1>1, <2>1 DEF Chunk
<1>5. ASSUME NEW t \in Threads, NEW u \in Threads, t # u
      PROVE  Chunk(X, t) \cap Chunk(X, u) = {}
  <2>1. ASSUME NEW p, p \in Chunk(X, t), p \in Chunk(X, u) PROVE FALSE
    <3>1. t < u \/ u < t
      BY <1>1, <1>5
    <3>2. p <= End(X, u) \/ p <= End(X, t)
      BY <1>4, <2>1, <3>1
    <3> QED
      BY <1>1, <2>1, <3>2 DEF Chunk
  <2> QED
    BY <2>1
<1>6. ASSUME NEW p \in 1 .. Len(X) PROVE \E t \in Threads : p \in Chunk(X, t)
  BY <1>3, EveryTupleInAChunk
<1> QED
  BY <1>2, <1>3, <1>4, <1>5, <1>6

(* Everything that is counted is finite.                                   *)
LEMMA KeptFinite ==
    ASSUME NEW X \in Inputs, NEW Q, Q \subseteq 1 .. Len(X)
    PROVE  /\ IsFiniteSet(Q) /\ Cardinality(Q) <= Len(X)
           /\ \A W : W \subseteq Q => IsFiniteSet(W) /\ Cardinality(W) \in Nat
                                      /\ Cardinality(W) <= Cardinality(Q)
           /\ \A t, c : /\ Cardinality(Exactly(X, Q, t, c)) \in Nat
                        /\ Cardinality(UpTo(X, Q, t, c)) \in Nat
                        /\ Cardinality(Earlier(X, Q, t, c)) \in Nat
           /\ \A t, c, n : Cardinality(EarlierIn(X, Q, t, c, n)) \in Nat
           /\ \A p : Cardinality(Preceding(X, Q, p)) \in Nat
<1>1. Len(X) \in Nat
  BY EndFacts
<1>2. IsFiniteSet(1 .. Len(X)) /\ Cardinality(1 .. Len(X)) = Len(X)
  <2>1. 1 \in Int /\ Len(X) \in Int
    BY <1>1
  <2>2. /\ IsFiniteSet(1 .. Len(X))
        /\ Cardinality(1 .. Len(X)) = IF 1 > Len(X) THEN 0 ELSE Len(X) - 1 + 1
    BY <2>1, FS_Interval
  <2> QED
    BY <1>1, <2>2
<1>3. IsFiniteSet(Q) /\ Cardinality(Q) <= Len(X)
  <2>1. Q \in SUBSET (1 .. Len(X))
    OBVIOUS
  <2> QED
    BY <1>2, <2>1, FS_Subset
<1>4. ASSUME NEW W, W \subseteq Q
      PROVE  IsFiniteSet(W) /\ Cardinality(W) \in Nat /\ Cardinality(W) <= Cardinality(Q)
  <2>1. W \in SUBSET Q
    BY <1>4
  <2>2. IsFiniteSet(W) /\ Cardinality(W) <= Cardinality(Q)
    BY <1>3, <2>1, FS_Subset
  <2> QED
    BY <2>2, FS_CardinalityType
<1>5. \A t, c : /\ Exactly(X, Q, t, c) \subseteq Q /\ UpTo(X, Q, t, c) \subseteq Q
                /\ Earlier(X, Q, t, c) \subseteq Q
  BY DEF Exactly, UpTo, Earlier
<1>6. \A t, c, n : EarlierIn(X, Q, t, c, n) \subseteq Q
  BY <1>5 DEF EarlierIn
<1>7. \A p : Preceding(X, Q, p) \subseteq Q
  BY DEF Preceding
<1> HIDE DEF Exactly, UpTo, Earlier, EarlierIn, Preceding
<1>8. \A t, c : /\ Cardinality(Exactly(X, Q, t, c)) \in Nat
                /\ Cardinality(UpTo(X, Q, t, c)) \in Nat
                /\ Cardinality(Earlier(X, Q, t, c)) \in Nat
  BY <1>4, <1>5
<1>9. \A t, c, n : Cardinality(EarlierIn(X, Q, t, c, n)) \in Nat
  BY <1>4, <1>6
<1>10. \A p : Cardinality(Preceding(X, Q, p)) \in Nat
  BY <1>4, <1>7
<1> QED
  BY <1>3, <1>4, <1>8, <1>9, <1>10

(* Partitions are numbered from 0. *)
LEMMA ClusterFacts ==
    /\ \A c \in Clusters : c \in Nat /\ c < FanOut /\ c \in 0 .. FanOut /\ c + 1 \in 0 .. FanOut
    /\ FanOut \in Nat \ {0} /\ Padding \in Nat
  BY FanOutAssumption, PaddingAssumption DEF Clusters

(* Tuples have the number of a partition.                                  *)
LEMMA RadixType ==
    ASSUME NEW X \in Inputs
    PROVE  /\ \A p \in 1 .. Len(X) : RadixOf(X, p) \in Clusters
           /\ \A c \in Clusters : c \in Nat /\ c < FanOut
           /\ FanOut \in Nat \ {0} /\ Padding \in Nat
<1>1. ASSUME NEW p \in 1 .. Len(X) PROVE RadixOf(X, p) \in Clusters
  <2>1. X[p] \in Keys
    BY InputsAssumption
  <2> QED
    BY <2>1, ClusterType DEF RadixOf
<1> QED
  BY <1>1, FanOutAssumption, PaddingAssumption DEF Clusters

(* The positions that are kept, and which of them are in a chunk.          *)
LEMMA KeptPositions ==
    ASSUME NEW X \in Inputs, NEW Q, Q \subseteq 1 .. Len(X), NEW p \in Q
    PROVE  /\ p \in Nat /\ p >= 1 /\ p <= Len(X)
           /\ RadixOf(X, p) \in Nat /\ RadixOf(X, p) < FanOut /\ RadixOf(X, p) \in Clusters
           /\ \A t \in Threads : p \in Chunk(X, t) <=> End(X, t) < p /\ p <= End(X, t + 1)
<1>1. p \in 1 .. Len(X) /\ Len(X) \in Nat
  BY EndFacts
<1>2. RadixOf(X, p) \in Clusters
  BY <1>1, RadixType
<1>3. ASSUME NEW t \in Threads
      PROVE  p \in Chunk(X, t) <=> End(X, t) < p /\ p <= End(X, t + 1)
  <2>1. End(X, t) \in Nat /\ End(X, t + 1) \in Nat /\ p \in Nat
    BY <1>1, EndFacts
  <2> QED
    BY <2>1 DEF Chunk
<1> QED
  BY <1>1, <1>2, <1>3, RadixType

(* The prefix sum of a histogram row counts the tuples up to a partition.  *)
LEMMA PrefixCount ==
    ASSUME NEW X \in Inputs, NEW Q, Q \subseteq 1 .. Len(X), NEW t \in Threads, NEW c \in Clusters
    PROVE  Cardinality(UpTo(X, Q, t, c)) = Cardinality(Exactly(X, Q, t, c))
              + (IF c = 0 THEN 0 ELSE Cardinality(UpTo(X, Q, t, c - 1)))
<1> DEFINE A == Exactly(X, Q, t, c)
           B == IF c = 0 THEN {} ELSE UpTo(X, Q, t, c - 1)
           C == UpTo(X, Q, t, c)
<1>1. IsFiniteSet(C)
  BY KeptFinite DEF UpTo
<1>2. c \in Nat
  BY RadixType
<1>3. /\ \A p : p \in A <=> p \in C /\ RadixOf(X, p) = c
      /\ \A p : p \in B <=> p \in C /\ RadixOf(X, p) < c
  <2>1. \A p \in Q : RadixOf(X, p) \in Nat
    BY KeptPositions
  <2>2. \A p : p \in C <=> p \in Q /\ p \in Chunk(X, t) /\ RadixOf(X, p) <= c
    BY DEF UpTo
  <2>6. \A p : p \in A <=> p \in Q /\ p \in Chunk(X, t) /\ RadixOf(X, p) = c
    BY DEF Exactly
  <2> HIDE DEF A, C
  <2>3. \A p : p \in A <=> p \in C /\ RadixOf(X, p) = c
    BY <1>2, <2>2, <2>6
  <2>4. CASE c = 0
    <3>1. B = {}
      BY <2>4
    <3>2. \A p \in C : RadixOf(X, p) \in Nat
      BY <2>1, <2>2
    <3> QED
      BY <2>3, <2>4, <3>1, <3>2
  <2>5. CASE c # 0
    <3>1. \A p : p \in B <=> p \in Q /\ p \in Chunk(X, t) /\ RadixOf(X, p) <= c - 1
      BY <2>5 DEF UpTo
    <3> HIDE DEF B
    <3>2. ASSUME NEW p PROVE p \in B <=> p \in C /\ RadixOf(X, p) < c
      <4>1. CASE p \in Q
        BY <1>2, <2>1, <2>2, <3>1, <4>1
      <4>2. CASE p \notin Q
        BY <2>2, <3>1, <4>2
      <4> QED
        BY <4>1, <4>2
    <3> QED
      BY <2>3, <3>2
  <2> QED
    BY <2>3, <2>4, <2>5
<1>4. A \cup B = C /\ A \cap B = {}
  <2>1. \A p \in C : RadixOf(X, p) \in Nat /\ RadixOf(X, p) <= c
    BY KeptPositions DEF UpTo
  <2> HIDE DEF A, B, C
  <2> QED
    BY <1>2, <1>3, <2>1
<1> HIDE DEF A, B, C
<1>5. Cardinality(C) = Cardinality(A) + Cardinality(B)
  BY <1>1, <1>4, DisjointUnion
<1>6. Cardinality(B) = IF c = 0 THEN 0 ELSE Cardinality(UpTo(X, Q, t, c - 1))
  BY FS_EmptySet DEF B
<1> QED
  BY <1>5, <1>6 DEF A, C

(* The first tuples of a cluster have nothing before them. *)
LEMMA FirstCount ==
    ASSUME NEW X \in Inputs, NEW Q, Q \subseteq 1 .. Len(X), NEW t \in Threads
    PROVE  UpTo(X, Q, t, 0) = Exactly(X, Q, t, 0)
<1>1. ASSUME NEW p \in Q PROVE RadixOf(X, p) \in Nat
  BY RadixType
<1>2. \A p : p \in UpTo(X, Q, t, 0) <=> p \in Q /\ p \in Chunk(X, t) /\ RadixOf(X, p) <= 0
  BY DEF UpTo
<1>3. \A p : p \in Exactly(X, Q, t, 0) <=> p \in Q /\ p \in Chunk(X, t) /\ RadixOf(X, p) = 0
  BY DEF Exactly
<1>4. \A p \in Q : RadixOf(X, p) <= 0 <=> RadixOf(X, p) = 0
  BY <1>1
<1> QED
  BY <1>2, <1>3, <1>4

(* A row of the histograms adds the earlier tuples of its thread's chunk:  *)
(* those of the partition too, if it is the row of an earlier thread.      *)
LEMMA RowAdded ==
    ASSUME NEW X \in Inputs, NEW Q, Q \subseteq 1 .. Len(X),
           NEW t \in Threads, NEW u \in Threads, NEW c \in 0 .. FanOut
    PROVE  Cardinality(EarlierIn(X, Q, t, c, u + 1)) = Cardinality(EarlierIn(X, Q, t, c, u))
              + (IF c < FanOut /\ u < t THEN Cardinality(UpTo(X, Q, u, c))
                 ELSE IF c > 0 THEN Cardinality(UpTo(X, Q, u, c - 1)) ELSE 0)
<1> DEFINE A == EarlierIn(X, Q, t, c, u)
           B == IF c < FanOut /\ u < t THEN UpTo(X, Q, u, c)
                ELSE IF c > 0 THEN UpTo(X, Q, u, c - 1) ELSE {}
           C == EarlierIn(X, Q, t, c, u + 1)
<1>0. /\ t \in Nat /\ u \in Nat /\ c \in Nat /\ FanOut \in Nat
      /\ End(X, u) \in Nat /\ End(X, u + 1) \in Nat /\ End(X, u) <= End(X, u + 1)
      /\ End(X, t) \in Nat
  BY EndFacts, ThreadsFacts, RadixType
<1>1. \A p \in Q : RadixOf(X, p) \in Nat /\ RadixOf(X, p) < FanOut /\ p \in Nat
  BY KeptPositions
<1>2. IsFiniteSet(C)
  BY KeptFinite DEF EarlierIn, Earlier
<1>3. \A p \in Q : p \in Chunk(X, u) <=> End(X, u) < p /\ p <= End(X, u + 1)
  BY KeptPositions
<1>4. \A p \in C : p \in Q /\ p <= End(X, u + 1)
                   /\ (RadixOf(X, p) < c \/ (RadixOf(X, p) = c /\ p <= End(X, t)))
  BY DEF EarlierIn, Earlier
<1>5. \A p \in Q : p <= End(X, u + 1) /\ (RadixOf(X, p) < c \/ (RadixOf(X, p) = c /\ p <= End(X, t)))
          => p \in C
  BY DEF EarlierIn, Earlier
<1>6. \A p : p \in A <=> p \in C /\ p <= End(X, u)
  <2>1. \A p : p \in A <=> p \in Earlier(X, Q, t, c) /\ p <= End(X, u)
    BY DEF EarlierIn
  <2>2. \A p : p \in C <=> p \in Earlier(X, Q, t, c) /\ p <= End(X, u + 1)
    BY DEF EarlierIn
  <2>3. \A p \in Earlier(X, Q, t, c) : p \in Nat
    BY <1>1 DEF Earlier
  <2> HIDE DEF A, C
  <2> QED
    BY <1>0, <2>1, <2>2, <2>3
<1>7. u < t => \A p \in Chunk(X, u) : p <= End(X, t)
  BY Chunks
<1>8. ~(u < t) => End(X, t) <= End(X, u)
  <2>1. t \in 0 .. NThreads /\ u \in 0 .. NThreads
    BY EndFacts
  <2> QED
    BY <1>0, <2>1, EndsInOrder
<1>9. \A p \in Q : p \in B <=> p \in Chunk(X, u) /\ (RadixOf(X, p) < c \/ (RadixOf(X, p) = c /\ u < t))
  BY <1>0, <1>1 DEF UpTo
<1>10. B \subseteq Q
  BY DEF UpTo
<1> HIDE DEF A, B, C
<1>11. B \subseteq C
  BY <1>0, <1>1, <1>3, <1>5, <1>7, <1>9, <1>10
<1>12. A \cap B = {}
  <2> SUFFICES ASSUME NEW p \in A, p \in B PROVE FALSE
    OBVIOUS
  <2>1. p \in Q /\ p \in Nat /\ p <= End(X, u) /\ p \in Chunk(X, u)
    BY <1>1, <1>6, <1>9, <1>10
  <2> QED
    BY <1>0, <1>3, <2>1
<1>13. C \subseteq A \cup B
  <2> SUFFICES ASSUME NEW p \in C, p \notin A PROVE p \in B
    OBVIOUS
  <2>1. p \in Q /\ End(X, u) < p /\ p \in Chunk(X, u)
    <3>1. p \in Q /\ p \in Nat /\ ~(p <= End(X, u)) /\ p <= End(X, u + 1)
      BY <1>1, <1>4, <1>6
    <3>2. End(X, u) < p
      BY <1>0, <3>1
    <3> QED
      BY <1>3, <3>1, <3>2
  <2>2. RadixOf(X, p) = c => u < t
    BY <1>0, <1>1, <1>4, <1>8, <2>1
  <2> QED
    BY <1>4, <1>9, <2>1, <2>2
<1>14. A \cup B = C
  BY <1>6, <1>11, <1>13
<1>15. Cardinality(C) = Cardinality(A) + Cardinality(B)
  BY <1>2, <1>12, <1>14, DisjointUnion
<1>16. Cardinality(B) = IF c < FanOut /\ u < t THEN Cardinality(UpTo(X, Q, u, c))
                        ELSE IF c > 0 THEN Cardinality(UpTo(X, Q, u, c - 1)) ELSE 0
  BY FS_EmptySet DEF B
<1> QED
  BY <1>15, <1>16 DEF A, C

(* No row counts nothing, all rows count everything.                       *)
LEMMA NoRowAllRows ==
    ASSUME NEW X \in Inputs, NEW Q, Q \subseteq 1 .. Len(X), NEW t \in Threads, NEW c \in 0 .. FanOut
    PROVE  /\ Cardinality(EarlierIn(X, Q, t, c, 0)) = 0
           /\ EarlierIn(X, Q, t, c, NThreads) = Earlier(X, Q, t, c)
<1>1. End(X, 0) = 0 /\ End(X, NThreads) = Len(X) /\ Len(X) \in Nat
  BY EndFacts
<1>2. \A p \in Earlier(X, Q, t, c) : p \in Nat /\ p >= 1 /\ p <= Len(X)
  BY KeptPositions DEF Earlier
<1>3. EarlierIn(X, Q, t, c, 0) = {}
  BY <1>1, <1>2 DEF EarlierIn
<1>4. EarlierIn(X, Q, t, c, NThreads) = Earlier(X, Q, t, c)
  BY <1>1, <1>2 DEF EarlierIn
<1> QED
  BY <1>3, <1>4, FS_EmptySet

(* Slots follow the order of partitions and, within one, of positions,     *)
(* with the padding between partitions.                                    *)
LEMMA SlotsInOrder ==
    ASSUME NEW X \in Inputs, NEW Q, Q \subseteq 1 .. Len(X), NEW p \in Q, NEW q \in Q,
           p \in Preceding(X, Q, q)
    PROVE  /\ SlotFor(X, Q, p) \in Nat /\ SlotFor(X, Q, q) \in Nat
           /\ SlotFor(X, Q, p) < SlotFor(X, Q, q)
           /\ RadixOf(X, p) < RadixOf(X, q) => SlotFor(X, Q, p) + Padding < SlotFor(X, Q, q)
<1> DEFINE A == Preceding(X, Q, p)
           B == Preceding(X, Q, q)
           a == RadixOf(X, p)
           b == RadixOf(X, q)
<1>1. a \in Nat /\ b \in Nat /\ Padding \in Nat
  BY RadixType
<1>2. a < b \/ (a = b /\ p < q)
  BY DEF Preceding
<1>3. /\ \A r \in Q : RadixOf(X, r) \in Nat /\ r \in Nat
      /\ \A r : r \in A <=> r \in Q /\ (RadixOf(X, r) < a \/ (RadixOf(X, r) = a /\ r < p))
      /\ \A r : r \in B <=> r \in Q /\ (RadixOf(X, r) < b \/ (RadixOf(X, r) = b /\ r < q))
  BY KeptPositions DEF Preceding
<1>4. A \subseteq B /\ p \notin A /\ p \in B
  <2> HIDE DEF A, B
  <2>1. p \notin A /\ p \in B
    BY <1>1, <1>2, <1>3
  <2>2. ASSUME NEW r \in A PROVE r \in B
    <3>1. r \in Q /\ RadixOf(X, r) \in Nat /\ r \in Nat /\ p \in Nat /\ q \in Nat
      BY <1>3
    <3> HIDE DEF a, b
    <3> QED
      BY <1>1, <1>2, <1>3, <3>1
  <2> QED
    BY <2>1, <2>2
<1>5. IsFiniteSet(B) /\ IsFiniteSet(A) /\ Cardinality(A) \in Nat /\ Cardinality(B) \in Nat
  BY KeptFinite DEF Preceding
<1> HIDE DEF A, B
<1>6. Cardinality(A) < Cardinality(B)
  <2>1. A \in SUBSET B
    BY <1>4
  <2>2. Cardinality(A) <= Cardinality(B) /\ (Cardinality(B) = Cardinality(A) => B = A)
    BY <1>5, <2>1, FS_Subset
  <2> QED
    BY <1>4, <1>5, <2>2
<1>7. SlotFor(X, Q, p) = a * Padding + Cardinality(A) /\ SlotFor(X, Q, q) = b * Padding + Cardinality(B)
  BY DEF SlotFor, A, B
<1> HIDE DEF a, b
<1>8. PICK d \in Nat : b = a + d
  BY <1>1, <1>2
<1>12. a * Padding \in Nat /\ b * Padding \in Nat
  BY <1>1
<1>9. b * Padding = a * Padding + d * Padding /\ a * Padding \in Nat /\ d * Padding \in Nat
  BY <1>1, <1>8
<1>10. d # 0 => d * Padding >= Padding
  <2> SUFFICES ASSUME d # 0 PROVE d * Padding >= Padding
    OBVIOUS
  <2>1. PICK e \in Nat : d = e + 1
    BY <1>8
  <2>2. d * Padding = e * Padding + Padding /\ e * Padding \in Nat
    BY <1>1, <2>1
  <2> QED
    BY <1>1, <2>2
<1>11. a < b => d # 0
  BY <1>1, <1>8
<1> DEFINE m == Cardinality(A)
           n == Cardinality(B)
           x == a * Padding
           y == d * Padding
<1>13. /\ m \in Nat /\ n \in Nat /\ m < n /\ x \in Nat /\ y \in Nat /\ b * Padding = x + y
       /\ a < b => y >= Padding
  BY <1>5, <1>6, <1>9, <1>10, <1>11
<1>14. SlotFor(X, Q, p) = x + m /\ SlotFor(X, Q, q) = x + y + n
  BY <1>7, <1>13
<1> HIDE DEF x, y, m, n
<1>15. /\ SlotFor(X, Q, p) \in Nat /\ SlotFor(X, Q, q) \in Nat
       /\ SlotFor(X, Q, p) < SlotFor(X, Q, q)
       /\ a < b => SlotFor(X, Q, p) + Padding < SlotFor(X, Q, q)
  BY <1>1, <1>13, <1>14
<1> QED
  BY <1>15 DEF a, b

(* No two tuples have the same slot.                                       *)
LEMMA SlotsApart ==
    ASSUME NEW X \in Inputs, NEW Q, Q \subseteq 1 .. Len(X), NEW p \in Q, NEW q \in Q,
           SlotFor(X, Q, p) = SlotFor(X, Q, q)
    PROVE  p = q
<1> SUFFICES ASSUME p # q PROVE FALSE
  OBVIOUS
<1>1. RadixOf(X, p) \in Nat /\ RadixOf(X, q) \in Nat /\ p \in Nat /\ q \in Nat
  BY KeptPositions
<1>2. p \in Preceding(X, Q, q) \/ q \in Preceding(X, Q, p)
  BY <1>1 DEF Preceding
<1>3. CASE p \in Preceding(X, Q, q)
  <2>1. SlotFor(X, Q, p) \in Nat /\ SlotFor(X, Q, p) < SlotFor(X, Q, q)
    BY <1>3, SlotsInOrder
  <2> QED
    BY <2>1
<1>4. CASE q \in Preceding(X, Q, p)
  <2>1. SlotFor(X, Q, p) \in Nat /\ SlotFor(X, Q, q) < SlotFor(X, Q, p)
    BY <1>4, SlotsInOrder
  <2> QED
    BY <2>1
<1> QED
  BY <1>2, <1>3, <1>4

(* The tuples of a partition between two positions, and what precedes them.*)
Run(X, Q, c, a, b) == {q \in Q : RadixOf(X, q) = c /\ a < q /\ q <= b}
Ahead(X, Q, c, a) == {q \in Q : RadixOf(X, q) < c \/ (RadixOf(X, q) = c /\ q <= a)}
UpToHere(W, p) == {q \in W : q < p}

(* The tuples W have the slots from s on, in the order of their positions.  *)
InARow(X, Q, W, s) ==
    /\ s \in Nat /\ Cardinality(W) \in Nat /\ IsFiniteSet(W)
    /\ \A p \in W : /\ SlotFor(X, Q, p) = s + Cardinality(UpToHere(W, p))
                    /\ SlotFor(X, Q, p) \in s .. s + Cardinality(W) - 1
    /\ \A x \in s .. s + Cardinality(W) - 1 : \E p \in W : SlotFor(X, Q, p) = x

(* The tuples of a partition between two positions follow each other.      *)
LEMMA SlotInRun ==
    ASSUME NEW X \in Inputs, NEW Q, Q \subseteq 1 .. Len(X), NEW c \in Clusters,
           NEW a \in Nat, NEW b \in Nat, NEW p \in Run(X, Q, c, a, b)
    PROVE  /\ SlotFor(X, Q, p) = c * Padding + Cardinality(Ahead(X, Q, c, a))
                                + Cardinality(UpToHere(Run(X, Q, c, a, b), p))
           /\ Cardinality(UpToHere(Run(X, Q, c, a, b), p)) \in Nat
           /\ Cardinality(UpToHere(Run(X, Q, c, a, b), p)) < Cardinality(Run(X, Q, c, a, b))
<1> DEFINE A == Ahead(X, Q, c, a)
           W == Run(X, Q, c, a, b)
           B == UpToHere(W, p)
           C == Preceding(X, Q, p)
<1>1. p \in Q /\ RadixOf(X, p) = c /\ a < p /\ p <= b
  BY DEF Run
<1>2. \A q \in Q : RadixOf(X, q) \in Nat /\ q \in Nat
  BY KeptPositions
<1>3. c \in Nat /\ Padding \in Nat
  BY RadixType
<1>4. /\ \A q : q \in A <=> q \in Q /\ (RadixOf(X, q) < c \/ (RadixOf(X, q) = c /\ q <= a))
      /\ \A q : q \in W <=> q \in Q /\ RadixOf(X, q) = c /\ a < q /\ q <= b
      /\ \A q : q \in B <=> q \in W /\ q < p
      /\ \A q : q \in C <=> q \in Q /\ (RadixOf(X, q) < c \/ (RadixOf(X, q) = c /\ q < p))
  BY <1>1 DEF Preceding, Ahead, Run, UpToHere
<1>5. IsFiniteSet(C) /\ IsFiniteSet(W) /\ Cardinality(W) \in Nat
  <2>1. C \subseteq Q /\ W \subseteq Q
    BY <1>4
  <2> HIDE DEF C, W
  <2> QED
    BY <2>1, KeptFinite
<1> HIDE DEF A, W, B, C
<1>13. p \in W
  BY DEF W
<1>6. A \cup B = C /\ A \cap B = {}
  <2>1. ASSUME NEW q PROVE (q \in A \/ q \in B <=> q \in C) /\ ~(q \in A /\ q \in B)
    <3>1. CASE q \in Q
      BY <1>1, <1>2, <1>3, <1>4, <3>1
    <3>2. CASE q \notin Q
      BY <1>4, <3>2
    <3> QED
      BY <3>1, <3>2
  <2> QED
    BY <2>1
<1>7. B \subseteq W /\ p \notin B
  <2>1. p \in Nat
    BY <1>1, <1>2
  <2> QED
    BY <1>4, <2>1
<1>8. Cardinality(C) = Cardinality(A) + Cardinality(B) /\ Cardinality(A) \in Nat /\ Cardinality(B) \in Nat
  BY <1>5, <1>6, DisjointUnion
<1>9. Cardinality(B) < Cardinality(W)
  <2>1. B \in SUBSET W
    BY <1>7
  <2>2. Cardinality(B) <= Cardinality(W) /\ (Cardinality(W) = Cardinality(B) => W = B)
    BY <1>5, <2>1, FS_Subset
  <2> QED
    BY <1>5, <1>7, <1>8, <1>13, <2>2
<1>10. SlotFor(X, Q, p) = c * Padding + Cardinality(C)
  BY <1>1 DEF SlotFor, C
<1>11. c * Padding \in Nat
  BY <1>3
<1>12. SlotFor(X, Q, p) = c * Padding + Cardinality(A) + Cardinality(B)
  BY <1>8, <1>10, <1>11
<1> QED
  BY <1>8, <1>9, <1>12 DEF A, B, W

(* ... and leave no slot between them.                                     *)
LEMMA RunFilled ==
    ASSUME NEW X \in Inputs, NEW Q, Q \subseteq 1 .. Len(X), NEW c \in Clusters,
           NEW a \in Nat, NEW b \in Nat
    PROVE  InARow(X, Q, Run(X, Q, c, a, b), c * Padding + Cardinality(Ahead(X, Q, c, a)))
<1> DEFINE W == Run(X, Q, c, a, b)
           A == Ahead(X, Q, c, a)
           s == c * Padding + Cardinality(A)
<1>1. IsFiniteSet(W) /\ Cardinality(W) \in Nat /\ Cardinality(A) \in Nat
  <2>1. W \subseteq Q /\ A \subseteq Q
    BY DEF Run, Ahead
  <2> HIDE DEF W, A
  <2> QED
    BY <2>1, KeptFinite
<1>2. s \in Nat
  <2>1. c * Padding \in Nat
    BY RadixType
  <2> QED
    BY <1>1, <2>1
<1>3. ASSUME NEW p \in W
      PROVE  /\ SlotFor(X, Q, p) = s + Cardinality(UpToHere(W, p))
             /\ SlotFor(X, Q, p) \in s .. s + Cardinality(W) - 1
  <2> DEFINE k == Cardinality(UpToHere(W, p))
  <2>1. SlotFor(X, Q, p) = s + k /\ k \in Nat /\ k < Cardinality(W)
    <3>1. p \in Run(X, Q, c, a, b)
      OBVIOUS
    <3> HIDE DEF W, A
    <3>2. /\ SlotFor(X, Q, p) = c * Padding + Cardinality(Ahead(X, Q, c, a))
                                + Cardinality(UpToHere(Run(X, Q, c, a, b), p))
          /\ Cardinality(UpToHere(Run(X, Q, c, a, b), p)) \in Nat
          /\ Cardinality(UpToHere(Run(X, Q, c, a, b), p)) < Cardinality(Run(X, Q, c, a, b))
      BY <3>1, SlotInRun
    <3> QED
      BY <3>2 DEF W, A
  <2> HIDE DEF k, s, W
  <2>2. SlotFor(X, Q, p) \in s .. s + Cardinality(W) - 1
    BY <1>1, <1>2, <2>1
  <2> QED
    BY <2>1, <2>2 DEF k
<1>4. \A p, q \in W : SlotFor(X, Q, p) = SlotFor(X, Q, q) => p = q
  <2>1. W \subseteq Q
    BY DEF Run
  <2> HIDE DEF W
  <2> QED
    BY <2>1, SlotsApart
<1> HIDE DEF W, s
<1> DEFINE f == [p \in W |-> SlotFor(X, Q, p)]
<1>5. \A x \in s .. s + Cardinality(W) - 1 : \E p \in W : f[p] = x
  <2>1. f = [p \in W |-> f[p]]
    OBVIOUS
  <2>2. \A p \in W : f[p] \in s .. s + Cardinality(W) - 1
    BY <1>3
  <2>3. \A p, q \in W : f[p] = f[q] => p = q
    BY <1>4
  <2> HIDE DEF f
  <2> QED
    BY <1>1, <1>2, <2>1, <2>2, <2>3, IntervalFilled
<1>6. \A x \in s .. s + Cardinality(W) - 1 : \E p \in W : SlotFor(X, Q, p) = x
  BY <1>5
<1> QED
  <2>1. InARow(X, Q, W, s)
    BY <1>1, <1>2, <1>3, <1>6 DEF InARow
  <2> QED
    BY <2>1 DEF W, s, A

(* A thread's slots in a partition.                                        *)
LEMMA OwnRange ==
    ASSUME NEW X \in Inputs, NEW Q, Q \subseteq 1 .. Len(X), NEW t \in Threads, NEW c \in Clusters
    PROVE  InARow(X, Q, Exactly(X, Q, t, c), Start(X, Q, t, c))
<1> DEFINE x == End(X, t)
           y == End(X, t + 1)
<1>1. x \in Nat /\ y \in Nat
  BY EndFacts
<1>2. Exactly(X, Q, t, c) = Run(X, Q, c, x, y)
  <2>1. ASSUME NEW q \in Q PROVE q \in Chunk(X, t) <=> x < q /\ q <= y
    BY KeptPositions
  <2> HIDE DEF x, y
  <2> QED
    BY <2>1 DEF Exactly, Run
<1>3. Start(X, Q, t, c) = c * Padding + Cardinality(Ahead(X, Q, c, x))
  BY DEF Start, Earlier, Ahead
<1> HIDE DEF x, y
<1> QED
  BY <1>1, <1>2, <1>3, RunFilled

OfRadix(X, Q, c) == {q \in Q : RadixOf(X, q) = c}

(* The slots of a whole partition, from the start of the first thread's.   *)
LEMMA ClusterSlots ==
    ASSUME NEW X \in Inputs, NEW Q, Q \subseteq 1 .. Len(X), NEW c \in Clusters
    PROVE  /\ InARow(X, Q, OfRadix(X, Q, c), Start(X, Q, 0, c))
           /\ Start(X, Q, 0, c + 1) =
                 Start(X, Q, 0, c) + Cardinality(OfRadix(X, Q, c)) + Padding
<1> DEFINE W == OfRadix(X, Q, c)
           a == Start(X, Q, 0, c)
           A == Earlier(X, Q, 0, c)
           B == Earlier(X, Q, 0, c + 1)
           y == Len(X)
<1>1. End(X, 0) = 0 /\ y \in Nat
  BY EndFacts
<1>2. \A q \in Q : q \in Nat /\ q >= 1 /\ q <= y /\ RadixOf(X, q) \in Nat
  BY KeptPositions
<1>3. W = Run(X, Q, c, 0, y)
  <2>1. \A q \in Q : 0 < q /\ q <= y
    BY <1>2
  <2> HIDE DEF y
  <2> QED
    BY <2>1 DEF Run, OfRadix
<1>4. A = Ahead(X, Q, c, 0)
  BY <1>1 DEF Earlier, Ahead
<1>5. \A q : q \in B <=> q \in Q /\ (RadixOf(X, q) < c + 1 \/ (RadixOf(X, q) = c + 1 /\ q <= 0))
  BY <1>1 DEF Earlier
<1>6. a = c * Padding + Cardinality(A) /\ Start(X, Q, 0, c + 1) = (c + 1) * Padding + Cardinality(B)
  BY DEF Start
<1>7. IsFiniteSet(B) /\ Cardinality(A) \in Nat
  BY KeptFinite DEF Earlier
<1>8. c \in Nat /\ Padding \in Nat
  BY RadixType
<1> HIDE DEF A, B, W, a, y
<1>9. InARow(X, Q, W, a) /\ a \in Nat /\ Cardinality(W) \in Nat
  <2>1. InARow(X, Q, Run(X, Q, c, 0, y), c * Padding + Cardinality(Ahead(X, Q, c, 0)))
    <3>1. 0 \in Nat
      OBVIOUS
    <3> QED
      BY <1>1, <3>1, RunFilled
  <2>2. InARow(X, Q, W, a)
    BY <1>3, <1>4, <1>6, <2>1
  <2> QED
    BY <2>2 DEF InARow
<1>10. A \cup W = B /\ A \cap W = {}
  <2>3. \A q : q \in W <=> q \in Q /\ RadixOf(X, q) = c
    BY DEF W, OfRadix
  <2>1. \A q : q \in A <=> q \in Q /\ (RadixOf(X, q) < c \/ (RadixOf(X, q) = c /\ q <= 0))
    BY <1>4 DEF Ahead
  <2>2. ASSUME NEW q PROVE (q \in A \/ q \in W <=> q \in B) /\ ~(q \in A /\ q \in W)
    <3>1. CASE q \in Q
      BY <1>2, <1>5, <1>8, <2>1, <2>3, <3>1
    <3>2. CASE q \notin Q
      BY <1>5, <2>1, <2>3, <3>2
    <3> QED
      BY <3>1, <3>2
  <2> QED
    BY <2>2
<1>11. Cardinality(B) = Cardinality(A) + Cardinality(W)
  BY <1>7, <1>10, DisjointUnion
<1>12. (c + 1) * Padding = c * Padding + Padding /\ c * Padding \in Nat
  BY <1>8
<1>13. Start(X, Q, 0, c + 1) = a + Cardinality(W) + Padding
  BY <1>6, <1>7, <1>8, <1>9, <1>11, <1>12
<1> QED
  BY <1>9, <1>13 DEF W, a

(* The padding lies between the partitions: what precedes partition c are  *)
(* at most all tuples and c paddings.                                      *)
LEMMA SlotBounds ==
    ASSUME NEW X \in Inputs, NEW Q, Q \subseteq 1 .. Len(X)
    PROVE  /\ \A p \in Q : SlotFor(X, Q, p) \in Nat /\ SlotFor(X, Q, p) < Len(X) + Padding * FanOut
           /\ \A t \in Threads, c \in Clusters :
                 Start(X, Q, t, c) + Cardinality(Exactly(X, Q, t, c)) <= Len(X) + Padding * FanOut
           /\ \A t \in Threads, c \in 0 .. FanOut : Start(X, Q, t, c) \in Nat
<1>1. /\ Len(X) \in Nat /\ FanOut \in Nat /\ Padding \in Nat /\ Padding * FanOut \in Nat
      /\ Cardinality(Q) \in Nat /\ Cardinality(Q) <= Len(X) /\ IsFiniteSet(Q)
  <2>1. Len(X) \in Nat /\ FanOut \in Nat /\ Padding \in Nat
    BY EndFacts, RadixType
  <2>2. Q \subseteq Q /\ IsFiniteSet(Q) /\ Cardinality(Q) <= Len(X)
    BY KeptFinite
  <2>3. Cardinality(Q) \in Nat
    BY <2>2, FS_CardinalityType
  <2> QED
    BY <2>1, <2>2, <2>3
<1>2. ASSUME NEW t \in Threads, NEW c \in Clusters
      PROVE  Start(X, Q, t, c) + Cardinality(Exactly(X, Q, t, c)) <= Len(X) + Padding * FanOut
  <2> DEFINE A == Earlier(X, Q, t, c)
             W == Exactly(X, Q, t, c)
  <2>1. \A q \in Q : q \in Nat /\ RadixOf(X, q) \in Nat /\ (q \in Chunk(X, t) => End(X, t) < q)
    BY KeptPositions
  <2>2. A \subseteq Q /\ W \subseteq Q /\ A \cap W = {}
    <3>1. \A q : q \in A <=> q \in Q /\ (RadixOf(X, q) < c \/ (RadixOf(X, q) = c /\ q <= End(X, t)))
      BY DEF Earlier
    <3>2. \A q : q \in W <=> q \in Q /\ q \in Chunk(X, t) /\ RadixOf(X, q) = c
      BY DEF Exactly
    <3>3. c \in Nat /\ End(X, t) \in Nat
      BY EndFacts, RadixType
    <3> HIDE DEF A, W
    <3>4. ASSUME NEW q, q \in A, q \in W PROVE FALSE
      <4>2. q \in Q /\ RadixOf(X, q) = c /\ q \in Chunk(X, t)
        BY <3>2, <3>4
      <4>3. ~(RadixOf(X, q) < c)
        BY <3>3, <4>2
      <4>1. q <= End(X, t) /\ End(X, t) < q /\ q \in Nat
        BY <2>1, <3>1, <3>4, <4>2, <4>3
      <4> QED
        BY <3>3, <4>1
    <3> QED
      BY <3>1, <3>2, <3>4
  <2> HIDE DEF A, W
  <2>3. IsFiniteSet(A \cup W) /\ Cardinality(A \cup W) \in Nat /\ Cardinality(A \cup W) <= Cardinality(Q)
    <3>1. A \cup W \subseteq Q
      BY <2>2
    <3> QED
      BY <3>1, KeptFinite
  <2>4. Cardinality(A \cup W) = Cardinality(A) + Cardinality(W)
        /\ Cardinality(A) \in Nat /\ Cardinality(W) \in Nat
    BY <2>2, <2>3, DisjointUnion
  <2>5. c \in Nat /\ c < FanOut
    BY RadixType
  <2>6. PICK d \in Nat : FanOut = c + d
    BY <1>1, <2>5
  <2>7. Padding * FanOut = c * Padding + d * Padding /\ c * Padding \in Nat /\ d * Padding \in Nat
    BY <1>1, <2>5, <2>6
  <2>8. Start(X, Q, t, c) = c * Padding + Cardinality(A)
    BY DEF Start, A
  <2>9. Start(X, Q, t, c) + Cardinality(W) <= Len(X) + Padding * FanOut
    BY <1>1, <2>3, <2>4, <2>7, <2>8
  <2> QED
    BY <2>9 DEF W
<1>3. ASSUME NEW p \in Q
      PROVE  SlotFor(X, Q, p) \in Nat /\ SlotFor(X, Q, p) < Len(X) + Padding * FanOut
  <2>1. p \in 1 .. Len(X) /\ RadixOf(X, p) \in Clusters
    BY KeptPositions, <1>1
  <2>2. PICK t \in Threads : p \in Chunk(X, t)
    BY <2>1, Chunks
  <2> DEFINE c == RadixOf(X, p)
             a == Start(X, Q, t, c)
             W == Exactly(X, Q, t, c)
  <2>3. c \in Clusters /\ p \in W
    BY <2>1, <2>2 DEF Exactly
  <2>4. a \in Nat /\ Cardinality(W) \in Nat /\ SlotFor(X, Q, p) \in a .. a + Cardinality(W) - 1
    <3> HIDE DEF c
    <3>1. InARow(X, Q, W, a)
      BY <2>3, OwnRange
    <3> HIDE DEF a, W
    <3> QED
      BY <2>3, <3>1 DEF InARow
  <2>5. a + Cardinality(W) <= Len(X) + Padding * FanOut
    BY <1>2, <2>3
  <2> HIDE DEF a, W
  <2> QED
    BY <1>1, <2>4, <2>5
<1>4. ASSUME NEW t \in Threads, NEW c \in 0 .. FanOut PROVE Start(X, Q, t, c) \in Nat
  <2>1. c * Padding \in Nat /\ Cardinality(Earlier(X, Q, t, c)) \in Nat
    <3>1. c \in Nat
      BY <1>1
    <3>2. c * Padding \in Nat
      BY <1>1, <3>1
    <3> QED
      BY <3>2, KeptFinite
  <2> QED
    BY <2>1 DEF Start
<1> QED
  BY <1>2, <1>3, <1>4

(* All tuples precede the end of the last partition.                       *)
LEMMA LastStart ==
    ASSUME NEW X \in Inputs, NEW Q, Q \subseteq 1 .. Len(X), NEW t \in Threads
    PROVE  /\ Start(X, Q, t, FanOut) = FanOut * Padding + Cardinality(Q)
           /\ Q = 1 .. Len(X) => Cardinality(Q) = Len(X)
<1>1. \A q \in Q : RadixOf(X, q) \in Nat /\ RadixOf(X, q) < FanOut
  BY KeptPositions
<1>2. Earlier(X, Q, t, FanOut) = Q
  BY <1>1 DEF Earlier
<1>3. Q = 1 .. Len(X) => Cardinality(Q) = Len(X)
  <2>1. Len(X) \in Nat /\ 1 \in Int /\ Len(X) \in Int
    BY EndFacts
  <2>2. Cardinality(1 .. Len(X)) = IF 1 > Len(X) THEN 0 ELSE Len(X) - 1 + 1
    BY <2>1, FS_Interval
  <2> QED
    BY <2>1, <2>2
<1> QED
  BY <1>2, <1>3 DEF Start

-----------------------------------------------------------------------------
(***************************************************************************)
(* What a step leaves alone.                                               *)
(***************************************************************************)
(* Thread u and its rows stay as they are. *)
SamePlace(u) ==
    /\ pc'[u] = pc[u] /\ i'[u] = i[u] /\ contains_cache'[u] = contains_cache[u]
    /\ dst'[u] = dst[u] /\ buffer'[u] = buffer[u]

SameRows(r, u) == hist'[r][u] = hist[r][u] /\ output'[r][u] = output[r][u]

(* What has been stored for thread u in relation r stays as it is. *)
SameStored(kept, r, u) ==
    \A p \in kept[r] \cap Chunk(rel[r], u) :
        ~Exposed(kept, r, u, p) /\ SlotFor(rel[r], kept[r], p) \in DOMAIN tmp[r] =>
            /\ SlotFor(rel[r], kept[r], p) \in DOMAIN tmp'[r]
            /\ tmp'[r][SlotFor(rel[r], kept[r], p)] = tmp[r][SlotFor(rel[r], kept[r], p)]

(* The account of a thread that a step leaves alone, or that is at work on *)
(* the other relation, stays right.                                        *)
LEMMA AccountFrame ==
    ASSUME NEW kept, NEW r \in Rels, NEW u \in Threads, rel' = rel, program' = program,
           relidx'[u] = relidx[u], SamePlace(u) \/ (relidx[u] # r /\ relidx[u] \in Rels),
           SameRows(r, u), SameStored(kept, r, u), AccountOf(kept, r, u)
    PROVE  AccountOf(kept, r, u)'
<1>1. Decided(r, u)' = Decided(r, u)
  BY DEF Decided, Counting, SamePlace, Rels
<1>2. Passed(r, u)' = Passed(r, u)
  BY DEF Passed, AfterSync1, BeforeSync1, SamePlace, Rels
<1>3. KeptAt(kept, r, u)'
  <2>1. KeptAt(kept, r, u)
    BY DEF AccountOf
  <2>2. relidx[u] = r => pc'[u] = pc[u] /\ contains_cache'[u] = contains_cache[u]
    BY DEF SamePlace
  <2> QED
    BY <1>1, <2>1, <2>2 DEF KeptAt, HasPartner
<1>4. HistAt(kept, r, u)'
  <2>1. \A c : Summed(r, u, c)' <=> Summed(r, u, c)
    BY DEF Summed, SamePlace, Rels
  <2>2. HistAt(kept, r, u)
    BY DEF AccountOf
  <2> QED
    BY <2>1, <2>2 DEF HistAt, SameRows
<1>5. OutputAt(kept, r, u)'
  <2>1. AfterSync1(r, u)' <=> AfterSync1(r, u)
    BY DEF AfterSync1, BeforeSync1, SamePlace, Rels
  <2>2. relidx[u] = r => pc'[u] = pc[u] /\ i'[u] = i[u]
    BY DEF SamePlace
  <2>3. OutputAt(kept, r, u)
    BY DEF AccountOf
  <2> QED
    BY <2>1, <2>2, <2>3 DEF OutputAt, SameRows
<1>6. NextAt(kept, r, u)' /\ BufferAt(kept, r, u)'
  <2>1. CASE relidx[u] # r
    BY <2>1 DEF NextAt, BufferAt
  <2>2. CASE relidx[u] = r
    <3>1. pc'[u] = pc[u] /\ dst'[u] = dst[u] /\ buffer'[u] = buffer[u]
      BY <2>2 DEF SamePlace
    <3>2. \A c : /\ NextOf(u, c)' = NextOf(u, c)
                 /\ Slot(u, c)' = Slot(u, c)
                 /\ PassedOf(kept, r, u, c)' = PassedOf(kept, r, u, c)
      BY <1>2, <3>1 DEF NextOf, Slot, SlotOf, PassedOf
    <3>3. NextAt(kept, r, u) /\ BufferAt(kept, r, u)
      BY DEF AccountOf
    <3>4. NextAt(kept, r, u)'
      BY <3>1, <3>2, <3>3 DEF NextAt
    <3>5. BufferAt(kept, r, u)'
      BY <3>1, <3>2, <3>3 DEF BufferAt
    <3> QED
      BY <3>4, <3>5
  <2> QED
    BY <2>1, <2>2
<1>7. StoredAt(kept, r, u)'
  <2>1. \A p : Exposed(kept, r, u, p)' <=> Exposed(kept, r, u, p)
    BY DEF Exposed
  <2>2. \A p : WrittenOut(kept, r, u, p)' <=> WrittenOut(kept, r, u, p)
    <3>1. relidx[u] = r => pc'[u] = pc[u] /\ i'[u] = i[u] /\ \A c : Slot(u, c)' = Slot(u, c)
      BY DEF SamePlace, Slot
    <3> QED
      BY <1>2, <3>1 DEF WrittenOut
  <2>3. StoredAt(kept, r, u)
    BY DEF AccountOf
  <2> QED
    BY <2>1, <2>2, <2>3 DEF StoredAt, SameStored
<1> QED
  BY <1>3, <1>4, <1>5, <1>6, <1>7 DEF AccountOf

(* Nothing is stored anew in a relation whose tmp stays as it is. *)
LEMMA StoredFrame ==
    ASSUME NEW kept, NEW r \in Rels, rel' = rel, program' = program, tmp'[r] = tmp[r]
    PROVE  /\ \A u \in Threads : SameStored(kept, r, u)
           /\ NothingElse(kept, r) => NothingElse(kept, r)'
<1>1. \A u \in Threads : SameStored(kept, r, u)
  BY DEF SameStored
<1>2. NothingElse(kept, r) => NothingElse(kept, r)'
  BY DEF NothingElse, AllocatedTuples
<1> QED
  BY <1>1, <1>2

(* A step of thread t is confined to its own rows and to the relation it   *)
(* is working on.                                                          *)
OnlyThread(t) ==
    /\ rel' = rel /\ program' = program
    /\ \A u \in Threads \ {t} :
          /\ relidx'[u] = relidx[u] /\ SamePlace(u)
          /\ \A r \in Rels : SameRows(r, u)
    /\ \A r \in Rels : r # relidx[t] => SameRows(r, t) /\ tmp'[r] = tmp[r]

(* Then, as long as t stays with its relation and writes nothing, only the *)
(* account of t and that relation is to be seen to.                        *)
LEMMA QuietStep ==
    ASSUME TypeOK, NEW t \in Threads, NEW r0 \in Rels, relidx[t] = r0, relidx'[t] = r0,
           NEW kept, Account(kept), OnlyThread(t), tmp' = tmp, AccountOf(kept, r0, t)'
    PROVE  Account(kept)'
<1>1. KeptType(kept)'
  BY DEF Account, KeptType, OnlyThread
<1>2. ASSUME NEW r \in Rels
      PROVE  NothingElse(kept, r)' /\ \A u \in Threads : SameStored(kept, r, u)
  BY StoredFrame DEF Account, OnlyThread
<1>3. ASSUME NEW r \in Rels, NEW u \in Threads PROVE AccountOf(kept, r, u)'
  <2>1. CASE u # t
    <3>1. SamePlace(u) /\ SameRows(r, u) /\ relidx'[u] = relidx[u] /\ rel' = rel /\ program' = program
      BY <2>1 DEF OnlyThread
    <3>2. AccountOf(kept, r, u) /\ SameStored(kept, r, u)
      BY <1>2 DEF Account
    <3> QED
      BY <3>1, <3>2, AccountFrame
  <2>2. CASE u = t /\ r # r0
    <3>1. /\ SameRows(r, u) /\ rel' = rel /\ program' = program /\ relidx'[u] = relidx[u]
          /\ relidx[u] # r /\ relidx[u] \in Rels
      BY <2>2 DEF OnlyThread, TypeOK
    <3>2. AccountOf(kept, r, u) /\ SameStored(kept, r, u)
      BY <1>2 DEF Account
    <3> QED
      BY <3>1, <3>2, AccountFrame
  <2>3. CASE u = t /\ r = r0
    BY <2>3
  <2> QED
    BY <2>1, <2>2, <2>3
<1> QED
  BY <1>1, <1>2, <1>3 DEF Account

-----------------------------------------------------------------------------
(***************************************************************************)
(* Every step of a thread, one action at a time.                           *)
(***************************************************************************)
(* The steps of a thread, with the programs that take them. *)
LEMMA PassThreadSteps ==
    ASSUME NEW t \in Threads, PassThread(t)
    PROVE  /\ program' = program
           /\ \/ /\ program.filter /\ buffer' = buffer
                 /\ AddBit(t) \/ TestBit(t) \/ FilterOut(t) \/ CountTuple(t) \/ HistogramDone(t)
              \/ /\ buffer' = buffer
                 /\ PrefixSum(t) \/ ArriveAtSync1(t) \/ AddRow(t)
              \/ ~program.filter /\ (CountAll(t) \/ CountAllDone(t) \/ PadToTotal(t) \/ NextRelation(t))
              \/ program.filter /\ ~program.swwc /\ buffer' = buffer /\ AddPadding(t)
              \/ program.filter /\ program.swwc /\ SetSlots(t)
              \/ ~program.swwc /\ buffer' = buffer /\ CopyTuple(t)
              \/ buffer' = buffer /\ SkipTuple(t)
              \/ /\ ~program.swwc /\ buffer' = buffer /\ ArriveAtSync2(t)
                 /\ program.filter \/ relidx[t] = 1
              \/ /\ program.swwc
                 /\ BufferTuple(t) \/ FlushLine(t) \/ CopyDone(t) \/ WriteRemainder(t)
              \/ program.swwc /\ Return(t) /\ (program.filter \/ relidx[t] = 1)
<1>1. program' = program /\ (Filtered(t) \/ Filterless(t))
  BY DEF PassThread
<1>2. CASE Filtered(t)
  BY <1>1, <1>2 DEF Filtered, Scan, Offsets, PlainCopy, SwwcCopy, Skip
<1>3. CASE Filterless(t)
  BY <1>1, <1>3 DEF Filterless, Offsets, SwwcCopyLoop, Skip
<1> QED
  BY <1>1, <1>2, <1>3

(* A step of one thread changes its own counters and rows only.            *)
LEMMA StepOnlyThread ==
    ASSUME TypeOK, buffer \in [Threads -> [Clusters -> [0 .. Line - 1 -> Nat]]],
           NEW t \in Threads, PassThread(t)
    PROVE  OnlyThread(t)
<1>0. relidx[t] \in Rels /\ program' = program
  BY PassThreadSteps DEF TypeOK
<1>1. CASE buffer' = buffer /\ (AddBit(t) \/ TestBit(t) \/ FilterOut(t) \/ HistogramDone(t))
  BY <1>0, <1>1 DEF AddBit, TestBit, FilterOut, HistogramDone, OnlyThread, SamePlace, SameRows, TypeOK
<1>2. CASE buffer' = buffer /\ (CountTuple(t) \/ PrefixSum(t))
  <2>1. /\ rel' = rel /\ relidx' = relidx /\ pc' = pc /\ dst' = dst /\ tmp' = tmp /\ output' = output
        /\ \A u \in Threads \ {t} : i'[u] = i[u] /\ contains_cache'[u] = contains_cache[u]
    BY <1>2 DEF CountTuple, PrefixSum, TypeOK
  <2>2. \E c, v : hist' = [hist EXCEPT ![relidx[t]][t][c] = v]
    BY <1>2 DEF CountTuple, PrefixSum
  <2>3. \A r \in Rels, u \in Threads : r # relidx[t] \/ u # t => hist'[r][u] = hist[r][u]
    BY <1>0, <2>2 DEF TypeOK
  <2> QED
    BY <1>0, <1>2, <2>1, <2>3 DEF OnlyThread, SamePlace, SameRows
<1>3. CASE CountAll(t)
  <2>1. /\ rel' = rel /\ relidx' = relidx /\ pc' = pc /\ dst' = dst /\ tmp' = tmp /\ output' = output
        /\ contains_cache' = contains_cache /\ buffer' = buffer
        /\ \A u \in Threads \ {t} : i'[u] = i[u]
    BY <1>3 DEF CountAll, TypeOK
  <2>2. \E c, v : hist' = [hist EXCEPT ![relidx[t]][t][c] = v]
    BY <1>3 DEF CountAll
  <2>3. \A r \in Rels, u \in Threads : r # relidx[t] \/ u # t => hist'[r][u] = hist[r][u]
    BY <1>0, <2>2 DEF TypeOK
  <2> QED
    BY <1>0, <1>3, <2>1, <2>3 DEF OnlyThread, SamePlace, SameRows
<1>4. CASE (buffer' = buffer /\ (ArriveAtSync1(t) \/ SkipTuple(t) \/ ArriveAtSync2(t)))
           \/ CountAllDone(t) \/ CopyDone(t)
  BY <1>0, <1>4 DEF ArriveAtSync1, SkipTuple, ArriveAtSync2, CountAllDone, CopyDone,
                    OnlyThread, SamePlace, SameRows, TypeOK
<1>5. CASE (buffer' = buffer /\ (AddRow(t) \/ AddPadding(t))) \/ PadToTotal(t) \/ SetSlots(t)
  <2>1. /\ rel' = rel /\ relidx' = relidx /\ tmp' = tmp /\ hist' = hist
        /\ contains_cache' = contains_cache
        /\ \A u \in Threads \ {t} : pc'[u] = pc[u] /\ i'[u] = i[u] /\ dst'[u] = dst[u] /\ buffer'[u] = buffer[u]
    BY <1>5 DEF AddRow, AddPadding, PadToTotal, SetSlots, TypeOK
  <2>2. \E v : output' = [output EXCEPT ![relidx[t]][t] = v]
    BY <1>5 DEF AddRow, AddPadding, PadToTotal, SetSlots
  <2>3. \A r \in Rels, u \in Threads : r # relidx[t] \/ u # t => output'[r][u] = output[r][u]
    BY <1>0, <2>2 DEF TypeOK
  <2> QED
    BY <1>0, <1>5, <2>1, <2>3 DEF OnlyThread, SamePlace, SameRows
<1>6. CASE (buffer' = buffer /\ CopyTuple(t)) \/ BufferTuple(t) \/ FlushLine(t) \/ WriteRemainder(t)
  <2>1. /\ rel' = rel /\ relidx' = relidx /\ pc' = pc /\ hist' = hist /\ output' = output
        /\ contains_cache' = contains_cache
        /\ \A u \in Threads \ {t} : i'[u] = i[u]
    BY <1>6 DEF CopyTuple, BufferTuple, FlushLine, WriteRemainder, TypeOK
  <2>2. \A u \in Threads \ {t} : dst'[u] = dst[u] /\ buffer'[u] = buffer[u]
    BY <1>6 DEF CopyTuple, BufferTuple, FlushLine, WriteRemainder, TypeOK
  <2>3. tmp' = tmp \/ \E v : tmp' = [tmp EXCEPT ![relidx[t]] = v]
    BY <1>6 DEF CopyTuple, BufferTuple, FlushLine, WriteRemainder
  <2>4. \A r \in Rels : r # relidx[t] => tmp'[r] = tmp[r]
    BY <2>3 DEF TypeOK
  <2> QED
    BY <1>0, <2>1, <2>2, <2>4 DEF OnlyThread, SamePlace, SameRows
<1>7. CASE Return(t) \/ NextRelation(t)
  BY <1>0, <1>7 DEF Return, NextRelation, OnlyThread, SamePlace, SameRows, TypeOK
<1> QED
  BY <1>1, <1>2, <1>3, <1>4, <1>5, <1>6, <1>7, PassThreadSteps

(* No thread passes a barrier on its own. *)
LEMMA SidesKept ==
    ASSUME TypeOK, NEW t \in Threads, PassThread(t)
    PROVE  /\ \A r \in Rels, u \in Threads : AfterSync1(r, u)' <=> AfterSync1(r, u)
           /\ relidx' = relidx \/ (NextRelation(t) /\ ~program.filter)
<1> DEFINE Steady == /\ relidx' = relidx
                     /\ \A u \in Threads \ {t} : pc'[u] = pc[u]
                     /\ BeforeSync1(t)' <=> BeforeSync1(t)
<1>1. CASE NextRelation(t) /\ ~program.filter
  <2>1. /\ pc[t] \in {"remainder", "copy"} /\ pc'[t] = "count" /\ relidx[t] = 0 /\ relidx'[t] = 1
        /\ \A u \in Threads \ {t} : pc'[u] = pc[u] /\ relidx'[u] = relidx[u]
    BY <1>1 DEF NextRelation, CopiedOut, TypeOK
  <2> QED
    BY <1>1, <2>1 DEF AfterSync1, BeforeSync1, Rels
<1>2. ASSUME AddBit(t) \/ TestBit(t) \/ FilterOut(t) \/ CountTuple(t) \/ PrefixSum(t) \/ CountAll(t)
             \/ AddRow(t) \/ CopyTuple(t) \/ SkipTuple(t) \/ BufferTuple(t) \/ FlushLine(t)
             \/ WriteRemainder(t)
      PROVE  Steady
  <2>1. relidx' = relidx /\ pc' = pc
    BY <1>2 DEF AddBit, TestBit, FilterOut, CountTuple, PrefixSum, CountAll, AddRow, CopyTuple,
        SkipTuple, BufferTuple, FlushLine, WriteRemainder
  <2> QED
    BY <2>1 DEF BeforeSync1
<1>3. ASSUME HistogramDone(t) \/ CountAllDone(t) \/ ArriveAtSync1(t) PROVE Steady
  BY <1>3 DEF HistogramDone, CountAllDone, ArriveAtSync1, BeforeSync1, TypeOK
<1>4. ASSUME PadToTotal(t) \/ AddPadding(t) \/ SetSlots(t) PROVE Steady
  BY <1>4 DEF PadToTotal, AddPadding, SetSlots, BeforeSync1, TypeOK
<1>5. ASSUME ArriveAtSync2(t) \/ CopyDone(t) \/ Return(t) PROVE Steady
  BY <1>5 DEF ArriveAtSync2, CopyDone, Return, BeforeSync1, TypeOK
<1>6. (NextRelation(t) /\ ~program.filter) \/ Steady
  <2> HIDE DEF Steady
  <2> QED
    BY <1>2, <1>3, <1>4, <1>5, PassThreadSteps
<1>7. CASE Steady
  <2>2. \A u \in Threads : BeforeSync1(u)' <=> BeforeSync1(u)
    BY <1>7 DEF BeforeSync1
  <2> QED
    BY <1>7, <2>2 DEF AfterSync1
<1> QED
  BY <1>1, <1>6, <1>7

-----------------------------------------------------------------------------
(***************************************************************************)
(* Type correctness.                                                       *)
(***************************************************************************)
(* The tuple a loop is at. *)
Here(t) == Position(Rel(t), t, i[t])

(* It is in the chunk and has the number of a partition. *)
LEMMA HereFacts ==
    ASSUME TypeOK, NEW t \in Threads, i[t] < num_tuples(Rel(t), t)
    PROVE  /\ Rel(t) \in Inputs /\ relidx[t] \in Rels /\ i[t] \in Nat
           /\ Here(t) = End(Rel(t), t) + i[t] + 1 /\ Here(t) \in Nat \ {0}
           /\ Here(t) \in Chunk(Rel(t), t) /\ Here(t) \in 1 .. Len(Rel(t))
           /\ HASH_BIT_MODULO(Key(Rel(t), t, i[t])) = RadixOf(Rel(t), Here(t))
           /\ Cluster(t) = RadixOf(Rel(t), Here(t))
           /\ RadixOf(Rel(t), Here(t)) \in Clusters
<1>1. Rel(t) \in Inputs /\ relidx[t] \in Rels /\ i[t] \in Nat
  BY DEF TypeOK, Rel
<1>2. num_tuples(Rel(t), t) \in Nat
  BY <1>1, ChunkInRelation
<1>3. i[t] \in 0 .. num_tuples(Rel(t), t) - 1
  BY <1>1, <1>2
<1>4. Here(t) \in Chunk(Rel(t), t) /\ Here(t) \in 1 .. Len(Rel(t))
  BY <1>1, <1>3, Chunks, ChunkInRelation DEF Here
<1>5. Here(t) = End(Rel(t), t) + i[t] + 1
  BY <1>1, EndFacts DEF Here
<1>6. Len(Rel(t)) \in Nat
  BY <1>1, EndFacts
<1>7. RadixOf(Rel(t), Here(t)) \in Clusters
  BY <1>1, <1>4, RadixType
<1> QED
  BY <1>1, <1>4, <1>5, <1>6, <1>7 DEF Here, RadixOf, Key, Cluster

(* A line, and what comes of it. *)
Lines == [0 .. Line - 1 -> Nat]

(* The length of a line, and where lines start. *)
LEMMA LineFacts ==
    /\ Line \in Nat /\ Line > 1 /\ Line - 1 \in 0 .. Line - 1
    /\ NoBuffer \in [Clusters -> Lines]
    /\ \A n \in Nat : /\ n % Line \in 0 .. Line - 1 /\ LineStart(n) \in Nat
                      /\ LineStart(n) <= n /\ n = LineStart(n) + (n % Line)
<1>1. Line \in Nat /\ Line > 1 /\ Line - 1 \in 0 .. Line - 1
  BY LineAssumption
<1>2. NoBuffer \in [Clusters -> Lines]
  BY <1>1 DEF NoBuffer, Lines, Garbage
<1>3. \A n \in Nat : n % Line \in 0 .. Line - 1 /\ n % Line <= n
  BY <1>1
<1>4. \A n \in Nat : LineStart(n) \in Nat /\ LineStart(n) <= n /\ n = LineStart(n) + (n % Line)
  BY <1>1, <1>3 DEF LineStart
<1> QED
  BY <1>1, <1>2, <1>3, <1>4

(* A line with one entry changed is a line. *)
LEMMA LineUpdate ==
    ASSUME NEW line \in Lines, NEW v \in Nat, NEW k \in 0 .. Line - 1
    PROVE  [line EXCEPT ![k] = v] \in Lines
  BY DEF Lines

(* The slots a thread has got to are natural numbers. *)
LEMMA SlotType ==
    ASSUME buffer \in [Threads -> [Clusters -> Lines]], NEW t \in Threads, NEW c \in Clusters
    PROVE  Slot(t, c) \in Nat /\ buffer[t][c] \in Lines
<1>1. buffer[t][c] \in Lines /\ Line - 1 \in 0 .. Line - 1
  BY LineFacts
<1>2. buffer[t][c][Line - 1] \in Nat
  BY <1>1 DEF Lines
<1> QED
  BY <1>1, <1>2 DEF Slot, SlotOf

(* The slots after the offsets are known. *)
LEMMA SlotsSetType ==
    ASSUME NEW off, \A c \in Clusters : off[c] \in Nat
    PROVE  /\ SlotsSet(off) \in [Clusters -> Lines]
           /\ \A c \in Clusters : SlotOf(SlotsSet(off)[c]) = off[c]
<1>1. ASSUME NEW c \in Clusters
      PROVE  /\ SlotsSet(off)[c] = [NoBuffer[c] EXCEPT ![Line - 1] = off[c]]
             /\ SlotsSet(off)[c] \in Lines /\ SlotOf(SlotsSet(off)[c]) = off[c]
  <2>1. SlotsSet(off)[c] = [NoBuffer[c] EXCEPT ![Line - 1] = off[c]]
    BY DEF SlotsSet
  <2>2. NoBuffer[c] \in Lines /\ Line - 1 \in 0 .. Line - 1
    BY LineFacts
  <2>3. SlotsSet(off)[c] \in Lines
    BY <2>1, <2>2, LineUpdate
  <2> QED
    BY <2>1, <2>2, <2>3 DEF SlotOf, Lines
<1>2. SlotsSet(off) = [c \in Clusters |-> SlotsSet(off)[c]]
  BY DEF SlotsSet
<1> HIDE DEF SlotsSet
<1> QED
  BY <1>1, <1>2

(* The line with the tuple in its place, and then with the next slot.      *)
LEMMA FilledType ==
    ASSUME TypeOK, buffer \in [Threads -> [Clusters -> Lines]],
           NEW t \in Threads, i[t] < num_tuples(Rel(t), t)
    PROVE  /\ Cluster(t) \in Clusters /\ Slot(t, Cluster(t)) \in Nat
           /\ Filled(t) = [buffer[t][Cluster(t)] EXCEPT ![Slot(t, Cluster(t)) % Line] = Here(t)]
           /\ Filled(t) \in Lines /\ NextSlot(t) \in Lines
<1>1. Cluster(t) \in Clusters /\ Here(t) \in Nat
  BY HereFacts
<1>2. Slot(t, Cluster(t)) \in Nat /\ buffer[t][Cluster(t)] \in Lines
  BY <1>1, SlotType
<1>3. Slot(t, Cluster(t)) % Line \in 0 .. Line - 1
  BY <1>2, LineFacts
<1>4. Filled(t) = [buffer[t][Cluster(t)] EXCEPT ![Slot(t, Cluster(t)) % Line] = Here(t)]
  BY DEF Filled, Here
<1>5. Filled(t) \in Lines
  <2> DEFINE old == buffer[t][Cluster(t)]
             k == Slot(t, Cluster(t)) % Line
             p == Here(t)
  <2>1. old \in Lines /\ k \in 0 .. Line - 1 /\ p \in Nat /\ Filled(t) = [old EXCEPT ![k] = p]
    BY <1>1, <1>2, <1>3, <1>4
  <2> HIDE DEF old, k, p
  <2>2. [old EXCEPT ![k] = p] \in Lines
    BY <2>1, LineUpdate
  <2> QED
    BY <2>1, <2>2
<1>6. Slot(t, Cluster(t)) + 1 \in Nat /\ Line - 1 \in 0 .. Line - 1
  BY <1>2, LineFacts
<1>7. NextSlot(t) \in Lines
  <2> DEFINE line == Filled(t)
  <2>1. NextSlot(t) = [line EXCEPT ![Line - 1] = Slot(t, Cluster(t)) + 1]
    BY DEF NextSlot
  <2> HIDE DEF line
  <2>2. line \in Lines
    BY <1>5 DEF line
  <2> QED
    BY <1>6, <2>1, <2>2, LineUpdate
<1> QED
  BY <1>1, <1>2, <1>4, <1>5, <1>7

(* Writing numbers to slots leaves tmp a table of numbers.                 *)
TmpType ==
    /\ DOMAIN tmp = Rels
    /\ \A r \in Rels : \A s \in DOMAIN tmp[r] : s \in Nat /\ tmp[r][s] \in Nat

(* What Written overwrites, and what it leaves. *)
LEMMA WrittenFacts ==
    ASSUME TmpType, NEW r \in Rels, NEW w, tmp' = [tmp EXCEPT ![r] = Written(r, w)]
    PROVE  /\ DOMAIN tmp' = Rels
           /\ \A q \in Rels \ {r} : tmp'[q] = tmp[q]
           /\ DOMAIN tmp'[r] = DOMAIN tmp[r] \cup DOMAIN w
           /\ \A s \in DOMAIN w : tmp'[r][s] = w[s]
           /\ \A s \in DOMAIN tmp[r] : s \notin DOMAIN w => tmp'[r][s] = tmp[r][s]
           /\ (\A s \in DOMAIN w : s \in Nat /\ w[s] \in Nat) => TmpType'
<1>1. /\ DOMAIN tmp' = Rels /\ tmp'[r] = Written(r, w)
      /\ \A q \in Rels \ {r} : tmp'[q] = tmp[q]
  BY DEF TmpType
<1>2. /\ DOMAIN Written(r, w) = DOMAIN tmp[r] \cup DOMAIN w
      /\ \A s \in DOMAIN w : Written(r, w)[s] = w[s]
      /\ \A s \in DOMAIN tmp[r] : s \notin DOMAIN w => Written(r, w)[s] = tmp[r][s]
  BY DEF Written
<1>3. ASSUME \A s \in DOMAIN w : s \in Nat /\ w[s] \in Nat PROVE TmpType'
  <2>1. ASSUME NEW q \in Rels, NEW s \in DOMAIN tmp'[q] PROVE s \in Nat /\ tmp'[q][s] \in Nat
    <3>1. CASE q # r
      BY <1>1, <2>1, <3>1 DEF TmpType
    <3>2. CASE q = r
      BY <1>1, <1>2, <1>3, <2>1, <3>2 DEF TmpType
    <3> QED
      BY <3>1, <3>2
  <2> QED
    BY <1>1, <2>1 DEF TmpType
<1> QED
  BY <1>1, <1>2, <1>3

(* What the steps keep of the buffers: lines of numbers, their slots too.  *)
BufferType == buffer \in [Threads -> [Clusters -> Lines]]

(* The buffers stay lines of numbers. *)
LEMMA PassBufferType ==
    ASSUME TypeOK, BufferType, NEW t \in Threads, PassThread(t)
    PROVE  BufferType'
<1>1. ASSUME NEW row \in [Clusters -> Lines], buffer' = [buffer EXCEPT ![t] = row] PROVE BufferType'
  BY <1>1 DEF BufferType
<1>2. ASSUME NEW c \in Clusters, NEW line \in Lines, buffer' = [buffer EXCEPT ![t][c] = line]
      PROVE  BufferType'
  BY <1>2 DEF BufferType
<1>3. CASE SetSlots(t) \/ PadToTotal(t)
  <2> DEFINE r == relidx[t]
             off == [c \in 0 .. FanOut |-> output[r][t][c] + c * Padding]
             padded == PaddedTotal(t)
  <2>1. \A c \in 0 .. FanOut : output[r][t][c] + c * Padding \in Nat
    <3>1. \A c \in 0 .. FanOut : output[r][t][c] \in Nat /\ c \in Nat /\ Padding \in Nat
      BY RadixType DEF TypeOK
    <3> HIDE DEF r
    <3>2. \A c \in 0 .. FanOut : c * Padding \in Nat
      BY <3>1
    <3> QED
      BY <3>1, <3>2
  <2>2. Clusters \subseteq 0 .. FanOut /\ \A c \in Clusters : c # FanOut
    BY FanOutAssumption DEF Clusters
  <2>3. \A c \in Clusters : off[c] \in Nat /\ padded[c] \in Nat
    BY <2>1, <2>2 DEF PaddedTotal
  <2>4. buffer' = buffer \/ buffer' = [buffer EXCEPT ![t] = SlotsSet(off)]
        \/ buffer' = [buffer EXCEPT ![t] = SlotsSet(padded)]
    BY <1>3 DEF SetSlots, PadToTotal
  <2> HIDE DEF off, padded
  <2>5. SlotsSet(off) \in [Clusters -> Lines] /\ SlotsSet(padded) \in [Clusters -> Lines]
    BY <2>3, SlotsSetType
  <2> QED
    BY <1>1, <2>4, <2>5 DEF BufferType
<1>4. CASE NextRelation(t) \/ Return(t)
  <2>1. buffer' = [buffer EXCEPT ![t] = NoBuffer]
    BY <1>4 DEF NextRelation, Return
  <2> QED
    BY <1>1, <2>1, LineFacts
<1>5. CASE BufferTuple(t) \/ FlushLine(t)
  <2>1. i[t] < num_tuples(Rel(t), t) /\ buffer' = [buffer EXCEPT ![t][Cluster(t)] = NextSlot(t)]
    BY <1>5 DEF BufferTuple, FlushLine, InCopy
  <2>2. Cluster(t) \in Clusters /\ NextSlot(t) \in Lines
    BY <2>1, FilledType DEF BufferType
  <2> DEFINE line == NextSlot(t)
             c == Cluster(t)
  <2>3. buffer' = [buffer EXCEPT ![t][c] = line] /\ c \in Clusters /\ line \in Lines
    BY <2>1, <2>2
  <2> HIDE DEF line, c
  <2> QED
    BY <1>2, <2>3
<1>6. CASE UNCHANGED buffer
  BY <1>6 DEF BufferType
<1> QED
  BY <1>3, <1>4, <1>5, <1>6, PassThreadSteps DEF CountAll, CountAllDone, CopyDone, WriteRemainder

(* A step of one thread that leaves the tables alone keeps the types. *)
LEMMA PlainType ==
    ASSUME TypeOK, NEW t \in Threads, rel' = rel, UNCHANGED <<bit, bitmap>>,
           \E p \in {"histogram", "prefix", "sync1", "offsets", "copy", "sync2", "done", "count",
                     "remainder"} : pc' = [pc EXCEPT ![t] = p],
           \E n \in Nat : i' = [i EXCEPT ![t] = n],
           \E q \in Rels : relidx' = [relidx EXCEPT ![t] = q],
           hist' \in [Rels -> [Threads -> [Clusters -> Nat]]],
           contains_cache' \in [Threads -> SUBSET Nat],
           output' \in [Rels -> [Threads -> [0 .. FanOut -> Nat]]],
           dst' \in [Threads -> [Clusters -> Nat]], TmpType', WithinLoop(t)'
    PROVE  TypeOK'
<1>1. pc' \in [Threads -> {"histogram", "prefix", "sync1", "offsets", "copy",
                           "sync2", "done", "count", "remainder"}]
  BY DEF TypeOK
<1>2. relidx' \in [Threads -> Rels] /\ i' \in [Threads -> Nat]
  BY DEF TypeOK
<1>3. \A u \in Threads \ {t} : pc'[u] = pc[u] /\ i'[u] = i[u] /\ relidx'[u] = relidx[u]
  BY DEF TypeOK
<1>4. \A u \in Threads : WithinLoop(u)'
  <2> TAKE u \in Threads
  <2>1. CASE u = t
    BY <2>1
  <2>2. CASE u # t
    <3>1. WithinLoop(u)
      BY DEF TypeOK
    <3> QED
      BY <1>3, <2>2, <3>1 DEF WithinLoop, Rel
  <2> QED
    BY <2>1, <2>2
<1>5. DOMAIN tmp' = Rels /\ \A r \in Rels : \A s \in DOMAIN tmp'[r] : s \in Nat /\ tmp'[r][s] \in Nat
  BY DEF TmpType
<1> QED
  BY <1>1, <1>2, <1>4, <1>5 DEF TypeOK

(* No step breaks the types and loops. *)
LEMMA PassType ==
    ASSUME TypeOK, BufferType, NEW t \in Threads, PassThread(t)
    PROVE  TypeOK'
<1>0. /\ TmpType /\ i[t] \in Nat /\ relidx[t] \in Rels /\ t \in Nat /\ Rel(t) \in Inputs
      /\ num_tuples(Rel(t), t) \in Nat /\ 0 \in Nat /\ FanOut \in Nat /\ 1 \in Rels
      /\ pc = [pc EXCEPT ![t] = pc[t]] /\ relidx = [relidx EXCEPT ![t] = relidx[t]]
      /\ pc[t] \in {"histogram", "prefix", "sync1", "offsets", "copy", "sync2", "done", "count",
                    "remainder"}
  BY ThreadsFacts, ChunkInRelation, RadixType DEF TypeOK, TmpType, Rel, Rels
<1>1. CASE Thread(t)
  <2>1. [Next]_vars
    BY <1>1 DEF Next
  <2> QED
    BY <2>1, NextType
<1>2. CASE CountAll(t)
  <2>1. /\ i[t] < num_tuples(Rel(t), t) /\ pc[t] = "count" /\ i' = [i EXCEPT ![t] = i[t] + 1]
        /\ UNCHANGED <<rel, pc, relidx, bit, bitmap, contains_cache, output, dst, tmp>>
    BY <1>2 DEF CountAll
  <2> DEFINE r == relidx[t]
             c == HASH_BIT_MODULO(Key(Rel(t), t, i[t]))
             table == [Rels -> [Threads -> [Clusters -> Nat]]]
  <2>2. c \in Clusters
    BY <2>1, HereFacts
  <2>3. hist' = [hist EXCEPT ![r][t][c] = hist[r][t][c] + 1]
    BY <1>2 DEF CountAll
  <2>4. r \in Rels /\ hist[r][t][c] + 1 \in Nat /\ hist \in table
    BY <2>2 DEF TypeOK
  <2>5. hist' \in table
    <3> HIDE DEF r, c
    <3>1. [hist EXCEPT ![r][t][c] = hist[r][t][c] + 1] \in table
      BY <2>2, <2>4, UpdateEntry
    <3> QED
      BY <2>3, <3>1
  <2>6. WithinLoop(t)' /\ TmpType'
    BY <1>0, <2>1 DEF WithinLoop, Rel, TypeOK, TmpType
  <2>7. i[t] + 1 \in Nat
    BY <1>0
  <2> QED
    BY <1>0, <2>1, <2>5, <2>6, <2>7, PlainType DEF TypeOK
<1>3. CASE CountAllDone(t) \/ CopyDone(t) \/ NextRelation(t) \/ Return(t)
  <2>1. /\ i' = [i EXCEPT ![t] = 0]
        /\ UNCHANGED <<rel, bit, bitmap, hist, output, dst, tmp>>
        /\ \E p \in {"histogram", "prefix", "sync1", "offsets", "copy", "sync2", "done", "count",
                     "remainder"} : pc' = [pc EXCEPT ![t] = p]
        /\ \E q \in Rels : relidx' = [relidx EXCEPT ![t] = q]
        /\ contains_cache' \in [Threads -> SUBSET Nat]
    BY <1>0, <1>3 DEF CountAllDone, CopyDone, NextRelation, Return, TypeOK
  <2>2. TmpType'
    BY <1>0, <2>1 DEF TmpType
  <2>3. WithinLoop(t)'
    <3>1. i'[t] = 0 /\ Rel(t)' \in Inputs
      BY <1>0, <2>1 DEF TypeOK, Rel
    <3>2. num_tuples(Rel(t)', t) \in Nat /\ NThreads \in Nat
      BY <3>1, ChunkInRelation, ThreadsFacts
    <3> QED
      BY <1>0, <3>1, <3>2 DEF WithinLoop
  <2> QED
    BY <1>0, <2>1, <2>2, <2>3, PlainType DEF TypeOK
<1>4. CASE PadToTotal(t) \/ SetSlots(t)
  <2> DEFINE r == relidx[t]
             off == [c \in 0 .. FanOut |-> output[r][t][c] + c * Padding]
             padded == PaddedTotal(t)
             table == [Rels -> [Threads -> [0 .. FanOut -> Nat]]]
  <2>1. \A c \in 0 .. FanOut : output[r][t][c] + c * Padding \in Nat
    <3>1. \A c \in 0 .. FanOut : output[r][t][c] \in Nat /\ c \in Nat /\ Padding \in Nat
      BY RadixType DEF TypeOK
    <3> HIDE DEF r
    <3>2. \A c \in 0 .. FanOut : c * Padding \in Nat
      BY <3>1
    <3> QED
      BY <3>1, <3>2
  <2>2. Len(Rel(t)) + FanOut * Padding \in Nat
    <3>1. Len(Rel(t)) \in Nat /\ FanOut \in Nat /\ Padding \in Nat
      BY <1>0, EndFacts, RadixType
    <3>2. FanOut * Padding \in Nat
      BY <3>1
    <3> QED
      BY <3>1, <3>2
  <2>3. off \in [0 .. FanOut -> Nat] /\ padded \in [0 .. FanOut -> Nat]
    BY <2>1, <2>2 DEF PaddedTotal
  <2>4. /\ i' = [i EXCEPT ![t] = 0] /\ pc' = [pc EXCEPT ![t] = "copy"]
        /\ UNCHANGED <<rel, relidx, bit, bitmap, hist, contains_cache, tmp>>
        /\ \/ output' = [output EXCEPT ![r][t] = off] /\ dst' = dst
           \/ /\ output' = [output EXCEPT ![r][t] = padded]
              /\ dst' = dst \/ dst' = [dst EXCEPT ![t] = [c \in Clusters |-> padded[c]]]
    BY <1>4 DEF PadToTotal, SetSlots
  <2> HIDE DEF off, padded, r
  <2>5. output' \in table
    <3>1. output \in table /\ r \in Rels
      BY <1>0 DEF TypeOK, r
    <3>2. [output EXCEPT ![r][t] = off] \in table /\ [output EXCEPT ![r][t] = padded] \in table
      BY <2>3, <3>1, UpdateRow
    <3> QED
      BY <2>4, <3>2
  <2>6. dst' \in [Threads -> [Clusters -> Nat]]
    <3>1. [c \in Clusters |-> padded[c]] \in [Clusters -> Nat]
      BY <1>0, <2>3 DEF Clusters
    <3> QED
      BY <2>4, <3>1 DEF TypeOK
  <2>7. WithinLoop(t)' /\ TmpType'
    BY <1>0, <2>4 DEF WithinLoop, Rel, TypeOK, TmpType
  <2> QED
    BY <1>0, <2>4, <2>5, <2>6, <2>7, PlainType DEF TypeOK
<1>5. CASE BufferTuple(t) \/ FlushLine(t)
  <2>1. /\ i[t] < num_tuples(Rel(t), t) /\ pc[t] = "copy" /\ i' = [i EXCEPT ![t] = i[t] + 1]
        /\ UNCHANGED <<rel, pc, relidx, bit, bitmap, hist, contains_cache, output, dst>>
    BY <1>5 DEF BufferTuple, FlushLine, InCopy
  <2>2. WithinLoop(t)' /\ i[t] + 1 \in Nat
    BY <1>0, <2>1 DEF WithinLoop, Rel, TypeOK
  <2>3. TmpType'
    <3>1. CASE BufferTuple(t)
      BY <1>0, <3>1 DEF BufferTuple, TmpType
    <3>2. CASE FlushLine(t)
      <4> DEFINE slot == Slot(t, Cluster(t))
                 w == [s \in slot - (Line - 1) .. slot |-> Filled(t)[s % Line]]
      <4>1. slot \in Nat /\ Filled(t) \in Lines
        BY <2>1, FilledType DEF BufferType
      <4>2. slot % Line = Line - 1 /\ tmp' = [tmp EXCEPT ![relidx[t]] = Written(relidx[t], w)]
        BY <3>2 DEF FlushLine
      <4> HIDE DEF slot
      <4>3. LineStart(slot) = slot - (Line - 1) /\ LineStart(slot) \in Nat
        BY <4>1, <4>2, LineFacts DEF LineStart
      <4>4. \A s \in DOMAIN w : s \in Nat /\ w[s] = Filled(t)[s % Line]
        BY <4>1, <4>3
      <4>5. \A s \in DOMAIN w : s % Line \in 0 .. Line - 1
        BY <4>4, LineFacts
      <4>6. \A s \in DOMAIN w : w[s] \in Nat
        BY <4>1, <4>4, <4>5 DEF Lines
      <4> HIDE DEF w
      <4> QED
        BY <1>0, <4>2, <4>4, <4>6, WrittenFacts
    <3> QED
      BY <1>5, <3>1, <3>2
  <2> QED
    BY <1>0, <2>1, <2>2, <2>3, PlainType DEF TypeOK
<1>6. CASE WriteRemainder(t)
  <2>1. /\ i[t] < FanOut /\ pc[t] = "remainder" /\ i' = [i EXCEPT ![t] = i[t] + 1]
        /\ UNCHANGED <<rel, pc, relidx, bit, bitmap, hist, contains_cache, output, dst>>
    BY <1>6 DEF WriteRemainder
  <2>2. WithinLoop(t)' /\ i[t] + 1 \in Nat /\ i[t] \in Clusters
    BY <1>0, <2>1 DEF WithinLoop, Rel, TypeOK, Clusters
  <2>3. TmpType'
    <3> DEFINE line == buffer[t][i[t]]
               slot == SlotOf(line)
               w == [s \in Remainder(slot) |-> line[s % Line]]
    <3>1. slot \in Nat /\ line \in Lines
      BY <2>2, SlotType DEF BufferType, Slot
    <3>2. tmp' = [tmp EXCEPT ![relidx[t]] = Written(relidx[t], w)]
      BY <1>6 DEF WriteRemainder
    <3> HIDE DEF slot, line
    <3>3. LineStart(slot) \in Nat /\ Remainder(slot) = LineStart(slot) .. slot - 1
      BY <3>1, LineFacts DEF LineStart, Remainder
    <3>4. \A s \in DOMAIN w : s \in Nat /\ w[s] = line[s % Line]
      BY <3>1, <3>3
    <3>5. \A s \in DOMAIN w : s % Line \in 0 .. Line - 1
      BY <3>4, LineFacts
    <3>6. \A s \in DOMAIN w : w[s] \in Nat
      BY <3>1, <3>4, <3>5 DEF Lines
    <3> HIDE DEF w
    <3> QED
      BY <1>0, <3>2, <3>4, <3>6, WrittenFacts
  <2> QED
    BY <1>0, <2>1, <2>2, <2>3, PlainType DEF TypeOK
<1> QED
  BY <1>1, <1>2, <1>3, <1>4, <1>5, <1>6, PassThreadSteps DEF Thread

-----------------------------------------------------------------------------
(***************************************************************************)
(* Where the threads are.                                                  *)
(***************************************************************************)
(* One chunk's indices are among all. *)
LEMMA InUnfiltered ==
    ASSUME NEW r \in Rels, NEW t \in Threads
    PROVE  0 .. num_tuples(rel[r], t) - 1 \subseteq Unfiltered
<1> DEFINE S(q, u) == 0 .. num_tuples(rel[q], u) - 1
           all == {S(q, u) : q \in Rels, u \in Threads}
<1>1. S(r, t) \in all
  OBVIOUS
<1>2. Unfiltered = UNION all
  BY DEF Unfiltered
<1> HIDE DEF all
<1> QED
  BY <1>1, <1>2

(* No thread step leaves the labels of its program. *)
LEMMA PlaceKept ==
    ASSUME TypeOK, BufferType, program \in Programs, NEW t \in Threads, PassThread(t),
           \A u \in Threads : PlaceOf(u)
    PROVE  \A u \in Threads : PlaceOf(u)'
<1>0. OnlyThread(t)
  BY StepOnlyThread DEF BufferType, Lines
<1>1. ASSUME NEW u \in Threads \ {t} PROVE PlaceOf(u)'
  <2>1. /\ relidx'[u] = relidx[u] /\ pc'[u] = pc[u] /\ i'[u] = i[u]
        /\ contains_cache'[u] = contains_cache[u] /\ rel' = rel /\ program' = program
    BY <1>0 DEF OnlyThread, SamePlace
  <2>2. PlaceOf(u)
    OBVIOUS
  <2> QED
    BY <2>1, <2>2 DEF PlaceOf, Labels, Unfiltered
<1>2. PlaceOf(t)'
  <2>0. /\ PlaceOf(t) /\ rel' = rel /\ program' = program /\ Unfiltered' = Unfiltered /\ i[t] \in Nat
        /\ relidx[t] \in Rels
    BY <1>0 DEF OnlyThread, Unfiltered, TypeOK
  <2> DEFINE OnlyBit == /\ pc'[t] = pc[t] /\ relidx'[t] = relidx[t]
                        /\ contains_cache'[t] = contains_cache[t]
                        /\ i'[t] = i[t] \/ i'[t] = i[t] + 1
  <2>1. CASE OnlyBit
    <3>1. pc'[t] = "histogram" => 0 .. i[t] - 1 \subseteq 0 .. i'[t] - 1
      BY <2>0, <2>1
    <3> QED
      BY <2>0, <2>1, <3>1 DEF PlaceOf, Labels
  <2>2. ASSUME AddBit(t) \/ TestBit(t) \/ FilterOut(t) \/ PrefixSum(t) \/ AddRow(t) \/ CopyTuple(t)
            \/ SkipTuple(t) \/ BufferTuple(t) \/ FlushLine(t) \/ WriteRemainder(t) \/ CountAll(t)
        PROVE OnlyBit
    <3>1. pc' = pc /\ relidx' = relidx /\ contains_cache' = contains_cache
          /\ (i' = i \/ i' = [i EXCEPT ![t] = i[t] + 1])
      BY <2>2 DEF AddBit, TestBit, FilterOut, PrefixSum, AddRow, CopyTuple, SkipTuple,
          BufferTuple, FlushLine, WriteRemainder, CountAll
    <3> QED
      BY <3>1 DEF TypeOK
  <2>3. CASE CountTuple(t)
    <3>1. /\ pc[t] = "histogram" /\ pc' = pc /\ relidx' = relidx /\ i'[t] = i[t] + 1
          /\ contains_cache'[t] = (IF relidx[t] = 0 THEN contains_cache[t]
                                   ELSE contains_cache[t] \cup {i[t]})
      BY <2>3 DEF CountTuple, InHistogram, build, TypeOK
    <3>2. program.filter
      BY <2>0, <3>1 DEF PlaceOf, Labels
    <3>3. contains_cache'[t] \subseteq 0 .. i'[t] - 1
      <4>1. contains_cache[t] \subseteq 0 .. i[t] - 1
        BY <2>0, <3>1, <3>2 DEF PlaceOf
      <4> QED
        BY <2>0, <3>1, <4>1
    <3> QED
      BY <2>0, <3>1, <3>2, <3>3 DEF PlaceOf, Labels
  <2>4. CASE HistogramDone(t) \/ CountAllDone(t) \/ ArriveAtSync1(t) \/ PadToTotal(t) \/ AddPadding(t)
             \/ SetSlots(t)
    <3>1. /\ relidx' = relidx /\ contains_cache' = contains_cache
          /\ pc[t] \in {"histogram", "count", "prefix", "offsets"}
          /\ pc'[t] \in {"prefix", "sync1", "copy"}
      BY <2>4 DEF HistogramDone, CountAllDone, ArriveAtSync1, PadToTotal, AddPadding, SetSlots, TypeOK
    <3> QED
      BY <2>0, <3>1 DEF PlaceOf, Labels
  <2>5. CASE CopyDone(t) /\ program.swwc
    <3>1. /\ relidx' = relidx /\ contains_cache' = contains_cache
          /\ pc[t] = "copy" /\ pc'[t] = "remainder"
      BY <2>5 DEF CopyDone, TypeOK
    <3> QED
      BY <2>0, <2>5, <3>1 DEF PlaceOf, Labels
  <2>6. CASE (ArriveAtSync2(t) \/ Return(t)) /\ (program.filter \/ relidx[t] = 1)
    <3>1. /\ relidx' = relidx /\ contains_cache'[t] = {}
          /\ pc[t] \in {"copy", "remainder"} /\ pc'[t] = "sync2"
      BY <2>6 DEF ArriveAtSync2, Return, TypeOK
    <3> QED
      BY <2>0, <2>6, <3>1 DEF PlaceOf, Labels
  <2>7. CASE NextRelation(t) /\ ~program.filter
    <3>1. /\ relidx'[t] = 1 /\ contains_cache' = contains_cache
          /\ pc[t] \in {"copy", "remainder"} /\ pc'[t] = "count"
      BY <2>7 DEF NextRelation, CopiedOut, TypeOK
    <3> QED
      BY <2>0, <2>7, <3>1 DEF PlaceOf, Labels
  <2> HIDE DEF OnlyBit
  <2> QED
    BY <2>1, <2>2, <2>3, <2>4, <2>5, <2>6, <2>7, PassThreadSteps
<1> QED
  BY <1>1, <1>2

(* Nothing is written before everyone has left sync1 behind. *)
LEMMA PlacesKept ==
    ASSUME TypeOK, Met, Places, NEW t \in Threads, PassThread(t)
    PROVE  Places' /\ Met'
<1>0. BufferType /\ OnlyThread(t) /\ program' = program
  BY StepOnlyThread DEF Places, BufferType, Lines, OnlyThread
<1>1. \A r \in Rels, u \in Threads : AfterSync1(r, u)' <=> AfterSync1(r, u)
  BY SidesKept
<1>2. relidx' = relidx \/ ~program.filter
  BY SidesKept
<1>3. Met'
  BY <1>0, <1>1, <1>2 DEF Met
<1>4. BufferType'
  BY <1>0, PassBufferType
<1>5. \A u \in Threads : PlaceOf(u)'
  BY <1>0, PlaceKept DEF Places
<1>6. ASSUME NEW r \in Rels, DOMAIN tmp'[r] # {}, NEW u \in Threads PROVE AfterSync1(r, u)
  <2>1. CASE tmp'[r] = tmp[r]
    BY <1>6, <2>1 DEF Places
  <2>2. CASE tmp'[r] # tmp[r]
    <3>1. r = relidx[t]
      BY <1>0, <2>2 DEF OnlyThread
    <3>2. pc[t] \in {"copy", "remainder"}
      BY <2>2, PassThreadSteps DEF AddBit, TestBit, FilterOut, CountTuple, HistogramDone,
         PrefixSum, ArriveAtSync1, AddRow, CountAll, CountAllDone, PadToTotal, NextRelation,
         AddPadding, SetSlots, CopyTuple, SkipTuple, ArriveAtSync2, BufferTuple, FlushLine, InCopy,
         CopyDone, WriteRemainder, Return
    <3>3. AfterSync1(r, t)
      BY <3>1, <3>2 DEF AfterSync1, BeforeSync1
    <3> QED
      BY <3>3 DEF Met
  <2> QED
    BY <2>1, <2>2
<1>7. \A r \in Rels : DOMAIN tmp'[r] # {} => \A u \in Threads : AfterSync1(r, u)'
  BY <1>1, <1>6
<1>8. program' \in Programs
  BY <1>0 DEF Places
<1> QED
  BY <1>3, <1>4, <1>5, <1>7, <1>8 DEF Places, BufferType, Lines

-----------------------------------------------------------------------------
(***************************************************************************)
(* The barrier, and the filter.                                            *)
(***************************************************************************)
(* When the barrier opens, everyone waits at the same place. *)
LEMMA AllWaitTogether ==
    ASSUME TypeOK, Met, Places, Waiting = Threads
    PROVE  \A t, u \in Threads :
              /\ pc[t] \in {"sync1", "sync2"} /\ pc[t] = pc[u] /\ relidx[t] = relidx[u]
              /\ relidx[t] \in Rels
<1>1. \A t \in Threads : pc[t] \in {"sync1", "sync2"} /\ relidx[t] \in {0, 1}
  BY DEF Waiting, TypeOK, Rels
<1>2. \A t \in Threads : pc[t] = "sync2" => relidx[t] = 1 \/ program.filter
  BY DEF Places, PlaceOf
<1>3. \A t, u \in Threads : \A r \in {0, 1} : AfterSync1(r, t) <=> AfterSync1(r, u)
  BY DEF Met, Rels
<1>4. \A t \in Threads : /\ AfterSync1(0, t) <=> relidx[t] = 1 \/ pc[t] = "sync2"
                         /\ AfterSync1(1, t) <=> relidx[t] = 1 /\ pc[t] = "sync2"
  BY <1>1 DEF AfterSync1, BeforeSync1
<1>5. program.filter => \A t, u \in Threads : relidx[t] = relidx[u]
  BY DEF Met
<1> SUFFICES ASSUME NEW t \in Threads, NEW u \in Threads
             PROVE  pc[t] = pc[u] /\ relidx[t] = relidx[u]
  BY <1>1 DEF Rels
<1> QED
  BY <1>1, <1>2, <1>3, <1>4, <1>5

(* ... and goes on to the same place. *)
LEMMA BarrierOpens ==
    ASSUME TypeOK, Met, Places, PassBarrier
    PROVE  /\ rel' = rel /\ program' = program /\ buffer' = buffer
           /\ UNCHANGED <<i, bit, bitmap, hist, contains_cache, output, dst, tmp>>
           /\ \/ /\ relidx' = relidx
                 /\ \A t \in Threads : pc[t] = "sync1" /\ pc'[t] = "offsets"
                 /\ \E r \in Rels : \A t \in Threads : relidx[t] = r
              \/ /\ program.filter
                 /\ \A t \in Threads : /\ pc[t] = "sync2" /\ pc'[t] = "histogram"
                                       /\ relidx[t] = 0 /\ relidx'[t] = 1
              \/ \A t \in Threads : /\ pc[t] = "sync2" /\ pc'[t] = "done"
                                    /\ relidx[t] = 1 /\ relidx'[t] = 1
<1>1. /\ rel' = rel /\ program' = program /\ buffer' = buffer /\ Waiting = Threads
      /\ UNCHANGED <<i, bit, bitmap, hist, contains_cache, output, dst, tmp>>
  BY DEF PassBarrier, ReleaseBarrier, Leave
<1>2. /\ pc' = [t \in Threads |-> IF pc[t] = "sync1" THEN "offsets"
                                  ELSE IF relidx[t] = 0 THEN "histogram" ELSE "done"]
      /\ relidx' = [t \in Threads |-> IF pc[t] = "sync2" THEN 1 ELSE relidx[t]]
  BY <1>1 DEF PassBarrier, ReleaseBarrier, Leave
<1>3. /\ \A t, u \in Threads : pc[t] = pc[u] /\ relidx[t] = relidx[u]
      /\ \A t \in Threads : pc[t] \in {"sync1", "sync2"} /\ relidx[t] \in Rels
  BY <1>1, AllWaitTogether
<1>4. 0 \in Threads
  BY ThreadsFacts DEF Threads
<1>5. CASE pc[0] = "sync1"
  <2>1. \A t \in Threads : pc[t] = "sync1" /\ pc'[t] = "offsets" /\ relidx[t] = relidx[0]
    BY <1>2, <1>3, <1>4, <1>5
  <2>2. relidx' = relidx
    BY <1>2, <2>1 DEF TypeOK
  <2> QED
    BY <1>1, <1>3, <1>4, <2>1, <2>2
<1>6. CASE pc[0] = "sync2" /\ relidx[0] = 0
  <2>1. \A t \in Threads : pc[t] = "sync2" /\ relidx[t] = 0 /\ pc'[t] = "histogram" /\ relidx'[t] = 1
    BY <1>2, <1>3, <1>4, <1>6
  <2>2. program.filter
    BY <1>4, <1>6 DEF Places, PlaceOf
  <2> QED
    BY <1>1, <2>1, <2>2
<1>7. CASE pc[0] = "sync2" /\ relidx[0] = 1
  <2>1. \A t \in Threads : pc[t] = "sync2" /\ relidx[t] = 1 /\ pc'[t] = "done" /\ relidx'[t] = 1
    BY <1>2, <1>3, <1>4, <1>7
  <2> QED
    BY <1>1, <2>1
<1> QED
  BY <1>3, <1>4, <1>5, <1>6, <1>7 DEF Rels

(* Then they have all met again. *)
LEMMA BarrierPlaces ==
    ASSUME TypeOK, Met, Places, PassBarrier
    PROVE  Places' /\ Met'
<1>1. /\ rel' = rel /\ program' = program /\ buffer' = buffer
      /\ UNCHANGED <<i, bit, bitmap, hist, contains_cache, output, dst, tmp>>
  BY BarrierOpens
<1>2. \A t \in Threads : relidx[t] \in {0, 1} /\ (pc[t] \in {"sync1", "sync2"} => i[t] = 0)
  BY DEF TypeOK, Rels, WithinLoop
<1>3. \A t, u \in Threads : relidx'[t] = relidx'[u] /\ pc'[t] = pc'[u]
  BY BarrierOpens
<1>4. Met'
  BY <1>3 DEF Met, AfterSync1, BeforeSync1
<1>5. ASSUME NEW r \in Rels, NEW t \in Threads, AfterSync1(r, t) PROVE AfterSync1(r, t)'
  BY <1>2, <1>5, BarrierOpens DEF AfterSync1, BeforeSync1, Rels
<1>6. ASSUME NEW t \in Threads PROVE PlaceOf(t)'
  <2>1. PlaceOf(t) /\ Unfiltered' = Unfiltered
    BY <1>1 DEF Places, Unfiltered
  <2> QED
    BY <1>1, <1>2, <2>1, BarrierOpens DEF PlaceOf, Labels
<1> QED
  BY <1>1, <1>4, <1>5, <1>6 DEF Places

(* The scan of the filtered programs, as RadixPartition has it. *)
LEMMA MetInStep ==
    ASSUME TypeOK, Met, program.filter
    PROVE  InStep
<1>1. \A t, u \in Threads : relidx[t] = relidx[u] /\ relidx[t] \in {0, 1}
  BY DEF Met, TypeOK, Rels
<1>2. \A t, u \in Threads : \A r \in {0, 1} : AfterSync1(r, t) <=> AfterSync1(r, u)
  BY DEF Met, Rels
<1>3. ASSUME NEW t \in Threads, NEW u \in Threads PROVE BeforeSync1(t) <=> BeforeSync1(u)
  <2>1. AfterSync1(relidx[t], t) <=> AfterSync1(relidx[t], u)
    BY <1>1, <1>2
  <2> QED
    BY <1>1, <2>1 DEF AfterSync1
<1> QED
  BY <1>1, <1>3 DEF InStep

(* The steps that only the programs with buffers take come after the scan. *)
LEMMA FilterKept ==
    ASSUME TypeOK, Met, Places, program.filter, FilterFilled, NoFalseNegative,
           [PassNext]_passVars
    PROVE  program'.filter /\ FilterFilled' /\ NoFalseNegative'
<1>0. InStep
  BY MetInStep
<1>1. CASE program' = program /\ [Next]_vars
  BY <1>0, <1>1, NextFilterFilled, NextPartnersKept
<1>2. CASE program' = program
           /\ \E t \in Threads : SetSlots(t) \/ BufferTuple(t) \/ FlushLine(t) \/ CopyDone(t)
                                 \/ WriteRemainder(t) \/ Return(t)
  <2>1. PICK t \in Threads : SetSlots(t) \/ BufferTuple(t) \/ FlushLine(t) \/ CopyDone(t)
                             \/ WriteRemainder(t) \/ Return(t)
    BY <1>2
  <2>2. /\ relidx' = relidx /\ bit' = bit /\ rel' = rel /\ bitmap' = bitmap
        /\ pc[t] \in {"offsets", "copy", "remainder"}
        /\ pc'[t] \notin {"histogram"}
        /\ \A u \in Threads \ {t} : i'[u] = i[u] /\ pc'[u] = pc[u] /\ contains_cache'[u] = contains_cache[u]
        /\ pc'[t] = "sync2" \/ contains_cache'[t] = contains_cache[t]
    BY <2>1 DEF SetSlots, BufferTuple, FlushLine, InCopy, CopyDone, WriteRemainder, Return, TypeOK
  <2>3. ScannedAdded(t)' /\ BeingAdded(t)' /\ AllAdded(t)'
    BY <2>2, AfterScanFrame
  <2>4. \A u \in Threads \ {t} : ScannedAdded(u)' /\ BeingAdded(u)' /\ AllAdded(u)'
    BY <2>2, ScanFrame
  <2>5. FilterFilled'
    BY <2>3, <2>4 DEF FilterFilled
  <2>6. PartnersKept(t)'
    <3>1. CASE pc'[t] = "sync2"
      BY <3>1 DEF PartnersKept
    <3>2. CASE pc'[t] # "sync2"
      BY <2>2, <3>2, KeptFrame
    <3> QED
      BY <3>1, <3>2
  <2>7. \A u \in Threads \ {t} : PartnersKept(u)'
    BY <2>2, KeptFrame
  <2> QED
    BY <1>2, <2>5, <2>6, <2>7 DEF NoFalseNegative
<1>3. program' = program /\ ([Next]_vars \/ \E t \in Threads :
          SetSlots(t) \/ BufferTuple(t) \/ FlushLine(t) \/ CopyDone(t) \/ WriteRemainder(t) \/ Return(t))
  <2>1. ASSUME NEW t \in Threads, PassThread(t)
        PROVE  /\ program' = program
               /\ \/ Thread(t)
                  \/ SetSlots(t) \/ BufferTuple(t) \/ FlushLine(t) \/ CopyDone(t)
                  \/ WriteRemainder(t) \/ Return(t)
    BY <2>1, PassThreadSteps DEF Thread
  <2> QED
    BY <2>1 DEF PassNext, PassBarrier, PassDone, Done, Next, passVars, swwcVars, vars
<1> QED
  BY <1>1, <1>2, <1>3

-----------------------------------------------------------------------------
(***************************************************************************)
(* The account, up to the first barrier.                                   *)
(***************************************************************************)
(* Up to the barrier a thread has no offsets and has written nothing.      *)
LEMMA EarlyParts ==
    ASSUME NEW kept, NEW kept2, NEW r \in Rels, NEW t \in Threads, relidx[t] = r, relidx'[t] = r,
           BeforeSync1(t), BeforeSync1(t)', output'[r][t] = output[r][t], OutputAt(kept, r, t)
    PROVE  OutputAt(kept2, r, t)' /\ NextAt(kept2, r, t)' /\ BufferAt(kept2, r, t)'
           /\ StoredAt(kept2, r, t)'
<1>1. r \in Int
  BY DEF Rels
<1>2. ~AfterSync1(r, t) /\ ~AfterSync1(r, t)'
  BY <1>1 DEF AfterSync1
<1>3. pc'[t] \notin {"copy", "remainder"}
  BY DEF BeforeSync1
<1>4. Passed(r, t)' = {}
  BY <1>2, <1>3 DEF Passed
<1>5. OutputAt(kept2, r, t)'
  BY <1>2 DEF OutputAt
<1>6. NextAt(kept2, r, t)' /\ BufferAt(kept2, r, t)'
  BY <1>3 DEF NextAt, BufferAt
<1>7. StoredAt(kept2, r, t)'
  BY <1>4 DEF StoredAt, WrittenOut
<1> QED
  BY <1>5, <1>6, <1>7

(* A thread's chunk is decided on from the front. *)
LEMMA DecidedFacts ==
    ASSUME TypeOK, NEW t \in Threads, NEW n \in Nat, n <= num_tuples(Rel(t), t)
    PROVE  /\ End(Rel(t), t) \in Nat /\ num_tuples(Rel(t), t) \in Nat
           /\ Chunk(Rel(t), t) = End(Rel(t), t) + 1 .. End(Rel(t), t) + num_tuples(Rel(t), t)
           /\ End(Rel(t), t) + 1 .. End(Rel(t), t) + n \subseteq Chunk(Rel(t), t)
           /\ \A p : p \in End(Rel(t), t) + 1 .. End(Rel(t), t) + n + 1 <=>
                        p \in End(Rel(t), t) + 1 .. End(Rel(t), t) + n \/ p = End(Rel(t), t) + n + 1
           /\ End(Rel(t), t) + n + 1 \notin End(Rel(t), t) + 1 .. End(Rel(t), t) + n
           /\ End(Rel(t), t) + 1 .. End(Rel(t), t) + 0 = {}
           /\ n < num_tuples(Rel(t), t) => End(Rel(t), t) + n + 1 \in Chunk(Rel(t), t)
<1>1. Rel(t) \in Inputs
  BY DEF TypeOK, Rel
<1>2. /\ End(Rel(t), t) \in Nat /\ End(Rel(t), t + 1) \in Nat
      /\ num_tuples(Rel(t), t) = End(Rel(t), t + 1) - End(Rel(t), t)
      /\ End(Rel(t), t) <= End(Rel(t), t + 1)
  BY <1>1, EndFacts
<1>3. Chunk(Rel(t), t) = End(Rel(t), t) + 1 .. End(Rel(t), t + 1)
  BY DEF Chunk
<1> DEFINE a == End(Rel(t), t)
           b == End(Rel(t), t + 1)
           num == num_tuples(Rel(t), t)
           chunk == Chunk(Rel(t), t)
<1> HIDE DEF a, b, num, chunk
<1>4. a \in Nat /\ b \in Nat /\ num = b - a /\ a <= b /\ chunk = a + 1 .. b /\ n \in Nat /\ n <= num
  BY <1>2, <1>3 DEF a, b, num, chunk
<1>5. /\ a \in Nat /\ num \in Nat
      /\ chunk = a + 1 .. a + num
      /\ a + 1 .. a + n \subseteq chunk
      /\ \A p : p \in a + 1 .. a + n + 1 <=> p \in a + 1 .. a + n \/ p = a + n + 1
      /\ a + n + 1 \notin a + 1 .. a + n
      /\ a + 1 .. a + 0 = {}
      /\ n < num => a + n + 1 \in chunk
  BY <1>4
<1> QED
  BY <1>5 DEF a, num, chunk

(* A tuple the filter lacks is not kept. *)
LEMMA FilterOutAccount ==
    ASSUME TypeOK, Places, NEW t \in Threads, NEW r \in Rels, relidx[t] = r,
           NEW kept, Account(kept), FilterOut(t), buffer' = buffer,
           program' = program, program.filter
    PROVE  AccountOf(kept, r, t)'
<1> DEFINE X == Rel(t)
           a == End(X, t)
           p == a + i[t] + 1
<1>1. /\ pc[t] = "histogram" /\ i[t] < num_tuples(X, t) /\ r # 0 /\ pc' = pc /\ relidx' = relidx
      /\ i'[t] = i[t] + 1 /\ i[t] \in Nat /\ r \in Rels
      /\ UNCHANGED <<rel, bitmap, hist, contains_cache, output, dst, tmp>>
  BY DEF FilterOut, InHistogram, build, TypeOK
<1>2. AccountOf(kept, r, t) /\ X = rel[r] /\ X \in Inputs /\ t \in 0 .. NThreads
  BY <1>1, ThreadsFacts DEF Account, Rel, TypeOK
<1>3. Decided(r, t) = a + 1 .. a + i[t] /\ Decided(r, t)' = a + 1 .. a + i[t] + 1
  <2>1. a + i'[t] = a + i[t] + 1
    <3>1. a \in Nat
      BY <1>2, EndFacts
    <3> QED
      BY <1>1, <3>1
  <2> QED
    BY <1>1, <1>2, <2>1 DEF Decided, Counting, Rels
<1>4. /\ \A q : q \in Decided(r, t)' <=> q \in Decided(r, t) \/ q = p
      /\ p \notin Decided(r, t) /\ p \in Chunk(X, t) /\ p - a - 1 = i[t]
  <2>1. a \in Nat /\ i[t] <= num_tuples(X, t)
    <3>1. num_tuples(X, t) \in Nat /\ a \in Nat
      BY <1>2, ChunkInRelation, EndFacts
    <3> QED
      BY <1>1, <3>1
  <2>2. p - a - 1 = i[t]
    BY <1>1, <2>1
  <2> QED
    BY <1>1, <1>3, <2>1, <2>2, DecidedFacts
<1>5. p \notin kept[r] /\ i[t] \notin contains_cache[t]
  <2>1. p \notin kept[r]
    BY <1>2, <1>4 DEF AccountOf, KeptAt
  <2>2. contains_cache[t] \subseteq 0 .. i[t] - 1
    BY <1>1 DEF Places, PlaceOf
  <2> QED
    BY <1>1, <2>1, <2>2
<1>6. KeptAt(kept, r, t)
  BY <1>2 DEF AccountOf
<1> HIDE DEF p, a, X
<1>7. KeptAt(kept, r, t)'
  <2>1. kept[r] \cap Chunk(rel[r], t) \subseteq Decided(r, t)'
    BY <1>4, <1>6 DEF KeptAt
  <2>2. \A q \in Decided(r, t)' : q \in kept[r] <=> q - End(rel[r], t) - 1 \in contains_cache[t]
    <3>1. \A q \in Decided(r, t) : q \in kept[r] <=> q - a - 1 \in contains_cache[t]
      BY <1>1, <1>2, <1>6 DEF KeptAt, a
    <3> QED
      BY <1>2, <1>4, <1>5, <3>1 DEF a
  <2> QED
    BY <1>1, <1>6, <2>1, <2>2 DEF KeptAt
<1>8. HistAt(kept, r, t)'
  <2>1. \A c : Summed(r, t, c)' <=> Summed(r, t, c)
    BY <1>1 DEF Summed
  <2> QED
    BY <1>1, <1>2, <2>1 DEF AccountOf, HistAt
<1>9. OutputAt(kept, r, t)' /\ NextAt(kept, r, t)' /\ BufferAt(kept, r, t)' /\ StoredAt(kept, r, t)'
  <2>1. BeforeSync1(t) /\ BeforeSync1(t)' /\ OutputAt(kept, r, t) /\ r \in Rels
        /\ relidx'[t] = r /\ output'[r][t] = output[r][t]
    BY <1>1, <1>2 DEF BeforeSync1, AccountOf
  <2> QED
    BY <2>1, EarlyParts
<1> QED
  BY <1>1, <1>7, <1>8, <1>9 DEF AccountOf

(* The end of the loop, of the prefix sum: nothing else happens.           *)
LEMMA LoopDoneAccount ==
    ASSUME TypeOK, NEW t \in Threads, NEW r \in Rels, relidx[t] = r, NEW kept, Account(kept),
           HistogramDone(t) \/ CountAllDone(t) \/ ArriveAtSync1(t), buffer' = buffer, program' = program
    PROVE  AccountOf(kept, r, t)'
<1> DEFINE X == Rel(t)
           a == End(X, t)
<1>1. /\ \/ /\ pc[t] \in {"histogram", "count"} /\ i[t] = num_tuples(X, t) /\ pc'[t] = "prefix"
         \/ pc[t] = "prefix" /\ i[t] = FanOut /\ pc'[t] = "sync1"
      /\ i'[t] = 0 /\ i[t] \in Nat /\ r \in Rels /\ relidx' = relidx
      /\ UNCHANGED <<rel, bitmap, hist, contains_cache, output, dst, tmp>>
  BY DEF HistogramDone, CountAllDone, ArriveAtSync1, TypeOK
<1>2. AccountOf(kept, r, t) /\ X = rel[r]
  BY <1>1 DEF Account, Rel
<1>3. Decided(r, t) = Chunk(X, t) /\ Decided(r, t)' = Chunk(X, t)
  <2>1. num_tuples(X, t) \in Nat
    <3>1. X \in Inputs
      BY <1>1, <1>2 DEF TypeOK
    <3> QED
      BY <3>1, ChunkInRelation
  <2>2. Chunk(X, t) = a + 1 .. a + num_tuples(X, t)
    BY <2>1, DecidedFacts
  <2> QED
    BY <1>1, <1>2, <2>2 DEF Decided, Counting, Rels
<1>4. KeptAt(kept, r, t)'
  <2>1. KeptAt(kept, r, t)
    BY <1>2 DEF AccountOf
  <2> QED
    BY <1>1, <1>3, <2>1 DEF KeptAt
<1>5. HistAt(kept, r, t)'
  <2>1. \A c \in Clusters : Summed(r, t, c)' <=> Summed(r, t, c)
    <3>1. \A c \in Clusters : c \in Nat /\ c < FanOut
      BY ClusterFacts
    <3> QED
      BY <1>1, <3>1 DEF Summed
  <2> QED
    BY <1>1, <1>2, <2>1 DEF AccountOf, HistAt
<1>6. OutputAt(kept, r, t)' /\ NextAt(kept, r, t)' /\ BufferAt(kept, r, t)' /\ StoredAt(kept, r, t)'
  <2>1. BeforeSync1(t) /\ BeforeSync1(t)' /\ OutputAt(kept, r, t) /\ r \in Rels
        /\ relidx'[t] = r /\ output'[r][t] = output[r][t]
    BY <1>1, <1>2 DEF BeforeSync1, AccountOf
  <2> QED
    BY <2>1, EarlyParts
<1> QED
  BY <1>1, <1>4, <1>5, <1>6 DEF AccountOf

(* One entry of the prefix sum. *)
LEMMA PrefixSumAccount ==
    ASSUME TypeOK, NEW t \in Threads, NEW r \in Rels, relidx[t] = r,
           NEW kept, Account(kept), PrefixSum(t), buffer' = buffer, program' = program
    PROVE  AccountOf(kept, r, t)'
<1> DEFINE X == rel[r]
           c0 == i[t]
<1>1. /\ pc[t] = "prefix" /\ i[t] < FanOut /\ pc' = pc /\ relidx' = relidx
      /\ i'[t] = i[t] + 1 /\ i[t] \in Nat /\ r \in Rels
      /\ UNCHANGED <<rel, bitmap, contains_cache, output, dst, tmp>>
  BY DEF PrefixSum, TypeOK
<1>2. AccountOf(kept, r, t) /\ X \in Inputs /\ kept[r] \subseteq 1 .. Len(X)
  BY <1>1 DEF Account, KeptType, TypeOK
<1>3. c0 \in Clusters /\ FanOut \in Nat /\ \A c \in Clusters : c \in Nat
  BY <1>1, ClusterFacts DEF Clusters
<1>4. /\ hist'[r][t][c0] = hist[r][t][c0] + (IF c0 = 0 THEN 0 ELSE hist[r][t][c0 - 1])
      /\ \A c \in Clusters : c # c0 => hist'[r][t][c] = hist[r][t][c]
  BY <1>1, <1>3 DEF PrefixSum, TypeOK
<1>5. \A c \in Clusters : hist[r][t][c] = IF c < c0 THEN Cardinality(UpTo(X, kept[r], t, c))
                                          ELSE Cardinality(Exactly(X, kept[r], t, c))
  BY <1>1, <1>2 DEF AccountOf, HistAt, Summed, Rels
<1>6. \A c \in Clusters : hist'[r][t][c] = IF c < c0 + 1 THEN Cardinality(UpTo(X, kept[r], t, c))
                                           ELSE Cardinality(Exactly(X, kept[r], t, c))
  <2> SUFFICES ASSUME NEW c \in Clusters
               PROVE  hist'[r][t][c] = IF c < c0 + 1 THEN Cardinality(UpTo(X, kept[r], t, c))
                                       ELSE Cardinality(Exactly(X, kept[r], t, c))
    OBVIOUS
  <2>1. CASE c # c0
    <3>1. c < c0 + 1 <=> c < c0
      BY <1>1, <1>3, <2>1
    <3> QED
      BY <1>4, <1>5, <2>1, <3>1
  <2>2. CASE c = c0
    <3>1. hist[r][t][c0] = Cardinality(Exactly(X, kept[r], t, c0))
      BY <1>1, <1>3, <1>5
    <3>2. c0 # 0 => c0 - 1 \in Clusters /\ c0 - 1 < c0
      BY <1>1, <1>3 DEF Clusters
    <3>3. c0 # 0 => hist[r][t][c0 - 1] = Cardinality(UpTo(X, kept[r], t, c0 - 1))
      BY <1>5, <3>2
    <3> HIDE DEF c0, X
    <3>4. Cardinality(UpTo(X, kept[r], t, c0)) = Cardinality(Exactly(X, kept[r], t, c0))
              + (IF c0 = 0 THEN 0 ELSE Cardinality(UpTo(X, kept[r], t, c0 - 1)))
      BY <1>2, <1>3, PrefixCount
    <3>5. c < c0 + 1
      BY <1>3, <2>2
    <3> QED
      BY <1>4, <2>2, <3>1, <3>3, <3>4, <3>5
  <2> QED
    BY <2>1, <2>2
<1>7. KeptAt(kept, r, t)'
  <2>1. KeptAt(kept, r, t) /\ Decided(r, t)' = Decided(r, t)
    BY <1>1, <1>2 DEF AccountOf, Decided, Counting
  <2> QED
    BY <1>1, <2>1 DEF KeptAt
<1>8. HistAt(kept, r, t)'
  BY <1>1, <1>6 DEF HistAt, Summed, Rels
<1>9. OutputAt(kept, r, t)' /\ NextAt(kept, r, t)' /\ BufferAt(kept, r, t)' /\ StoredAt(kept, r, t)'
  <2>1. BeforeSync1(t) /\ BeforeSync1(t)' /\ OutputAt(kept, r, t) /\ r \in Rels
        /\ relidx'[t] = r /\ output'[r][t] = output[r][t]
    BY <1>1, <1>2 DEF BeforeSync1, AccountOf
  <2> QED
    BY <2>1, EarlyParts
<1> QED
  BY <1>1, <1>7, <1>8, <1>9 DEF AccountOf

(* One more tuple kept counts in its own partition of its own chunk.       *)
LEMMA KeptAdded ==
    ASSUME NEW X \in Inputs, NEW Q, Q \subseteq 1 .. Len(X), NEW t \in Threads,
           NEW p \in Chunk(X, t), p \notin Q
    PROVE  /\ Q \cup {p} \subseteq 1 .. Len(X)
           /\ \A c \in Clusters :
                 Cardinality(Exactly(X, Q \cup {p}, t, c)) =
                    Cardinality(Exactly(X, Q, t, c)) + (IF c = RadixOf(X, p) THEN 1 ELSE 0)
<1>1. p \in 1 .. Len(X)
  BY Chunks
<1>2. Q \cup {p} \subseteq 1 .. Len(X)
  BY <1>1
<1>4. ASSUME NEW c \in Clusters
      PROVE  Cardinality(Exactly(X, Q \cup {p}, t, c)) =
                Cardinality(Exactly(X, Q, t, c)) + (IF c = RadixOf(X, p) THEN 1 ELSE 0)
  <2> DEFINE A == Exactly(X, Q, t, c)
  <2>1. IsFiniteSet(A) /\ Cardinality(A) \in Nat
    BY KeptFinite DEF Exactly
  <2>2. CASE c = RadixOf(X, p)
    <3>1. Exactly(X, Q \cup {p}, t, c) = A \cup {p}
      BY <2>2 DEF Exactly
    <3>2. p \notin A
      BY DEF Exactly
    <3> HIDE DEF A
    <3>3. Cardinality(A \cup {p}) = Cardinality(A) + 1
      BY <2>1, <3>2, FS_AddElement
    <3> QED
      BY <2>2, <3>1, <3>3 DEF A
  <2>3. CASE c # RadixOf(X, p)
    <3>1. Exactly(X, Q \cup {p}, t, c) = A
      BY <2>3 DEF Exactly
    <3> HIDE DEF A
    <3> QED
      BY <2>1, <2>3, <3>1 DEF A
  <2> QED
    BY <2>2, <2>3
<1> QED
  BY <1>2, <1>4

(* A thread decides on tuples of its chunk only. *)
LEMMA DecidedInChunk ==
    ASSUME TypeOK, NEW r \in Rels, NEW u \in Threads
    PROVE  Decided(r, u) \subseteq Chunk(rel[r], u)
<1>1. CASE Counting(r, u)
  <2>1. i[u] \in Nat /\ i[u] <= num_tuples(Rel(u), u) /\ Rel(u) = rel[r] /\ relidx[u] = r
    BY <1>1 DEF Counting, TypeOK, WithinLoop, Rel
  <2>2. End(rel[r], u) + 1 .. End(rel[r], u) + i[u] \subseteq Chunk(rel[r], u)
    BY <2>1, DecidedFacts
  <2> QED
    BY <1>1, <2>1, <2>2 DEF Decided, Rels
<1>2. CASE ~Counting(r, u)
  BY <1>2 DEF Decided
<1> QED
  BY <1>1, <1>2

(* What is said of a relation depends on its own kept positions only.      *)
LEMMA AccountSame ==
    ASSUME NEW kept, NEW kept2, NEW r \in Rels, NEW u \in Threads, kept2[r] = kept[r],
           AccountOf(kept, r, u)
    PROVE  AccountOf(kept2, r, u)
<1>1. KeptAt(kept2, r, u) /\ HistAt(kept2, r, u) /\ OutputAt(kept2, r, u)
  BY DEF AccountOf, KeptAt, HistAt, OutputAt
<1>2. \A c : PassedOf(kept2, r, u, c) = PassedOf(kept, r, u, c)
  BY DEF PassedOf
<1>3. NextAt(kept2, r, u) /\ BufferAt(kept2, r, u)
  BY <1>2 DEF AccountOf, NextAt, BufferAt
<1>4. \A p : /\ WrittenOut(kept2, r, u, p) <=> WrittenOut(kept, r, u, p)
             /\ Exposed(kept2, r, u, p) <=> Exposed(kept, r, u, p)
  BY DEF WrittenOut, Exposed
<1>5. StoredAt(kept2, r, u)
  BY <1>4 DEF AccountOf, StoredAt
<1> QED
  BY <1>1, <1>3, <1>5 DEF AccountOf

(* Nor does what is stored depend on the other relation. *)
LEMMA NothingElseSame ==
    ASSUME NEW kept, NEW kept2, NEW r \in Rels, kept2[r] = kept[r], NothingElse(kept, r)
    PROVE  NothingElse(kept2, r)
  BY DEF NothingElse

(* Before its first barrier nothing is said of a relation but what is kept *)
(* and counted.                                                            *)
LEMMA BeforeParts ==
    ASSUME NEW kept, NEW kept2, NEW r \in Rels, NEW t \in Threads,
           ~AfterSync1(r, t), ~AfterSync1(r, t)', output'[r][t] = output[r][t], OutputAt(kept, r, t)
    PROVE  OutputAt(kept2, r, t)' /\ NextAt(kept2, r, t)' /\ BufferAt(kept2, r, t)'
           /\ StoredAt(kept2, r, t)'
<1>1. relidx'[t] = r => pc'[t] \notin {"copy", "remainder"}
  BY DEF AfterSync1, BeforeSync1
<1>2. Passed(r, t)' = {}
  BY <1>1 DEF Passed
<1>3. OutputAt(kept2, r, t)'
  BY DEF OutputAt
<1>4. NextAt(kept2, r, t)' /\ BufferAt(kept2, r, t)'
  BY <1>1 DEF NextAt, BufferAt
<1>5. StoredAt(kept2, r, t)'
  BY <1>2 DEF StoredAt, WrittenOut
<1> QED
  BY <1>3, <1>4, <1>5

(* A tuple that counts is kept. *)
LEMMA CountAccount ==
    ASSUME TypeOK, Met, Places, NEW t \in Threads, NEW r \in Rels, relidx[t] = r,
           NEW kept, Account(kept), PassThread(t),
           \/ CountTuple(t) /\ program.filter /\ buffer' = buffer
           \/ CountAll(t) /\ ~program.filter
    PROVE  \E kept2 : Account(kept2)'
<1> DEFINE X == rel[r]
<1>1. /\ pc[t] = (IF program.filter THEN "histogram" ELSE "count") /\ pc' = pc /\ relidx' = relidx
      /\ i[t] < num_tuples(X, t) /\ X = Rel(t)
      /\ i'[t] = i[t] + 1 /\ i[t] \in Nat
      /\ UNCHANGED <<rel, output, dst, tmp, buffer>>
      /\ contains_cache'[t] = IF program.filter /\ r # 0 THEN contains_cache[t] \cup {i[t]}
                              ELSE contains_cache[t]
  BY DEF CountTuple, CountAll, InHistogram, build, TypeOK, Rel
<1>2. OnlyThread(t) /\ program' = program
  BY StepOnlyThread DEF Places, OnlyThread
<1>3. PICK p : p = Here(t)
  OBVIOUS
<1> DEFINE a == End(X, t)
           Q == kept[r]
           Q2 == Q \cup {p}
           kept2 == [kept EXCEPT ![r] = Q2]
<1>4. /\ X \in Inputs /\ p = a + i[t] + 1 /\ p \in Nat /\ p \in Chunk(X, t)
      /\ HASH_BIT_MODULO(Key(X, t, i[t])) = RadixOf(X, p) /\ RadixOf(X, p) \in Clusters
      /\ a \in Nat /\ i[t] <= num_tuples(X, t)
  <2>1. a \in Nat /\ num_tuples(X, t) \in Nat
    BY EndFacts, ChunkInRelation, ThreadsFacts DEF TypeOK
  <2> QED
    BY <1>1, <1>3, <2>1, HereFacts
<1>5. /\ AccountOf(kept, r, t) /\ Q \subseteq 1 .. Len(X) /\ kept \in [Rels -> SUBSET Nat]
      /\ \A q \in Rels : kept[q] \subseteq 1 .. Len(rel[q])
  BY DEF Account, KeptType
<1>6. Decided(r, t) = a + 1 .. a + i[t] /\ Decided(r, t)' = a + 1 .. a + i[t] + 1
  <2>1. a + i'[t] = a + i[t] + 1
    BY <1>1, <1>4
  <2> QED
    BY <1>1, <2>1 DEF Decided, Counting, Rels
<1>7. /\ \A q : q \in Decided(r, t)' <=> q \in Decided(r, t) \/ q = p
      /\ p \notin Decided(r, t) /\ p - a - 1 = i[t]
  <2>2. p - a - 1 = i[t]
    BY <1>1, <1>4
  <2> QED
    BY <1>1, <1>4, <1>6, <2>2, DecidedFacts
<1>8. p \notin Q
  BY <1>4, <1>5, <1>7 DEF AccountOf, KeptAt
<1>9. ASSUME NEW u \in Threads PROVE ~AfterSync1(r, u) /\ ~AfterSync1(r, u)'
  <2>1. ~AfterSync1(r, t) /\ ~AfterSync1(r, t)'
    BY <1>1 DEF AfterSync1, BeforeSync1, Rels
  <2>2. AfterSync1(r, u)' <=> AfterSync1(r, u)
    BY SidesKept
  <2> QED
    BY <2>1, <2>2 DEF Met
<1> HIDE DEF a
<1>10. /\ kept2 \in [Rels -> SUBSET Nat] /\ kept2[r] = Q2 /\ Q2 \subseteq 1 .. Len(X)
       /\ \A q \in Rels \ {r} : kept2[q] = kept[q]
  <2>1. Q2 \subseteq 1 .. Len(X)
    <3>1. p \in 1 .. Len(X)
      BY <1>4, Chunks
    <3> QED
      BY <1>5, <3>1
  <2>2. Q2 \in SUBSET Nat
    BY <2>1
  <2> HIDE DEF Q2
  <2> QED
    BY <1>5, <2>1, <2>2
<1> HIDE DEF kept2
<1>11. KeptType(kept2)'
  <2>1. KeptType(kept2)
    BY <1>5, <1>10 DEF KeptType
  <2> QED
    BY <1>1, <2>1 DEF KeptType
<1>12. ASSUME NEW q \in Rels PROVE NothingElse(kept2, q)'
  <2>1. CASE q = r
    <3>1. DOMAIN tmp[r] = {}
      BY <1>9 DEF Places
    <3> QED
      BY <1>1, <2>1, <3>1 DEF NothingElse
  <2>2. CASE q # r
    <3>1. NothingElse(kept, q)'
      BY <1>1, <1>2, StoredFrame DEF Account
    <3>2. NothingElse(kept2, q)
      BY <1>10, <2>2, NothingElseSame DEF Account
    <3> QED
      BY <1>1, <1>2, <3>2, StoredFrame
  <2> QED
    BY <2>1, <2>2
<1>13. ASSUME NEW q \in Rels, NEW u \in Threads, q # r PROVE AccountOf(kept2, q, u)'
  <2>1. AccountOf(kept, q, u)
    BY DEF Account
  <2>2. AccountOf(kept2, q, u)
    BY <1>10, <1>13, <2>1, AccountSame
  <2>3. SameStored(kept2, q, u)
    BY <1>1, <1>2, StoredFrame
  <2>4. rel' = rel /\ program' = program /\ relidx'[u] = relidx[u] /\ SameRows(q, u)
        /\ (SamePlace(u) \/ (relidx[u] # q /\ relidx[u] \in Rels))
    BY <1>1, <1>2, <1>13 DEF OnlyThread, TypeOK
  <2> QED
    BY <2>2, <2>3, <2>4, AccountFrame
<1>14. ASSUME NEW u \in Threads PROVE OutputAt(kept2, r, u)' /\ NextAt(kept2, r, u)'
                                      /\ BufferAt(kept2, r, u)' /\ StoredAt(kept2, r, u)'
  <2>1. OutputAt(kept, r, u) /\ output'[r][u] = output[r][u]
    BY <1>1 DEF Account, AccountOf
  <2> QED
    BY <1>9, <2>1, BeforeParts
<1>15. ASSUME NEW u \in Threads, u # t PROVE KeptAt(kept2, r, u)' /\ HistAt(kept2, r, u)'
  <2>1. /\ rel' = rel /\ program' = program /\ relidx'[u] = relidx[u] /\ pc'[u] = pc[u]
        /\ i'[u] = i[u] /\ contains_cache'[u] = contains_cache[u] /\ hist'[r][u] = hist[r][u]
    BY <1>2, <1>15 DEF OnlyThread, SamePlace, SameRows
  <2>2. Decided(r, u)' = Decided(r, u) /\ \A c : Summed(r, u, c)' <=> Summed(r, u, c)
    BY <2>1 DEF Decided, Counting, Summed
  <2>3. /\ Q2 \cap Chunk(X, u) = Q \cap Chunk(X, u)
        /\ \A c \in Clusters : /\ Exactly(X, Q2, u, c) = Exactly(X, Q, u, c)
                               /\ UpTo(X, Q2, u, c) = UpTo(X, Q, u, c)
    <3>2. X \in Inputs /\ p \in Chunk(X, t) /\ u # t
      BY <1>4, <1>15
    <3>3. p \notin Chunk(X, u)
      <4> HIDE DEF X
      <4> QED
        BY <3>2, Chunks
    <3> HIDE DEF X, Q
    <3> QED
      BY <3>3 DEF Exactly, UpTo
  <2>4. KeptAt(kept, r, u) /\ HistAt(kept, r, u)
    BY DEF Account, AccountOf
  <2>5. HistAt(kept2, r, u)'
    BY <1>10, <2>1, <2>2, <2>3, <2>4 DEF HistAt
  <2>6. Decided(r, u) \subseteq Chunk(X, u)
    BY DecidedInChunk
  <2>7. \A q \in Chunk(X, u) : q \in Q2 <=> q \in Q
    BY <2>3
  <2>8. KeptAt(kept2, r, u)'
    <3>1. Q \cap Chunk(X, u) \subseteq Decided(r, u)
      BY <2>4 DEF KeptAt
    <3>2. (r = 0 \/ ~program.filter) => Decided(r, u) \subseteq Q2
      BY <2>4 DEF KeptAt
    <3>3. relidx[u] = r /\ pc[u] \notin {"sync2", "done"} =>
          \A q \in Decided(r, u) :
             q \in Q2 <=> (r = 0 \/ q - End(rel[r], u) - 1 \in contains_cache[u])
      BY <2>4, <2>6, <2>7 DEF KeptAt
    <3>4. r = 1 /\ relidx[u] = r /\ pc[u] \in {"sync2", "done"} =>
          \A q \in Chunk(X, u) : HasPartner(X[q]) => q \in Q2
      BY <2>4, <2>7 DEF KeptAt
    <3>5. \A k : HasPartner(k)' <=> HasPartner(k)
      BY <2>1 DEF HasPartner
    <3> HIDE DEF Q2, Q
    <3> QED
      BY <1>10, <2>1, <2>2, <2>3, <3>1, <3>2, <3>3, <3>4, <3>5 DEF KeptAt, Q2, Q
  <2> QED
    BY <2>5, <2>8
<1>16. KeptAt(kept2, r, t)'
  <2>1. KeptAt(kept, r, t)
    BY <1>5 DEF AccountOf
  <2>2. Q2 \cap Chunk(X, t) \subseteq Decided(r, t)'
    BY <1>7, <2>1 DEF KeptAt
  <2>3. (r = 0 \/ ~program.filter) => Decided(r, t)' \subseteq Q2
    BY <1>7, <2>1 DEF KeptAt
  <2>4. \A q \in Decided(r, t)' :
             q \in Q2 <=> (r = 0 \/ q - a - 1 \in contains_cache'[t])
    <3>1. ASSUME NEW q \in Decided(r, t)
          PROVE  q \in Q2 <=> (r = 0 \/ q - a - 1 \in contains_cache'[t])
      <4>1. q \in Q2 <=> q \in Q
        BY <1>7
      <4>2. q \in Q <=> (r = 0 \/ q - a - 1 \in contains_cache[t])
        BY <1>1, <2>1 DEF KeptAt, a
      <4>3. q - a - 1 # i[t]
        BY <1>1, <1>4, <1>6
      <4> QED
        BY <1>1, <4>1, <4>2, <4>3
    <3>2. r = 0 \/ p - a - 1 \in contains_cache'[t]
      <4>1. CASE program.filter
        BY <1>1, <1>7, <4>1
      <4>2. CASE ~program.filter
        <5>1. Unfiltered \subseteq contains_cache[t]
          BY <1>1, <4>2 DEF Places, PlaceOf
        <5>2. i[t] \in 0 .. num_tuples(X, t) - 1
          <6>1. num_tuples(X, t) \in Nat
            BY <1>4, ChunkInRelation
          <6> QED
            BY <1>1, <6>1
        <5> QED
          BY <1>1, <1>7, <4>2, <5>1, <5>2, InUnfiltered
      <4> QED
        BY <4>1, <4>2
    <3> QED
      BY <1>7, <3>1, <3>2
  <2> HIDE DEF Q2, Q
  <2> QED
    BY <1>1, <1>2, <1>10, <2>2, <2>3, <2>4 DEF KeptAt, a, OnlyThread
<1>17. HistAt(kept2, r, t)'
  <2>1. /\ hist'[r][t][RadixOf(X, p)] = hist[r][t][RadixOf(X, p)] + 1
        /\ \A c \in Clusters : c # RadixOf(X, p) => hist'[r][t][c] = hist[r][t][c]
    <3>1. hist' = [hist EXCEPT ![r][t][RadixOf(X, p)] = hist[r][t][RadixOf(X, p)] + 1]
      BY <1>1, <1>4 DEF CountTuple, CountAll
    <3> QED
      BY <1>4, <3>1 DEF TypeOK
  <2>2. \A c : ~Summed(r, t, c) /\ ~Summed(r, t, c)'
    BY <1>1 DEF Summed, Rels
  <2>3. \A c \in Clusters : hist[r][t][c] = Cardinality(Exactly(X, Q, t, c))
    BY <1>5, <2>2 DEF AccountOf, HistAt
  <2>4. \A c \in Clusters : Cardinality(Exactly(X, Q, t, c)) \in Nat
                            /\ Cardinality(Exactly(X, Q2, t, c)) =
                    Cardinality(Exactly(X, Q, t, c)) + (IF c = RadixOf(X, p) THEN 1 ELSE 0)
    <3> HIDE DEF X, Q
    <3>1. \A c \in Clusters : Cardinality(Exactly(X, Q, t, c)) \in Nat
      BY <1>4, <1>5, KeptFinite
    <3>2. X \in Inputs /\ p \in Chunk(X, t) /\ Q \subseteq 1 .. Len(X) /\ p \notin Q
      BY <1>4, <1>5, <1>8 DEF X, Q
    <3>3. \A c \in Clusters : Cardinality(Exactly(X, Q \cup {p}, t, c)) =
                    Cardinality(Exactly(X, Q, t, c)) + (IF c = RadixOf(X, p) THEN 1 ELSE 0)
      <4> HIDE DEF Q2
      <4> QED
        BY <3>2, KeptAdded
    <3> QED
      BY <3>1, <3>3
  <2>5. \A c \in Clusters : hist'[r][t][c] = Cardinality(Exactly(X, Q2, t, c))
    <3> TAKE c \in Clusters
    <3>1. CASE c = RadixOf(X, p)
      BY <1>4, <2>1, <2>3, <2>4, <3>1
    <3>2. CASE c # RadixOf(X, p)
      BY <1>4, <2>1, <2>3, <2>4, <3>2
    <3> QED
      BY <3>1, <3>2
  <2> HIDE DEF Q2
  <2> QED
    BY <1>1, <1>10, <2>2, <2>5 DEF HistAt, Q2
<1>18. \A q \in Rels, u \in Threads : AccountOf(kept2, q, u)'
  BY <1>13, <1>14, <1>15, <1>16, <1>17 DEF AccountOf
<1> QED
  BY <1>11, <1>12, <1>18 DEF Account

-----------------------------------------------------------------------------
(***************************************************************************)
(* The offsets.                                                            *)
(***************************************************************************)
(* Behind the first barrier every histogram is summed and everyone has     *)
(* decided on his chunk.                                                   *)
LEMMA AfterSync1Facts ==
    ASSUME TypeOK, NEW r \in Rels, NEW u \in Threads, AfterSync1(r, u), NEW kept, Account(kept)
    PROVE  /\ \A c \in Clusters : hist[r][u][c] = Cardinality(UpTo(rel[r], kept[r], u, c))
           /\ Decided(r, u) = Chunk(rel[r], u)
           /\ ~program.filter => Chunk(rel[r], u) \subseteq kept[r]
<1>1. \A c : Summed(r, u, c)
  BY DEF AfterSync1, BeforeSync1, Summed
<1>2. Decided(r, u) = Chunk(rel[r], u)
  BY DEF AfterSync1, BeforeSync1, Decided, Counting, TypeOK, Rels
<1>3. HistAt(kept, r, u) /\ KeptAt(kept, r, u)
  BY DEF Account, AccountOf
<1> QED
  BY <1>1, <1>2, <1>3 DEF HistAt, KeptAt

(* A row of histograms added. *)
LEMMA AddRowAccount ==
    ASSUME TypeOK, Met, NEW t \in Threads, NEW r \in Rels, relidx[t] = r,
           NEW kept, Account(kept), AddRow(t), buffer' = buffer, program' = program
    PROVE  AccountOf(kept, r, t)'
<1> DEFINE X == rel[r]
           Q == kept[r]
           n == i[t]
<1>1. /\ pc[t] = "offsets" /\ pc' = pc /\ relidx' = relidx
      /\ i[t] < NThreads /\ i'[t] = i[t] + 1 /\ i[t] \in Nat
      /\ UNCHANGED <<rel, hist, contains_cache, dst, tmp, buffer>>
  BY DEF AddRow, TypeOK
<1>2. AccountOf(kept, r, t) /\ X \in Inputs /\ Q \subseteq 1 .. Len(X)
  BY DEF Account, KeptType, TypeOK
<1>3. n \in Threads /\ NThreads \in Nat
  BY <1>1, ThreadsFacts DEF Threads
<1>4. \A c \in Clusters : hist[r][n][c] = Cardinality(UpTo(X, Q, n, c))
  <2>1. AfterSync1(r, t)
    BY <1>1 DEF AfterSync1, BeforeSync1
  <2>2. \A u \in Threads : AfterSync1(r, u)
    BY <2>1 DEF Met
  <2> QED
    BY <1>3, <2>2, AfterSync1Facts
<1>5. \A c \in 0 .. FanOut : output'[r][t][c] = output[r][t][c]
         + (IF c < FanOut /\ n < t THEN hist[r][n][c] ELSE IF c > 0 THEN hist[r][n][c - 1] ELSE 0)
  BY DEF AddRow, TypeOK
<1>6. \A c \in 0 .. FanOut : output[r][t][c] = Cardinality(EarlierIn(X, Q, t, c, n))
  BY <1>1, <1>2 DEF AccountOf, OutputAt, AfterSync1, BeforeSync1
<1>7. ASSUME NEW c \in 0 .. FanOut
      PROVE  output'[r][t][c] = Cardinality(EarlierIn(X, Q, t, c, n + 1))
  <2>1. FanOut \in Nat /\ c \in Nat
    BY ClusterFacts
  <2>2. c < FanOut => c \in Clusters
    BY <2>1 DEF Clusters
  <2>3. c > 0 => c - 1 \in Clusters
    BY <2>1 DEF Clusters
  <2>4. output'[r][t][c] = Cardinality(EarlierIn(X, Q, t, c, n))
         + (IF c < FanOut /\ n < t THEN Cardinality(UpTo(X, Q, n, c))
            ELSE IF c > 0 THEN Cardinality(UpTo(X, Q, n, c - 1)) ELSE 0)
    BY <1>4, <1>5, <1>6, <2>2, <2>3
  <2> HIDE DEF X, Q, n
  <2>5. Cardinality(EarlierIn(X, Q, t, c, n + 1)) = Cardinality(EarlierIn(X, Q, t, c, n))
         + (IF c < FanOut /\ n < t THEN Cardinality(UpTo(X, Q, n, c))
            ELSE IF c > 0 THEN Cardinality(UpTo(X, Q, n, c - 1)) ELSE 0)
    BY <1>2, <1>3, RowAdded
  <2> QED
    BY <2>4, <2>5
<1>8. KeptAt(kept, r, t)' /\ HistAt(kept, r, t)'
  <2>1. Decided(r, t)' = Decided(r, t) /\ \A c : Summed(r, t, c)' <=> Summed(r, t, c)
    BY <1>1 DEF Decided, Counting, Summed
  <2>2. KeptAt(kept, r, t) /\ HistAt(kept, r, t)
    BY <1>2 DEF AccountOf
  <2>3. KeptAt(kept, r, t)'
    BY <1>1, <2>1, <2>2 DEF KeptAt
  <2>4. HistAt(kept, r, t)'
    BY <1>1, <2>1, <2>2 DEF HistAt
  <2> QED
    BY <2>3, <2>4
<1>9. OutputAt(kept, r, t)'
  BY <1>1, <1>7 DEF OutputAt, AfterSync1, BeforeSync1
<1>10. NextAt(kept, r, t)' /\ BufferAt(kept, r, t)'
  BY <1>1 DEF NextAt, BufferAt
<1>11. StoredAt(kept, r, t)'
  <2>1. Passed(r, t)' = {}
    BY <1>1 DEF Passed, AfterSync1, Rels
  <2> QED
    BY <2>1 DEF StoredAt, WrittenOut
<1> QED
  BY <1>8, <1>9, <1>10, <1>11 DEF AccountOf

(* With all rows and the padding, the offsets are where the tuples start;  *)
(* the last is the end of the last partition, where it is not a sum too.   *)
LEMMA OffsetsReady ==
    ASSUME TypeOK, Met, NEW t \in Threads, NEW r \in Rels, relidx[t] = r,
           NEW kept, Account(kept), pc[t] = "offsets", i[t] = NThreads
    PROVE  /\ \A c \in 0 .. FanOut :
                 output[r][t][c] + c * Padding = Start(rel[r], kept[r], t, c)
           /\ ~program.filter => \A c \in 0 .. FanOut :
                 PaddedTotal(t)[c] = Start(rel[r], kept[r], t, c)
<1> DEFINE X == rel[r]
           Q == kept[r]
<1>1. AccountOf(kept, r, t) /\ X \in Inputs /\ Q \subseteq 1 .. Len(X)
  BY DEF Account, KeptType, TypeOK
<1>2. AfterSync1(r, t)
  BY DEF AfterSync1, BeforeSync1
<1>3. \A c \in 0 .. FanOut : output[r][t][c] = Cardinality(EarlierIn(X, Q, t, c, NThreads))
  BY <1>1, <1>2 DEF AccountOf, OutputAt
<1>4. ASSUME NEW c \in 0 .. FanOut PROVE output[r][t][c] + c * Padding = Start(X, Q, t, c)
  <2>1. c * Padding \in Nat
    <3>1. c \in Nat /\ Padding \in Nat
      BY ClusterFacts
    <3> QED
      BY <3>1
  <2>2. output[r][t][c] = Cardinality(EarlierIn(X, Q, t, c, NThreads))
    BY <1>3
  <2> HIDE DEF X, Q
  <2>3. EarlierIn(X, Q, t, c, NThreads) = Earlier(X, Q, t, c)
    BY <1>1, NoRowAllRows
  <2>4. Cardinality(Earlier(X, Q, t, c)) \in Nat
    BY <1>1, KeptFinite
  <2> QED
    BY <2>1, <2>2, <2>3, <2>4 DEF Start
<1>5. ASSUME ~program.filter, NEW c \in 0 .. FanOut
      PROVE  PaddedTotal(t)[c] = Start(X, Q, t, c)
  <2>1. CASE c # FanOut
    BY <1>4, <2>1 DEF PaddedTotal
  <2>2. CASE c = FanOut
    <3>1. PaddedTotal(t)[c] = Len(X) + FanOut * Padding
      BY <2>2 DEF PaddedTotal, Rel
    <3>2. \A u \in Threads : Chunk(X, u) \subseteq Q
      BY <1>2, <1>5, AfterSync1Facts DEF Met
    <3> HIDE DEF X, Q
    <3>3. \A p \in 1 .. Len(X) : \E u \in Threads : p \in Chunk(X, u)
      BY <1>1, Chunks
    <3>4. Q = 1 .. Len(X)
      BY <1>1, <3>2, <3>3
    <3>5. Start(X, Q, t, FanOut) = FanOut * Padding + Cardinality(Q) /\ Cardinality(Q) = Len(X)
      BY <1>1, <3>4, LastStart
    <3>6. Len(X) \in Nat /\ FanOut * Padding \in Nat
      <4>1. FanOut \in Nat /\ Padding \in Nat
        BY ClusterFacts
      <4> QED
        BY <1>1, <4>1, EndFacts
    <3> QED
      BY <2>2, <3>1, <3>5, <3>6
  <2> QED
    BY <2>1, <2>2
<1> QED
  BY <1>4, <1>5

(* The copy loop begins at these. *)
LEMMA ToCopyAccount ==
    ASSUME TypeOK, Met, Places, NEW t \in Threads, NEW r \in Rels, relidx[t] = r,
           NEW kept, Account(kept), PassThread(t),
           \/ AddPadding(t) /\ ~program.swwc /\ buffer' = buffer
           \/ SetSlots(t) /\ program.swwc
           \/ PadToTotal(t) /\ ~program.filter
    PROVE  AccountOf(kept, r, t)'
<1> DEFINE X == rel[r]
           Q == kept[r]
<1>1. /\ pc[t] = "offsets" /\ pc'[t] = "copy" /\ relidx' = relidx
      /\ i[t] = NThreads /\ i'[t] = 0 /\ program' = program
      /\ UNCHANGED <<rel, hist, contains_cache, tmp>>
  BY PassThreadSteps DEF AddPadding, SetSlots, PadToTotal, TypeOK
<1>2. AccountOf(kept, r, t) /\ X \in Inputs /\ Q \subseteq 1 .. Len(X)
  BY DEF Account, KeptType, TypeOK
<1>3. PICK off :
         /\ off = [c \in 0 .. FanOut |-> output[r][t][c] + c * Padding]
            \/ (~program.filter /\ off = PaddedTotal(t))
         /\ output'[r][t] = off
         /\ IF program.swwc THEN buffer'[t] = SlotsSet(off)
            ELSE dst'[t] = [c \in Clusters |-> off[c]]
  <2> DEFINE o1 == [c \in 0 .. FanOut |-> output[r][t][c] + c * Padding]
             o2 == PaddedTotal(t)
             table == [Rels -> [Threads -> [0 .. FanOut -> Nat]]]
  <2>1. output \in table /\ buffer \in [Threads -> [Clusters -> [0 .. Line - 1 -> Nat]]]
        /\ dst \in [Threads -> [Clusters -> Nat]]
    BY DEF TypeOK, Places
  <2> HIDE DEF o1, o2
  <2>2. CASE AddPadding(t) /\ ~program.swwc
    <3>1. output' = [output EXCEPT ![r][t] = o1] /\ dst' = [dst EXCEPT ![t] = [c \in Clusters |-> o1[c]]]
      BY <2>2 DEF AddPadding, o1
    <3>2. output'[r][t] = o1 /\ dst'[t] = [c \in Clusters |-> o1[c]]
      BY <2>1, <3>1
    <3> QED
      BY <2>2, <3>2 DEF o1
  <2>3. CASE SetSlots(t) /\ program.swwc
    <3>1. output' = [output EXCEPT ![r][t] = o1] /\ buffer' = [buffer EXCEPT ![t] = SlotsSet(o1)]
      BY <2>3 DEF SetSlots, o1
    <3>2. output'[r][t] = o1 /\ buffer'[t] = SlotsSet(o1)
      BY <2>1, <3>1
    <3> QED
      BY <2>3, <3>2 DEF o1
  <2>4. CASE PadToTotal(t) /\ ~program.filter
    <3>1. /\ output' = [output EXCEPT ![r][t] = o2]
          /\ \/ program.swwc /\ buffer' = [buffer EXCEPT ![t] = SlotsSet(o2)]
             \/ ~program.swwc /\ dst' = [dst EXCEPT ![t] = [c \in Clusters |-> o2[c]]]
      BY <2>4 DEF PadToTotal, o2
    <3>2. /\ output'[r][t] = o2
          /\ \/ program.swwc /\ buffer'[t] = SlotsSet(o2)
             \/ ~program.swwc /\ dst'[t] = [c \in Clusters |-> o2[c]]
      BY <2>1, <3>1
    <3> QED
      BY <2>4, <3>2 DEF o2
  <2> QED
    BY <2>2, <2>3, <2>4
<1>4. \A c \in 0 .. FanOut : off[c] = Start(X, Q, t, c)
  <2>1. /\ \A c \in 0 .. FanOut : output[r][t][c] + c * Padding = Start(X, Q, t, c)
        /\ ~program.filter => \A c \in 0 .. FanOut : PaddedTotal(t)[c] = Start(X, Q, t, c)
    BY <1>1, OffsetsReady
  <2>2. CASE off = [c \in 0 .. FanOut |-> output[r][t][c] + c * Padding]
    BY <2>1, <2>2
  <2>3. CASE ~program.filter /\ off = PaddedTotal(t)
    BY <2>1, <2>3
  <2> QED
    BY <1>3, <2>2, <2>3
<1>5. \A c \in Clusters : off[c] = Start(X, Q, t, c) /\ off[c] \in Nat
  <2>1. \A c \in 0 .. FanOut : Start(X, Q, t, c) \in Nat
    <3> HIDE DEF X, Q
    <3> QED
      BY <1>2, SlotBounds
  <2> QED
    BY <1>4, <2>1, ClusterFacts
<1>6. KeptAt(kept, r, t)' /\ HistAt(kept, r, t)'
  <2>1. Decided(r, t)' = Decided(r, t) /\ \A c : Summed(r, t, c)' <=> Summed(r, t, c)
    BY <1>1 DEF Decided, Counting, Summed
  <2>2. KeptAt(kept, r, t) /\ HistAt(kept, r, t)
    BY <1>2 DEF AccountOf
  <2>3. KeptAt(kept, r, t)'
    BY <1>1, <2>1, <2>2 DEF KeptAt
  <2>4. HistAt(kept, r, t)'
    BY <1>1, <2>1, <2>2 DEF HistAt
  <2> QED
    BY <2>3, <2>4
<1>7. OutputAt(kept, r, t)'
  BY <1>1, <1>3, <1>4 DEF OutputAt, AfterSync1, BeforeSync1
<1>8. Passed(r, t)' = {} /\ \A c : PassedOf(kept, r, t, c)' = {}
  <2>1. End(X, t) + 1 .. End(X, t) + 0 = {}
    <3>1. End(X, t) \in Nat
      BY <1>2, EndFacts
    <3> QED
      BY <3>1
  <2>2. Passed(r, t)' = {}
    BY <1>1, <2>1 DEF Passed
  <2> QED
    BY <2>2 DEF PassedOf
<1>9. \A c \in Clusters : NextOf(t, c)' = off[c] /\ (program.swwc => Slot(t, c)' = off[c])
  <2>1. CASE program.swwc
    <3>1. \A c \in Clusters : SlotOf(SlotsSet(off)[c]) = off[c]
      BY <1>5, SlotsSetType
    <3> QED
      BY <1>1, <1>3, <2>1, <3>1 DEF NextOf, Slot
  <2>2. CASE ~program.swwc
    BY <1>1, <1>3, <2>2 DEF NextOf
  <2> QED
    BY <2>1, <2>2
<1>10. NextAt(kept, r, t)'
  <2>1. ASSUME NEW c \in Clusters
        PROVE  NextOf(t, c)' = Start(X, Q, t, c) + Cardinality(PassedOf(kept, r, t, c)')
    <3>1. Cardinality(PassedOf(kept, r, t, c)') = 0
      BY <1>8, FS_EmptySet
    <3> QED
      BY <1>5, <1>9, <3>1
  <2> QED
    BY <1>1, <2>1 DEF NextAt
<1>11. BufferAt(kept, r, t)'
  <2> SUFFICES ASSUME program.swwc, NEW c \in Clusters
               PROVE  /\ \A k \in 0 .. (off[c] % Line) - 1 :
                            Belongs(X, Q, LineStart(off[c]) + k, buffer'[t][c][k])
                      /\ PassedOf(kept, r, t, c)' = {}
    BY <1>1, <1>9 DEF BufferAt
  <2>1. ASSUME NEW k \in 0 .. (off[c] % Line) - 1 PROVE buffer'[t][c][k] = Garbage
    <3>1. off[c] % Line \in 0 .. Line - 1 /\ Line \in Nat
      BY <1>5, LineFacts
    <3>2. k \in 0 .. Line - 1 /\ k # Line - 1
      BY <3>1
    <3>3. SlotsSet(off)[c] = [NoBuffer[c] EXCEPT ![Line - 1] = off[c]]
      BY DEF SlotsSet
    <3>4. NoBuffer[c] = [m \in 0 .. Line - 1 |-> Garbage]
      BY DEF NoBuffer
    <3> QED
      BY <1>3, <3>2, <3>3, <3>4
  <2> QED
    BY <1>8, <2>1 DEF Belongs
<1>12. StoredAt(kept, r, t)'
  BY <1>8 DEF StoredAt, WrittenOut
<1> QED
  BY <1>6, <1>7, <1>10, <1>11, <1>12 DEF AccountOf

-----------------------------------------------------------------------------
(***************************************************************************)
(* Steps that store nothing.                                               *)
(***************************************************************************)
(* A step that changes no counter and no row changes no account.           *)
LEMMA UnchangedAccount ==
    ASSUME NEW t \in Threads, NEW r \in Rels, NEW kept, Account(kept), rel' = rel,
           program' = program, relidx' = relidx, SamePlace(t), SameRows(r, t), tmp' = tmp
    PROVE  AccountOf(kept, r, t)'
<1>1. AccountOf(kept, r, t) /\ SameStored(kept, r, t)
  BY StoredFrame DEF Account
<1> QED
  BY <1>1, AccountFrame

(* In its copy loop a thread keeps what it decided, counted and summed.    *)
LEMMA CopyParts ==
    ASSUME NEW t \in Threads, NEW r \in Rels, relidx[t] = r, relidx'[t] = r,
           pc[t] \in {"copy", "remainder"}, pc'[t] \in {"copy", "remainder"},
           rel' = rel, program' = program, contains_cache'[t] = contains_cache[t], SameRows(r, t),
           NEW kept, AccountOf(kept, r, t)
    PROVE  KeptAt(kept, r, t)' /\ HistAt(kept, r, t)' /\ OutputAt(kept, r, t)'
<1>1. Decided(r, t)' = Decided(r, t) /\ \A c : Summed(r, t, c)' <=> Summed(r, t, c)
  BY DEF Decided, Counting, Summed, Rels
<1>2. KeptAt(kept, r, t) /\ HistAt(kept, r, t) /\ OutputAt(kept, r, t)
  BY DEF AccountOf
<1>3. KeptAt(kept, r, t)'
  BY <1>1, <1>2 DEF KeptAt
<1>4. HistAt(kept, r, t)'
  BY <1>1, <1>2 DEF HistAt, SameRows
<1>5. OutputAt(kept, r, t)'
  <2>1. AfterSync1(r, t) /\ AfterSync1(r, t)'
    BY DEF AfterSync1, BeforeSync1
  <2> QED
    BY <1>2, <2>1 DEF OutputAt, SameRows
<1> QED
  BY <1>3, <1>4, <1>5

(* The copy loop comes to a tuple: those it has passed are the ones before *)
(* it, and it is kept or not as Kept says.                                 *)
LEMMA AtTuple ==
    ASSUME TypeOK, Places, NEW t \in Threads, NEW r \in Rels, relidx[t] = r,
           pc[t] = "copy", i[t] < num_tuples(Rel(t), t), NEW kept, Account(kept)
    PROVE  /\ \A p : p \in Passed(r, t) <=> p \in Chunk(rel[r], t) /\ p < Here(t)
           /\ Here(t) \in Chunk(rel[r], t)
           /\ Kept(t) <=> Here(t) \in kept[r]
<1> DEFINE X == Rel(t)
           a == End(X, t)
<1>1. X = rel[r] /\ i[t] \in Nat /\ Here(t) = a + i[t] + 1 /\ Here(t) \in Chunk(X, t)
  BY HereFacts DEF Rel
<1>2. a \in Nat /\ num_tuples(X, t) \in Nat /\ Chunk(X, t) = a + 1 .. a + num_tuples(X, t)
  <2>1. i[t] \in Nat /\ i[t] <= num_tuples(X, t)
    BY DEF TypeOK, WithinLoop
  <2> QED
    BY <2>1, DecidedFacts
<1>3. Passed(r, t) = a + 1 .. a + i[t]
  BY <1>1 DEF Passed
<1>4. \A p : p \in Passed(r, t) <=> p \in Chunk(X, t) /\ p < Here(t)
  <2> HIDE DEF X, a
  <2> QED
    BY <1>1, <1>2, <1>3
<1>5. Kept(t) <=> Here(t) \in kept[r]
  <2>1. Decided(r, t) = Chunk(X, t)
    BY <1>1 DEF Decided, Counting, Rels
  <2>2. \A p \in Decided(r, t) :
           p \in kept[r] <=> (r = 0 \/ p - End(rel[r], t) - 1 \in contains_cache[t])
    BY DEF Account, AccountOf, KeptAt
  <2>3. Here(t) - a - 1 = i[t]
    <3> HIDE DEF a
    <3> QED
      BY <1>1, <1>2
  <2> QED
    BY <1>1, <2>1, <2>2, <2>3 DEF Kept, build
<1> QED
  BY <1>1, <1>4, <1>5

(* The loop goes on by one tuple. *)
LEMMA PastTuple ==
    ASSUME TypeOK, Places, NEW t \in Threads, NEW r \in Rels, relidx[t] = r, relidx'[t] = r,
           pc[t] = "copy", pc'[t] = "copy", i[t] < num_tuples(Rel(t), t), i'[t] = i[t] + 1,
           rel' = rel, NEW kept, Account(kept)
    PROVE  /\ Passed(r, t)' = Passed(r, t) \cup {Here(t)}
           /\ Here(t) \notin Passed(r, t)
           /\ \A c : \A p \in kept[r] : p \in PassedOf(kept, r, t, c)' <=>
                 p \in PassedOf(kept, r, t, c)
                   \/ (p = Here(t) /\ c = RadixOf(rel[r], p))
           /\ \A c : PassedOf(kept, r, t, c) \subseteq kept[r] /\ PassedOf(kept, r, t, c)' \subseteq kept[r]
<1> DEFINE X == Rel(t)
           a == End(X, t)
           n == i[t]
<1>1. X = rel[r] /\ n \in Nat /\ n <= num_tuples(X, t) /\ Here(t) = a + n + 1 /\ Here(t) \in Chunk(X, t)
  <2>1. n \in Nat /\ n <= num_tuples(X, t)
    BY DEF TypeOK, WithinLoop
  <2> QED
    BY <2>1, HereFacts DEF Rel
<1>2. Passed(r, t) = a + 1 .. a + n /\ Passed(r, t)' = a + 1 .. a + (n + 1) /\ a \in Nat
  <2>1. a \in Nat
    BY <1>1, DecidedFacts
  <2>2. End(rel[r], t)' = End(rel[r], t)
    OBVIOUS
  <2> QED
    BY <1>1, <2>1, <2>2 DEF Passed
<1>3. Passed(r, t)' = Passed(r, t) \cup {Here(t)} /\ Here(t) \notin Passed(r, t)
  <2> HIDE DEF a, n
  <2> QED
    BY <1>1, <1>2
<1>4. \A c : /\ PassedOf(kept, r, t, c)' = Exactly(rel[r], kept[r], t, c) \cap Passed(r, t)'
             /\ PassedOf(kept, r, t, c) = Exactly(rel[r], kept[r], t, c) \cap Passed(r, t)
  BY DEF PassedOf
<1>5. \A c : \A p \in kept[r] : p \in Exactly(rel[r], kept[r], t, c) <=>
                               p \in Chunk(rel[r], t) /\ c = RadixOf(rel[r], p)
  BY DEF Exactly
<1>6. \A c : Exactly(rel[r], kept[r], t, c) \subseteq kept[r]
  BY DEF Exactly
<1> QED
  BY <1>1, <1>3, <1>4, <1>5, <1>6

(* A tuple of S that the filter dropped. *)
LEMMA SkipTupleAccount ==
    ASSUME TypeOK, Places, NEW t \in Threads, NEW r \in Rels, relidx[t] = r,
           NEW kept, Account(kept), SkipTuple(t), buffer' = buffer, program' = program
    PROVE  AccountOf(kept, r, t)'
<1>1. /\ pc[t] = "copy" /\ pc' = pc /\ relidx' = relidx /\ i[t] < num_tuples(Rel(t), t) /\ ~Kept(t)
      /\ i'[t] = i[t] + 1 /\ UNCHANGED <<rel, hist, contains_cache, output, dst, tmp>>
  BY DEF SkipTuple, TypeOK
<1>2. AccountOf(kept, r, t)
  BY DEF Account
<1>3. KeptAt(kept, r, t)' /\ HistAt(kept, r, t)' /\ OutputAt(kept, r, t)'
  BY <1>1, <1>2, CopyParts DEF SameRows
<1>4. Here(t) \notin kept[r]
  BY <1>1, AtTuple
<1>5. ASSUME NEW c PROVE PassedOf(kept, r, t, c)' = PassedOf(kept, r, t, c)
  <2>1. relidx'[t] = r /\ pc'[t] = "copy"
    BY <1>1
  <2>2. /\ \A d : \A p \in kept[r] : p \in PassedOf(kept, r, t, d)' <=>
                 p \in PassedOf(kept, r, t, d)
                   \/ (p = Here(t) /\ d = RadixOf(rel[r], p))
        /\ \A d : PassedOf(kept, r, t, d) \subseteq kept[r] /\ PassedOf(kept, r, t, d)' \subseteq kept[r]
    BY <1>1, <2>1, PastTuple
  <2> QED
    BY <1>4, <2>2
<1>6. Passed(r, t)' = Passed(r, t) \cup {Here(t)}
  BY <1>1, PastTuple
<1>7. NextAt(kept, r, t)' /\ BufferAt(kept, r, t)'
  <2>1. \A c : NextOf(t, c)' = NextOf(t, c) /\ Slot(t, c)' = Slot(t, c)
    BY <1>1 DEF NextOf, Slot
  <2>2. NextAt(kept, r, t)'
    BY <1>1, <1>2, <1>5, <2>1 DEF NextAt, AccountOf
  <2>3. BufferAt(kept, r, t)'
    BY <1>1, <1>2, <1>5, <2>1 DEF BufferAt, AccountOf
  <2> QED
    BY <2>2, <2>3
<1>8. StoredAt(kept, r, t)'
  <2>1. ASSUME NEW p \in kept[r] \cap Chunk(rel[r], t), WrittenOut(kept, r, t, p)',
               ~Exposed(kept, r, t, p)'
        PROVE  /\ SlotFor(rel[r], kept[r], p) \in DOMAIN tmp[r]
               /\ tmp[r][SlotFor(rel[r], kept[r], p)] = p
    <3>1. p \in Passed(r, t)
      BY <1>4, <1>6, <2>1 DEF WrittenOut
    <3>2. \A c : Slot(t, c)' = Slot(t, c)
      BY <1>1 DEF Slot
    <3>3. WrittenOut(kept, r, t, p)
      BY <1>1, <2>1, <3>1, <3>2 DEF WrittenOut
    <3>4. ~Exposed(kept, r, t, p)
      BY <1>1, <2>1 DEF Exposed
    <3> QED
      BY <1>2, <3>3, <3>4 DEF AccountOf, StoredAt
  <2> QED
    BY <1>1, <2>1 DEF StoredAt
<1> QED
  BY <1>3, <1>7, <1>8 DEF AccountOf

(* Every tuple is in a buffer or stored: on to the remainders. *)
LEMMA CopyDoneAccount ==
    ASSUME TypeOK, Places, NEW t \in Threads, NEW r \in Rels, relidx[t] = r,
           NEW kept, Account(kept), CopyDone(t), program' = program
    PROVE  AccountOf(kept, r, t)'
<1>1. /\ pc[t] = "copy" /\ pc'[t] = "remainder" /\ relidx' = relidx /\ i[t] = num_tuples(Rel(t), t)
      /\ i'[t] = 0 /\ UNCHANGED <<rel, hist, contains_cache, output, dst, tmp, buffer>>
  BY DEF CopyDone, TypeOK
<1>2. AccountOf(kept, r, t)
  BY DEF Account
<1>3. KeptAt(kept, r, t)' /\ HistAt(kept, r, t)' /\ OutputAt(kept, r, t)'
  BY <1>1, <1>2, CopyParts DEF SameRows
<1>4. Passed(r, t) = Chunk(rel[r], t) /\ Passed(r, t)' = Chunk(rel[r], t)
  <2>1. Rel(t) = rel[r] /\ i[t] \in Nat /\ i[t] <= num_tuples(Rel(t), t)
    BY <1>1 DEF Rel, TypeOK, WithinLoop
  <2>2. Chunk(rel[r], t) = End(rel[r], t) + 1 .. End(rel[r], t) + i[t]
    BY <1>1, <2>1, DecidedFacts
  <2> QED
    BY <1>1, <2>2 DEF Passed, AfterSync1, BeforeSync1
<1>5. \A c : /\ PassedOf(kept, r, t, c)' = PassedOf(kept, r, t, c)
             /\ NextOf(t, c)' = NextOf(t, c) /\ Slot(t, c)' = Slot(t, c)
  BY <1>1, <1>4 DEF PassedOf, NextOf, Slot
<1>6. NextAt(kept, r, t)'
  BY <1>1, <1>2, <1>5 DEF NextAt, AccountOf
<1>7. BufferAt(kept, r, t)'
  BY <1>1, <1>2, <1>5 DEF BufferAt, AccountOf
<1>8. StoredAt(kept, r, t)'
  <2>1. ASSUME NEW p \in kept[r] \cap Chunk(rel[r], t), WrittenOut(kept, r, t, p)'
        PROVE  WrittenOut(kept, r, t, p)
    <3>1. RadixOf(rel[r], p) \in Nat
      BY KeptPositions DEF Account, KeptType, TypeOK
    <3> QED
      BY <1>1, <1>4, <1>5, <2>1, <3>1 DEF WrittenOut
  <2>2. \A p : Exposed(kept, r, t, p)' <=> Exposed(kept, r, t, p)
    BY <1>1 DEF Exposed
  <2> QED
    BY <1>1, <1>2, <2>1, <2>2 DEF StoredAt, AccountOf
<1> QED
  BY <1>3, <1>6, <1>7, <1>8 DEF AccountOf

-----------------------------------------------------------------------------
(***************************************************************************)
(* A relation left behind.                                                 *)
(***************************************************************************)
(* Thread t has copied relation r, or is past it. *)
CopiedAll(r, t) == relidx[t] > r \/ (relidx[t] = r /\ (CopiedOut(t) \/ pc[t] \in {"sync2", "done"}))
Behind(r, t) == (r = 0 /\ relidx[t] = 1) \/ (relidx[t] = r /\ pc[t] \in {"sync2", "done"})

(* What was in the copy loop's care is in the arrays then, and stays.      *)
LEMMA LeftParts ==
    ASSUME TypeOK, NEW t \in Threads, NEW r \in Rels, NEW kept, Account(kept), CopiedAll(r, t),
           Behind(r, t)', rel' = rel, program' = program, SameRows(r, t), tmp' = tmp
    PROVE  /\ HistAt(kept, r, t)' /\ OutputAt(kept, r, t)' /\ NextAt(kept, r, t)'
           /\ BufferAt(kept, r, t)' /\ StoredAt(kept, r, t)'
           /\ Decided(r, t) = Chunk(rel[r], t) /\ Decided(r, t)' = Chunk(rel[r], t)
<1>1. /\ relidx[t] \in Int /\ r \in Int /\ AccountOf(kept, r, t)
      /\ relidx[t] = r => pc[t] \in {"copy", "remainder", "sync2", "done"}
      /\ relidx[t] = r \/ relidx[t] > r
  BY DEF Account, TypeOK, Rels, CopiedAll, CopiedOut
<1>2. \/ relidx'[t] = r /\ pc'[t] \in {"sync2", "done"}
      \/ relidx'[t] > r /\ relidx'[t] # r /\ ~(relidx'[t] < r)
  <2>1. CASE relidx'[t] = r /\ pc'[t] \in {"sync2", "done"}
    BY <2>1
  <2>2. CASE r = 0 /\ relidx'[t] = 1
    BY <2>2
  <2> QED
    BY <2>1, <2>2 DEF Behind
<1>3. Decided(r, t) = Chunk(rel[r], t) /\ Decided(r, t)' = Chunk(rel[r], t)
  BY <1>1, <1>2 DEF Decided, Counting
<1>4. HistAt(kept, r, t)'
  <2>1. \A c : Summed(r, t, c) /\ Summed(r, t, c)'
    BY <1>1, <1>2 DEF Summed
  <2> QED
    BY <1>1, <2>1 DEF HistAt, AccountOf, SameRows
<1>5. AfterSync1(r, t) /\ AfterSync1(r, t)'
  BY <1>1, <1>2 DEF AfterSync1, BeforeSync1
<1>6. OutputAt(kept, r, t)'
  BY <1>1, <1>2, <1>5 DEF OutputAt, AccountOf, SameRows
<1>7. NextAt(kept, r, t)' /\ BufferAt(kept, r, t)'
  BY <1>2 DEF NextAt, BufferAt
<1>8. StoredAt(kept, r, t)'
  <2>1. Passed(r, t) = Chunk(rel[r], t)
    <3>1. CASE relidx[t] = r /\ pc[t] = "copy"
      <4>1. CopiedOut(t)
        BY <1>1, <3>1 DEF CopiedAll
      <4>2. i[t] = num_tuples(Rel(t), t) /\ Rel(t) = rel[r]
        BY <3>1, <4>1 DEF CopiedOut, Rel
      <4>3. i[t] \in Nat /\ i[t] <= num_tuples(Rel(t), t)
        BY <3>1 DEF TypeOK, WithinLoop
      <4>4. Chunk(rel[r], t) = End(rel[r], t) + 1 .. End(rel[r], t) + i[t]
        BY <4>2, <4>3, DecidedFacts
      <4> QED
        BY <3>1, <4>4 DEF Passed
    <3>2. CASE ~(relidx[t] = r /\ pc[t] = "copy")
      BY <1>1, <1>5, <3>2 DEF Passed
    <3> QED
      BY <3>1, <3>2
  <2>2. ASSUME NEW p \in kept[r] \cap Chunk(rel[r], t) PROVE WrittenOut(kept, r, t, p)
    <3>1. RadixOf(rel[r], p) < FanOut
      BY KeptPositions DEF Account, KeptType, TypeOK
    <3>2. CASE program.swwc /\ relidx[t] = r /\ pc[t] \in {"copy", "remainder"}
      <4>1. pc[t] = "remainder" /\ i[t] = FanOut
        BY <1>1, <3>2 DEF CopiedAll, CopiedOut
      <4> QED
        BY <2>1, <3>1, <4>1 DEF WrittenOut
    <3>3. CASE ~(program.swwc /\ relidx[t] = r /\ pc[t] \in {"copy", "remainder"})
      BY <2>1, <3>3 DEF WrittenOut
    <3> QED
      BY <3>2, <3>3
  <2>3. \A p : Exposed(kept, r, t, p)' <=> Exposed(kept, r, t, p)
    BY DEF Exposed
  <2> QED
    BY <1>1, <2>2, <2>3 DEF StoredAt, AccountOf
<1> QED
  BY <1>3, <1>4, <1>6, <1>7, <1>8

(* The copy loops are done: all that is said of the filter's cache from    *)
(* here on is that partners were kept.                                     *)
LEMMA ToSync2Account ==
    ASSUME TypeOK, NoFalseNegative, NEW t \in Threads, NEW r \in Rels, relidx[t] = r,
           NEW kept, Account(kept), program' = program,
           (ArriveAtSync2(t) /\ ~program.swwc) \/ (Return(t) /\ program.swwc)
    PROVE  AccountOf(kept, r, t)'
<1>1. /\ CopiedOut(t) /\ pc[t] \in {"copy", "remainder"} /\ pc'[t] = "sync2" /\ relidx' = relidx
      /\ UNCHANGED <<rel, hist, output, tmp>>
  BY DEF ArriveAtSync2, Return, CopiedOut, TypeOK
<1>2. CopiedAll(r, t) /\ Behind(r, t)'
  BY <1>1 DEF CopiedAll, Behind
<1>3. /\ HistAt(kept, r, t)' /\ OutputAt(kept, r, t)' /\ NextAt(kept, r, t)'
      /\ BufferAt(kept, r, t)' /\ StoredAt(kept, r, t)'
      /\ Decided(r, t) = Chunk(rel[r], t) /\ Decided(r, t)' = Chunk(rel[r], t)
  BY <1>1, <1>2, LeftParts DEF SameRows
<1>4. KeptAt(kept, r, t)
  BY DEF Account, AccountOf
<1>5. ASSUME r = 1, NEW p \in Chunk(rel[r], t), HasPartner(rel[r][p]) PROVE p \in kept[r]
  <2> DEFINE X == rel[r]
             n == p - End(X, t) - 1
  <2>1. p \in kept[r] <=> n \in contains_cache[t]
    BY <1>1, <1>3, <1>4, <1>5 DEF KeptAt
  <2>2. X \in Inputs
    BY DEF TypeOK
  <2>3. n \in 0 .. num_tuples(X, t) - 1 /\ Key(X, t, n) = X[p]
    <3>1. /\ End(X, t) \in Nat /\ num_tuples(X, t) = End(X, t + 1) - End(X, t) /\ End(X, t + 1) \in Nat
          /\ \A m : Position(X, t, m) = End(X, t) + m + 1
      BY <2>2, EndFacts, ThreadsFacts
    <3> HIDE DEF X
    <3>2. p \in Chunk(X, t)
      BY <1>5 DEF X
    <3>3. p \in End(X, t) + 1 .. End(X, t + 1)
      BY <3>2 DEF Chunk
    <3>4. n \in 0 .. num_tuples(X, t) - 1 /\ End(X, t) + n + 1 = p
      BY <3>1, <3>3
    <3> QED
      BY <3>1, <3>4 DEF Key
  <2>4. Scanned(t) = 0 .. num_tuples(X, t) - 1
    BY <1>1 DEF Scanned, Rel
  <2>5. PartnersKept(t)
    BY DEF NoFalseNegative
  <2> QED
    BY <1>1, <1>5, <2>1, <2>3, <2>4, <2>5 DEF PartnersKept
<1>6. KeptAt(kept, r, t)'
  <2>1. \A key : HasPartner(key)' <=> HasPartner(key)
    BY <1>1 DEF HasPartner
  <2> QED
    BY <1>1, <1>3, <1>4, <1>5, <2>1 DEF KeptAt
<1> QED
  BY <1>3, <1>6 DEF AccountOf

(* Thread t leaves R, and S begins. *)
LEMMA NextRelationAccounts ==
    ASSUME TypeOK, NEW t \in Threads, NEW kept, Account(kept), relidx[t] = 0, relidx'[t] = 1,
           CopiedOut(t) \/ pc[t] = "sync2", pc'[t] \in {"histogram", "count"}, i'[t] = 0,
           rel' = rel, program' = program, SameRows(0, t), SameRows(1, t), tmp' = tmp
    PROVE  AccountOf(kept, 0, t)' /\ AccountOf(kept, 1, t)'
<1>0. 0 \in Rels /\ 1 \in Rels
  BY DEF Rels
<1>1. AccountOf(kept, 0, t)'
  <2>1. CopiedAll(0, t) /\ Behind(0, t)'
    BY DEF CopiedAll, Behind
  <2>2. /\ HistAt(kept, 0, t)' /\ OutputAt(kept, 0, t)' /\ NextAt(kept, 0, t)'
        /\ BufferAt(kept, 0, t)' /\ StoredAt(kept, 0, t)'
        /\ Decided(0, t) = Chunk(rel[0], t) /\ Decided(0, t)' = Chunk(rel[0], t)
    BY <1>0, <2>1, LeftParts
  <2>3. KeptAt(kept, 0, t)
    BY <1>0 DEF Account, AccountOf
  <2>4. KeptAt(kept, 0, t)'
    BY <2>2, <2>3 DEF KeptAt
  <2> QED
    BY <2>2, <2>4 DEF AccountOf
<1>2. AccountOf(kept, 1, t)'
  <2>1. AccountOf(kept, 1, t)
    BY <1>0 DEF Account
  <2>2. ~AfterSync1(1, t) /\ ~AfterSync1(1, t)'
    BY DEF AfterSync1, BeforeSync1
  <2>3. /\ OutputAt(kept, 1, t)' /\ NextAt(kept, 1, t)' /\ BufferAt(kept, 1, t)' /\ StoredAt(kept, 1, t)'
    <3>1. output'[1][t] = output[1][t] /\ OutputAt(kept, 1, t)
      BY <2>1 DEF SameRows, AccountOf
    <3> QED
      BY <1>0, <2>2, <3>1, BeforeParts
  <2>4. Decided(1, t) = {} /\ Decided(1, t)' = {}
    <3>1. rel[1] \in Inputs
      BY <1>0 DEF TypeOK
    <3>2. End(rel[1], t) \in Nat
      BY <3>1, EndFacts
    <3>3. End(rel[1], t) + 1 .. End(rel[1], t) + 0 = {}
      BY <3>2
    <3> QED
      BY <3>3 DEF Decided, Counting
  <2>5. KeptAt(kept, 1, t)'
    BY <2>1, <2>4 DEF AccountOf, KeptAt
  <2>6. HistAt(kept, 1, t)'
    <3>1. \A c : ~Summed(1, t, c) /\ ~Summed(1, t, c)'
      BY DEF Summed
    <3> QED
      BY <2>1, <3>1 DEF HistAt, AccountOf, SameRows
  <2> QED
    BY <2>3, <2>5, <2>6 DEF AccountOf
<1> QED
  BY <1>1, <1>2

(* Without the filter a thread goes on to S by itself. *)
LEMMA NextRelationAccount ==
    ASSUME TypeOK, Places, NEW t \in Threads, NextRelation(t), PassThread(t), NEW kept, Account(kept)
    PROVE  Account(kept)'
<1>1. /\ relidx[t] = 0 /\ relidx'[t] = 1 /\ CopiedOut(t) /\ pc'[t] = "count" /\ i'[t] = 0
      /\ UNCHANGED <<rel, hist, output, tmp>> /\ program' = program
  BY PassThreadSteps DEF NextRelation, TypeOK
<1>2. OnlyThread(t)
  BY StepOnlyThread DEF Places
<1>3. AccountOf(kept, 0, t)' /\ AccountOf(kept, 1, t)'
  BY <1>1, NextRelationAccounts DEF SameRows
<1>4. KeptType(kept)'
  BY <1>1 DEF Account, KeptType
<1>5. ASSUME NEW r \in Rels
      PROVE  NothingElse(kept, r)' /\ \A u \in Threads : SameStored(kept, r, u)
  BY <1>1, StoredFrame DEF Account
<1>6. ASSUME NEW r \in Rels, NEW u \in Threads PROVE AccountOf(kept, r, u)'
  <2>1. CASE u # t
    <3>1. SamePlace(u) /\ SameRows(r, u) /\ relidx'[u] = relidx[u] /\ rel' = rel /\ program' = program
      BY <1>2, <2>1 DEF OnlyThread
    <3>2. AccountOf(kept, r, u) /\ SameStored(kept, r, u)
      BY <1>5 DEF Account
    <3> QED
      BY <3>1, <3>2, AccountFrame
  <2>2. CASE u = t
    BY <1>3, <2>2 DEF Rels
  <2> QED
    BY <2>1, <2>2
<1> QED
  BY <1>4, <1>5, <1>6 DEF Account

-----------------------------------------------------------------------------
(***************************************************************************)
(* The barrier opens.                                                      *)
(***************************************************************************)
(* Threads get their first offsets, begin S, or are done. *)
LEMMA BarrierAccount ==
    ASSUME TypeOK, Met, Places, NEW kept, Account(kept), PassBarrier
    PROVE  Account(kept)'
<1>1. /\ rel' = rel /\ program' = program /\ buffer' = buffer
      /\ UNCHANGED <<i, bit, bitmap, hist, contains_cache, output, dst, tmp>>
  BY BarrierOpens
<1>2. KeptType(kept)'
  BY <1>1 DEF Account, KeptType
<1>3. ASSUME NEW r \in Rels PROVE NothingElse(kept, r)'
  BY <1>1, <1>3, StoredFrame DEF Account
<1>4. \A r \in Rels, t \in Threads : SameRows(r, t)
  BY <1>1 DEF SameRows
<1>5. \A t \in Threads : pc[t] \in {"sync1", "sync2"} => i[t] = 0
  BY DEF TypeOK, WithinLoop
<1>6. ASSUME NEW t \in Threads, NEW r \in Rels, NEW r0 \in Rels, relidx' = relidx, relidx[t] = r0,
             pc[t] = "sync1", pc'[t] = "offsets"
      PROVE  AccountOf(kept, r, t)'
  <2>1. AccountOf(kept, r, t) /\ i[t] = 0
    BY <1>5, <1>6 DEF Account
  <2>2. CASE r # r0
    <3>1. SameStored(kept, r, t)
      BY <1>1, StoredFrame
    <3> QED
      BY <1>1, <1>4, <1>6, <2>1, <2>2, <3>1, AccountFrame
  <2>3. CASE r = r0
    <3>1. Decided(r, t)' = Decided(r, t) /\ \A c : Summed(r, t, c)' <=> Summed(r, t, c)
      BY <1>1, <1>6 DEF Decided, Counting, Summed
    <3>2. KeptAt(kept, r, t)'
      BY <1>1, <1>6, <2>1, <3>1 DEF KeptAt, AccountOf
    <3>3. HistAt(kept, r, t)'
      BY <1>1, <2>1, <3>1 DEF HistAt, AccountOf
    <3>4. ~AfterSync1(r, t) /\ AfterSync1(r, t)'
      BY <1>6, <2>3 DEF AfterSync1, BeforeSync1, Rels
    <3>5. OutputAt(kept, r, t)'
      <4>1. \A c \in 0 .. FanOut : output[r][t][c] = 0
        BY <2>1, <3>4 DEF AccountOf, OutputAt
      <4>2. ASSUME NEW c \in 0 .. FanOut
            PROVE Cardinality(EarlierIn(rel[r], kept[r], t, c, 0)) = 0
        <5>1. rel[r] \in Inputs /\ kept[r] \subseteq 1 .. Len(rel[r])
          BY DEF TypeOK, Account, KeptType
        <5> QED
          BY <5>1, NoRowAllRows
      <4> QED
        BY <1>1, <1>6, <2>1, <2>3, <3>4, <4>1, <4>2 DEF OutputAt
    <3>6. NextAt(kept, r, t)' /\ BufferAt(kept, r, t)'
      BY <1>6 DEF NextAt, BufferAt
    <3>7. StoredAt(kept, r, t)'
      <4>1. Passed(r, t)' = {}
        BY <1>6, <2>3 DEF Passed
      <4> QED
        BY <4>1 DEF StoredAt, WrittenOut
    <3> QED
      BY <3>2, <3>3, <3>5, <3>6, <3>7 DEF AccountOf
  <2> QED
    BY <2>2, <2>3
<1>7. ASSUME NEW t \in Threads, NEW r \in Rels, pc[t] = "sync2", pc'[t] = "histogram",
             relidx[t] = 0, relidx'[t] = 1
      PROVE  AccountOf(kept, r, t)'
  <2>1. i'[t] = 0 /\ 0 \in Rels /\ 1 \in Rels
    BY <1>1, <1>5, <1>7 DEF Rels
  <2>2. AccountOf(kept, 0, t)' /\ AccountOf(kept, 1, t)'
    BY <1>1, <1>4, <1>7, <2>1, NextRelationAccounts
  <2> QED
    BY <2>2 DEF Rels
<1>8. ASSUME NEW t \in Threads, NEW r \in Rels, pc[t] = "sync2", pc'[t] = "done",
             relidx[t] = 1, relidx'[t] = 1
      PROVE  AccountOf(kept, r, t)'
  <2>1. AccountOf(kept, r, t)
    BY DEF Account
  <2>2. CASE r # 1
    <3>1. SameStored(kept, r, t)
      BY <1>1, StoredFrame
    <3>2. relidx[t] # r /\ relidx[t] \in Rels /\ relidx'[t] = relidx[t]
      BY <1>8, <2>2 DEF Rels
    <3> QED
      BY <1>1, <1>4, <2>1, <3>1, <3>2, AccountFrame
  <2>3. CASE r = 1
    <3>1. CopiedAll(r, t) /\ Behind(r, t)'
      BY <1>8, <2>3 DEF CopiedAll, Behind
    <3>2. /\ HistAt(kept, r, t)' /\ OutputAt(kept, r, t)' /\ NextAt(kept, r, t)'
          /\ BufferAt(kept, r, t)' /\ StoredAt(kept, r, t)'
          /\ Decided(r, t) = Chunk(rel[r], t) /\ Decided(r, t)' = Chunk(rel[r], t)
      BY <1>1, <1>4, <3>1, LeftParts
    <3>3. KeptAt(kept, r, t)'
      <4>1. \A key : HasPartner(key)' <=> HasPartner(key)
        BY <1>1 DEF HasPartner
      <4> QED
        BY <1>1, <1>8, <2>1, <2>3, <3>2, <4>1 DEF KeptAt, AccountOf
    <3> QED
      BY <3>2, <3>3 DEF AccountOf
  <2> QED
    BY <2>2, <2>3
<1>9. ASSUME NEW r \in Rels, NEW t \in Threads PROVE AccountOf(kept, r, t)'
  <2>1. CASE /\ relidx' = relidx
             /\ \A u \in Threads : pc[u] = "sync1" /\ pc'[u] = "offsets"
             /\ \E r0 \in Rels : \A u \in Threads : relidx[u] = r0
    BY <1>6, <2>1
  <2>2. CASE \A u \in Threads : /\ pc[u] = "sync2" /\ pc'[u] = "histogram"
                                /\ relidx[u] = 0 /\ relidx'[u] = 1
    BY <1>7, <2>2
  <2>3. CASE \A u \in Threads : /\ pc[u] = "sync2" /\ pc'[u] = "done"
                                /\ relidx[u] = 1 /\ relidx'[u] = 1
    BY <1>8, <2>3
  <2> QED
    BY <2>1, <2>2, <2>3, BarrierOpens
<1> QED
  BY <1>2, <1>3, <1>9 DEF Account

-----------------------------------------------------------------------------
(***************************************************************************)
(* The place of the tuple at hand.                                         *)
(***************************************************************************)
(* A thread's next slot of a partition is the slot of the tuple it comes   *)
(* to; its earlier tuples of the partition lie before.                     *)
LEMMA HereSlot ==
    ASSUME TypeOK, Places, NEW t \in Threads, NEW r \in Rels, relidx[t] = r,
           pc[t] = "copy", i[t] < num_tuples(Rel(t), t), Kept(t), NEW kept, Account(kept),
           NEW p, p = Here(t), NEW c, c = RadixOf(rel[r], p)
    PROVE  /\ p \in kept[r] /\ c \in Clusters /\ p \in Exactly(rel[r], kept[r], t, c)
           /\ NextOf(t, c) = SlotFor(rel[r], kept[r], p)
           /\ SlotFor(rel[r], kept[r], p) \in Start(rel[r], kept[r], t, c) ..
                 Start(rel[r], kept[r], t, c) + Cardinality(Exactly(rel[r], kept[r], t, c)) - 1
           /\ \A q \in PassedOf(kept, r, t, c) :
                 /\ SlotFor(rel[r], kept[r], q) \in Nat
                 /\ SlotFor(rel[r], kept[r], q) < SlotFor(rel[r], kept[r], p)
<1> DEFINE X == rel[r]
           Q == kept[r]
           W == Exactly(X, Q, t, c)
<1>1. X \in Inputs /\ Q \subseteq 1 .. Len(X) /\ NextAt(kept, r, t)
  BY DEF TypeOK, Account, KeptType, AccountOf
<1>2. p \in Q /\ p \in Chunk(X, t) /\ \A q : q \in Passed(r, t) <=> q \in Chunk(X, t) /\ q < p
  BY AtTuple
<1>3. c \in Clusters
  <2> HIDE DEF Q
  <2> QED
    BY <1>1, <1>2, KeptPositions
<1>4. p \in W
  BY <1>2 DEF Exactly
<1>5. PassedOf(kept, r, t, c) = UpToHere(W, p)
  BY <1>2 DEF PassedOf, UpToHere, Exactly
<1>6. NextOf(t, c) = Start(X, Q, t, c) + Cardinality(UpToHere(W, p))
  BY <1>1, <1>3, <1>5 DEF NextAt
<1>7. InARow(X, Q, W, Start(X, Q, t, c))
  <2> HIDE DEF X, Q
  <2> QED
    BY <1>1, <1>3, OwnRange
<1>8. /\ SlotFor(X, Q, p) = Start(X, Q, t, c) + Cardinality(UpToHere(W, p))
      /\ SlotFor(X, Q, p) \in Start(X, Q, t, c) .. Start(X, Q, t, c) + Cardinality(W) - 1
  <2> HIDE DEF X, Q, W
  <2> QED
    BY <1>4, <1>7 DEF InARow
<1>9. ASSUME NEW q \in PassedOf(kept, r, t, c)
      PROVE  SlotFor(X, Q, q) \in Nat /\ SlotFor(X, Q, q) < SlotFor(X, Q, p)
  <2>1. q \in Q /\ q < p /\ RadixOf(X, q) = c
    BY <1>5 DEF UpToHere, Exactly
  <2>2. q \in Preceding(X, Q, p)
    BY <2>1 DEF Preceding
  <2> HIDE DEF X, Q
  <2> QED
    BY <1>1, <1>2, <2>1, <2>2, SlotsInOrder
<1> QED
  BY <1>2, <1>3, <1>4, <1>6, <1>8, <1>9

(* Past the tuple, it is among those of its partition that were passed.    *)
LEMMA PassedGrows ==
    ASSUME TypeOK, Places, NEW t \in Threads, NEW r \in Rels, relidx[t] = r, relidx'[t] = r,
           pc[t] = "copy", pc'[t] = "copy", i[t] < num_tuples(Rel(t), t), i'[t] = i[t] + 1,
           rel' = rel, NEW kept, Account(kept), Here(t) \in kept[r]
    PROVE  \A d : /\ PassedOf(kept, r, t, d)' =
                        IF d = RadixOf(rel[r], Here(t)) THEN PassedOf(kept, r, t, d) \cup {Here(t)}
                        ELSE PassedOf(kept, r, t, d)
                  /\ Here(t) \notin PassedOf(kept, r, t, d)
<1>0. PICK p : p = Here(t)
  OBVIOUS
<1> TAKE d
<1>1. /\ \A q \in kept[r] : q \in PassedOf(kept, r, t, d)' <=>
            q \in PassedOf(kept, r, t, d) \/ (q = p /\ d = RadixOf(rel[r], q))
      /\ PassedOf(kept, r, t, d) \subseteq kept[r] /\ PassedOf(kept, r, t, d)' \subseteq kept[r]
      /\ p \notin Passed(r, t)
  BY <1>0, PastTuple
<1>2. CASE d = RadixOf(rel[r], p)
  <2>1. PassedOf(kept, r, t, d)' = PassedOf(kept, r, t, d) \cup {p}
    BY <1>0, <1>1, <1>2
  <2> QED
    BY <1>0, <1>1, <1>2, <2>1 DEF PassedOf
<1>3. CASE d # RadixOf(rel[r], p)
  <2>1. PassedOf(kept, r, t, d)' = PassedOf(kept, r, t, d)
    BY <1>1, <1>3
  <2> QED
    BY <1>0, <1>1, <1>3, <2>1 DEF PassedOf
<1> QED
  BY <1>2, <1>3

(* And its partition's next slot is one further, and no other. *)
LEMMA NextAdvances ==
    ASSUME TypeOK, NEW t \in Threads, NEW r \in Rels, rel' = rel, NEW kept, Account(kept),
           relidx[t] = r, pc[t] = "copy", NEW p, NEW c,
           PassedOf(kept, r, t, c)' = PassedOf(kept, r, t, c) \cup {p},
           \A d : d # c => PassedOf(kept, r, t, d)' = PassedOf(kept, r, t, d),
           p \notin PassedOf(kept, r, t, c),
           NextOf(t, c)' = NextOf(t, c) + 1, \A d \in Clusters \ {c} : NextOf(t, d)' = NextOf(t, d)
    PROVE  NextAt(kept, r, t)'
<1>1. rel[r] \in Inputs /\ kept[r] \subseteq 1 .. Len(rel[r]) /\ NextAt(kept, r, t)
  BY DEF TypeOK, Account, KeptType, AccountOf
<1>2. ASSUME NEW d \in Clusters
      PROVE  NextOf(t, d)' = Start(rel[r], kept[r], t, d) + Cardinality(PassedOf(kept, r, t, d)')
  <2>1. NextOf(t, d) = Start(rel[r], kept[r], t, d) + Cardinality(PassedOf(kept, r, t, d))
    BY <1>1 DEF NextAt
  <2>2. CASE d # c
    BY <2>1, <2>2
  <2>3. CASE d = c
    <3> DEFINE W == PassedOf(kept, r, t, c)
               a == Start(rel[r], kept[r], t, c)
    <3>1. IsFiniteSet(W) /\ Cardinality(W) \in Nat
      <4>1. W \subseteq kept[r]
        BY DEF PassedOf, Exactly
      <4> HIDE DEF W
      <4> QED
        BY <1>1, <4>1, KeptFinite
    <3>2. a \in Nat
      <4>1. c \in 0 .. FanOut
        BY <2>3, ClusterFacts
      <4> QED
        BY <1>1, <4>1, SlotBounds
    <3>3. Cardinality(W \cup {p}) = Cardinality(W) + 1
      BY <3>1, FS_AddElement
    <3> HIDE DEF W, a
    <3>4. NextOf(t, c) = a + Cardinality(W) /\ PassedOf(kept, r, t, c)' = W \cup {p}
      BY <2>1, <2>3 DEF W, a
    <3>5. NextOf(t, c)' = a + Cardinality(PassedOf(kept, r, t, c)')
      <4>1. NextOf(t, c)' = (a + Cardinality(W)) + 1
        BY <3>4
      <4>2. Cardinality(PassedOf(kept, r, t, c)') = Cardinality(W) + 1
        BY <3>3, <3>4
      <4> QED
        BY <3>1, <3>2, <4>1, <4>2
    <3> QED
      BY <2>3, <3>5 DEF a
  <2> QED
    BY <2>2, <2>3
<1> QED
  BY <1>2 DEF NextAt

-----------------------------------------------------------------------------
(***************************************************************************)
(* Plain stores.                                                           *)
(***************************************************************************)
(* A tuple goes to its slot, where no other tuple goes.                    *)
LEMMA CopyTupleAccount ==
    ASSUME TypeOK, Places, NEW t \in Threads, NEW kept, Account(kept), PassThread(t),
           CopyTuple(t), ~program.swwc, buffer' = buffer
    PROVE  Account(kept)'
<1>0. PICK r \in Rels : relidx[t] = r
  BY DEF TypeOK
<1>1. /\ pc[t] = "copy" /\ pc' = pc /\ relidx' = relidx /\ i[t] < num_tuples(Rel(t), t) /\ Kept(t)
      /\ i'[t] = i[t] + 1 /\ UNCHANGED <<rel, hist, contains_cache, output>> /\ program' = program
  BY PassThreadSteps DEF CopyTuple, TypeOK
<1>2. PICK p : p = Here(t)
  OBVIOUS
<1>3. PICK c : c = RadixOf(rel[r], p)
  OBVIOUS
<1> DEFINE X == rel[r]
           Q == kept[r]
<1>4. PICK s : s = SlotFor(X, Q, p)
  OBVIOUS
<1>5. /\ p \in Q /\ c \in Clusters /\ p \in Exactly(X, Q, t, c) /\ NextOf(t, c) = s
  BY <1>0, <1>1, <1>2, <1>3, <1>4, HereSlot
<1>6. X \in Inputs /\ Q \subseteq 1 .. Len(X) /\ TmpType
  BY DEF TypeOK, Account, KeptType, TmpType
<1>7. dst[t][c] = s /\ HASH_BIT_MODULO(Key(Rel(t), t, i[t])) = c
  <2>1. HASH_BIT_MODULO(Key(Rel(t), t, i[t])) = RadixOf(Rel(t), Here(t))
    BY <1>1, HereFacts
  <2> QED
    BY <1>0, <1>2, <1>3, <1>5, <2>1 DEF NextOf, Rel
<1>8. /\ tmp' = [tmp EXCEPT ![r] = [x \in DOMAIN @ \cup {s} |->
                    IF x = s THEN p ELSE @[x]]]
      /\ dst' = [dst EXCEPT ![t][c] = @ + 1]
  BY <1>0, <1>2, <1>7 DEF CopyTuple, Here
<1>9. /\ \A q \in Rels \ {r} : tmp'[q] = tmp[q]
      /\ DOMAIN tmp'[r] = DOMAIN tmp[r] \cup {s}
      /\ tmp'[r][s] = p /\ \A x \in DOMAIN tmp[r] : x # s => tmp'[r][x] = tmp[r][x]
  BY <1>6, <1>8 DEF TmpType
<1>10. s \in Nat /\ s < AllocatedTuples(r)
  <2> HIDE DEF Q
  <2> QED
    BY <1>4, <1>5, <1>6, SlotBounds DEF AllocatedTuples
<1>11. \A q \in Q : SlotFor(X, Q, q) = s => q = p
  <2> HIDE DEF X, Q
  <2> QED
    BY <1>4, <1>5, <1>6, SlotsApart
<1>12. KeptType(kept)'
  BY <1>1 DEF Account, KeptType
<1>13. ASSUME NEW q \in Rels PROVE NothingElse(kept, q)'
  <2>1. NothingElse(kept, q)
    BY DEF Account
  <2>2. CASE q # r
    BY <1>1, <1>9, <2>1, <2>2 DEF NothingElse, AllocatedTuples
  <2>3. CASE q = r
    <3>1. p # Garbage
      <4>1. p >= 1
        <5> HIDE DEF Q
        <5> QED
          BY <1>5, <1>6, KeptPositions
      <4> QED
        BY <4>1 DEF Garbage
    <3>2. Belongs(X, Q, s, p)
      BY <1>4, <1>5 DEF Belongs
    <3>3. ASSUME NEW x \in DOMAIN tmp'[r]
          PROVE  /\ x \in Nat /\ x < AllocatedTuples(r) /\ Belongs(X, Q, x, tmp'[r][x])
                 /\ tmp'[r][x] # Garbage
      <4>1. CASE x = s
        BY <1>9, <1>10, <3>1, <3>2, <4>1
      <4>2. CASE x # s
        <5>1. x \in DOMAIN tmp[r] /\ tmp'[r][x] = tmp[r][x]
          BY <1>9, <4>2
        <5> QED
          BY <2>1, <2>3, <5>1 DEF NothingElse
      <4> QED
        BY <4>1, <4>2
    <3>4. AllocatedTuples(r)' = AllocatedTuples(r)
      BY <1>1 DEF AllocatedTuples
    <3> QED
      BY <1>1, <2>3, <3>3, <3>4 DEF NothingElse
  <2> QED
    BY <2>2, <2>3
<1>14. ASSUME NEW u \in Threads \ {t} PROVE SameStored(kept, r, u)
  <2>1. p \notin Chunk(X, u)
    <3>1. p \in Chunk(X, t) /\ u \in Threads /\ u # t
      BY <1>5 DEF Exactly
    <3> HIDE DEF X
    <3> QED
      BY <1>6, <3>1, Chunks
  <2> QED
    BY <1>9, <1>11, <2>1 DEF SameStored
<1>15. AccountOf(kept, r, t)
  BY DEF Account
<1>16. KeptAt(kept, r, t)' /\ HistAt(kept, r, t)' /\ OutputAt(kept, r, t)'
  BY <1>0, <1>1, <1>15, CopyParts DEF SameRows
<1>17. NextAt(kept, r, t)'
  <2>1. \A d \in Clusters : dst'[t][d] = IF d = c THEN dst[t][d] + 1 ELSE dst[t][d]
    BY <1>5, <1>8 DEF TypeOK
  <2>2. NextOf(t, c)' = NextOf(t, c) + 1 /\ \A d \in Clusters \ {c} : NextOf(t, d)' = NextOf(t, d)
    BY <1>1, <1>5, <2>1 DEF NextOf
  <2>3. /\ PassedOf(kept, r, t, c)' = PassedOf(kept, r, t, c) \cup {p}
        /\ \A d : d # c => PassedOf(kept, r, t, d)' = PassedOf(kept, r, t, d)
        /\ p \notin PassedOf(kept, r, t, c)
    <3>1. relidx'[t] = r /\ pc'[t] = "copy"
      BY <1>0, <1>1
    <3>2. \A d : /\ PassedOf(kept, r, t, d)' =
                        IF d = RadixOf(rel[r], Here(t)) THEN PassedOf(kept, r, t, d) \cup {Here(t)}
                        ELSE PassedOf(kept, r, t, d)
                 /\ Here(t) \notin PassedOf(kept, r, t, d)
      BY <1>0, <1>1, <1>2, <1>5, <3>1, PassedGrows
    <3> QED
      BY <1>2, <1>3, <3>2
  <2> QED
    BY <1>0, <1>1, <2>2, <2>3, NextAdvances
<1>18. BufferAt(kept, r, t)'
  BY <1>1 DEF BufferAt
<1>19. StoredAt(kept, r, t)'
  <2>1. ASSUME NEW q \in Q \cap Chunk(X, t), WrittenOut(kept, r, t, q)'
        PROVE  SlotFor(X, Q, q) \in DOMAIN tmp'[r] /\ tmp'[r][SlotFor(X, Q, q)] = q
    <3>1. q \in Passed(r, t) \/ q = p
      <4>1. Passed(r, t)' = Passed(r, t) \cup {Here(t)}
        BY <1>0, <1>1, PastTuple
      <4> QED
        BY <1>2, <2>1, <4>1 DEF WrittenOut
    <3>2. CASE q = p
      BY <1>4, <1>9, <3>2
    <3>3. CASE q # p /\ q \in Passed(r, t)
      <4>1. SlotFor(X, Q, q) \in DOMAIN tmp[r] /\ tmp[r][SlotFor(X, Q, q)] = q
        BY <1>15, <3>3 DEF AccountOf, StoredAt, WrittenOut, Exposed
      <4>2. SlotFor(X, Q, q) # s
        BY <1>11, <3>3
      <4> QED
        BY <1>9, <4>1, <4>2
    <3> QED
      BY <3>1, <3>2, <3>3
  <2> QED
    BY <1>1, <2>1 DEF StoredAt
<1>20. AccountOf(kept, r, t)'
  BY <1>16, <1>17, <1>18, <1>19 DEF AccountOf
<1>21. OnlyThread(t)
  BY StepOnlyThread DEF Places
<1>22. ASSUME NEW q \in Rels, NEW u \in Threads PROVE AccountOf(kept, q, u)'
  <2>1. CASE u = t /\ q = r
    BY <1>20, <2>1
  <2>2. CASE ~(u = t /\ q = r)
    <3>1. AccountOf(kept, q, u)
      BY DEF Account
    <3>2. SameStored(kept, q, u)
      <4>1. CASE q = r
        BY <1>14, <2>2, <4>1
      <4>2. CASE q # r
        BY <1>9, <4>2 DEF SameStored
      <4> QED
        BY <4>1, <4>2
    <3>3. SameRows(q, u) /\ (SamePlace(u) \/ (relidx[u] # q /\ relidx[u] \in Rels))
      BY <1>0, <1>21, <2>2 DEF OnlyThread
    <3> QED
      BY <1>1, <3>1, <3>2, <3>3, AccountFrame
  <2> QED
    BY <2>1, <2>2
<1> QED
  BY <1>12, <1>13, <1>22 DEF Account

-----------------------------------------------------------------------------
(***************************************************************************)
(* Lines.                                                                  *)
(***************************************************************************)
(* Division by the length of a line leaves one remainder.                  *)
LEMMA OneRemainder ==
    ASSUME NEW n \in Nat, NEW q \in Nat, NEW m \in 0 .. Line - 1, n = Line * q + m
    PROVE  n % Line = m
<1>1. Line \in Nat \ {0}
  BY LineAssumption
<1>2. n % Line \in 0 .. Line - 1 /\ n = Line * (n \div Line) + (n % Line) /\ n \div Line \in Nat
  BY <1>1
<1> DEFINE a == n \div Line
           b == n % Line
<1> HIDE DEF a, b
<1>3. Line * a + b = Line * q + m /\ a \in Nat /\ b \in 0 .. Line - 1
  BY <1>2 DEF a, b
<1>4. Line * a \in Nat /\ Line * q \in Nat
  BY <1>1, <1>3
<1>5. ~(a < q)
  <2> SUFFICES ASSUME a < q PROVE FALSE
    OBVIOUS
  <2>1. PICK d \in Nat : q = a + 1 + d
    <3>1. q - a - 1 \in Nat /\ q = a + 1 + (q - a - 1)
      BY <1>3
    <3> QED
      BY <3>1
  <2>2. Line * q = Line * a + Line + Line * d
    BY <1>1, <1>3, <2>1
  <2>3. Line * d \in Nat
    BY <1>1, <2>1
  <2> QED
    BY <1>1, <1>3, <1>4, <2>2, <2>3
<1>6. ~(q < a)
  <2> SUFFICES ASSUME q < a PROVE FALSE
    OBVIOUS
  <2>1. PICK d \in Nat : a = q + 1 + d
    <3>1. a - q - 1 \in Nat /\ a = q + 1 + (a - q - 1)
      BY <1>3
    <3> QED
      BY <3>1
  <2>2. Line * a = Line * q + Line + Line * d
    BY <1>1, <1>3, <2>1
  <2>3. Line * d \in Nat
    BY <1>1, <2>1
  <2> QED
    BY <1>1, <1>3, <1>4, <2>2, <2>3
<1>7. a = q
  BY <1>3, <1>5, <1>6
<1>8. b = m
  BY <1>3, <1>4, <1>7
<1> QED
  BY <1>8 DEF b

(* The slots of one line, and the step to the next slot.                   *)
LEMMA InLine ==
    ASSUME NEW s \in Nat
    PROVE  /\ \A k \in 0 .. Line - 1 : (LineStart(s) + k) % Line = k
           /\ \A x \in Nat : LineStart(s) <= x /\ x <= s =>
                 x % Line = x - LineStart(s) /\ x = LineStart(s) + (x % Line) /\ x % Line <= s % Line
           /\ s % Line # Line - 1 => LineStart(s + 1) = LineStart(s) /\ (s + 1) % Line = (s % Line) + 1
           /\ s % Line = Line - 1 => LineStart(s + 1) = s + 1 /\ (s + 1) % Line = 0
                                     /\ LineStart(s) = s - (Line - 1)
<1>1. /\ Line \in Nat /\ Line > 1 /\ s % Line \in 0 .. Line - 1 /\ LineStart(s) \in Nat
      /\ s = LineStart(s) + (s % Line)
  BY LineFacts
<1>2. PICK q \in Nat : LineStart(s) = Line * q
  <2>1. s = Line * (s \div Line) + (s % Line) /\ s \div Line \in Nat
    BY <1>1
  <2>2. Line * (s \div Line) \in Nat
    BY <1>1, <2>1
  <2>3. LineStart(s) = Line * (s \div Line)
    BY <1>1, <2>1, <2>2
  <2> QED
    BY <2>1, <2>3
<1>3. ASSUME NEW k \in 0 .. Line - 1 PROVE (LineStart(s) + k) % Line = k
  <2>1. LineStart(s) + k = Line * q + k /\ LineStart(s) + k \in Nat
    BY <1>1, <1>2
  <2> QED
    BY <2>1, OneRemainder
<1>4. ASSUME NEW x \in Nat, LineStart(s) <= x, x <= s
      PROVE  x % Line = x - LineStart(s) /\ x = LineStart(s) + (x % Line) /\ x % Line <= s % Line
  <2> DEFINE k == x - LineStart(s)
  <2>1. k \in 0 .. Line - 1 /\ x = LineStart(s) + k /\ k <= s % Line
    BY <1>1, <1>4
  <2>2. (LineStart(s) + k) % Line = k
    BY <1>3, <2>1
  <2> QED
    BY <2>1, <2>2
<1>5. ASSUME s % Line # Line - 1
      PROVE  LineStart(s + 1) = LineStart(s) /\ (s + 1) % Line = (s % Line) + 1
  <2>1. (s % Line) + 1 \in 0 .. Line - 1 /\ s + 1 = LineStart(s) + ((s % Line) + 1)
    BY <1>1, <1>5
  <2>2. (LineStart(s) + ((s % Line) + 1)) % Line = (s % Line) + 1
    BY <1>3, <2>1
  <2>3. (s + 1) % Line = (s % Line) + 1
    BY <2>1, <2>2
  <2>4. LineStart(s + 1) = (s + 1) - ((s % Line) + 1)
    BY <2>3 DEF LineStart
  <2> QED
    BY <1>1, <2>3, <2>4
<1>6. ASSUME s % Line = Line - 1
      PROVE  /\ LineStart(s + 1) = s + 1 /\ (s + 1) % Line = 0
             /\ LineStart(s) = s - (Line - 1)
  <2>1. s + 1 = Line * q + Line
    BY <1>1, <1>2, <1>6
  <2>2. s + 1 = Line * (q + 1) + 0 /\ q + 1 \in Nat /\ 0 \in 0 .. Line - 1
    BY <1>1, <2>1
  <2>3. (s + 1) % Line = 0
    BY <2>2, OneRemainder
  <2>4. LineStart(s + 1) = (s + 1) - 0
    BY <2>3 DEF LineStart
  <2> QED
    BY <1>1, <1>6, <2>3, <2>4
<1> QED
  BY <1>3, <1>4, <1>5, <1>6

(* Later slots are in later lines, or in the same. *)
LEMMA LinesInOrder ==
    ASSUME NEW a \in Nat, NEW b \in Nat, a <= b
    PROVE  LineStart(a) <= LineStart(b)
<1>1. /\ LineStart(a) \in Nat /\ LineStart(b) \in Nat /\ LineStart(a) <= a
      /\ a % Line \in 0 .. Line - 1 /\ a = LineStart(a) + (a % Line) /\ Line \in Nat
  BY LineFacts
<1> SUFFICES ASSUME LineStart(b) < LineStart(a) PROVE FALSE
  BY <1>1
<1>2. LineStart(b) <= LineStart(a) /\ LineStart(a) <= b
  BY <1>1
<1>3. LineStart(a) = LineStart(b) + (LineStart(a) % Line)
  BY <1>1, <1>2, InLine
<1>4. LineStart(a) % Line = 0
  <2>1. (LineStart(a) + 0) % Line = 0
    <3>1. 0 \in 0 .. Line - 1
      BY <1>1
    <3> QED
      BY <3>1, InLine
  <2> QED
    BY <1>1, <2>1
<1> QED
  BY <1>1, <1>3, <1>4

(* Behind a thread's tuples of one partition the padding follows before    *)
(* its place in a later one.                                               *)
LEMMA ClustersApart ==
    ASSUME NEW X \in Inputs, NEW Q, Q \subseteq 1 .. Len(X), NEW t \in Threads,
           NEW c \in Clusters, NEW d \in Clusters, d < c
    PROVE  Start(X, Q, t, d) + Cardinality(Exactly(X, Q, t, d)) + Padding <= Start(X, Q, t, c)
<1> DEFINE A == Earlier(X, Q, t, d)
           B == Exactly(X, Q, t, d)
           C == Earlier(X, Q, t, c)
<1>0. /\ c \in Nat /\ d \in Nat /\ Padding \in Nat
      /\ \A q \in Q : /\ RadixOf(X, q) \in Nat /\ q \in Nat
                      /\ q \in Chunk(X, t) <=> End(X, t) < q /\ q <= End(X, t + 1)
      /\ End(X, t) \in Nat
  BY ClusterFacts, KeptPositions, EndFacts, ThreadsFacts
<1>1. A \cap B = {} /\ A \cup B \subseteq C /\ C \subseteq Q
  <2>1. \A q \in Q : /\ q \in A <=> (RadixOf(X, q) < d \/ (RadixOf(X, q) = d /\ q <= End(X, t)))
                     /\ q \in B <=> (RadixOf(X, q) = d /\ q \in Chunk(X, t))
                     /\ q \in C <=> (RadixOf(X, q) < c \/ (RadixOf(X, q) = c /\ q <= End(X, t)))
    BY DEF Earlier, Exactly
  <2>2. A \subseteq Q /\ B \subseteq Q /\ C \subseteq Q
    BY DEF Earlier, Exactly
  <2> HIDE DEF A, B, C
  <2>3. \A q \in Q : ~(q \in A /\ q \in B) /\ (q \in A \/ q \in B => q \in C)
    BY <1>0, <2>1
  <2> QED
    BY <2>2, <2>3
<1> HIDE DEF A, B, C
<1>2. /\ IsFiniteSet(A \cup B) /\ Cardinality(A \cup B) <= Cardinality(C)
      /\ Cardinality(C) \in Nat /\ Cardinality(A \cup B) \in Nat
  <2>1. C \subseteq Q
    BY <1>1
  <2>2. IsFiniteSet(C) /\ C \subseteq 1 .. Len(X)
    BY <2>1, KeptFinite
  <2>3. Cardinality(A \cup B) \in Nat /\ Cardinality(A \cup B) <= Cardinality(C) /\ IsFiniteSet(A \cup B)
    BY <1>1, <2>2, KeptFinite
  <2> QED
    BY <2>2, <2>3, FS_CardinalityType
<1>3. /\ Cardinality(A \cup B) = Cardinality(A) + Cardinality(B)
      /\ Cardinality(A) \in Nat /\ Cardinality(B) \in Nat
  BY <1>1, <1>2, DisjointUnion
<1>4. c * Padding \in Nat /\ d * Padding \in Nat /\ d * Padding + Padding <= c * Padding
  <2>1. PICK e \in Nat : c = d + 1 + e
    <3>1. c - d - 1 \in Nat /\ c = d + 1 + (c - d - 1)
      BY <1>0
    <3> QED
      BY <3>1
  <2>2. c * Padding = d * Padding + Padding + e * Padding
    BY <1>0, <2>1
  <2>3. e * Padding \in Nat /\ d * Padding \in Nat
    BY <1>0, <2>1
  <2> QED
    BY <1>0, <2>2, <2>3
<1>5. Start(X, Q, t, c) = c * Padding + Cardinality(C) /\ Start(X, Q, t, d) = d * Padding + Cardinality(A)
  BY DEF Start, A, C
<1>6. d * Padding + Cardinality(A) + Cardinality(B) + Padding <= c * Padding + Cardinality(C)
  <2> DEFINE x == c * Padding
             y == d * Padding
  <2>1. x \in Nat /\ y \in Nat /\ y + Padding <= x
    BY <1>4
  <2> HIDE DEF x, y
  <2>2. y + Cardinality(A) + Cardinality(B) + Padding <= x + Cardinality(C)
    BY <1>0, <1>2, <1>3, <2>1
  <2> QED
    BY <2>2 DEF x, y
<1> QED
  BY <1>5, <1>6 DEF B

-----------------------------------------------------------------------------
(***************************************************************************)
(* Write-combining buffers.                                                *)
(***************************************************************************)
(* The lines a thread writes for one partition hold no slot of its tuples  *)
(* of another: the padding is at least a line.                             *)
LEMMA OtherCluster ==
    ASSUME NEW X \in Inputs, NEW Q, Q \subseteq 1 .. Len(X), NEW t \in Threads,
           NEW c \in Clusters, NEW d \in Clusters, c # d, NEW p \in Exactly(X, Q, t, d)
    PROVE  SlotFor(X, Q, p) \notin LinesOf(X, Q, t, c)
<1> DEFINE a == Start(X, Q, t, c)
           b == Start(X, Q, t, d)
           m == Cardinality(Exactly(X, Q, t, c))
           n == Cardinality(Exactly(X, Q, t, d))
           s == SlotFor(X, Q, p)
<1>1. s \in b .. b + n - 1 /\ b \in Nat /\ n \in Nat /\ a \in Nat /\ m \in Nat
  <2>1. InARow(X, Q, Exactly(X, Q, t, d), b) /\ InARow(X, Q, Exactly(X, Q, t, c), a)
    BY OwnRange
  <2> HIDE DEF a, b
  <2> QED
    BY <2>1 DEF InARow
<1>2. c \in Nat /\ d \in Nat /\ Padding \in Nat
  BY ClusterFacts
<1>3. /\ LineStart(a) \in Nat /\ a = LineStart(a) + (a % Line) /\ a % Line \in 0 .. Line - 1
      /\ Line \in Nat
  BY <1>1, LineFacts
<1>4. (d < c => b + n + Padding <= a) /\ (c < d => a + m + Padding <= b)
  BY ClustersApart
<1>5. LinesOf(X, Q, t, c) = LineStart(a) .. a + m - 1
  BY DEF LinesOf
<1>6. s \notin LineStart(a) .. a + m - 1
  <2> HIDE DEF a, b, m, n, s
  <2>1. CASE d < c
    BY <1>1, <1>2, <1>3, <1>4, <2>1, PaddingCoversLine
  <2>2. CASE c < d
    BY <1>1, <1>2, <1>3, <1>4, <2>2
  <2> QED
    BY <1>2, <2>1, <2>2
<1> QED
  BY <1>5, <1>6

(* A line or the remainder of one, put where thread t may write.           *)
LEMMA LineWritten ==
    ASSUME TypeOK, program.swwc, NEW t \in Threads, NEW r \in Rels, NEW c \in Clusters,
           NEW kept, Account(kept), rel' = rel, program' = program,
           NEW w, tmp' = [tmp EXCEPT ![r] = Written(r, w)],
           \A s \in DOMAIN w : /\ s \in LinesOf(rel[r], kept[r], t, c)
                               /\ Belongs(rel[r], kept[r], s, w[s])
    PROVE  /\ \A u \in Threads \ {t} : SameStored(kept, r, u)
           /\ \A q \in Rels : NothingElse(kept, q)'
           /\ \A d \in Clusters \ {c} : \A p \in Exactly(rel[r], kept[r], t, d) :
                 SlotFor(rel[r], kept[r], p) \notin DOMAIN w
<1> DEFINE X == rel[r]
           Q == kept[r]
<1>1. X \in Inputs /\ Q \subseteq 1 .. Len(X) /\ TmpType
  BY DEF TypeOK, Account, KeptType, TmpType
<1>2. /\ DOMAIN tmp' = Rels
      /\ \A q \in Rels \ {r} : tmp'[q] = tmp[q]
      /\ DOMAIN tmp'[r] = DOMAIN tmp[r] \cup DOMAIN w
      /\ \A s \in DOMAIN w : tmp'[r][s] = w[s]
      /\ \A s \in DOMAIN tmp[r] : s \notin DOMAIN w => tmp'[r][s] = tmp[r][s]
  BY <1>1, WrittenFacts
<1>3. ASSUME NEW u \in Threads \ {t} PROVE SameStored(kept, r, u)
  <2>1. ASSUME NEW p, ~Exposed(kept, r, u, p) PROVE SlotFor(X, Q, p) \notin DOMAIN w
    <3>1. t \in Threads \ {u}
      BY <1>3
    <3>2. SlotFor(X, Q, p) \notin LinesOf(X, Q, t, c)
      BY <2>1, <3>1 DEF Exposed
    <3> QED
      BY <3>2
  <2> QED
    BY <1>2, <2>1 DEF SameStored
<1>4. ASSUME NEW q \in Rels PROVE NothingElse(kept, q)'
  <2>1. NothingElse(kept, q)
    BY DEF Account
  <2>2. CASE q # r
    BY <1>2, <2>1, <2>2 DEF NothingElse, AllocatedTuples
  <2>3. CASE q = r
    <3>1. ASSUME NEW s \in DOMAIN w PROVE s \in Nat /\ s < AllocatedTuples(r)
      <4> DEFINE a == Start(X, Q, t, c)
                 n == Cardinality(Exactly(X, Q, t, c))
                 all == Len(X) + Padding * FanOut
      <4>1. a + n <= all /\ a \in Nat /\ n \in Nat
        <5>1. c \in 0 .. FanOut
          BY ClusterFacts
        <5> HIDE DEF X, Q
        <5> QED
          BY <1>1, <5>1, SlotBounds, KeptFinite
      <4>2. LineStart(a) \in Nat
        BY <4>1, LineFacts
      <4>3. s \in LineStart(a) .. a + n - 1
        BY DEF LinesOf
      <4>4. all = AllocatedTuples(r) /\ all \in Nat
        <5>1. Len(X) \in Nat /\ Padding \in Nat /\ FanOut \in Nat
          BY <1>1, EndFacts, ClusterFacts
        <5>2. Padding * FanOut \in Nat
          BY <5>1
        <5>3. all = AllocatedTuples(r)
          BY DEF AllocatedTuples
        <5> DEFINE len == Len(X)
                   pads == Padding * FanOut
        <5>4. len \in Nat /\ pads \in Nat
          BY <5>1, <5>2
        <5> HIDE DEF len, pads
        <5>5. len + pads \in Nat
          BY <5>4
        <5> QED
          BY <5>3, <5>5 DEF len, pads
      <4> HIDE DEF a, n, all
      <4> QED
        BY <4>1, <4>2, <4>3, <4>4
    <3>2. ASSUME NEW x \in DOMAIN tmp'[r]
          PROVE  x \in Nat /\ x < AllocatedTuples(r) /\ Belongs(X, Q, x, tmp'[r][x])
      <4>1. CASE x \in DOMAIN w
        BY <1>2, <3>1, <4>1
      <4>2. CASE x \notin DOMAIN w
        <5>1. x \in DOMAIN tmp[r] /\ tmp'[r][x] = tmp[r][x]
          BY <1>2, <4>2
        <5> QED
          BY <2>1, <2>3, <5>1 DEF NothingElse
      <4> QED
        BY <4>1, <4>2
    <3>3. AllocatedTuples(r)' = AllocatedTuples(r)
      BY DEF AllocatedTuples
    <3> QED
      BY <2>3, <3>2, <3>3 DEF NothingElse
  <2> QED
    BY <2>2, <2>3
<1>5. ASSUME NEW d \in Clusters \ {c}, NEW p \in Exactly(X, Q, t, d)
      PROVE  SlotFor(X, Q, p) \notin DOMAIN w
  <2>1. SlotFor(X, Q, p) \notin LinesOf(X, Q, t, c)
    <3>1. p \in Exactly(X, Q, t, d) /\ c # d /\ d \in Clusters
      BY <1>5
    <3> HIDE DEF X, Q
    <3> QED
      BY <1>1, <3>1, OtherCluster
  <2> QED
    BY <2>1
<1> QED
  BY <1>3, <1>4, <1>5

(* When thread t stores in the relation it works on, only its own account  *)
(* is to be seen to, if it spares what the others have stored.             *)
LEMMA StoringStep ==
    ASSUME TypeOK, NEW t \in Threads, NEW r \in Rels, relidx[t] = r,
           NEW kept, Account(kept), OnlyThread(t), \A q \in Rels \ {r} : tmp'[q] = tmp[q],
           \A u \in Threads \ {t} : SameStored(kept, r, u),
           \A q \in Rels : NothingElse(kept, q)', AccountOf(kept, r, t)', relidx' = relidx
    PROVE  Account(kept)'
<1>1. KeptType(kept)'
  BY DEF Account, KeptType, OnlyThread
<1>2. ASSUME NEW q \in Rels, NEW u \in Threads PROVE AccountOf(kept, q, u)'
  <2>1. CASE u = t /\ q = r
    BY <2>1
  <2>2. CASE ~(u = t /\ q = r)
    <3>1. AccountOf(kept, q, u)
      BY DEF Account
    <3>2. SameStored(kept, q, u)
      <4>1. CASE q = r
        BY <2>2, <4>1
      <4>2. CASE q # r
        BY <4>2 DEF SameStored
      <4> QED
        BY <4>1, <4>2
    <3>3. SameRows(q, u) /\ (SamePlace(u) \/ (relidx[u] # q /\ relidx[u] \in Rels))
      BY <2>2 DEF OnlyThread
    <3>4. rel' = rel /\ program' = program /\ relidx'[u] = relidx[u]
      BY DEF OnlyThread
    <3> QED
      BY <3>1, <3>2, <3>3, <3>4, AccountFrame
  <2> QED
    BY <2>1, <2>2
<1> QED
  BY <1>1, <1>2 DEF Account

(* With buffers the place of the tuple at hand is the slot kept in its     *)
(* partition's line.                                                       *)
LEMMA BufferSlot ==
    ASSUME TypeOK, Places, program.swwc, NEW t \in Threads, NEW r \in Rels, relidx[t] = r,
           pc[t] = "copy", i[t] < num_tuples(Rel(t), t), Kept(t), NEW kept, Account(kept)
    PROVE  /\ Here(t) \in kept[r] /\ Cluster(t) \in Clusters
           /\ Cluster(t) = RadixOf(rel[r], Here(t))
           /\ Here(t) \in Exactly(rel[r], kept[r], t, Cluster(t))
           /\ Slot(t, Cluster(t)) = SlotFor(rel[r], kept[r], Here(t)) /\ Slot(t, Cluster(t)) \in Nat
           /\ Slot(t, Cluster(t)) \in Start(rel[r], kept[r], t, Cluster(t)) ..
                 Start(rel[r], kept[r], t, Cluster(t))
                    + Cardinality(Exactly(rel[r], kept[r], t, Cluster(t))) - 1
           /\ Filled(t) = [buffer[t][Cluster(t)] EXCEPT ![Slot(t, Cluster(t)) % Line] = Here(t)]
           /\ Filled(t) \in Lines /\ Here(t) \in Nat
           /\ \A q \in PassedOf(kept, r, t, Cluster(t)) :
                 /\ SlotFor(rel[r], kept[r], q) \in Nat
                 /\ SlotFor(rel[r], kept[r], q) < Slot(t, Cluster(t))
<1>1. PICK p : p = Here(t)
  OBVIOUS
<1>2. PICK c : c = RadixOf(rel[r], p)
  OBVIOUS
<1>3. /\ p \in kept[r] /\ c \in Clusters /\ p \in Exactly(rel[r], kept[r], t, c)
      /\ NextOf(t, c) = SlotFor(rel[r], kept[r], p)
      /\ SlotFor(rel[r], kept[r], p) \in Start(rel[r], kept[r], t, c) ..
                 Start(rel[r], kept[r], t, c) + Cardinality(Exactly(rel[r], kept[r], t, c)) - 1
      /\ \A q \in PassedOf(kept, r, t, c) :
                 /\ SlotFor(rel[r], kept[r], q) \in Nat
                 /\ SlotFor(rel[r], kept[r], q) < SlotFor(rel[r], kept[r], p)
  BY <1>1, <1>2, HereSlot
<1>4. Cluster(t) = c /\ Here(t) \in Nat
  <2>1. Cluster(t) = RadixOf(Rel(t), Here(t)) /\ Here(t) \in Nat
    BY HereFacts
  <2> QED
    BY <1>1, <1>2, <2>1 DEF Rel
<1>5. NextOf(t, c) = Slot(t, c)
  BY DEF NextOf
<1>6. /\ Slot(t, Cluster(t)) \in Nat /\ Filled(t) \in Lines
      /\ Filled(t) = [buffer[t][Cluster(t)] EXCEPT ![Slot(t, Cluster(t)) % Line] = Here(t)]
  BY FilledType DEF Places, Lines
<1> QED
  BY <1>1, <1>2, <1>3, <1>4, <1>5, <1>6

(* A tuple goes into its buffer, and the next slot over the last tuple of  *)
(* the line: in the next line if the line is full.                         *)
LEMMA BufferStep ==
    ASSUME TypeOK, Places, program.swwc, NEW t \in Threads, NEW r \in Rels, relidx[t] = r,
           relidx'[t] = r, pc[t] = "copy", pc'[t] = "copy", i[t] < num_tuples(Rel(t), t), Kept(t),
           i'[t] = i[t] + 1, rel' = rel, program' = program, NEW kept, Account(kept),
           buffer' = [buffer EXCEPT ![t][Cluster(t)] = NextSlot(t)]
    PROVE  /\ \A d \in Clusters : Slot(t, d)' = IF d = Cluster(t) THEN Slot(t, d) + 1 ELSE Slot(t, d)
           /\ NextAt(kept, r, t)' /\ BufferAt(kept, r, t)'
<1> DEFINE X == rel[r]
           Q == kept[r]
<1>0. PICK p, c, s : p = Here(t) /\ c = Cluster(t) /\ s = Slot(t, c)
  OBVIOUS
<1>1. buffer \in [Threads -> [Clusters -> Lines]] /\ BufferAt(kept, r, t)
  BY DEF Places, Lines, Account, AccountOf
<1>2. /\ p \in Q /\ c \in Clusters /\ s = SlotFor(X, Q, p) /\ c = RadixOf(X, p)
      /\ \A q \in PassedOf(kept, r, t, c) :
            SlotFor(X, Q, q) \in Nat /\ SlotFor(X, Q, q) < s
  BY <1>0, BufferSlot
<1>3. Cluster(t) = c
  BY <1>0
<1>4. /\ s = Slot(t, c) /\ s \in Nat /\ p \in Nat
      /\ Filled(t) = [buffer[t][c] EXCEPT ![s % Line] = p] /\ Filled(t) \in Lines
  BY <1>0, BufferSlot
<1>5. Line - 1 \in 0 .. Line - 1 /\ Line \in Nat /\ s % Line \in 0 .. Line - 1
      /\ LineStart(s) \in Nat /\ LineStart(s) <= s /\ s = LineStart(s) + (s % Line)
  BY <1>4, LineFacts
<1>6. /\ buffer'[t][c] = [Filled(t) EXCEPT ![Line - 1] = s + 1]
      /\ \A d \in Clusters \ {c} : buffer'[t][d] = buffer[t][d]
  <2>1. NextSlot(t) = [Filled(t) EXCEPT ![Line - 1] = s + 1]
    BY <1>3, <1>4 DEF NextSlot
  <2> QED
    BY <1>1, <1>2, <1>3, <2>1
<1>7. /\ buffer'[t][c][Line - 1] = s + 1
      /\ s % Line # Line - 1 => buffer'[t][c][s % Line] = p
      /\ \A k \in 0 .. Line - 1 : k # Line - 1 /\ k # s % Line => buffer'[t][c][k] = buffer[t][c][k]
  <2> DEFINE m == s % Line
             filled == Filled(t)
             line == buffer[t][c]
  <2>1. line \in [0 .. Line - 1 -> Nat] /\ filled \in [0 .. Line - 1 -> Nat]
    BY <1>1, <1>2, <1>4 DEF Lines
  <2>2. m \in 0 .. Line - 1 /\ filled = [line EXCEPT ![m] = p]
    BY <1>4, <1>5
  <2> HIDE DEF m, filled, line
  <2>3. filled[m] = p /\ \A k \in 0 .. Line - 1 : k # m => filled[k] = line[k]
    BY <2>1, <2>2
  <2>4. buffer'[t][c] = [filled EXCEPT ![Line - 1] = s + 1]
    BY <1>6 DEF filled
  <2>5. /\ [filled EXCEPT ![Line - 1] = s + 1][Line - 1] = s + 1
        /\ \A k \in 0 .. Line - 1 : k # Line - 1 => [filled EXCEPT ![Line - 1] = s + 1][k] = filled[k]
    BY <1>5, <2>1
  <2> QED
    BY <2>2, <2>3, <2>4, <2>5 DEF m, line
<1>8. Slot(t, c)' = s + 1 /\ \A d \in Clusters \ {c} : Slot(t, d)' = Slot(t, d)
  BY <1>6, <1>7 DEF Slot, SlotOf
<1>9. /\ PassedOf(kept, r, t, c)' = PassedOf(kept, r, t, c) \cup {p}
      /\ \A d : d # c => PassedOf(kept, r, t, d)' = PassedOf(kept, r, t, d)
      /\ p \notin PassedOf(kept, r, t, c)
  <2>1. p \in kept[r] /\ Here(t) \in kept[r]
    BY <1>0, <1>2
  <2>2. \A d : /\ PassedOf(kept, r, t, d)' =
                      IF d = RadixOf(rel[r], Here(t)) THEN PassedOf(kept, r, t, d) \cup {Here(t)}
                      ELSE PassedOf(kept, r, t, d)
               /\ Here(t) \notin PassedOf(kept, r, t, d)
    BY <2>1, PassedGrows
  <2> QED
    BY <1>0, <1>2, <2>2
<1>14. NextAt(kept, r, t)'
  <2>1. NextOf(t, c)' = NextOf(t, c) + 1 /\ \A d \in Clusters \ {c} : NextOf(t, d)' = NextOf(t, d)
    BY <1>4, <1>8 DEF NextOf
  <2> QED
    BY <1>9, <2>1, NextAdvances
<1>10. ASSUME NEW d \in Clusters \ {c}
       PROVE  /\ \A k \in 0 .. (Slot(t, d)' % Line) - 1 :
                    Belongs(X, Q, LineStart(Slot(t, d)') + k, buffer'[t][d][k])
              /\ \A q \in PassedOf(kept, r, t, d)' :
                    SlotFor(X, Q, q) >= LineStart(Slot(t, d)') =>
                        buffer'[t][d][SlotFor(X, Q, q) % Line] = q
  <2>1. Slot(t, d)' = Slot(t, d) /\ buffer'[t][d] = buffer[t][d]
        /\ PassedOf(kept, r, t, d)' = PassedOf(kept, r, t, d)
    BY <1>6, <1>8, <1>9
  <2>2. /\ \A k \in 0 .. (Slot(t, d) % Line) - 1 :
              Belongs(X, Q, LineStart(Slot(t, d)) + k, buffer[t][d][k])
        /\ \A q \in PassedOf(kept, r, t, d) :
              SlotFor(X, Q, q) >= LineStart(Slot(t, d)) => buffer[t][d][SlotFor(X, Q, q) % Line] = q
    BY <1>1, <1>10 DEF BufferAt
  <2> QED
    BY <2>1, <2>2
<1>11. /\ \A k \in 0 .. (s % Line) - 1 : Belongs(X, Q, LineStart(s) + k, buffer[t][c][k])
       /\ \A q \in PassedOf(kept, r, t, c) :
             SlotFor(X, Q, q) >= LineStart(s) => buffer[t][c][SlotFor(X, Q, q) % Line] = q
  BY <1>1, <1>2, <1>4 DEF BufferAt
<1>12. /\ \A k \in 0 .. ((s + 1) % Line) - 1 :
             Belongs(X, Q, LineStart(s + 1) + k, buffer'[t][c][k])
       /\ \A q \in PassedOf(kept, r, t, c)' :
             SlotFor(X, Q, q) >= LineStart(s + 1) => buffer'[t][c][SlotFor(X, Q, q) % Line] = q
  <2>1. CASE s % Line = Line - 1
    <3>1. LineStart(s + 1) = s + 1 /\ (s + 1) % Line = 0
      BY <1>4, <2>1, InLine
    <3>2. ASSUME NEW q \in PassedOf(kept, r, t, c)' PROVE ~(SlotFor(X, Q, q) >= s + 1)
      <4>0. q = p \/ q \in PassedOf(kept, r, t, c)
        BY <1>9
      <4>1. SlotFor(X, Q, q) \in Nat /\ SlotFor(X, Q, q) <= s
        <5>1. CASE q = p
          <6>1. s \in Nat /\ s = SlotFor(X, Q, p)
            BY <1>2, <1>4
          <6> QED
            BY <5>1, <6>1
        <5>2. CASE q \in PassedOf(kept, r, t, c)
          <6>1. SlotFor(X, Q, q) \in Nat /\ SlotFor(X, Q, q) < s
            BY <1>2, <5>2
          <6> QED
            BY <1>4, <6>1
        <5> QED
          BY <4>0, <5>1, <5>2
      <4> QED
        BY <1>4, <4>1
    <3>3. 0 .. ((s + 1) % Line) - 1 = {}
      BY <3>1
    <3> QED
      BY <3>1, <3>2, <3>3
  <2>2. CASE s % Line # Line - 1
    <3>1. LineStart(s + 1) = LineStart(s) /\ (s + 1) % Line = (s % Line) + 1
      BY <1>4, <2>2, InLine
    <3>2. ASSUME NEW k \in 0 .. ((s + 1) % Line) - 1
          PROVE  Belongs(X, Q, LineStart(s + 1) + k, buffer'[t][c][k])
      <4>1. k \in 0 .. Line - 1 /\ k # Line - 1 /\ (k \in 0 .. (s % Line) - 1 \/ k = s % Line)
        BY <1>5, <2>2, <3>1
      <4>2. CASE k = s % Line
        <5>1. buffer'[t][c][k] = p /\ LineStart(s + 1) + k = s
          BY <1>5, <1>7, <2>2, <3>1, <4>2
        <5> QED
          BY <1>2, <5>1 DEF Belongs
      <4>3. CASE k # s % Line
        BY <1>7, <1>11, <3>1, <4>1, <4>3
      <4> QED
        BY <4>2, <4>3
    <3>3. ASSUME NEW q \in PassedOf(kept, r, t, c)', SlotFor(X, Q, q) >= LineStart(s + 1)
          PROVE  buffer'[t][c][SlotFor(X, Q, q) % Line] = q
      <4>1. CASE q = p
        <5>1. SlotFor(X, Q, q) = s
          BY <1>2, <4>1
        <5> QED
          BY <1>7, <2>2, <4>1, <5>1
      <4>2. CASE q # p
        <5> DEFINE x == SlotFor(X, Q, q)
        <5>1. q \in PassedOf(kept, r, t, c) /\ x \in Nat /\ x < s /\ x >= LineStart(s)
          BY <1>2, <1>9, <3>1, <3>3, <4>2
        <5>2. buffer[t][c][x % Line] = q
          BY <1>11, <5>1
        <5> HIDE DEF x
        <5>3. x = LineStart(s) + (x % Line) /\ x % Line \in 0 .. Line - 1
          <6>1. x <= s /\ LineStart(s) <= x
            BY <1>4, <1>5, <5>1
          <6>2. x % Line \in 0 .. Line - 1
            BY <5>1, LineFacts
          <6> QED
            BY <1>4, <5>1, <6>1, <6>2, InLine
        <5>4. x % Line # s % Line /\ x % Line # Line - 1
          BY <1>4, <1>5, <5>1, <5>3
        <5>5. buffer'[t][c][x % Line] = q
          BY <1>7, <5>2, <5>3, <5>4
        <5> QED
          BY <5>5 DEF x
      <4> QED
        BY <4>1, <4>2
    <3> QED
      BY <3>2, <3>3
  <2> QED
    BY <2>1, <2>2
<1>13. BufferAt(kept, r, t)'
  BY <1>8, <1>10, <1>12 DEF BufferAt
<1> QED
  BY <1>3, <1>4, <1>8, <1>13, <1>14

(* As long as the line is not full, nothing is stored. *)
LEMMA BufferTupleAccount ==
    ASSUME TypeOK, Places, program.swwc, NEW t \in Threads, NEW r \in Rels, relidx[t] = r,
           NEW kept, Account(kept), BufferTuple(t), program' = program
    PROVE  AccountOf(kept, r, t)'
<1>1. /\ pc[t] = "copy" /\ pc' = pc /\ relidx' = relidx /\ i[t] < num_tuples(Rel(t), t) /\ Kept(t)
      /\ i'[t] = i[t] + 1 /\ UNCHANGED <<rel, hist, contains_cache, output, tmp>>
      /\ buffer' = [buffer EXCEPT ![t][Cluster(t)] = NextSlot(t)]
      /\ Slot(t, Cluster(t)) % Line # Line - 1
  BY DEF BufferTuple, InCopy, TypeOK
<1>2. PICK p, c, s : p = Here(t) /\ c = Cluster(t) /\ s = Slot(t, c)
  OBVIOUS
<1>3. relidx'[t] = r /\ pc'[t] = "copy" /\ rel' = rel
  BY <1>1
<1>4. /\ c = RadixOf(rel[r], p) /\ s = SlotFor(rel[r], kept[r], p) /\ c \in Clusters /\ s \in Nat
  BY <1>1, <1>2, BufferSlot
<1>5. /\ \A d \in Clusters : Slot(t, d)' = IF d = c THEN Slot(t, d) + 1 ELSE Slot(t, d)
      /\ NextAt(kept, r, t)' /\ BufferAt(kept, r, t)'
  BY <1>1, <1>2, <1>3, BufferStep
<1>6. AccountOf(kept, r, t)
  BY DEF Account
<1>7. KeptAt(kept, r, t)' /\ HistAt(kept, r, t)' /\ OutputAt(kept, r, t)'
  BY <1>1, <1>6, CopyParts DEF SameRows
<1>9. LineStart(s + 1) = LineStart(s)
  BY <1>1, <1>2, <1>4, InLine
<1>10. \A d \in Clusters : LineStart(Slot(t, d)') = LineStart(Slot(t, d))
  BY <1>2, <1>5, <1>9
<1>11. StoredAt(kept, r, t)'
  <2>1. ASSUME NEW q \in kept[r] \cap Chunk(rel[r], t), WrittenOut(kept, r, t, q)'
        PROVE  WrittenOut(kept, r, t, q)
    <3>1. RadixOf(rel[r], q) \in Clusters
      BY KeptPositions DEF Account, KeptType, TypeOK
    <3>2. SlotFor(rel[r], kept[r], q) < LineStart(Slot(t, RadixOf(rel[r], q)))
      BY <1>1, <1>10, <2>1, <3>1 DEF WrittenOut
    <3>3. q # p
      <4> SUFFICES ASSUME q = p PROVE FALSE
        OBVIOUS
      <4>1. s < LineStart(s)
        BY <1>2, <1>4, <3>2
      <4> QED
        BY <1>4, <4>1, LineFacts
    <3>4. Passed(r, t)' = Passed(r, t) \cup {Here(t)}
      BY <1>1, PastTuple
    <3> QED
      BY <1>1, <1>2, <2>1, <3>2, <3>3, <3>4 DEF WrittenOut
  <2>2. \A q : Exposed(kept, r, t, q)' <=> Exposed(kept, r, t, q)
    BY <1>1 DEF Exposed
  <2> QED
    BY <1>1, <1>6, <2>1, <2>2 DEF StoredAt, AccountOf
<1> QED
  BY <1>5, <1>7, <1>11 DEF AccountOf

(* A full line is stored: all its tuples belong there, or are garbage.     *)
LEMMA FlushLineAccount ==
    ASSUME TypeOK, Places, program.swwc, NEW t \in Threads, NEW kept, Account(kept),
           PassThread(t), FlushLine(t), program' = program
    PROVE  Account(kept)'
<1>0. PICK r \in Rels : relidx[t] = r
  BY DEF TypeOK
<1>1. /\ pc[t] = "copy" /\ pc' = pc /\ relidx' = relidx /\ i[t] < num_tuples(Rel(t), t) /\ Kept(t)
      /\ i'[t] = i[t] + 1 /\ UNCHANGED <<rel, hist, contains_cache, output>>
      /\ buffer' = [buffer EXCEPT ![t][Cluster(t)] = NextSlot(t)]
      /\ Slot(t, Cluster(t)) % Line = Line - 1
  BY DEF FlushLine, InCopy, TypeOK
<1> DEFINE X == rel[r]
           Q == kept[r]
<1>2. PICK p, c, s : p = Here(t) /\ c = Cluster(t) /\ s = Slot(t, c)
  OBVIOUS
<1>3. relidx'[t] = r /\ pc'[t] = "copy" /\ rel' = rel
  BY <1>0, <1>1
<1>4. /\ p \in Q /\ c = RadixOf(X, p) /\ s = SlotFor(X, Q, p) /\ c \in Clusters /\ s \in Nat
      /\ s \in Start(X, Q, t, c) .. Start(X, Q, t, c) + Cardinality(Exactly(X, Q, t, c)) - 1
      /\ Filled(t) = [buffer[t][c] EXCEPT ![s % Line] = p]
      /\ \A q \in PassedOf(kept, r, t, c) : SlotFor(X, Q, q) \in Nat /\ SlotFor(X, Q, q) < s
  BY <1>0, <1>1, <1>2, BufferSlot
<1>5. /\ \A d \in Clusters : Slot(t, d)' = IF d = c THEN Slot(t, d) + 1 ELSE Slot(t, d)
      /\ NextAt(kept, r, t)' /\ BufferAt(kept, r, t)'
  BY <1>0, <1>1, <1>2, <1>3, BufferStep
<1>6. /\ AccountOf(kept, r, t) /\ BufferAt(kept, r, t) /\ X \in Inputs /\ Q \subseteq 1 .. Len(X)
      /\ TmpType /\ buffer[t][c] \in Lines
  BY <1>4 DEF Account, AccountOf, KeptType, TypeOK, TmpType, Places, Lines
<1>7. KeptAt(kept, r, t)' /\ HistAt(kept, r, t)' /\ OutputAt(kept, r, t)'
  BY <1>0, <1>1, <1>3, <1>6, CopyParts DEF SameRows
<1>8. /\ Line \in Nat /\ Line > 1 /\ s % Line = Line - 1 /\ LineStart(s) \in Nat
      /\ LineStart(s) = s - (Line - 1) /\ LineStart(s + 1) = s + 1
      /\ \A x \in Nat : LineStart(s) <= x /\ x <= s =>
            x % Line = x - LineStart(s) /\ x = LineStart(s) + (x % Line) /\ x % Line <= s % Line
  BY <1>1, <1>2, <1>4, LineFacts, InLine
<1>9. PICK w : /\ w = [x \in s - (Line - 1) .. s |-> Filled(t)[x % Line]]
               /\ tmp' = [tmp EXCEPT ![r] = Written(r, w)]
  BY <1>0, <1>2 DEF FlushLine
<1>18. tmp' = [tmp EXCEPT ![r] = Written(r, w)]
  BY <1>9
<1>10. ASSUME NEW x \in DOMAIN w
       PROVE  /\ x \in Nat /\ LineStart(s) <= x /\ x <= s /\ x % Line \in 0 .. Line - 1
              /\ w[x] = IF x = s THEN p ELSE buffer[t][c][x % Line]
  <2>1. x \in Nat /\ LineStart(s) <= x /\ x <= s
    BY <1>4, <1>8, <1>9
  <2>2. x % Line = x - LineStart(s)
    BY <1>8, <2>1
  <2>3. x % Line \in 0 .. Line - 1 /\ (x % Line = s % Line <=> x = s)
    BY <1>4, <1>8, <2>1, <2>2
  <2>4. w[x] = Filled(t)[x % Line]
    BY <1>9
  <2>5. Filled(t)[x % Line] = IF x % Line = s % Line THEN p ELSE buffer[t][c][x % Line]
    <3> DEFINE m == s % Line
               k == x % Line
               line == buffer[t][c]
    <3>1. line \in [0 .. Line - 1 -> Nat] /\ k \in 0 .. Line - 1
      BY <1>6, <2>3 DEF Lines
    <3>2. Filled(t) = [line EXCEPT ![m] = p]
      BY <1>4
    <3> HIDE DEF m, k, line
    <3>3. Filled(t)[k] = IF k = m THEN p ELSE line[k]
      BY <3>1, <3>2
    <3> QED
      BY <3>3 DEF m, k, line
  <2> QED
    BY <2>1, <2>3, <2>4, <2>5
<1>11. /\ \A k \in 0 .. (s % Line) - 1 : Belongs(X, Q, LineStart(s) + k, buffer[t][c][k])
       /\ \A q \in PassedOf(kept, r, t, c) :
             SlotFor(X, Q, q) >= LineStart(s) => buffer[t][c][SlotFor(X, Q, q) % Line] = q
  BY <1>0, <1>1, <1>2, <1>4, <1>6 DEF BufferAt
<1>12. ASSUME NEW x \in DOMAIN w PROVE x \in LinesOf(X, Q, t, c) /\ Belongs(X, Q, x, w[x])
  <2>1. /\ x \in Nat /\ LineStart(s) <= x /\ x <= s /\ x % Line \in 0 .. Line - 1
        /\ w[x] = IF x = s THEN p ELSE buffer[t][c][x % Line]
    BY <1>10
  <2>2. x \in LinesOf(X, Q, t, c)
    <3> DEFINE a == Start(X, Q, t, c)
               n == Cardinality(Exactly(X, Q, t, c))
    <3>1. a \in Nat /\ n \in Nat
      <4>1. c \in 0 .. FanOut
        BY <1>4, ClusterFacts
      <4> HIDE DEF X, Q
      <4> QED
        BY <1>6, <4>1, SlotBounds, KeptFinite
    <3>2. s \in a .. a + n - 1
      BY <1>4
    <3>3. LinesOf(X, Q, t, c) = LineStart(a) .. a + n - 1
      BY DEF LinesOf
    <3> HIDE DEF a, n
    <3>4. LineStart(a) <= LineStart(s) /\ LineStart(a) \in Nat
      BY <1>4, <3>1, <3>2, LinesInOrder, LineFacts
    <3>5. x \in LineStart(a) .. a + n - 1
      <4>1. LineStart(a) <= x /\ x <= a + n - 1 /\ x \in Int
        BY <1>4, <1>8, <2>1, <3>1, <3>2, <3>4
      <4> QED
        BY <3>1, <3>4, <4>1
    <3> QED
      BY <3>3, <3>5
  <2>3. Belongs(X, Q, x, w[x])
    <3>1. CASE x = s
      BY <1>4, <2>1, <3>1 DEF Belongs
    <3>2. CASE x # s
      <4>1. x = LineStart(s) + (x % Line) /\ x % Line = x - LineStart(s)
        BY <1>8, <2>1
      <4>2. x % Line \in 0 .. (s % Line) - 1
        BY <1>4, <1>8, <2>1, <3>2, <4>1
      <4>3. Belongs(X, Q, LineStart(s) + (x % Line), buffer[t][c][x % Line])
        BY <1>11, <4>2
      <4> QED
        BY <2>1, <3>2, <4>1, <4>3
    <3> QED
      BY <3>1, <3>2
  <2> QED
    BY <2>2, <2>3
<1>13. /\ \A u \in Threads \ {t} : SameStored(kept, r, u)
       /\ \A q \in Rels : NothingElse(kept, q)'
       /\ \A d \in Clusters \ {c} : \A q \in Exactly(X, Q, t, d) : SlotFor(X, Q, q) \notin DOMAIN w
  <2>1. c \in Clusters
    BY <1>4
  <2>2. rel' = rel
    BY <1>3
  <2> QED
    BY <1>12, <1>18, <2>1, <2>2, LineWritten
<1>14. /\ \A q \in Rels \ {r} : tmp'[q] = tmp[q]
       /\ DOMAIN tmp'[r] = DOMAIN tmp[r] \cup DOMAIN w
       /\ \A x \in DOMAIN w : tmp'[r][x] = w[x]
       /\ \A x \in DOMAIN tmp[r] : x \notin DOMAIN w => tmp'[r][x] = tmp[r][x]
  <2>1. TmpType
    BY <1>6
  <2> QED
    BY <1>18, <2>1, WrittenFacts
<1>15. StoredAt(kept, r, t)'
  <2>1. ASSUME NEW q \in Q \cap Chunk(X, t), WrittenOut(kept, r, t, q)', ~Exposed(kept, r, t, q)'
        PROVE  SlotFor(X, Q, q) \in DOMAIN tmp'[r] /\ tmp'[r][SlotFor(X, Q, q)] = q
    <3> DEFINE x == SlotFor(X, Q, q)
    <3>0. PICK d : d = RadixOf(X, q)
      OBVIOUS
    <3>1. d \in Clusters /\ x \in Nat /\ q \in Exactly(X, Q, t, d)
      <4>1. q \in Q /\ q \in Chunk(X, t)
        OBVIOUS
      <4>2. q \in Exactly(X, Q, t, d)
        BY <3>0, <4>1 DEF Exactly
      <4> HIDE DEF X, Q
      <4> QED
        BY <1>6, <3>0, <4>1, <4>2, KeptPositions, SlotBounds
    <3>2. Passed(r, t)' = Passed(r, t) \cup {Here(t)}
      BY <1>0, <1>1, <1>3, PastTuple
    <3>3. x < LineStart(Slot(t, d)') /\ (q = p \/ q \in Passed(r, t))
      BY <1>0, <1>1, <1>2, <1>3, <2>1, <3>0, <3>2 DEF WrittenOut
    <3>4. ASSUME q \in Passed(r, t), x < LineStart(Slot(t, d))
          PROVE  x \in DOMAIN tmp[r] /\ tmp[r][x] = q
      <4>1. WrittenOut(kept, r, t, q)
        BY <3>0, <3>4 DEF WrittenOut
      <4>2. ~Exposed(kept, r, t, q)
        BY <1>1, <2>1 DEF Exposed
      <4> QED
        BY <1>6, <4>1, <4>2 DEF AccountOf, StoredAt
    <3>5. CASE d # c
      <4>1. Slot(t, d)' = Slot(t, d) /\ q # p
        BY <1>4, <1>5, <3>0, <3>1, <3>5
      <4>2. x \in DOMAIN tmp[r] /\ tmp[r][x] = q
        BY <3>3, <3>4, <4>1
      <4>3. x \notin DOMAIN w
        BY <1>13, <3>1, <3>5
      <4> QED
        BY <1>14, <4>2, <4>3
    <3>6. CASE d = c
      <4>1. x < s + 1 /\ x <= s
        <5>1. Slot(t, d)' = s + 1
          BY <1>2, <1>4, <1>5, <3>6
        <5>2. x < s + 1
          BY <1>8, <3>3, <5>1
        <5> QED
          BY <1>4, <3>1, <5>2
      <4>2. CASE q = p
        <5>1. x = s
          BY <1>4, <4>2
        <5>2. x \in DOMAIN w
          BY <1>4, <1>8, <1>9, <5>1
        <5>3. w[x] = p
          BY <1>10, <5>1, <5>2
        <5> QED
          BY <1>14, <4>2, <5>2, <5>3
      <4>3. CASE q # p /\ x >= LineStart(s)
        <5>1. q \in PassedOf(kept, r, t, c)
          BY <3>1, <3>3, <3>6, <4>3 DEF PassedOf
        <5>2. buffer[t][c][x % Line] = q /\ x < s
          BY <1>4, <1>11, <4>3, <5>1
        <5>3. x \in DOMAIN w
          BY <1>4, <1>8, <1>9, <3>1, <4>1, <4>3
        <5>4. w[x] = buffer[t][c][x % Line]
          BY <1>4, <1>10, <3>1, <5>2, <5>3
        <5> QED
          BY <1>14, <5>2, <5>3, <5>4
      <4>4. CASE q # p /\ ~(x >= LineStart(s))
        <5>1. x < LineStart(s)
          BY <1>8, <3>1, <4>4
        <5>2. x \in DOMAIN tmp[r] /\ tmp[r][x] = q
          BY <1>2, <3>3, <3>4, <3>6, <4>4, <5>1
        <5>3. x \notin DOMAIN w
          BY <1>8, <1>10, <3>1, <5>1
        <5> QED
          BY <1>14, <5>2, <5>3
      <4> QED
        BY <4>2, <4>3, <4>4
    <3> QED
      BY <3>5, <3>6
  <2> QED
    BY <1>1, <2>1 DEF StoredAt
<1>16. AccountOf(kept, r, t)'
  BY <1>5, <1>7, <1>15 DEF AccountOf
<1>17. OnlyThread(t)
  BY StepOnlyThread DEF Places
<1> QED
  BY <1>0, <1>1, <1>13, <1>14, <1>16, <1>17, StoringStep

(* What remains of a line is stored, up to the next slot. *)
LEMMA WriteRemainderAccount ==
    ASSUME TypeOK, Places, program.swwc, NEW t \in Threads, NEW kept, Account(kept),
           PassThread(t), WriteRemainder(t), program' = program
    PROVE  Account(kept)'
<1>0. PICK r \in Rels : relidx[t] = r
  BY DEF TypeOK
<1>1. /\ pc[t] = "remainder" /\ pc' = pc /\ relidx' = relidx /\ i[t] < FanOut /\ i[t] \in Nat
      /\ i'[t] = i[t] + 1 /\ UNCHANGED <<rel, hist, contains_cache, output, dst, buffer>>
  BY DEF WriteRemainder, TypeOK
<1> DEFINE X == rel[r]
           Q == kept[r]
<1>2. PICK c, s : c = i[t] /\ s = Slot(t, c)
  OBVIOUS
<1>3. relidx'[t] = r /\ pc'[t] = "remainder" /\ rel' = rel
  BY <1>0, <1>1
<1>4. c \in Clusters /\ FanOut \in Nat
  BY <1>1, <1>2, ClusterFacts DEF Clusters
<1>5. /\ AccountOf(kept, r, t) /\ BufferAt(kept, r, t) /\ NextAt(kept, r, t)
      /\ X \in Inputs /\ Q \subseteq 1 .. Len(X)
      /\ TmpType /\ buffer[t][c] \in Lines /\ s \in Nat
  <2>1. buffer \in [Threads -> [Clusters -> Lines]]
    BY DEF Places, Lines
  <2>2. Slot(t, c) \in Nat /\ buffer[t][c] \in Lines
    BY <1>4, <2>1, SlotType
  <2> QED
    BY <1>2, <2>2 DEF Account, AccountOf, KeptType, TypeOK, TmpType
<1>6. KeptAt(kept, r, t)' /\ HistAt(kept, r, t)' /\ OutputAt(kept, r, t)'
  BY <1>0, <1>1, <1>3, <1>5, CopyParts DEF SameRows
<1>7. Passed(r, t) = Chunk(X, t) /\ Passed(r, t)' = Chunk(X, t)
  BY <1>0, <1>1, <1>3 DEF Passed, AfterSync1, BeforeSync1
<1>8. /\ \A d : /\ PassedOf(kept, r, t, d) = Exactly(X, Q, t, d)
                /\ PassedOf(kept, r, t, d)' = PassedOf(kept, r, t, d)
      /\ \A d : NextOf(t, d)' = NextOf(t, d) /\ Slot(t, d)' = Slot(t, d)
  BY <1>1, <1>7 DEF PassedOf, Exactly, NextOf, Slot
<1>9. NextAt(kept, r, t)' /\ BufferAt(kept, r, t)'
  <2>1. NextAt(kept, r, t)'
    BY <1>0, <1>1, <1>3, <1>5, <1>8 DEF NextAt
  <2>2. BufferAt(kept, r, t)'
    BY <1>0, <1>1, <1>3, <1>5, <1>8 DEF BufferAt
  <2> QED
    BY <2>1, <2>2
<1>10. /\ Line \in Nat /\ Line > 1 /\ LineStart(s) \in Nat
       /\ LineStart(s) = s - (s % Line) /\ s = LineStart(s) + (s % Line) /\ s % Line \in 0 .. Line - 1
       /\ \A x \in Nat : LineStart(s) <= x /\ x <= s =>
             x % Line = x - LineStart(s) /\ x = LineStart(s) + (x % Line) /\ x % Line <= s % Line
  BY <1>5, LineFacts, InLine DEF LineStart
<1>11. PICK w : /\ w = [x \in LineStart(s) .. s - 1 |-> buffer[t][c][x % Line]]
                /\ tmp' = [tmp EXCEPT ![r] = Written(r, w)]
  <2>1. Remainder(s) = LineStart(s) .. s - 1
    BY DEF Remainder, LineStart
  <2> QED
    BY <1>0, <1>2, <2>1 DEF WriteRemainder, Slot
<1>12. tmp' = [tmp EXCEPT ![r] = Written(r, w)]
  BY <1>11
<1>13. /\ \A k \in 0 .. (s % Line) - 1 : Belongs(X, Q, LineStart(s) + k, buffer[t][c][k])
       /\ \A q \in PassedOf(kept, r, t, c) :
             SlotFor(X, Q, q) >= LineStart(s) => buffer[t][c][SlotFor(X, Q, q) % Line] = q
  BY <1>0, <1>1, <1>2, <1>4, <1>5 DEF BufferAt
<1> DEFINE a == Start(X, Q, t, c)
           n == Cardinality(Exactly(X, Q, t, c))
<1>14. /\ a \in Nat /\ n \in Nat /\ s = a + n
       /\ \A q \in Exactly(X, Q, t, c) : SlotFor(X, Q, q) \in a .. a + n - 1
  <2>1. InARow(X, Q, Exactly(X, Q, t, c), a)
    <3> HIDE DEF X, Q
    <3> QED
      BY <1>4, <1>5, OwnRange
  <2>2. a \in Nat /\ n \in Nat /\ \A q \in Exactly(X, Q, t, c) : SlotFor(X, Q, q) \in a .. a + n - 1
    <3> HIDE DEF X, Q, a
    <3> QED
      BY <2>1 DEF InARow
  <2>3. NextOf(t, c) = s
    BY <1>2 DEF NextOf
  <2>4. NextOf(t, c) = a + Cardinality(PassedOf(kept, r, t, c))
    BY <1>0, <1>1, <1>4, <1>5 DEF NextAt
  <2> QED
    BY <1>8, <2>2, <2>3, <2>4
<1>15. ASSUME NEW x \in DOMAIN w PROVE x \in LinesOf(X, Q, t, c) /\ Belongs(X, Q, x, w[x])
  <2>0. x \in LineStart(s) .. s - 1
    BY <1>11
  <2>1. x \in Nat /\ LineStart(s) <= x /\ x <= s - 1 /\ x <= s
    <3>1. s \in Nat /\ LineStart(s) \in Nat
      BY <1>5, <1>10
    <3> QED
      BY <2>0, <3>1
  <2>2. x \in LinesOf(X, Q, t, c)
    <3>1. LinesOf(X, Q, t, c) = LineStart(a) .. a + n - 1
      BY DEF LinesOf
    <3> HIDE DEF a, n
    <3>2. a <= s
      BY <1>14
    <3>3. LineStart(a) <= LineStart(s) /\ LineStart(a) \in Nat
      BY <1>5, <1>14, <3>2, LinesInOrder, LineFacts
    <3>4. LineStart(a) <= x /\ x <= a + n - 1 /\ x \in Int
      BY <1>10, <1>14, <2>1, <3>3
    <3>5. x \in LineStart(a) .. a + n - 1
      BY <1>14, <3>3, <3>4
    <3> QED
      BY <3>1, <3>5
  <2>3. Belongs(X, Q, x, w[x])
    <3>1. x = LineStart(s) + (x % Line) /\ x % Line = x - LineStart(s)
      BY <1>10, <2>1
    <3>2. x % Line \in 0 .. (s % Line) - 1
      <4> DEFINE b == LineStart(s)
                 m == s % Line
                 k == x % Line
      <4>1. s = b + m /\ k = x - b /\ s \in Nat /\ b \in Nat /\ m \in Int
        BY <1>5, <1>10, <3>1
      <4>2. x \in Nat /\ b <= x /\ x <= s - 1
        BY <2>1
      <4> HIDE DEF b, m, k
      <4>3. k \in 0 .. m - 1
        BY <4>1, <4>2
      <4> QED
        BY <4>3 DEF m, k
    <3>3. Belongs(X, Q, LineStart(s) + (x % Line), buffer[t][c][x % Line])
      BY <1>13, <3>2
    <3>4. w[x] = buffer[t][c][x % Line]
      BY <1>11
    <3> QED
      BY <3>1, <3>3, <3>4
  <2> QED
    BY <2>2, <2>3
<1>16. /\ \A u \in Threads \ {t} : SameStored(kept, r, u)
       /\ \A q \in Rels : NothingElse(kept, q)'
       /\ \A d \in Clusters \ {c} : \A q \in Exactly(X, Q, t, d) : SlotFor(X, Q, q) \notin DOMAIN w
  <2>1. c \in Clusters
    BY <1>4
  <2>2. rel' = rel
    BY <1>3
  <2> QED
    BY <1>12, <1>15, <2>1, <2>2, LineWritten
<1>17. /\ \A q \in Rels \ {r} : tmp'[q] = tmp[q]
       /\ DOMAIN tmp'[r] = DOMAIN tmp[r] \cup DOMAIN w
       /\ \A x \in DOMAIN w : tmp'[r][x] = w[x]
       /\ \A x \in DOMAIN tmp[r] : x \notin DOMAIN w => tmp'[r][x] = tmp[r][x]
  <2>1. TmpType
    BY <1>5
  <2> QED
    BY <1>12, <2>1, WrittenFacts
<1>18. StoredAt(kept, r, t)'
  <2>1. ASSUME NEW q \in Q \cap Chunk(X, t), WrittenOut(kept, r, t, q)', ~Exposed(kept, r, t, q)'
        PROVE  SlotFor(X, Q, q) \in DOMAIN tmp'[r] /\ tmp'[r][SlotFor(X, Q, q)] = q
    <3> DEFINE x == SlotFor(X, Q, q)
    <3>0. PICK d : d = RadixOf(X, q)
      OBVIOUS
    <3>1. d \in Clusters /\ x \in Nat /\ q \in Exactly(X, Q, t, d) /\ d \in Nat
      <4>1. q \in Q /\ q \in Chunk(X, t)
        OBVIOUS
      <4>2. q \in Exactly(X, Q, t, d)
        BY <3>0, <4>1 DEF Exactly
      <4> HIDE DEF X, Q
      <4> QED
        BY <1>5, <3>0, <4>1, <4>2, KeptPositions, SlotBounds
    <3>2. ASSUME x < LineStart(Slot(t, d)) \/ d < i[t]
          PROVE  x \in DOMAIN tmp[r] /\ tmp[r][x] = q
      <4>1. q \in Passed(r, t)
        BY <1>7, <2>1
      <4>2. WrittenOut(kept, r, t, q)
        BY <1>1, <3>0, <3>2, <4>1 DEF WrittenOut
      <4>3. ~Exposed(kept, r, t, q)
        BY <1>1, <2>1 DEF Exposed
      <4> QED
        BY <1>5, <4>2, <4>3 DEF AccountOf, StoredAt
    <3>3. x < LineStart(Slot(t, d)) \/ d < i[t] + 1
      <4>1. x < LineStart(Slot(t, d)') \/ d < i'[t]
        BY <1>0, <1>1, <1>3, <2>1, <3>0 DEF WrittenOut
      <4> QED
        BY <1>1, <1>8, <4>1
    <3>4. CASE d # c
      <4>1. x < LineStart(Slot(t, d)) \/ d < i[t]
        BY <1>1, <1>2, <3>1, <3>3, <3>4
      <4>2. x \in DOMAIN tmp[r] /\ tmp[r][x] = q
        BY <3>2, <4>1
      <4>3. x \notin DOMAIN w
        BY <1>16, <3>1, <3>4
      <4> QED
        BY <1>17, <4>2, <4>3
    <3>5. CASE d = c /\ x >= LineStart(s)
      <4>1. x \in a .. a + n - 1
        BY <1>14, <3>1, <3>5
      <4>2. x <= s - 1
        <5> HIDE DEF a, n, x
        <5> QED
          BY <1>14, <4>1
      <4>3. x \in LineStart(s) .. s - 1
        BY <1>5, <1>10, <3>1, <3>5, <4>2
      <4>4. q \in PassedOf(kept, r, t, c)
        BY <1>8, <3>1, <3>5
      <4>5. x \in DOMAIN w /\ w[x] = buffer[t][c][x % Line]
        BY <1>11, <4>3
      <4>6. buffer[t][c][x % Line] = q
        BY <1>13, <3>5, <4>4
      <4> QED
        BY <1>17, <4>5, <4>6
    <3>6. CASE d = c /\ ~(x >= LineStart(s))
      <4>1. x < LineStart(s)
        BY <1>10, <3>1, <3>6
      <4>2. x \in DOMAIN tmp[r] /\ tmp[r][x] = q
        BY <1>2, <3>2, <3>6, <4>1
      <4>3. x \notin DOMAIN w
        <5>1. x \notin LineStart(s) .. s - 1
          BY <3>6
        <5> QED
          BY <1>11, <5>1
      <4> QED
        BY <1>17, <4>2, <4>3
    <3> QED
      BY <3>4, <3>5, <3>6
  <2> QED
    BY <1>1, <2>1 DEF StoredAt
<1>19. AccountOf(kept, r, t)'
  BY <1>6, <1>9, <1>18 DEF AccountOf
<1>20. OnlyThread(t)
  BY StepOnlyThread DEF Places
<1> QED
  BY <1>0, <1>1, <1>16, <1>17, <1>19, <1>20, StoringStep

-----------------------------------------------------------------------------
(***************************************************************************)
(* The account is kept.                                                    *)
(***************************************************************************)
(* Every step of a thread keeps it, if not with the same tuples kept.      *)
LEMMA ThreadAccount ==
    ASSUME TypeOK, Met, Places, NoFalseNegative, NEW t \in Threads, PassThread(t),
           NEW kept, Account(kept)
    PROVE  \E kept2 : Account(kept2)'
<1> DEFINE Goal == \E kept2 : Account(kept2)'
<1> SUFFICES Goal
  OBVIOUS
<1>0. PICK r \in Rels : relidx[t] = r
  BY DEF TypeOK
<1>1. program' = program /\ OnlyThread(t)
  BY PassThreadSteps, StepOnlyThread DEF Places
<1>2. ASSUME AccountOf(kept, r, t)', tmp' = tmp, relidx' = relidx PROVE Account(kept)'
  <2>1. relidx'[t] = r
    BY <1>0, <1>2
  <2> QED
    BY <1>0, <1>1, <1>2, <2>1, QuietStep
<1>3. CASE buffer' = buffer /\ (AddBit(t) \/ TestBit(t))
  <2>1. /\ rel' = rel /\ relidx' = relidx /\ SamePlace(t) /\ SameRows(r, t) /\ tmp' = tmp
    BY <1>3 DEF AddBit, TestBit, SamePlace, SameRows
  <2>2. AccountOf(kept, r, t)'
    BY <1>1, <2>1, UnchangedAccount
  <2> QED
    BY <1>2, <2>1, <2>2
<1>4. CASE program.filter /\ buffer' = buffer /\ FilterOut(t)
  <2>1. AccountOf(kept, r, t)'
    BY <1>0, <1>1, <1>4, FilterOutAccount
  <2> QED
    BY <1>2, <1>4, <2>1 DEF FilterOut
<1>5. CASE \/ CountTuple(t) /\ program.filter /\ buffer' = buffer
           \/ CountAll(t) /\ ~program.filter
  BY <1>0, <1>5, CountAccount
<1>6. CASE buffer' = buffer /\ (HistogramDone(t) \/ CountAllDone(t) \/ ArriveAtSync1(t))
  <2>1. AccountOf(kept, r, t)'
    BY <1>0, <1>1, <1>6, LoopDoneAccount
  <2> QED
    BY <1>2, <1>6, <2>1 DEF HistogramDone, CountAllDone, ArriveAtSync1
<1>7. CASE buffer' = buffer /\ PrefixSum(t)
  <2>1. AccountOf(kept, r, t)'
    BY <1>0, <1>1, <1>7, PrefixSumAccount
  <2> QED
    BY <1>2, <1>7, <2>1 DEF PrefixSum
<1>8. CASE buffer' = buffer /\ AddRow(t)
  <2>1. AccountOf(kept, r, t)'
    BY <1>0, <1>1, <1>8, AddRowAccount
  <2> QED
    BY <1>2, <1>8, <2>1 DEF AddRow
<1>9. CASE \/ AddPadding(t) /\ ~program.swwc /\ buffer' = buffer
           \/ SetSlots(t) /\ program.swwc
           \/ PadToTotal(t) /\ ~program.filter
  <2>1. AccountOf(kept, r, t)'
    BY <1>0, <1>9, ToCopyAccount
  <2>2. tmp' = tmp /\ relidx' = relidx
    BY <1>9 DEF AddPadding, SetSlots, PadToTotal
  <2> QED
    BY <1>2, <2>1, <2>2
<1>10. CASE ~program.swwc /\ buffer' = buffer /\ CopyTuple(t)
  BY <1>10, CopyTupleAccount
<1>11. CASE buffer' = buffer /\ SkipTuple(t)
  <2>1. AccountOf(kept, r, t)'
    BY <1>0, <1>1, <1>11, SkipTupleAccount
  <2> QED
    BY <1>2, <1>11, <2>1 DEF SkipTuple
<1>12. CASE (ArriveAtSync2(t) /\ ~program.swwc) \/ (Return(t) /\ program.swwc)
  <2>1. AccountOf(kept, r, t)'
    BY <1>0, <1>1, <1>12, ToSync2Account
  <2>2. tmp' = tmp /\ relidx' = relidx
    BY <1>12 DEF ArriveAtSync2, Return
  <2> QED
    BY <1>2, <2>1, <2>2
<1>13. CASE program.swwc /\ BufferTuple(t)
  <2>1. AccountOf(kept, r, t)'
    BY <1>0, <1>1, <1>13, BufferTupleAccount
  <2> QED
    BY <1>2, <1>13, <2>1 DEF BufferTuple
<1>14. CASE program.swwc /\ FlushLine(t)
  BY <1>1, <1>14, FlushLineAccount
<1>15. CASE program.swwc /\ CopyDone(t)
  <2>1. AccountOf(kept, r, t)'
    BY <1>0, <1>1, <1>15, CopyDoneAccount
  <2> QED
    BY <1>2, <1>15, <2>1 DEF CopyDone
<1>16. CASE program.swwc /\ WriteRemainder(t)
  BY <1>1, <1>16, WriteRemainderAccount
<1>17. CASE NextRelation(t)
  BY <1>17, NextRelationAccount
<1>18. CASE CountAllDone(t)
  BY <1>6, <1>18 DEF CountAllDone
<1> QED
  <2>1. \/ /\ program.filter /\ buffer' = buffer
           /\ AddBit(t) \/ TestBit(t) \/ FilterOut(t) \/ CountTuple(t) \/ HistogramDone(t)
        \/ buffer' = buffer /\ (PrefixSum(t) \/ ArriveAtSync1(t) \/ AddRow(t))
        \/ ~program.filter /\ (CountAll(t) \/ CountAllDone(t) \/ PadToTotal(t) \/ NextRelation(t))
        \/ ~program.swwc /\ buffer' = buffer /\ AddPadding(t)
        \/ program.swwc /\ SetSlots(t)
        \/ ~program.swwc /\ buffer' = buffer /\ CopyTuple(t)
        \/ buffer' = buffer /\ SkipTuple(t)
        \/ ~program.swwc /\ ArriveAtSync2(t)
        \/ /\ program.swwc
           /\ BufferTuple(t) \/ FlushLine(t) \/ CopyDone(t) \/ WriteRemainder(t)
        \/ program.swwc /\ Return(t)
    BY PassThreadSteps
  <2> HIDE DEF Goal
  <2> QED
    <3>1. CASE program.filter /\ buffer' = buffer /\
                 (AddBit(t) \/ TestBit(t) \/ FilterOut(t) \/ CountTuple(t) \/ HistogramDone(t))
      BY <3>1, <1>3, <1>4, <1>5, <1>6
    <3>2. CASE buffer' = buffer /\ (PrefixSum(t) \/ ArriveAtSync1(t) \/ AddRow(t))
      BY <3>2, <1>6, <1>7, <1>8
    <3>3. CASE ~program.filter /\ (CountAll(t) \/ CountAllDone(t) \/ PadToTotal(t) \/ NextRelation(t))
      BY <3>3, <1>5, <1>9, <1>17, <1>18
    <3>4. CASE ~program.swwc /\ buffer' = buffer /\ AddPadding(t)
      BY <3>4, <1>9
    <3>5. CASE program.swwc /\ SetSlots(t)
      BY <3>5, <1>9
    <3>6. CASE buffer' = buffer /\ SkipTuple(t)
      BY <3>6, <1>11
    <3>7. CASE ~program.swwc /\ (ArriveAtSync2(t) \/ (buffer' = buffer /\ CopyTuple(t)))
      BY <3>7, <1>10, <1>12
    <3>8. CASE program.swwc /\ (BufferTuple(t) \/ FlushLine(t) \/ CopyDone(t)
                                  \/ WriteRemainder(t) \/ Return(t))
      BY <3>8, <1>12, <1>13, <1>14, <1>15, <1>16
    <3> QED
      BY <2>1, <3>1, <3>2, <3>3, <3>4, <3>5, <3>6, <3>7, <3>8

(* So does every step of the pass.                                         *)
LEMMA NextAccount ==
    ASSUME TypeOK, Met, Places, NoFalseNegative, [PassNext]_passVars, \E kept : Account(kept)
    PROVE  \E kept : Account(kept)'
<1>0. PICK kept : Account(kept)
  OBVIOUS
<1>1. CASE \E t \in Threads : PassThread(t)
  BY <1>0, <1>1, ThreadAccount
<1>2. CASE PassBarrier
  BY <1>0, <1>2, BarrierAccount
<1>3. CASE PassDone \/ passVars' = passVars
  <2>1. /\ rel' = rel /\ pc' = pc /\ relidx' = relidx /\ i' = i /\ hist' = hist
        /\ contains_cache' = contains_cache /\ output' = output /\ dst' = dst /\ tmp' = tmp
        /\ buffer' = buffer /\ program' = program
    BY <1>3 DEF PassDone, Done, passVars, swwcVars, vars
  <2>2. \A r \in Rels, t \in Threads : AccountOf(kept, r, t)'
    BY <1>0, <2>1, UnchangedAccount DEF Account, SamePlace, SameRows
  <2>3. \A r \in Rels : NothingElse(kept, r)'
    BY <1>0, <2>1, StoredFrame DEF Account
  <2>4. KeptType(kept)'
    BY <1>0, <2>1 DEF Account, KeptType
  <2> QED
    BY <2>2, <2>3, <2>4 DEF Account
<1> QED
  BY <1>1, <1>2, <1>3 DEF PassNext

(* Nothing is kept, counted or stored at first. *)
LEMMA InitAccount ==
    ASSUME PassInit
    PROVE  \E kept : Account(kept)
<1> DEFINE kept == [r \in Rels |-> {}]
<1>1. /\ \A r \in Rels : rel[r] \in Inputs
      /\ \A t \in Threads : relidx[t] = 0 /\ pc[t] \in {"histogram", "count"} /\ i[t] = 0
      /\ \A r \in Rels : tmp[r] = [s \in {} |-> 0]
      /\ \A r \in Rels, t \in Threads :
            /\ \A c \in Clusters : hist[r][t][c] = 0
            /\ \A c \in 0 .. FanOut : output[r][t][c] = 0
  BY DEF PassInit, FirstLoop, Rels
<1>2. KeptType(kept) /\ \A r \in Rels : kept[r] = {}
  BY DEF KeptType
<1> HIDE DEF kept
<1>3. ASSUME NEW r \in Rels PROVE NothingElse(kept, r)
  <2>1. DOMAIN tmp[r] = {}
    BY <1>1
  <2> QED
    BY <2>1 DEF NothingElse
<1>4. ASSUME NEW r \in Rels, NEW t \in Threads PROVE AccountOf(kept, r, t)
  <2>1. r \in {0, 1} /\ relidx[t] = 0 /\ pc[t] \in {"histogram", "count"} /\ i[t] = 0 /\ kept[r] = {}
    BY <1>1, <1>2 DEF Rels
  <2>2. Decided(r, t) = {}
    <3>1. End(rel[r], t) \in Nat
      BY <1>1, EndFacts, ThreadsFacts
    <3>2. End(rel[r], t) + 1 .. End(rel[r], t) + 0 = {}
      BY <3>1
    <3> QED
      BY <2>1, <3>2 DEF Decided, Counting
  <2>3. ~AfterSync1(r, t)
    BY <2>1 DEF AfterSync1, BeforeSync1
  <2>4. KeptAt(kept, r, t)
    BY <2>1, <2>2 DEF KeptAt
  <2>5. HistAt(kept, r, t)
    <3>1. \A c : Exactly(rel[r], kept[r], t, c) = {}
      BY <2>1 DEF Exactly
    <3>2. \A c : ~Summed(r, t, c)
      BY <2>1 DEF Summed
    <3>3. Cardinality({}) = 0
      BY FS_EmptySet
    <3> QED
      BY <1>1, <3>1, <3>2, <3>3 DEF HistAt
  <2>6. OutputAt(kept, r, t)
    BY <1>1, <2>3 DEF OutputAt
  <2>7. NextAt(kept, r, t) /\ BufferAt(kept, r, t)
    BY <2>1 DEF NextAt, BufferAt
  <2>8. StoredAt(kept, r, t)
    BY <2>1 DEF StoredAt
  <2> QED
    BY <2>4, <2>5, <2>6, <2>7, <2>8 DEF AccountOf
<1> QED
  BY <1>2, <1>3, <1>4 DEF Account

-----------------------------------------------------------------------------
(***************************************************************************)
(* The invariant of the pass: where the threads are, what the filter       *)
(* holds, and the account.                                                 *)
(***************************************************************************)
PassInv ==
    /\ TypeOK /\ Met /\ Places
    /\ program.filter => FilterFilled
    /\ NoFalseNegative
    /\ \E kept : Account(kept)

(* The threads begin side by side, with nothing done. *)
LEMMA PassInitPlaces ==
    ASSUME PassInit
    PROVE  TypeOK /\ Met /\ Places
<1>1. /\ program \in Programs /\ rel \in [Rels -> Inputs]
      /\ \A t \in Threads : /\ relidx[t] = 0 /\ i[t] = 0 /\ bit[t] = 0
                            /\ pc[t] = IF program.filter THEN "histogram" ELSE "count"
                            /\ contains_cache[t] = IF program.filter THEN {} ELSE Unfiltered
      /\ \A r \in Rels : tmp[r] = [s \in {} |-> 0]
      /\ bitmap = {} /\ DOMAIN tmp = Rels
  BY DEF PassInit, FirstLoop
<1>2. /\ pc \in [Threads -> {"histogram", "prefix", "sync1", "offsets", "copy",
                             "sync2", "done", "count", "remainder"}]
      /\ relidx \in [Threads -> Rels] /\ i \in [Threads -> Nat] /\ bit \in [Threads -> 0 .. K]
  <2>1. FirstLoop \in {"histogram", "count"} /\ 0 \in Rels /\ 0 \in 0 .. K
    BY FilterAssumption DEF FirstLoop, Rels
  <2> QED
    BY <2>1 DEF PassInit
<1>3. /\ hist \in [Rels -> [Threads -> [Clusters -> Nat]]]
      /\ output \in [Rels -> [Threads -> [0 .. FanOut -> Nat]]]
      /\ dst \in [Threads -> [Clusters -> Nat]]
  BY DEF PassInit
<1>4. Unfiltered \subseteq Nat
  <2>1. ASSUME NEW n \in Unfiltered PROVE n \in Nat
    <3> DEFINE S(q, u) == 0 .. num_tuples(rel[q], u) - 1
               all == {S(q, u) : q \in Rels, u \in Threads}
    <3>0. PICK x \in all : n \in x
      BY DEF Unfiltered
    <3>1. PICK r \in Rels, t \in Threads : x = S(r, t)
      OBVIOUS
    <3>2. num_tuples(rel[r], t) \in Nat
      BY <1>1, ChunkInRelation
    <3> QED
      BY <3>0, <3>1, <3>2
  <2> QED
    BY <2>1
<1>5. contains_cache \in [Threads -> SUBSET Nat]
  <2>1. (IF program.filter THEN {} ELSE Unfiltered) \in SUBSET Nat
    BY <1>4
  <2> QED
    BY <2>1 DEF PassInit
<1>6. \A t \in Threads : WithinLoop(t)
  <2> SUFFICES ASSUME NEW t \in Threads PROVE WithinLoop(t)
    OBVIOUS
  <2>1. num_tuples(Rel(t), t) \in Nat /\ FanOut \in Nat /\ NThreads \in Nat
    BY <1>1, <1>2, ChunkInRelation, FanOutAssumption, ThreadsFacts DEF Rel
  <2>2. i[t] = 0 /\ pc[t] \in {"histogram", "count"}
    BY <1>1
  <2> QED
    BY <2>1, <2>2 DEF WithinLoop
<1>7. TypeOK
  BY <1>1, <1>2, <1>3, <1>5, <1>6 DEF TypeOK
<1>8. Met
  BY <1>1 DEF Met, AfterSync1, BeforeSync1, Rels
<1>9. buffer \in [Threads -> [Clusters -> [0 .. Line - 1 -> Nat]]]
  BY DEF PassInit, NoBuffer, Garbage
<1>10. \A t \in Threads : PlaceOf(t)
  BY <1>1 DEF PlaceOf, Labels
<1>11. \A r \in Rels : DOMAIN tmp[r] = {}
  BY <1>1
<1> QED
  BY <1>1, <1>7, <1>8, <1>9, <1>10, <1>11 DEF Places

(* So the invariant holds at first. *)
LEMMA PassInitInv == PassInit => PassInv
<1> SUFFICES ASSUME PassInit PROVE PassInv
  OBVIOUS
<1>1. /\ \A t \in Threads : relidx[t] = 0 /\ i[t] = 0 /\ bit[t] = 0
      /\ program.filter => \A t \in Threads : pc[t] = "histogram"
  BY DEF PassInit, FirstLoop
<1>2. NoFalseNegative
  BY <1>1 DEF NoFalseNegative, PartnersKept
<1>3. program.filter => FilterFilled
  <2> SUFFICES ASSUME program.filter, NEW t \in Threads
               PROVE  ScannedAdded(t) /\ BeingAdded(t) /\ AllAdded(t)
    BY DEF FilterFilled
  <2>1. Scanned(t) = {}
    BY <1>1 DEF Scanned
  <2>2. 0 .. bit[t] - 1 = {}
    BY <1>1
  <2> QED
    BY <1>1, <2>1, <2>2 DEF ScannedAdded, BeingAdded, AllAdded
<1> QED
  BY <1>2, <1>3, PassInitPlaces, InitAccount DEF PassInv

(* The types and places stay, whoever moves. *)
LEMMA PassNextPlaces ==
    ASSUME TypeOK, Met, Places, [PassNext]_passVars
    PROVE  TypeOK' /\ Met' /\ Places'
<1>0. BufferType
  BY DEF Places, BufferType, Lines
<1>1. CASE \E t \in Threads : PassThread(t)
  BY <1>0, <1>1, PassType, PlacesKept
<1>2. CASE PassBarrier
  <2>1. [Next]_vars
    BY <1>2 DEF PassBarrier, Next
  <2> QED
    BY <1>2, <2>1, NextType, BarrierPlaces
<1>3. CASE PassDone \/ passVars' = passVars
  <2>1. vars' = vars /\ buffer' = buffer /\ program' = program
    BY <1>3 DEF PassDone, Done, passVars, swwcVars
  <2>2. TypeOK'
    BY <2>1, NextType
  <2>3. /\ rel' = rel /\ pc' = pc /\ relidx' = relidx /\ i' = i
        /\ contains_cache' = contains_cache /\ tmp' = tmp
    BY <2>1 DEF vars
  <2>4. Met'
    BY <2>1, <2>3 DEF Met, AfterSync1, BeforeSync1
  <2>5. Unfiltered' = Unfiltered
    BY <2>3 DEF Unfiltered, num_tuples, numperthr
  <2>6. \A t \in Threads : PlaceOf(t)'
    BY <2>1, <2>3, <2>5 DEF Places, PlaceOf, Labels
  <2>7. \A r \in Rels, t \in Threads : AfterSync1(r, t)' <=> AfterSync1(r, t)
    BY <2>3 DEF AfterSync1, BeforeSync1
  <2> QED
    BY <2>1, <2>2, <2>3, <2>4, <2>6, <2>7 DEF Places
<1> QED
  BY <1>1, <1>2, <1>3 DEF PassNext

(* Without a filter nothing is ever dropped. *)
LEMMA UnfilteredKept ==
    ASSUME TypeOK, Places, ~program.filter
    PROVE  NoFalseNegative
<1> SUFFICES ASSUME NEW t \in Threads, relidx[t] = 1, pc[t] \notin {"sync2", "done"}
             PROVE  Scanned(t) \subseteq contains_cache[t]
  BY DEF NoFalseNegative, PartnersKept
<1>1. pc[t] # "histogram" /\ Unfiltered \subseteq contains_cache[t]
  BY DEF Places, PlaceOf, Labels
<1>2. Scanned(t) = 0 .. num_tuples(rel[1], t) - 1
  BY <1>1 DEF Scanned, Rel
<1>3. 0 .. num_tuples(rel[1], t) - 1 \subseteq Unfiltered
  BY InUnfiltered DEF Rels
<1> QED
  BY <1>1, <1>2, <1>3

(* And so it is after a step. *)
LEMMA UnfilteredKeptNext ==
    (TypeOK /\ Places /\ ~program.filter => NoFalseNegative)'
<1>1. TypeOK /\ Places /\ ~program.filter => NoFalseNegative
  BY UnfilteredKept
<1> QED
  BY <1>1, PTL

(* Every step keeps the invariant. *)
LEMMA PassNextInv == PassInv /\ [PassNext]_passVars => PassInv'
<1> SUFFICES ASSUME PassInv, [PassNext]_passVars PROVE PassInv'
  OBVIOUS
<1>1. TypeOK /\ Met /\ Places /\ NoFalseNegative /\ \E kept : Account(kept)
  BY DEF PassInv
<1>2. TypeOK' /\ Met' /\ Places'
  BY <1>1, PassNextPlaces
<1>3. \E kept : Account(kept)'
  BY <1>1, NextAccount
<1>4. CASE program.filter
  <2>1. FilterFilled
    BY <1>4 DEF PassInv
  <2>2. FilterFilled' /\ NoFalseNegative'
    BY <1>1, <1>4, <2>1, FilterKept
  <2> QED
    BY <1>2, <1>3, <2>2 DEF PassInv
<1>5. CASE ~program.filter
  <2>1. program' = program
    <3>1. CASE \E t \in Threads : PassThread(t)
      BY <3>1 DEF PassThread
    <3>2. CASE PassBarrier \/ PassDone \/ passVars' = passVars
      BY <3>2 DEF PassBarrier, PassDone, passVars
    <3> QED
      BY <3>1, <3>2 DEF PassNext
  <2>2. NoFalseNegative'
    BY <1>2, <1>5, <2>1, UnfilteredKeptNext
  <2> QED
    BY <1>2, <1>3, <1>5, <2>1, <2>2 DEF PassInv
<1> QED
  BY <1>4, <1>5

(* The invariant holds in every state of every program. *)
THEOREM PassKeepsAccount == PassSpec => []PassInv
<1> QED
  BY PassInitInv, PassNextInv, PTL DEF PassSpec

-----------------------------------------------------------------------------
(***************************************************************************)
(* What a partitioned relation looks like.                                 *)
(***************************************************************************)
(* Everything is counted, summed and, unless another thread may write      *)
(* there, stored.                                                          *)
LEMMA PartitionedParts ==
    ASSUME TypeOK, Places, NEW kept, Account(kept), NEW r \in Rels, Partitioned(r),
           NEW t \in Threads
    PROVE  /\ \A c \in 0 .. FanOut : output[r][t][c] = Start(rel[r], kept[r], t, c)
           /\ \A c \in Clusters : Count(r, t, c) = Cardinality(Exactly(rel[r], kept[r], t, c))
           /\ \A p \in kept[r] \cap Chunk(rel[r], t) : ~Exposed(kept, r, t, p) =>
                 /\ SlotFor(rel[r], kept[r], p) \in DOMAIN tmp[r]
                 /\ tmp[r][SlotFor(rel[r], kept[r], p)] = p
           /\ r = 0 \/ ~program.filter => Chunk(rel[r], t) \subseteq kept[r]
<1> DEFINE X == rel[r]
           Q == kept[r]
<1>1. /\ r \in {0, 1} /\ relidx[t] \in {0, 1}
      /\ relidx[t] > r \/ (relidx[t] = 1 /\ pc[t] = "done")
  BY DEF TypeOK, Rels, Partitioned, Places, PlaceOf
<1>2. AccountOf(kept, r, t) /\ X \in Inputs /\ Q \subseteq 1 .. Len(X)
  BY DEF Account, KeptType, TypeOK
<1>3. AfterSync1(r, t) /\ ~(relidx[t] = r /\ pc[t] \in {"offsets", "copy", "remainder"})
  BY <1>1 DEF AfterSync1, BeforeSync1
<1>4. \A c \in 0 .. FanOut : output[r][t][c] = Start(X, Q, t, c)
  BY <1>2, <1>3 DEF AccountOf, OutputAt
<1>5. /\ \A c \in Clusters : hist[r][t][c] = Cardinality(UpTo(X, Q, t, c))
      /\ Decided(r, t) = Chunk(X, t)
  BY <1>3, AfterSync1Facts
<1>6. ASSUME NEW c \in Clusters PROVE Count(r, t, c) = Cardinality(Exactly(X, Q, t, c))
  <2>1. /\ Cardinality(UpTo(X, Q, t, c)) = Cardinality(Exactly(X, Q, t, c))
              + (IF c = 0 THEN 0 ELSE Cardinality(UpTo(X, Q, t, c - 1)))
        /\ Cardinality(UpTo(X, Q, t, c)) \in Nat /\ Cardinality(UpTo(X, Q, t, c - 1)) \in Nat
        /\ Cardinality(Exactly(X, Q, t, c)) \in Nat
    BY <1>2, PrefixCount, KeptFinite
  <2>2. c # 0 => c - 1 \in Clusters
    BY ClusterFacts DEF Clusters
  <2> DEFINE m == Cardinality(UpTo(X, Q, t, c))
             n == Cardinality(Exactly(X, Q, t, c))
             k == Cardinality(UpTo(X, Q, t, c - 1))
  <2>3. hist[r][t][c] = m /\ (c # 0 => hist[r][t][c - 1] = k)
    BY <1>5, <2>2
  <2>4. m = n + (IF c = 0 THEN 0 ELSE k) /\ m \in Nat /\ n \in Nat /\ k \in Nat
    BY <2>1
  <2>5. Count(r, t, c) = m - IF c = 0 THEN 0 ELSE k
    BY <2>3 DEF Count
  <2> HIDE DEF m, n, k
  <2>6. Count(r, t, c) = n
    BY <2>4, <2>5
  <2> QED
    BY <2>6 DEF n
<1>7. Passed(r, t) = Chunk(X, t)
  BY <1>3 DEF Passed
<1>8. ASSUME NEW p \in Q \cap Chunk(X, t), ~Exposed(kept, r, t, p)
      PROVE  SlotFor(X, Q, p) \in DOMAIN tmp[r] /\ tmp[r][SlotFor(X, Q, p)] = p
  <2>1. WrittenOut(kept, r, t, p)
    BY <1>3, <1>7 DEF WrittenOut
  <2> QED
    BY <1>2, <1>8, <2>1 DEF AccountOf, StoredAt
<1>9. r = 0 \/ ~program.filter => Chunk(X, t) \subseteq Q
  BY <1>2, <1>5 DEF AccountOf, KeptAt
<1> QED
  BY <1>4, <1>6, <1>8, <1>9

(* A thread's own slots are those of its tuples, and the slots it may      *)
(* reach are those of its lines.                                           *)
LEMMA OwnSlotsFilled ==
    ASSUME TypeOK, Places, NEW kept, Account(kept), NEW r \in Rels, Partitioned(r),
           NEW t \in Threads, NEW c \in Clusters
    PROVE  /\ Reach(r, t, c) = LinesOf(rel[r], kept[r], t, c)
           /\ \A s \in OwnSlots(r, t, c) :
                 \E p \in Exactly(rel[r], kept[r], t, c) : SlotFor(rel[r], kept[r], p) = s
<1> DEFINE X == rel[r]
           Q == kept[r]
           a == Start(X, Q, t, c)
           n == Cardinality(Exactly(X, Q, t, c))
           W == Exactly(X, Q, t, c)
<1>1. X \in Inputs /\ Q \subseteq 1 .. Len(X)
  BY DEF Account, KeptType, TypeOK
<1>2. output[r][t][c] = a /\ Count(r, t, c) = n
  BY PartitionedParts, ClusterFacts
<1>3. Reach(r, t, c) = LinesOf(X, Q, t, c)
  BY <1>2 DEF Reach, LinesOf, LineStart
<1>4. OwnSlots(r, t, c) = a .. a + n - 1
  BY <1>2 DEF OwnSlots
<1>5. InARow(X, Q, W, a)
  BY <1>1, OwnRange
<1>6. \A s \in a .. a + n - 1 : \E p \in W : SlotFor(X, Q, p) = s
  <2> HIDE DEF X, Q, W, a
  <2> QED
    BY <1>5 DEF InARow, W
<1> QED
  BY <1>3, <1>4, <1>6

(* A tuple of the thread and of the partition is what HoldsTupleOf says.   *)
LEMMA TupleHeld ==
    ASSUME TypeOK, NEW r \in Rels, NEW t \in Threads, NEW c, NEW Q, Q \subseteq 1 .. Len(rel[r]),
           NEW p \in Exactly(rel[r], Q, t, c), NEW s, s \in DOMAIN tmp[r], tmp[r][s] = p
    PROVE  HoldsTupleOf(r, t, c, s)
<1> DEFINE X == rel[r]
           n == p - End(X, t) - 1
<1>1. X \in Inputs /\ p \in Q /\ p \in Chunk(X, t) /\ RadixOf(X, p) = c
  BY DEF Exactly, TypeOK
<1>2. p \in Nat /\ End(X, t) < p /\ p <= End(X, t + 1)
  BY <1>1, KeptPositions
<1>3. /\ num_tuples(X, t) = End(X, t + 1) - End(X, t)
      /\ End(X, t) \in Nat /\ End(X, t + 1) \in Nat
      /\ \A k : Position(X, t, k) = End(X, t) + k + 1
  BY <1>1, EndFacts
<1>4. n \in 0 .. num_tuples(X, t) - 1 /\ Position(X, t, n) = p
  <2>1. Position(X, t, n) = End(X, t) + n + 1
    BY <1>3
  <2> DEFINE e == End(X, t)
             f == End(X, t + 1)
             m == num_tuples(X, t)
  <2>2. m = f - e /\ e \in Nat /\ f \in Nat /\ e < p /\ p <= f
    BY <1>2, <1>3
  <2>3. n = p - e - 1 /\ Position(X, t, n) = e + n + 1
    BY <2>1
  <2> HIDE DEF e, f, m, n
  <2>4. n \in 0 .. m - 1 /\ Position(X, t, n) = p
    BY <1>2, <2>2, <2>3
  <2> QED
    BY <2>4 DEF m
<1>5. HASH_BIT_MODULO(Key(X, t, n)) = c
  BY <1>1, <1>4 DEF Key, RadixOf
<1> HIDE DEF n
<1> QED
  BY <1>4, <1>5 DEF HoldsTupleOf

(***************************************************************************)
(* The slots of the partitions.                                            *)
(***************************************************************************)
(* The invariant gives an account of a thread's own slots. *)
LEMMA OwnTuple ==
    ASSUME TypeOK, Places, NEW kept, Account(kept), NEW r \in Rels, Partitioned(r),
           NEW t \in Threads, NEW c \in Clusters, NEW s \in OwnSlots(r, t, c),
           ~ReachedByAnother(r, t, s)
    PROVE  \E p \in Exactly(rel[r], kept[r], t, c) :
              SlotFor(rel[r], kept[r], p) = s /\ s \in DOMAIN tmp[r] /\ tmp[r][s] = p
<1>1. PICK p \in Exactly(rel[r], kept[r], t, c) : SlotFor(rel[r], kept[r], p) = s
  BY OwnSlotsFilled
<1>2. ~Exposed(kept, r, t, p)
  <2> SUFFICES ASSUME NEW u \in Threads \ {t}, NEW d \in Clusters,
                      s \in LinesOf(rel[r], kept[r], u, d)
               PROVE  FALSE
    BY <1>1 DEF Exposed
  <2>1. Reach(r, u, d) = LinesOf(rel[r], kept[r], u, d)
    BY OwnSlotsFilled
  <2> QED
    BY <2>1 DEF ReachedByAnother
<1>3. p \in kept[r] \cap Chunk(rel[r], t)
  BY <1>1 DEF Exactly
<1>4. s \in DOMAIN tmp[r] /\ tmp[r][s] = p
  BY <1>1, <1>2, <1>3, PartitionedParts
<1> QED
  BY <1>1, <1>4

(* Slots that no other thread reaches are filled, in order.                *)
LEMMA UnreachedRight == PassInv => UnreachedSlotsRight
<1> SUFFICES ASSUME PassInv, NEW r \in Rels, Partitioned(r), NEW t \in Threads,
                    NEW c \in Clusters, NEW s \in OwnSlots(r, t, c), ~ReachedByAnother(r, t, s)
             PROVE  /\ HoldsTupleOf(r, t, c, s)
                    /\ \A u \in OwnSlots(r, t, c) :
                          u > s /\ ~ReachedByAnother(r, t, u) => tmp[r][u] > tmp[r][s]
  BY DEF UnreachedSlotsRight
<1>1. PICK kept : Account(kept)
  BY DEF PassInv
<1> DEFINE X == rel[r]
           Q == kept[r]
<1>2. TypeOK /\ Places /\ X \in Inputs /\ Q \subseteq 1 .. Len(X)
  BY <1>1 DEF PassInv, Account, KeptType, TypeOK
<1>3. PICK p \in Exactly(X, Q, t, c) :
         SlotFor(X, Q, p) = s /\ s \in DOMAIN tmp[r] /\ tmp[r][s] = p
  BY <1>1, <1>2, OwnTuple
<1>4. HoldsTupleOf(r, t, c, s)
  BY <1>2, <1>3, TupleHeld
<1>5. ASSUME NEW u \in OwnSlots(r, t, c), u > s, ~ReachedByAnother(r, t, u)
      PROVE  tmp[r][u] > tmp[r][s]
  <2>1. PICK q \in Exactly(X, Q, t, c) :
           SlotFor(X, Q, q) = u /\ u \in DOMAIN tmp[r] /\ tmp[r][u] = q
    BY <1>1, <1>2, <1>5, OwnTuple
  <2>2. p \in Q /\ q \in Q /\ RadixOf(X, p) = c /\ RadixOf(X, q) = c
    BY <1>3, <2>1 DEF Exactly
  <2>3. p \in Nat /\ q \in Nat
    BY <1>2, <2>2, KeptPositions
  <2>4. SlotFor(X, Q, p) \in Nat /\ SlotFor(X, Q, q) \in Nat
    BY <1>2, <2>2, SlotBounds
  <2>5. ASSUME q < p PROVE FALSE
    <3>1. q \in Preceding(X, Q, p)
      BY <2>2, <2>5 DEF Preceding
    <3>2. SlotFor(X, Q, q) < SlotFor(X, Q, p)
      BY <1>2, <2>2, <3>1, SlotsInOrder
    <3> QED
      BY <1>3, <1>5, <2>1, <2>4, <3>2
  <2>6. q # p
    BY <1>3, <1>5, <2>1, <2>4
  <2> QED
    BY <1>3, <2>1, <2>3, <2>5, <2>6
<1> QED
  BY <1>4, <1>5

(* And in all of a thread's slots is its tuple, or garbage. *)
LEMMA MisplacedNothing == PassInv => NothingMisplaced
<1> SUFFICES ASSUME PassInv, NEW r \in Rels, Partitioned(r), NEW t \in Threads,
                    NEW c \in Clusters, NEW s \in OwnSlots(r, t, c),
                    s \in DOMAIN tmp[r], tmp[r][s] # Garbage
             PROVE  /\ HoldsTupleOf(r, t, c, s)
                    /\ \A u \in DOMAIN tmp[r] : u # s => tmp[r][u] # tmp[r][s]
  BY DEF NothingMisplaced
<1>1. PICK kept : Account(kept)
  BY DEF PassInv
<1> DEFINE X == rel[r]
           Q == kept[r]
<1>2. /\ TypeOK /\ Places /\ X \in Inputs /\ Q \subseteq 1 .. Len(X)
      /\ \A u \in DOMAIN tmp[r] : Belongs(X, Q, u, tmp[r][u])
  BY <1>1 DEF PassInv, Account, KeptType, NothingElse, TypeOK
<1>3. PICK p \in Exactly(X, Q, t, c) : SlotFor(X, Q, p) = s
  BY <1>1, <1>2, OwnSlotsFilled
<1>4. tmp[r][s] \in Q /\ s = SlotFor(X, Q, tmp[r][s]) /\ p \in Q
  BY <1>2, <1>3 DEF Belongs, Exactly
<1>5. tmp[r][s] = p
  BY <1>2, <1>3, <1>4, SlotsApart
<1>6. HoldsTupleOf(r, t, c, s)
  BY <1>2, <1>3, <1>5, TupleHeld
<1>7. \A u \in DOMAIN tmp[r] : u # s => tmp[r][u] # tmp[r][s]
  BY <1>2, <1>4 DEF Belongs
<1> QED
  BY <1>6, <1>7

-----------------------------------------------------------------------------
(***************************************************************************)
(* Theorems about the pass.                                                *)
(***************************************************************************)
(* Counters and indices stay in range in all four programs.                *)
THEOREM PassTypeCorrect == PassSpec => []TypeOK
<1>1. PassInv => TypeOK
  BY DEF PassInv
<1> QED
  BY <1>1, PassKeepsAccount, PTL

(* No S tuple with a partner in R is dropped, by any of the programs.      *)
THEOREM PassLosesNoMatch == PassSpec => []NoFalseNegative
<1>1. PassInv => NoFalseNegative
  BY DEF PassInv
<1> QED
  BY <1>1, PassKeepsAccount, PTL

(* No thread tests the filter while another adds to it. *)
THEOREM PassFilterHasNoRace == PassSpec => []FilterRaceFree
<1>1. PassInv => FilterRaceFree
  <2> SUFFICES ASSUME PassInv, NEW t \in Threads, NEW u \in Threads,
                      InHistogram(t), build(t), InHistogram(u), ~build(u)
               PROVE  FALSE
    BY DEF FilterRaceFree
  <2>1. TypeOK /\ Met /\ pc[t] \in Labels
    BY DEF PassInv, Places, PlaceOf
  <2>2. program.filter
    BY <2>1 DEF InHistogram, Labels
  <2>3. relidx[t] = relidx[u]
    BY <2>1, <2>2 DEF Met
  <2> QED
    BY <2>3 DEF build
<1> QED
  BY <1>1, PassKeepsAccount, PTL

(* No thread sums a histogram that its owner is still filling. *)
THEOREM PassHistogramsAreComplete == PassSpec => []HistogramsComplete
<1>1. PassInv => HistogramsComplete
  <2> SUFFICES ASSUME PassInv, NEW t \in Threads, NEW u \in Threads, pc[t] = "offsets"
               PROVE  relidx[u] >= relidx[t] /\ (relidx[u] = relidx[t] => ~BeforeSync1(u))
    BY DEF HistogramsComplete
  <2>1. TypeOK /\ Met
    BY DEF PassInv
  <2>2. PICK r \in Rels : relidx[t] = r
    BY <2>1 DEF TypeOK
  <2>3. AfterSync1(r, t)
    BY <2>2 DEF AfterSync1, BeforeSync1
  <2>4. AfterSync1(r, u)
    BY <2>1, <2>3 DEF Met
  <2>5. relidx[u] \in {0, 1} /\ r \in {0, 1}
    BY <2>1 DEF TypeOK, Rels
  <2> QED
    BY <2>2, <2>4, <2>5 DEF AfterSync1
<1> QED
  BY <1>1, PassKeepsAccount, PTL

(* No tuple is stored outside tmpRelR and tmpRelS, by plain stores or by   *)
(* whole lines.                                                            *)
THEOREM PassStaysInMemory == PassSpec => []WithinAllocation
<1>1. PassInv => WithinAllocation
  BY DEF PassInv, Account, NothingElse, WithinAllocation
<1> QED
  BY <1>1, PassKeepsAccount, PTL

(* Where threads do not share a line, the buffers lose and reorder nothing.*)
THEOREM UnreachedSlotsAreRight == PassSpec => []UnreachedSlotsRight
<1> QED
  BY UnreachedRight, PassKeepsAccount, PTL

(* Whatever is in a partition's slot belongs there, or is garbage. *)
THEOREM NothingIsMisplaced == PassSpec => []NothingMisplaced
<1> QED
  BY MisplacedNothing, PassKeepsAccount, PTL

-----------------------------------------------------------------------------
(***************************************************************************)
(* The contract.                                                           *)
(***************************************************************************)
(* With plain stores thread 0 sees the kept tuples of each partition, and  *)
(* their number.                                                           *)
LEMMA SeenRight ==
    ASSUME TypeOK, Places, NEW kept, Account(kept), NEW r \in Rels, Partitioned(r),
           ~program.swwc, NEW c \in Clusters
    PROVE  PartitionSeen(r, c) = [ntup |-> Cardinality(OfRadix(rel[r], kept[r], c)),
                                  tuples |-> OfRadix(rel[r], kept[r], c)]
<1> DEFINE X == rel[r]
           Q == kept[r]
           W == OfRadix(X, Q, c)
           a == Start(X, Q, 0, c)
           n == Cardinality(W)
<1>1. X \in Inputs /\ Q \subseteq 1 .. Len(X)
  BY DEF Account, KeptType, TypeOK
<1>2. 0 \in Threads /\ c \in 0 .. FanOut /\ c + 1 \in 0 .. FanOut /\ Padding \in Nat
  BY ThreadsFacts, ClusterFacts DEF Threads
<1>3. output[r][0][c] = a /\ output[r][0][c + 1] = Start(X, Q, 0, c + 1)
  BY <1>2, PartitionedParts
<1>4. InARow(X, Q, W, a) /\ Start(X, Q, 0, c + 1) = a + n + Padding
  BY <1>1, ClusterSlots
<1>5. \A p \in Q : SlotFor(X, Q, p) \in DOMAIN tmp[r] /\ tmp[r][SlotFor(X, Q, p)] = p
  <2> SUFFICES ASSUME NEW p \in Q
               PROVE  SlotFor(X, Q, p) \in DOMAIN tmp[r] /\ tmp[r][SlotFor(X, Q, p)] = p
    OBVIOUS
  <2>1. PICK t \in Threads : p \in Chunk(X, t)
    BY <1>1, Chunks
  <2>2. p \in Q \cap Chunk(X, t) /\ ~Exposed(kept, r, t, p)
    BY <2>1 DEF Exposed
  <2> QED
    BY <2>2, PartitionedParts
<1>6. /\ a \in Nat /\ n \in Nat /\ W \subseteq Q
      /\ \A p \in W : SlotFor(X, Q, p) \in a .. a + n - 1
      /\ \A x \in a .. a + n - 1 : \E p \in W : SlotFor(X, Q, p) = x
  <2>1. W \subseteq Q
    BY DEF OfRadix
  <2> HIDE DEF X, Q, W, a
  <2> QED
    BY <1>4, <2>1 DEF InARow
<1> DEFINE ntup == output[r][0][c + 1] - output[r][0][c] - Padding
           V(x) == IF x \in DOMAIN tmp[r] THEN tmp[r][x] ELSE 0
<1>7. ntup = n
  <2>1. ntup = (a + n + Padding) - a - Padding
    BY <1>3, <1>4
  <2> HIDE DEF a, n, ntup
  <2> QED
    BY <1>2, <1>6, <2>1
<1>8. PartitionSeen(r, c) = [ntup |-> ntup, tuples |-> {V(x) : x \in a .. a + ntup - 1}]
  BY <1>3 DEF PartitionSeen
<1>9. {V(x) : x \in a .. a + n - 1} = W
  <2>1. ASSUME NEW x \in a .. a + n - 1 PROVE V(x) \in W
    <3>1. PICK p \in W : SlotFor(X, Q, p) = x
      BY <1>6
    <3> QED
      BY <1>5, <1>6, <3>1
  <2>2. ASSUME NEW p \in W PROVE \E x \in a .. a + n - 1 : V(x) = p
    <3>1. SlotFor(X, Q, p) \in a .. a + n - 1 /\ V(SlotFor(X, Q, p)) = p
      BY <1>5, <1>6
    <3> QED
      BY <3>1
  <2> HIDE DEF W, a, n, V
  <2> QED
    BY <2>1, <2>2
<1> QED
  BY <1>7, <1>8, <1>9

(* So the partitions are what the contract makes of the kept tuples.       *)
LEMMA SeenIsPartitions ==
    ASSUME TypeOK, Places, NEW kept, Account(kept), NEW r \in Rels, Partitioned(r),
           ~program.swwc
    PROVE  [c \in Clusters |-> PartitionSeen(r, c)] = PlainContract!PartitionsOf(r, kept[r])
<1>1. \A c \in Clusters : PartitionSeen(r, c) = [ntup |-> Cardinality(OfRadix(rel[r], kept[r], c)),
                                                 tuples |-> OfRadix(rel[r], kept[r], c)]
  BY SeenRight
<1>2. \A c : OfRadix(rel[r], kept[r], c) = {p \in kept[r] : PlainContract!Radix(rel[r][p]) = c}
  BY DEF OfRadix, RadixOf, HASH_BIT_MODULO, PlainContract!Radix
<1>3. PlainContract!Clusters = Clusters
  BY DEF Clusters, PlainContract!Clusters
<1>4. \A S : PlainContract!Cardinality(S) = Cardinality(S)
  BY DEF PlainContract!Cardinality, Cardinality
<1>5. PlainContract!PartitionsOf(r, kept[r]) =
         [c \in Clusters |-> [ntup |-> Cardinality(OfRadix(rel[r], kept[r], c)),
                              tuples |-> OfRadix(rel[r], kept[r], c)]]
  BY <1>2, <1>3, <1>4 DEF PlainContract!PartitionsOf
<1> QED
  BY <1>1, <1>5

(* All of R is kept, and of S what has a partner.                          *)
LEMMA KeptRight ==
    ASSUME TypeOK, Places, NEW kept, Account(kept)
    PROVE  /\ Partitioned(0) => kept[0] = DOMAIN rel[0]
           /\ Partitioned(1) => /\ kept[1] \subseteq DOMAIN rel[1]
                                /\ \A p \in DOMAIN rel[1] :
                                      HasPartner(rel[1][p]) => p \in kept[1]
<1>1. ASSUME NEW r \in Rels PROVE rel[r] \in Inputs /\ DOMAIN rel[r] = 1 .. Len(rel[r])
                                  /\ kept[r] \subseteq 1 .. Len(rel[r])
  <2>1. rel[r] \in Seq(Keys) /\ rel[r] \in Inputs
    BY InputsAssumption DEF TypeOK
  <2> QED
    BY <2>1 DEF Account, KeptType
<1>2. 0 \in Rels /\ 1 \in Rels
  BY DEF Rels
<1>3. ASSUME Partitioned(0) PROVE kept[0] = DOMAIN rel[0]
  <2>1. \A t \in Threads : Chunk(rel[0], t) \subseteq kept[0]
    BY <1>2, <1>3, PartitionedParts
  <2>2. \A p \in 1 .. Len(rel[0]) : p \in kept[0]
    BY <1>1, <1>2, <2>1, Chunks
  <2> QED
    BY <1>1, <1>2, <2>2
<1>4. ASSUME Partitioned(1), NEW p \in DOMAIN rel[1], HasPartner(rel[1][p]) PROVE p \in kept[1]
  <2>1. PICK t \in Threads : p \in Chunk(rel[1], t)
    BY <1>1, <1>2, Chunks
  <2>2. relidx[t] = 1 /\ pc[t] = "done"
    BY <1>4 DEF Partitioned, TypeOK, Rels, Places, PlaceOf
  <2>3. KeptAt(kept, 1, t)
    BY <1>2 DEF Account, AccountOf
  <2> QED
    BY <1>4, <2>1, <2>2, <2>3 DEF KeptAt
<1> QED
  BY <1>1, <1>2, <1>3, <1>4

(* Threads at work are neither done nor made so by their own step. *)
LEMMA ThreadNotDone ==
    ASSUME TypeOK, NEW t \in Threads, PassThread(t)
    PROVE  pc[t] # "done" /\ pc'[t] # "done"
<1>1. CASE AddBit(t) \/ TestBit(t) \/ FilterOut(t) \/ CountTuple(t) \/ PrefixSum(t) \/ CountAll(t)
           \/ AddRow(t) \/ CopyTuple(t) \/ SkipTuple(t) \/ BufferTuple(t) \/ FlushLine(t)
           \/ WriteRemainder(t)
  BY <1>1 DEF AddBit, TestBit, FilterOut, CountTuple, PrefixSum, CountAll, AddRow, CopyTuple,
      SkipTuple, BufferTuple, FlushLine, WriteRemainder, InHistogram, InCopy
<1>2. CASE HistogramDone(t) \/ CountAllDone(t) \/ ArriveAtSync1(t) \/ PadToTotal(t)
           \/ AddPadding(t) \/ SetSlots(t)
  BY <1>2 DEF HistogramDone, CountAllDone, ArriveAtSync1, PadToTotal, AddPadding, SetSlots, TypeOK
<1>3. CASE ArriveAtSync2(t) \/ CopyDone(t) \/ Return(t) \/ NextRelation(t)
  BY <1>3 DEF ArriveAtSync2, CopyDone, Return, NextRelation, CopiedOut, TypeOK
<1> QED
  BY <1>1, <1>2, <1>3, PassThreadSteps

(* A relation once partitioned stays so, and nobody touches it again.      *)
LEMMA PartitionedStays ==
    ASSUME TypeOK, Met, Places, [PassNext]_passVars, NEW r \in Rels, Partitioned(r)
    PROVE  Partitioned(r)' /\ tmp'[r] = tmp[r] /\ output'[r][0] = output[r][0]
<1>1. /\ r \in {0, 1} /\ 0 \in Threads
      /\ \A t \in Threads : relidx[t] \in {0, 1} /\ (pc[t] = "done" => relidx[t] = 1)
  BY ThreadsFacts DEF TypeOK, Rels, Threads, Places, PlaceOf
<1>2. ASSUME NEW t \in Threads, PassThread(t)
      PROVE  Partitioned(r)' /\ tmp'[r] = tmp[r] /\ output'[r][0] = output[r][0]
  <2>1. pc[t] # "done"
    BY <1>2, ThreadNotDone
  <2>2. r = 0 /\ \A u \in Threads : relidx[u] = 1
    BY <1>1, <2>1 DEF Partitioned
  <2>3. OnlyThread(t) /\ relidx' = relidx
    BY <1>2, <2>2, StepOnlyThread, SidesKept DEF Places, NextRelation
  <2>4. SameRows(0, 0) /\ tmp'[0] = tmp[0]
    BY <1>1, <2>2, <2>3 DEF OnlyThread, Rels
  <2> QED
    BY <2>2, <2>3, <2>4 DEF Partitioned, SameRows
<1>3. CASE PassBarrier
  <2>1. tmp' = tmp /\ output' = output
    BY <1>3, BarrierOpens
  <2>2. Partitioned(r)'
    BY <1>1, <1>3, BarrierOpens DEF Partitioned
  <2> QED
    BY <2>1, <2>2
<1>4. CASE PassDone \/ passVars' = passVars
  BY <1>4 DEF PassDone, Done, passVars, swwcVars, vars, Partitioned
<1> QED
  BY <1>2, <1>3, <1>4 DEF PassNext

(* The relations are partitioned one after the other. *)
LEMMA PartitionedInOrder ==
    ASSUME TypeOK, Met, Places, [PassNext]_passVars, Partitioned(1)'
    PROVE  Partitioned(0)
<1>1. /\ 0 \in Threads
      /\ \A t \in Threads : relidx[t] \in {0, 1} /\ (pc[t] = "done" => relidx[t] = 1)
  BY ThreadsFacts DEF TypeOK, Rels, Threads, Places, PlaceOf
<1>2. \A t \in Threads : pc'[t] = "done"
  <2>1. TypeOK'
    BY PassNextPlaces
  <2>2. \A t \in Threads : relidx'[t] \in {0, 1}
    BY <2>1 DEF TypeOK, Rels
  <2> QED
    BY <2>2 DEF Partitioned
<1>3. \A t \in Threads : ~PassThread(t)
  BY <1>2, ThreadNotDone
<1>4. CASE PassBarrier
  <2>1. \A t \in Threads : relidx[t] = 1
    BY <1>1, <1>2, <1>4, BarrierOpens
  <2> QED
    BY <2>1 DEF Partitioned
<1>5. CASE PassDone \/ passVars' = passVars
  <2>1. pc' = pc
    BY <1>5 DEF PassDone, Done, passVars, swwcVars, vars
  <2> QED
    BY <1>1, <1>2, <2>1 DEF Partitioned
<1> QED
  BY <1>3, <1>4, <1>5 DEF PassNext

(* What the contract's variable stands for. *)
PartOf(r) == IF ~program.swwc /\ Partitioned(r) THEN [c \in Clusters |-> PartitionSeen(r, c)]
             ELSE <<>>

(* Once it is there it is what the contract makes of some tuples: of all of *)
(* R, and of those of S that have a partner, at least.                     *)
PartRight(r) ==
    ~program.swwc /\ Partitioned(r) =>
        \E positions \in SUBSET (DOMAIN rel[r]) :
            /\ PartOf(r) = PlainContract!PartitionsOf(r, positions)
            /\ r = 0 => positions = DOMAIN rel[0]
            /\ r = 1 => \A p \in DOMAIN rel[1] : HasPartner(rel[1][p]) => p \in positions

PartsRight == \A r \in Rels : PartRight(r)

(* The account shows what these tuples are: the counted ones. *)
LEMMA AccountMakesParts == PassInv => PartsRight
<1> SUFFICES ASSUME PassInv, NEW r \in Rels, ~program.swwc, Partitioned(r)
             PROVE  \E positions \in SUBSET (DOMAIN rel[r]) :
                       /\ PartOf(r) = PlainContract!PartitionsOf(r, positions)
                       /\ r = 0 => positions = DOMAIN rel[0]
                       /\ r = 1 => \A p \in DOMAIN rel[1] :
                                      HasPartner(rel[1][p]) => p \in positions
  BY DEF PartsRight, PartRight
<1>1. PICK kept : Account(kept)
  BY DEF PassInv
<1>2. TypeOK /\ Places /\ (r = 0 \/ r = 1)
  BY DEF PassInv, Rels
<1>3. PartOf(r) = PlainContract!PartitionsOf(r, kept[r])
  BY <1>1, <1>2, SeenIsPartitions DEF PartOf
<1>4. /\ r = 0 => kept[r] = DOMAIN rel[0]
      /\ r = 1 => /\ kept[r] \subseteq DOMAIN rel[1]
                  /\ \A p \in DOMAIN rel[1] : HasPartner(rel[1][p]) => p \in kept[r]
  BY <1>1, <1>2, KeptRight
<1> QED
  BY <1>2, <1>3, <1>4

(* At first nothing is partitioned. *)
LEMMA InitIsContractInit == PassInit => PlainContract!Init
<1> SUFFICES ASSUME PassInit PROVE PlainContract!Init
  OBVIOUS
<1>1. rel \in [{0, 1} -> Inputs] /\ Rels = {0, 1}
  BY DEF PassInit, Rels
<1>2. \A r \in Rels : ~Partitioned(r)
  <2>1. 0 \in Threads
    BY ThreadsFacts DEF Threads
  <2>2. relidx[0] = 0 /\ pc[0] # "done"
    BY <2>1 DEF PassInit, FirstLoop
  <2> QED
    BY <2>1, <2>2 DEF Partitioned, Rels
<1>3. [r \in Rels |-> PartOf(r)] = [r \in {0, 1} |-> <<>>]
  BY <1>1, <1>2 DEF PartOf
<1> QED
  BY <1>1, <1>3 DEF PlainContract!Init, PlainContract!Unpartitioned, PartOf

(* A step partitions one relation as the contract says, or none.           *)
LEMMA StepIsContractStep ==
    ASSUME PassInv, PassInv', PartsRight', [PassNext]_passVars
    PROVE  [PlainContract!Next]_<<rel, [r \in Rels |-> PartOf(r)]>>
<1> DEFINE P == [r \in Rels |-> PartOf(r)]
<1>1. /\ TypeOK /\ Met /\ Places
      /\ 0 \in Rels /\ 1 \in Rels /\ Rels = {0, 1}
  BY DEF PassInv, Rels
<1>2. rel' = rel /\ program' = program
  <2>1. CASE \E t \in Threads : PassThread(t)
    BY <1>1, <2>1, StepOnlyThread DEF Places, OnlyThread
  <2>2. CASE PassBarrier
    BY <1>1, <2>2, BarrierOpens
  <2>3. CASE PassDone \/ passVars' = passVars
    BY <2>3 DEF PassDone, Done, passVars, swwcVars, vars
  <2> QED
    BY <2>1, <2>2, <2>3 DEF PassNext
<1>4. ASSUME NEW r \in Rels, program.swwc PROVE PartOf(r)' = PartOf(r)
  BY <1>2, <1>4 DEF PartOf
<1>5. ASSUME NEW r \in Rels, Partitioned(r) PROVE PartOf(r)' = PartOf(r)
  <2>1. Partitioned(r)' /\ tmp'[r] = tmp[r] /\ output'[r][0] = output[r][0]
    BY <1>1, <1>5, PartitionedStays
  <2>2. \A c : PartitionSeen(r, c)' = PartitionSeen(r, c)
    BY <2>1 DEF PartitionSeen
  <2> QED
    BY <1>2, <1>5, <2>1, <2>2 DEF PartOf
<1>6. ASSUME NEW r \in Rels, ~Partitioned(r)' PROVE PartOf(r)' = PartOf(r)
  <2>1. ~Partitioned(r)
    BY <1>1, <1>6, PartitionedStays
  <2> QED
    BY <1>6, <2>1 DEF PartOf
<1>7. ASSUME NEW r \in Rels, ~program.swwc, Partitioned(r)'
      PROVE  \E positions \in SUBSET (DOMAIN rel[r]) :
                /\ PartOf(r)' = PlainContract!PartitionsOf(r, positions)
                /\ r = 0 => positions = DOMAIN rel[0]
                /\ r = 1 => \A p \in DOMAIN rel[1] : HasPartner(rel[1][p]) => p \in positions
  <2>1. PartRight(r)' /\ ~program'.swwc
    BY <1>2, <1>7 DEF PartsRight
  <2>2. \A Q : PlainContract!PartitionsOf(r, Q)' = PlainContract!PartitionsOf(r, Q)
    BY <1>2 DEF PlainContract!PartitionsOf, PlainContract!Radix
  <2>3. \A key : HasPartner(key)' <=> HasPartner(key)
    BY <1>2 DEF HasPartner
  <2> QED
    BY <1>2, <1>7, <2>1, <2>2, <2>3 DEF PartRight
<1>8. ASSUME NEW r \in Rels PROVE PartOf(r) = <<>> <=> program.swwc \/ ~Partitioned(r)
  <2>1. [c \in Clusters |-> PartitionSeen(r, c)] # <<>>
    <3>1. 0 \in Clusters /\ 0 \notin DOMAIN <<>>
      BY ClusterFacts DEF Clusters
    <3>2. DOMAIN [c \in Clusters |-> PartitionSeen(r, c)] = Clusters
      OBVIOUS
    <3> QED
      BY <3>1, <3>2
  <2> QED
    BY <2>1 DEF PartOf
<1>9. P[0] = PartOf(0) /\ P[1] = PartOf(1)
      /\ P' = [r \in Rels |-> PartOf(r)']
  BY <1>1
<1>10. CASE program.swwc
  <2>1. P' = P
    BY <1>4, <1>10
  <2> QED
    BY <1>2, <2>1
<1>11. CASE ~program.swwc /\ Partitioned(0)' /\ ~Partitioned(0)
  <2>1. ~Partitioned(1)'
    BY <1>1, <1>11, PartitionedInOrder
  <2>2. PartOf(0) = <<>> /\ PartOf(1)' = PartOf(1)
    BY <1>1, <1>6, <1>8, <1>11, <2>1
  <2>3. PartOf(0)' = PlainContract!PartitionsOf(0, DOMAIN rel[0])
    BY <1>1, <1>7, <1>11
  <2>4. P' = [P EXCEPT ![0] = PlainContract!PartitionsOf(0, DOMAIN rel[0])]
    BY <1>1, <2>2, <2>3
  <2>5. PlainContract!PartitionR
    BY <1>2, <1>9, <2>2, <2>4 DEF PlainContract!PartitionR, PlainContract!Unpartitioned, PartOf
  <2> QED
    BY <2>5 DEF PlainContract!Next
<1>12. CASE ~program.swwc /\ Partitioned(1)' /\ ~Partitioned(1)
  <2>1. Partitioned(0)
    BY <1>1, <1>12, PartitionedInOrder
  <2>2. PartOf(0) # <<>> /\ PartOf(1) = <<>> /\ PartOf(0)' = PartOf(0)
    BY <1>1, <1>5, <1>8, <1>12, <2>1
  <2>3. PICK positions \in SUBSET (DOMAIN rel[1]) :
           /\ PartOf(1)' = PlainContract!PartitionsOf(1, positions)
           /\ \A p \in DOMAIN rel[1] : HasPartner(rel[1][p]) => p \in positions
    BY <1>1, <1>7, <1>12
  <2>4. P' = [P EXCEPT ![1] = PlainContract!PartitionsOf(1, positions)]
    BY <1>1, <2>2, <2>3
  <2>5. \A p \in DOMAIN rel[1] : PlainContract!HasPartner(p) => p \in positions
    BY <2>3 DEF PlainContract!HasPartner, HasPartner
  <2>6. PlainContract!PartitionS
    BY <1>2, <1>9, <2>2, <2>4, <2>5 DEF PlainContract!PartitionS, PlainContract!Unpartitioned, PartOf
  <2> QED
    BY <2>6 DEF PlainContract!Next
<1>13. CASE \A r \in Rels : Partitioned(r) \/ ~Partitioned(r)'
  <2>1. \A r \in Rels : PartOf(r)' = PartOf(r)
    BY <1>5, <1>6, <1>13
  <2>2. P' = P
    BY <2>1
  <2> QED
    BY <1>2, <2>2
<1> QED
  BY <1>1, <1>10, <1>11, <1>12, <1>13

(* With plain stores the pass does what PartitionContract says, with the   *)
(* filter and the barrier between the relations and without them.          *)
THEOREM PlainPassKeepsContract == PassSpec => PlainImplementsContract
<1>1. PassInit => PlainContract!Init
  BY InitIsContractInit
<1>2. PassInv /\ PassInv' /\ PartsRight' /\ [PassNext]_passVars =>
         [PlainContract!Next]_<<rel, [r \in Rels |-> IF ~program.swwc /\ Partitioned(r)
                                      THEN [c \in Clusters |-> PartitionSeen(r, c)]
                                      ELSE <<>>]>>
  BY StepIsContractStep DEF PartOf
<1>3. PassInv => PartsRight
  BY AccountMakesParts
<1> QED
  BY <1>1, <1>2, <1>3, PassKeepsAccount, PTL DEF PassSpec, PlainImplementsContract, PlainContract!Spec
=============================================================================
