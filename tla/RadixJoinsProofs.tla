-------------------------- MODULE RadixJoinsProofs --------------------------
(***************************************************************************)
(* Proofs about the radix joins, for any number of threads, any relations, *)
(* any radix bits and any paddings.                                        *)
(*                                                                         *)
(* First the arithmetic of clusters: sizes, sums of sizes and starts with  *)
(* padding, from counting the positions of tuples.  Then what the join     *)
(* functions return and write.  Then, for each of the invariants of        *)
(* RadixJoinsInvariants, that it holds at first and that every step keeps  *)
(* it, and the theorems that follow: types, tasks apart, right clusters,   *)
(* right results.                                                          *)
(***************************************************************************)
EXTENDS RadixJoinsInvariants, FiniteSetTheorems, SequenceTheorems, WellFoundedInduction, TLAPS

(* Products of counts are counts. *)
LEMMA ProductNat == ASSUME NEW a \in Nat, NEW b \in Nat PROVE a * b \in Nat
  OBVIOUS

(* There are n numbers from 1 to n. *)
LEMMA Interval == ASSUME NEW n \in Nat PROVE IsFiniteSet(1 .. n) /\ Cardinality(1 .. n) = n
  BY FS_Interval

(* Multiplication preserves the order. *)
LEMMA ProductMonotone ==
    ASSUME NEW a \in Nat, NEW b \in Nat, NEW c \in Nat, a <= b
    PROVE  a * c <= b * c
<1>1. PICK d \in Nat : b = a + d
  <2>1. b - a \in Nat /\ b = a + (b - a)
    OBVIOUS
  <2> QED
    BY <2>1
<1>2. b * c = a * c + d * c
  BY <1>1
<1>3. d * c \in Nat /\ a * c \in Nat
  BY ProductNat
<1> QED
  BY <1>2, <1>3

(* A power of 2 is the number of subsets of a set of so many elements. *)
LEMMA PowerNat == ASSUME NEW n \in Nat PROVE 2 ^ n \in Nat \ {0}
<1> DEFINE D == 1 .. n
<1>1. IsFiniteSet(D) /\ Cardinality(D) = n
  BY FS_Interval
<1>2. IsFiniteSet(SUBSET D) /\ Cardinality(SUBSET D) = 2 ^ n
  BY <1>1, FS_SUBSET
<1>3. Cardinality(SUBSET D) \in Nat
  BY <1>2, FS_CardinalityType
<1>4. Cardinality(SUBSET D) # 0
  <2>1. {} \in SUBSET D
    OBVIOUS
  <2>2. SUBSET D # {}
    BY <2>1
  <2> QED
    BY <1>2, <2>2, FS_EmptySet
<1> QED
  BY <1>2, <1>3, <1>4

(* Two finite sets that a function pairs off have equally many elements. *)
LEMMA PairedOff ==
    ASSUME NEW S, NEW T, IsFiniteSet(S), NEW f \in [S -> T],
           \A x, y \in S : f[x] = f[y] => x = y,
           \A y \in T : \E x \in S : f[x] = y
    PROVE  Cardinality(T) = Cardinality(S)
<1>1. f \in Bijection(S, T)
  BY DEF Bijection, Injection, Surjection, IsInjective
<1> QED
  BY <1>1, FS_Bijection DEF ExistsBijection

(* Two finite sets that a relation pairs off have equally many elements. *)
LEMMA PairedBy ==
    ASSUME NEW S, NEW T, IsFiniteSet(S), NEW R,
           \A x \in S : \E y \in T : <<x, y>> \in R,
           \A y \in T : \E x \in S : <<x, y>> \in R,
           \A x \in S, y, z \in T : <<x, y>> \in R /\ <<x, z>> \in R => y = z,
           \A x, y \in S, z \in T : <<x, z>> \in R /\ <<y, z>> \in R => x = y
    PROVE  Cardinality(T) = Cardinality(S)
<1> DEFINE f == [x \in S |-> CHOOSE y \in T : <<x, y>> \in R]
<1>1. \A x \in S : f[x] \in T /\ <<x, f[x]>> \in R
  OBVIOUS
<1>2. f \in [S -> T]
  BY <1>1
<1> HIDE DEF f
<1>3. \A x, y \in S : f[x] = f[y] => x = y
  BY <1>1
<1>4. \A y \in T : \E x \in S : f[x] = y
  <2> TAKE y \in T
  <2>1. PICK x \in S : <<x, y>> \in R
    OBVIOUS
  <2>2. f[x] = y
    BY <1>1, <2>1
  <2> QED
    BY <2>2
<1> QED
  BY <1>2, <1>3, <1>4, PairedOff

(* The functions of the module of the parallel joins are those of this     *)
(* one.                                                                    *)
LEMMA CardinalitySame == ASSUME NEW S PROVE Parallel!Cardinality(S) = Cardinality(S)
  BY DEF Parallel!Cardinality, Cardinality

(* Likewise the sizes that the radix bits and the padding give. *)
LEMMA SizesSame ==
    /\ Parallel!FANOUT_PASS1 = FANOUT_PASS1
    /\ Parallel!FANOUT_PASS2 = FANOUT_PASS2
    /\ Parallel!PADDING_TUPLES = PADDING_TUPLES
    /\ Parallel!RELATION_PADDING = RELATION_PADDING
  BY DEF Parallel!FANOUT_PASS1, FANOUT_PASS1, Parallel!FANOUT_PASS2, FANOUT_PASS2,
     Parallel!PADDING_TUPLES, PADDING_TUPLES, Parallel!RELATION_PADDING, RELATION_PADDING

(* Likewise the offsets of clusters. *)
LEMMA SumSame == ASSUME NEW h, NEW c PROVE Parallel!SumBelow(h, c) = SumBelow(h, c)
  BY CardinalitySame DEF Parallel!SumBelow, SumBelow

(* How many tuples of X there are with each value of the radix bits. *)
LEMMA HistogramIs ==
    ASSUME NEW X, NEW shift, NEW fanOut
    PROVE  /\ Histogram(X, shift, fanOut) =
                [c \in 0 .. fanOut - 1 |->
                    Cardinality({x \in 1 .. Len(X) : HASH_BIT_MODULO(X[x], shift, fanOut) = c})]
           /\ Parallel!Histogram(X, shift, fanOut) = Histogram(X, shift, fanOut)
<1>1. Histogram(X, shift, fanOut) =
        [c \in 0 .. fanOut - 1 |->
            Cardinality({x \in 1 .. Len(X) : HASH_BIT_MODULO(X[x], shift, fanOut) = c})]
  BY DEF Histogram, CountIf
<1>2. Parallel!Histogram(X, shift, fanOut) =
        [c \in 0 .. fanOut - 1 |->
            Parallel!Cardinality({x \in 1 .. Len(X) : HASH_BIT_MODULO(X[x], shift, fanOut) = c})]
  BY DEF Parallel!Histogram, Parallel!CountIf, Parallel!HASH_BIT_MODULO, HASH_BIT_MODULO
<1> QED
  BY <1>1, <1>2, CardinalitySame

(* The tuples before a cluster are those with a smaller radix. *)
LEMMA ClustersBefore ==
    ASSUME NEW n \in Nat, NEW g, NEW c \in Nat, NEW h,
           \A d \in 0 .. c - 1 : h[d] = Cardinality(With(g, n, d))
    PROVE  SumBelow(h, c) = Cardinality(WithBelow(g, n, c))
<1> USE DEF With, WithBelow
<1> DEFINE Of(d) == With(g, n, d)
           U == WithBelow(g, n, c)
           Pairs == UNION {{d} \X (1 .. h[d]) : d \in 0 .. c - 1}
           B == [d \in 0 .. c - 1 |-> CHOOSE f : f \in Bijection(1 .. h[d], Of(d))]
           R == {p \in U \X Pairs : B[p[2][1]][p[2][2]] = p[1]}
<1>1. IsFiniteSet(1 .. n)
  BY FS_Interval
<1>2. IsFiniteSet(U)
  BY <1>1, FS_Subset
<1>3. ASSUME NEW d \in 0 .. c - 1 PROVE B[d] \in Bijection(1 .. h[d], Of(d))
  <2>1. IsFiniteSet(Of(d))
    BY <1>1, FS_Subset
  <2>2. ExistsBijection(1 .. h[d], Of(d))
    <3>1. h[d] = Cardinality(Of(d)) /\ h[d] \in Nat
      BY <2>1, FS_CardinalityType
    <3> HIDE DEF Of
    <3> QED
      BY <2>1, <3>1, FS_CardinalityType
  <2> QED
    BY <2>2 DEF ExistsBijection
<1> HIDE DEF B
<1>4. ASSUME NEW d \in 0 .. c - 1
      PROVE  /\ \A k \in 1 .. h[d] : B[d][k] \in Of(d)
             /\ \A k, l \in 1 .. h[d] : B[d][k] = B[d][l] => k = l
             /\ \A x \in Of(d) : \E k \in 1 .. h[d] : B[d][k] = x
  <2> HIDE DEF Of
  <2> QED
    BY <1>3 DEF Bijection, Injection, Surjection, IsInjective
<1>5. \A e : e \in Pairs <=> \E d \in 0 .. c - 1 : \E k \in 1 .. h[d] : e = <<d, k>>
  OBVIOUS
<1> HIDE DEF Pairs
<1>6. \A x \in U : \E e \in Pairs : <<x, e>> \in R
  <2> TAKE x \in U
  <2>1. g[x] \in 0 .. c - 1 /\ x \in Of(g[x])
    OBVIOUS
  <2>2. PICK k \in 1 .. h[g[x]] : B[g[x]][k] = x
    BY <1>4, <2>1
  <2>3. <<g[x], k>> \in Pairs
    BY <1>5, <2>1
  <2> QED
    BY <2>2, <2>3
<1>7. \A e \in Pairs : \E x \in U : <<x, e>> \in R
  <2> TAKE e \in Pairs
  <2>1. PICK d \in 0 .. c - 1 : \E k \in 1 .. h[d] : e = <<d, k>>
    BY <1>5
  <2>2. PICK k \in 1 .. h[d] : e = <<d, k>>
    BY <2>1
  <2>3. B[d][k] \in U
    BY <1>4
  <2> QED
    BY <2>2, <2>3
<1>8. \A x \in U, e, f \in Pairs : <<x, e>> \in R /\ <<x, f>> \in R => e = f
  <2> TAKE x \in U, e \in Pairs, f \in Pairs
  <2> HAVE <<x, e>> \in R /\ <<x, f>> \in R
  <2>1. PICK d \in 0 .. c - 1 : \E k \in 1 .. h[d] : e = <<d, k>>
    BY <1>5
  <2>2. PICK k \in 1 .. h[d] : e = <<d, k>>
    BY <2>1
  <2>3. PICK a \in 0 .. c - 1 : \E l \in 1 .. h[a] : f = <<a, l>>
    BY <1>5
  <2>4. PICK l \in 1 .. h[a] : f = <<a, l>>
    BY <2>3
  <2>5. B[d][k] = x /\ B[a][l] = x
    BY <2>2, <2>4
  <2>6. x \in Of(d) /\ x \in Of(a)
    BY <1>4, <2>5
  <2>7. d = a
    BY <2>6
  <2> QED
    BY <1>4, <2>2, <2>4, <2>5, <2>7
<1>9. \A x, y \in U, e \in Pairs : <<x, e>> \in R /\ <<y, e>> \in R => x = y
  OBVIOUS
<1> HIDE DEF U, R
<1>10. Cardinality(Pairs) = Cardinality(U)
  BY <1>2, <1>6, <1>7, <1>8, <1>9, PairedBy
<1> QED
  BY <1>10 DEF SumBelow, Pairs, U

(* Clusters lie behind each other, all of them within the relation. *)
LEMMA ClusterSizes ==
    ASSUME NEW X, Len(X) \in Nat, NEW shift, NEW fanOut \in Nat,
           NEW c \in 0 .. fanOut - 1
    PROVE  LET h == Histogram(X, shift, fanOut)
           IN  /\ h[c] \in Nat /\ SumBelow(h, c) \in Nat
               /\ SumBelow(h, c) + h[c] <= Len(X)
               /\ \A d \in c + 1 .. fanOut - 1 : SumBelow(h, c) + h[c] <= SumBelow(h, d)
<1> DEFINE n == Len(X)
           h == Histogram(X, shift, fanOut)
           g == [x \in 1 .. n |-> HASH_BIT_MODULO(X[x], shift, fanOut)]
           Below(d) == WithBelow(g, n, d)
           Of == With(g, n, c)
<1>1. h = [d \in 0 .. fanOut - 1 |-> Cardinality(With(g, n, d))]
  <2>1. \A d : With(g, n, d) = {x \in 1 .. n : HASH_BIT_MODULO(X[x], shift, fanOut) = d}
    BY DEF With
  <2>2. h = [d \in 0 .. fanOut - 1 |->
                Cardinality({x \in 1 .. n : HASH_BIT_MODULO(X[x], shift, fanOut) = d})]
    BY HistogramIs
  <2> HIDE DEF h, g
  <2> QED
    BY <2>1, <2>2
<1> HIDE DEF h, g
<1>2. ASSUME NEW d \in 0 .. fanOut - 1
      PROVE  SumBelow(h, d) = Cardinality(Below(d))
  <2>1. \A e \in 0 .. d - 1 : h[e] = Cardinality(With(g, n, e))
    BY <1>1
  <2>2. n \in Nat /\ d \in Nat
    OBVIOUS
  <2> HIDE DEF n
  <2> QED
    BY <2>1, <2>2, ClustersBefore
<1>3. h[c] = Cardinality(Of)
  BY <1>1
<1>4. IsFiniteSet(1 .. n) /\ Cardinality(1 .. n) = n
  <2>1. n \in Nat
    OBVIOUS
  <2> HIDE DEF n
  <2> QED
    BY <2>1, Interval
<1>5. IsFiniteSet(Of) /\ Of \subseteq 1 .. n
  BY <1>4, FS_Subset DEF With, WithBelow
<1>6. \A d : IsFiniteSet(Below(d)) /\ Below(d) \subseteq 1 .. n
  BY <1>4, FS_Subset DEF With, WithBelow
<1>7. Below(c) \cap Of = {}
  BY DEF With, WithBelow
<1>8. Cardinality(Below(c) \cup Of) = Cardinality(Below(c)) + Cardinality(Of)
  <2>1. Cardinality(Below(c) \cap Of) = 0
    BY <1>7, FS_EmptySet
  <2>2. Cardinality(Below(c)) \in Nat /\ Cardinality(Of) \in Nat
    BY <1>5, <1>6, FS_CardinalityType
  <2> HIDE DEF Below, Of
  <2>3. Cardinality(Below(c) \cup Of) = Cardinality(Below(c)) + Cardinality(Of) - Cardinality(Below(c) \cap Of)
    BY <1>5, <1>6, FS_Union
  <2> QED
    BY <2>1, <2>2, <2>3
<1>9. Cardinality(Below(c)) \in Nat /\ Cardinality(Of) \in Nat
  BY <1>5, <1>6, FS_CardinalityType
<1>10. Cardinality(Below(c) \cup Of) <= n
  <2>1. Below(c) \cup Of \subseteq 1 .. n
    BY DEF With, WithBelow
  <2> HIDE DEF Below, Of
  <2> QED
    BY <1>4, <2>1, FS_Subset
<1>11. ASSUME NEW d \in c + 1 .. fanOut - 1
       PROVE  Cardinality(Below(c) \cup Of) <= Cardinality(Below(d))
  <2>1. Below(c) \cup Of \subseteq Below(d)
    BY DEF With, WithBelow
  <2> HIDE DEF Below, Of
  <2> QED
    BY <1>6, <2>1, FS_Subset
<1>12. \A d \in c + 1 .. fanOut - 1 : d \in 0 .. fanOut - 1
  OBVIOUS
<1>13. h[c] \in Nat /\ SumBelow(h, c) \in Nat /\ SumBelow(h, c) + h[c] <= Len(X)
  BY <1>2, <1>3, <1>8, <1>9, <1>10
<1>14. \A d \in c + 1 .. fanOut - 1 : SumBelow(h, c) + h[c] <= SumBelow(h, d)
  BY <1>2, <1>3, <1>8, <1>11, <1>12
<1> QED
  BY <1>13, <1>14 DEF h

(* Sums of what is ordered are ordered. *)
LEMMA SumsOrdered ==
    ASSUME NEW a \in Nat, NEW b \in Nat, NEW e \in Nat, NEW k \in Nat, NEW l \in Nat,
           NEW padding \in Nat, a + b <= e, k + padding <= l
    PROVE  a + k + b + padding <= e + l
  OBVIOUS

(* With their padding, clusters lie behind each other as well. *)
LEMMA Layout ==
    ASSUME NEW X, Len(X) \in Nat, NEW shift, NEW fanOut \in Nat, NEW padding \in Nat,
           NEW c \in 0 .. fanOut - 1
    PROVE  /\ SizeOf(X, shift, fanOut, c) \in Nat
           /\ SizeOf(X, shift, fanOut, c) <= Len(X)
           /\ StartOf(X, shift, fanOut, padding, c) \in Nat
           /\ StartOf(X, shift, fanOut, padding, c) + SizeOf(X, shift, fanOut, c)
                <= Len(X) + (fanOut - 1) * padding
           /\ \A d \in c + 1 .. fanOut - 1 :
                StartOf(X, shift, fanOut, padding, c) + SizeOf(X, shift, fanOut, c) + padding
                    <= StartOf(X, shift, fanOut, padding, d)
<1> DEFINE h == Histogram(X, shift, fanOut)
<1>1. /\ h[c] \in Nat /\ SumBelow(h, c) \in Nat
      /\ SumBelow(h, c) + h[c] <= Len(X)
      /\ \A d \in c + 1 .. fanOut - 1 : SumBelow(h, c) + h[c] <= SumBelow(h, d)
  BY ClusterSizes
<1>2. c * padding \in Nat
  BY ProductNat
<1>3. c * padding <= (fanOut - 1) * padding /\ (fanOut - 1) * padding \in Nat
  <2>1. c \in Nat /\ fanOut - 1 \in Nat /\ c <= fanOut - 1
    OBVIOUS
  <2> QED
    BY <2>1, ProductMonotone, ProductNat
<1>4. ASSUME NEW d \in c + 1 .. fanOut - 1
      PROVE  SumBelow(h, c) + c * padding + h[c] + padding <= SumBelow(h, d) + d * padding
  <2>1. c + 1 \in Nat /\ d \in Nat /\ c + 1 <= d /\ d \in 0 .. fanOut - 1
    OBVIOUS
  <2>2. (c + 1) * padding <= d * padding /\ d * padding \in Nat
    BY <2>1, ProductMonotone, ProductNat
  <2>3. (c + 1) * padding = c * padding + padding
    OBVIOUS
  <2>4. SumBelow(h, d) \in Nat
    BY <2>1, ClusterSizes
  <2>5. SumBelow(h, c) + h[c] <= SumBelow(h, d)
    BY <1>1
  <2> HIDE DEF h
  <2>6. /\ h[c] \in Nat /\ SumBelow(h, c) \in Nat /\ SumBelow(h, d) \in Nat
        /\ c * padding \in Nat /\ d * padding \in Nat
        /\ c * padding + padding <= d * padding
    BY <1>1, <1>2, <2>2, <2>3, <2>4
  <2> QED
    BY <2>5, <2>6, SumsOrdered
<1>5. /\ SizeOf(X, shift, fanOut, c) = h[c]
      /\ \A d : StartOf(X, shift, fanOut, padding, d) = SumBelow(h, d) + d * padding
  BY DEF SizeOf, StartOf
<1> HIDE DEF h
<1>6. h[c] <= Len(X) /\ SumBelow(h, c) + c * padding \in Nat
  BY <1>1, <1>2
<1>7. SumBelow(h, c) + c * padding + h[c] <= Len(X) + (fanOut - 1) * padding
  <2>1. /\ h[c] \in Nat /\ SumBelow(h, c) \in Nat /\ c * padding \in Nat
        /\ (fanOut - 1) * padding \in Nat
    BY <1>1, <1>2, <1>3
  <2>2. SumBelow(h, c) + h[c] <= Len(X) /\ c * padding + 0 <= (fanOut - 1) * padding
    BY <1>1, <1>2, <1>3
  <2>3. SumBelow(h, c) + c * padding + h[c] + 0 <= Len(X) + (fanOut - 1) * padding
    BY <2>1, <2>2, SumsOrdered
  <2> QED
    BY <2>1, <2>3
<1> QED
  BY <1>1, <1>4, <1>5, <1>6, <1>7

(* The padding between partitions has room for that between the clusters. *)
LEMMA Sizes ==
    /\ FANOUT_PASS1 \in Nat \ {0} /\ FANOUT_PASS2 \in Nat \ {0}
    /\ NUM_RADIX \in Nat \ {0}
    /\ Margin \in Nat \ {0} /\ PADDING_TUPLES \in Nat /\ Margin <= PADDING_TUPLES
    /\ RELATION_PADDING \in Nat
    /\ (FANOUT_PASS1 - 1) * PADDING_TUPLES \in Nat
    /\ (FANOUT_PASS1 - 1) * PADDING_TUPLES + PADDING_TUPLES = RELATION_PADDING
    /\ SMALL_PADDING_TUPLES \in Nat \ {0}
<1>1. FANOUT_PASS1 \in Nat \ {0} /\ FANOUT_PASS2 \in Nat \ {0}
  BY PowerNat, BitsAssumption DEF FANOUT_PASS1, FANOUT_PASS2
<1>2. SMALL_PADDING_TUPLES \in Nat \ {0}
  BY SizesAssumption
<1>3. NUM_RADIX \in Nat \ {0}
  <2>1. FANOUT_PASS1 * FANOUT_PASS2 \in Nat
    BY <1>1, ProductNat
  <2>2. 1 * FANOUT_PASS2 <= FANOUT_PASS1 * FANOUT_PASS2
    BY <1>1, ProductMonotone
  <2> QED
    BY <1>1, <2>1, <2>2 DEF NUM_RADIX
<1>4. ASSUME NEW s \in Nat \ {0}, NEW f \in Nat \ {0}
      PROVE  (f - 1) * s \in Nat /\ s * (f + 1) = (f - 1) * s + s + s
  <2>1. f - 1 \in Nat
    OBVIOUS
  <2>2. PICK g \in Nat : f = g + 1
    BY <2>1
  <2>3. g * s \in Nat /\ (f - 1) * s = g * s
    BY <2>2, ProductNat
  <2>4. s * (f + 1) = g * s + s + s
    BY <2>2
  <2> QED
    BY <2>3, <2>4
<1>5. (FANOUT_PASS2 - 1) * SMALL_PADDING_TUPLES \in Nat
      /\ PADDING_TUPLES = (FANOUT_PASS2 - 1) * SMALL_PADDING_TUPLES + SMALL_PADDING_TUPLES
                            + SMALL_PADDING_TUPLES
  BY <1>1, <1>2, <1>4 DEF PADDING_TUPLES
<1>6. Margin \in Nat \ {0} /\ PADDING_TUPLES \in Nat /\ Margin <= PADDING_TUPLES
  BY <1>2, <1>5 DEF Margin
<1>7. ASSUME NEW s \in Nat, NEW f \in Nat \ {0}
      PROVE  (f - 1) * s \in Nat /\ (f - 1) * s + s = s * f /\ s * f \in Nat
  <2>1. f - 1 \in Nat
    OBVIOUS
  <2>2. PICK g \in Nat : f = g + 1
    BY <2>1
  <2>3. g * s \in Nat /\ (f - 1) * s = g * s
    BY <2>2, ProductNat
  <2>4. s * f = g * s + s
    BY <2>2
  <2> QED
    BY <2>3, <2>4
<1>8. /\ RELATION_PADDING \in Nat
      /\ (FANOUT_PASS1 - 1) * PADDING_TUPLES \in Nat
      /\ (FANOUT_PASS1 - 1) * PADDING_TUPLES + PADDING_TUPLES = RELATION_PADDING
  BY <1>1, <1>6, <1>7 DEF RELATION_PADDING
<1> QED
  BY <1>1, <1>2, <1>3, <1>6, <1>8

(* Inputs are pairs of finite relations. *)
LEMMA InputTypes ==
    ASSUME NEW input \in Inputs, NEW X \in Rels
    PROVE  input[X] \in Seq(Nat) /\ Len(input[X]) \in Nat
<1>1. input.R \in Seq(Nat) /\ input.S \in Seq(Nat)
  BY InputsAssumption
<1> QED
  BY <1>1 DEF Rels

(* The first pass leaves tasks for its clusters, none of them empty. *)
LEMMA FirstTasksAre ==
    ASSUME NEW input, NEW p \in Parallel!FirstPassTasks(input)
    PROVE  \E c \in 0 .. FANOUT_PASS1 - 1 :
              /\ p = FirstTask(input, c)
              /\ \A X \in Rels : SizeOf(input[X], 1, FANOUT_PASS1, c) > 0
<1> DEFINE histogram == [X \in Rels |-> Histogram(input[X], 1, FANOUT_PASS1)]
           First(X, c) == SumBelow(histogram[X], c) + c * PADDING_TUPLES
<1>1. Parallel!FirstPassTasks(input) =
        {Parallel!Task(First("R", c), histogram.R[c], First("S", c), histogram.S[c]) :
            c \in {c \in 0 .. FANOUT_PASS1 - 1 : histogram.R[c] > 0 /\ histogram.S[c] > 0}}
  BY HistogramIs, SumSame, SizesSame DEF Parallel!FirstPassTasks, Parallel!Rels, Rels
<1>2. PICK c \in 0 .. FANOUT_PASS1 - 1 :
        /\ p = Parallel!Task(First("R", c), histogram.R[c], First("S", c), histogram.S[c])
        /\ histogram.R[c] > 0 /\ histogram.S[c] > 0
  BY <1>1
<1>3. histogram.R = Histogram(input.R, 1, FANOUT_PASS1)
      /\ histogram.S = Histogram(input.S, 1, FANOUT_PASS1)
  BY DEF Rels
<1>4. p = FirstTask(input, c)
  BY <1>2, <1>3 DEF FirstTask, StartOf, SizeOf
<1>5. \A X \in Rels : SizeOf(input[X], 1, FANOUT_PASS1, c) > 0
  BY <1>2, <1>3 DEF SizeOf, Rels
<1> QED
  BY <1>4, <1>5

(* What a task of a relation consists of. *)
LEMMA TaskFields ==
    ASSUME NEW a, NEW b, NEW c, NEW d
    PROVE  LET k == Parallel!Task(a, b, c, d)
           IN  /\ k["R"].first = a /\ k["R"].n = b
               /\ k["S"].first = c /\ k["S"].n = d
  BY DEF Parallel!Task

(* What FirstTask says of each relation. *)
LEMMA FirstTaskOf ==
    ASSUME NEW input, NEW c, NEW X \in Rels
    PROVE  /\ FirstTask(input, c)[X].first = StartOf(input[X], 1, FANOUT_PASS1, PADDING_TUPLES, c)
           /\ FirstTask(input, c)[X].n = SizeOf(input[X], 1, FANOUT_PASS1, c)
  BY TaskFields DEF FirstTask, Rels

(* Two tasks in order: what is written for one ends before the other. *)
LEMMA InOrder ==
    ASSUME NEW k, NEW l, NEW X, NEW margin \in Nat,
           k[X].first \in Nat, k[X].n \in Nat, l[X].first \in Nat, l[X].n \in Nat,
           k[X].first + k[X].n + margin <= l[X].first
    PROVE  Parallel!Reach(k, X, margin) \cap Parallel!Reach(l, X, margin) = {}
  BY DEF Parallel!Reach

(* The partitions that the first pass leaves are apart, with what may be   *)
(* written behind them in the second pass.                                 *)
LEMMA FirstTasksApart ==
    ASSUME NEW input \in Inputs, NEW p \in Parallel!FirstPassTasks(input), NEW X \in Rels
    PROVE  /\ p[X].first \in Nat /\ p[X].n \in 1 .. Len(input[X])
           /\ p[X].first + p[X].n + Margin <= Len(input[X]) + RELATION_PADDING
           /\ Parallel!Reach(p, X, Margin) \subseteq 0 .. Len(input[X]) + RELATION_PADDING - 1
           /\ \A q \in Parallel!FirstPassTasks(input) \ {p} :
                Parallel!Reach(p, X, Margin) \cap Parallel!Reach(q, X, Margin) = {}
<1> DEFINE Start(c) == StartOf(input[X], 1, FANOUT_PASS1, PADDING_TUPLES, c)
           Size(c) == SizeOf(input[X], 1, FANOUT_PASS1, c)
           n == Len(input[X])
<1>1. n \in Nat
  BY InputTypes
<1>2. ASSUME NEW c \in 0 .. FANOUT_PASS1 - 1
      PROVE  /\ Size(c) \in Nat /\ Size(c) <= n /\ Start(c) \in Nat
             /\ Start(c) + Size(c) <= n + (FANOUT_PASS1 - 1) * PADDING_TUPLES
             /\ \A d \in c + 1 .. FANOUT_PASS1 - 1 : Start(c) + Size(c) + PADDING_TUPLES <= Start(d)
  BY <1>1, Sizes, Layout
<1>3. PICK c \in 0 .. FANOUT_PASS1 - 1 :
        /\ p = FirstTask(input, c)
        /\ \A Y \in Rels : SizeOf(input[Y], 1, FANOUT_PASS1, c) > 0
  BY FirstTasksAre
<1>4. p[X].first = Start(c) /\ p[X].n = Size(c) /\ Size(c) > 0
  BY <1>3, FirstTaskOf
<1> HIDE DEF Start, Size, n
<1>5. p[X].first \in Nat /\ p[X].n \in 1 .. n
  BY <1>1, <1>2, <1>4
<1>6. p[X].first + p[X].n + Margin <= n + RELATION_PADDING
  <2>1. Start(c) + Size(c) <= n + (FANOUT_PASS1 - 1) * PADDING_TUPLES
    BY <1>2
  <2>2. PICK m \in Nat : m = (FANOUT_PASS1 - 1) * PADDING_TUPLES
    BY Sizes
  <2>3. Start(c) + Size(c) + Margin <= n + m + PADDING_TUPLES
    BY <1>1, <1>2, <2>1, <2>2, Sizes
  <2> QED
    BY <1>1, <1>4, <2>2, <2>3, Sizes
<1>7. Parallel!Reach(p, X, Margin) \subseteq 0 .. n + RELATION_PADDING - 1
  BY <1>1, <1>5, <1>6, Sizes DEF Parallel!Reach
<1>8. ASSUME NEW q \in Parallel!FirstPassTasks(input), q # p
      PROVE  Parallel!Reach(p, X, Margin) \cap Parallel!Reach(q, X, Margin) = {}
  <2>1. PICK d \in 0 .. FANOUT_PASS1 - 1 :
          /\ q = FirstTask(input, d)
          /\ \A Y \in Rels : SizeOf(input[Y], 1, FANOUT_PASS1, d) > 0
    BY FirstTasksAre
  <2>2. q[X].first = Start(d) /\ q[X].n = Size(d)
    BY <2>1, FirstTaskOf DEF Start, Size
  <2>3. c # d
    BY <1>3, <1>8, <2>1
  <2>4. /\ Start(c) \in Nat /\ Size(c) \in Nat /\ Start(d) \in Nat /\ Size(d) \in Nat
        /\ Margin \in Nat
    BY <1>2, Sizes
  <2>5. CASE c < d
    <3>1. Start(c) + Size(c) + PADDING_TUPLES <= Start(d)
      BY <1>2, <2>5
    <3>2. Start(c) + Size(c) + Margin <= Start(d)
      BY <2>4, <3>1, Sizes
    <3> QED
      BY <1>4, <2>2, <2>4, <3>2, InOrder
  <2>6. CASE d < c
    <3>1. Start(d) + Size(d) + PADDING_TUPLES <= Start(c)
      BY <1>2, <2>6
    <3>2. Start(d) + Size(d) + Margin <= Start(c)
      BY <2>4, <3>1, Sizes
    <3>3. Parallel!Reach(q, X, Margin) \cap Parallel!Reach(p, X, Margin) = {}
      BY <1>4, <2>2, <2>4, <3>2, InOrder
    <3> QED
      BY <3>3
  <2> QED
    BY <2>3, <2>5, <2>6
<1> QED
  BY <1>5, <1>6, <1>7, <1>8 DEF n

(* Counting numbers gives a number. *)
LEMMA CountNat ==
    ASSUME NEW n \in Nat, NEW S, S \subseteq 1 .. n
    PROVE  Parallel!Cardinality(S) \in Nat /\ Parallel!Cardinality(S) <= n
<1>1. IsFiniteSet(1 .. n) /\ Cardinality(1 .. n) = n
  BY FS_Interval
<1>2. IsFiniteSet(S) /\ Cardinality(S) <= n /\ Cardinality(S) \in Nat
  BY <1>1, FS_Subset, FS_CardinalityType
<1> QED
  BY <1>2, CardinalitySame

(* What is written to memory leaves it an array of the same size. *)
LEMMA WrittenTyped ==
    ASSUME NEW n \in Nat, NEW memory \in [1 .. n -> Nat], NEW new,
           \A w \in new : w[2] \in Nat
    PROVE  Parallel!Written(memory, new) \in [1 .. n -> Nat]
<1>1. \A s \in 1 .. n :
        (\E w \in new : w[1] = s - 1) => (CHOOSE w \in new : w[1] = s - 1)[2] \in Nat
  <2> SUFFICES ASSUME NEW s \in 1 .. n, NEW v \in new, v[1] = s - 1
               PROVE  (CHOOSE w \in new : w[1] = s - 1)[2] \in Nat
    OBVIOUS
  <2>1. (CHOOSE w \in new : w[1] = s - 1) \in new
    OBVIOUS
  <2> QED
    BY <2>1
<1> QED
  BY <1>1 DEF Parallel!Written

(* A piece of memory is a sequence of keys. *)
LEMMA SliceTyped ==
    ASSUME NEW n \in Nat, NEW memory \in [1 .. n -> Nat], NEW first \in Nat, NEW k \in Nat,
           first + k <= n
    PROVE  /\ Parallel!Slice(memory, first, k) \in Seq(Nat)
           /\ Len(Parallel!Slice(memory, first, k)) = k
<1>1. memory \in Seq(Nat) /\ Len(memory) = n
  OBVIOUS
<1>2. Parallel!Slice(memory, first, k) = SubSeq(memory, first + 1, first + k)
  BY DEF Parallel!Slice
<1>3. SubSeq(memory, first + 1, first + k) \in Seq(Nat)
      /\ Len(SubSeq(memory, first + 1, first + k)) = k
  BY <1>1
<1> QED
  BY <1>2, <1>3

(* What a relation's tuples are written as is a key. *)
LEMMA ScatteredTyped ==
    ASSUME NEW X \in Seq(Nat), NEW first, NEW shift, NEW fanOut, NEW padding,
           NEW w \in Parallel!Scattered(X, first, shift, fanOut, padding)
    PROVE  w[2] \in Nat
<1>1. PICK x \in DOMAIN X : w[2] = X[x]
  BY DEF Parallel!Scattered
<1> QED
  BY <1>1

(* Likewise in the histogram joins. *)
LEMMA ReorderedTyped ==
    ASSUME NEW R \in Seq(Nat), NEW first, NEW w \in Parallel!Reordered(R, first)
    PROVE  w[2] \in Nat
<1> DEFINE Nhist == Parallel!get_hist_size(Len(R))
           hash(x) == Parallel!HistHash(R[x], Nhist)
           Same(x) == {y \in 1 .. x - 1 : hash(y) = hash(x)}
           slot(x) == first + Parallel!PrefixSum(R, Nhist, hash(x) + 1)
                        + Parallel!Cardinality(Same(x))
<1>0. Parallel!Reordered(R, first) = {<<slot(x), R[x]>> : x \in DOMAIN R}
  BY DEF Parallel!Reordered, Parallel!CountIf
<1> HIDE DEF slot
<1>1. PICK x \in DOMAIN R : w[2] = R[x]
  BY <1>0
<1> QED
  BY <1>1

(* Sizes that are powers of two. *)

(* The next power of 2 is twice the one before. *)
LEMMA PowerDoubles == ASSUME NEW n \in Nat PROVE 2 ^ (n + 1) = 2 * 2 ^ n
<1> DEFINE D == 1 .. n
           E == 1 .. n + 1
           Rest == (SUBSET E) \ (SUBSET D)
<1>1. IsFiniteSet(D) /\ Cardinality(D) = n /\ IsFiniteSet(E) /\ Cardinality(E) = n + 1
  BY FS_Interval
<1>2. /\ IsFiniteSet(SUBSET D) /\ Cardinality(SUBSET D) = 2 ^ n
      /\ IsFiniteSet(SUBSET E) /\ Cardinality(SUBSET E) = 2 ^ (n + 1)
  BY <1>1, FS_SUBSET
<1>3. Cardinality(Rest) = Cardinality(SUBSET D)
  <2> DEFINE f == [s \in SUBSET D |-> s \cup {n + 1}]
  <2>1. f \in [SUBSET D -> Rest]
    OBVIOUS
  <2>2. \A r, s \in SUBSET D : f[r] = f[s] => r = s
    <3> TAKE r \in SUBSET D, s \in SUBSET D
    <3> HAVE f[r] = f[s]
    <3>1. r \cup {n + 1} = s \cup {n + 1} /\ n + 1 \notin r /\ n + 1 \notin s
      OBVIOUS
    <3> QED
      BY <3>1
  <2>3. \A r \in Rest : \E s \in SUBSET D : f[s] = r
    <3> TAKE r \in Rest
    <3>1. n + 1 \in r
      OBVIOUS
    <3>2. r \ {n + 1} \in SUBSET D /\ f[r \ {n + 1}] = r
      BY <3>1
    <3> QED
      BY <3>2
  <2> HIDE DEF f, Rest, D
  <2> QED
    BY <1>2, <2>1, <2>2, <2>3, PairedOff
<1>4. SUBSET E = (SUBSET D) \cup Rest /\ (SUBSET D) \cap Rest = {}
  OBVIOUS
<1>5. IsFiniteSet(Rest)
  BY <1>2, FS_Subset
<1> HIDE DEF D, E, Rest
<1>6. Cardinality((SUBSET D) \cup Rest) =
        Cardinality(SUBSET D) + Cardinality(Rest) - Cardinality((SUBSET D) \cap Rest)
  BY <1>2, <1>5, FS_Union
<1>7. Cardinality((SUBSET D) \cap Rest) = 0
  BY <1>4, FS_EmptySet
<1>8. PICK a \in Nat : a = 2 ^ n
  BY PowerNat
<1>9. Cardinality((SUBSET D) \cup Rest) = 2 * a
  BY <1>2, <1>3, <1>6, <1>7, <1>8
<1> QED
  BY <1>2, <1>4, <1>8, <1>9

(* A power of 2 is greater than its exponent. *)
LEMMA PowerGrows == ASSUME NEW n \in Nat PROVE n < 2 ^ n
<1> DEFINE D == 1 .. n
           Singles == {{x} : x \in D}
<1>1. IsFiniteSet(D) /\ Cardinality(D) = n
  BY FS_Interval
<1>2. IsFiniteSet(SUBSET D) /\ Cardinality(SUBSET D) = 2 ^ n
  BY <1>1, FS_SUBSET
<1>3. Cardinality(Singles) = n
  <2> DEFINE f == [x \in D |-> {x}]
  <2>1. f \in [D -> Singles] /\ (\A x, y \in D : f[x] = f[y] => x = y)
        /\ \A s \in Singles : \E x \in D : f[x] = s
    OBVIOUS
  <2> HIDE DEF f, Singles, D
  <2> QED
    BY <1>1, <2>1, PairedOff
<1>4. Singles \subseteq SUBSET D /\ {} \in SUBSET D /\ {} \notin Singles
  OBVIOUS
<1>5. Singles # SUBSET D
  BY <1>4
<1> HIDE DEF D, Singles
<1>6. Cardinality(Singles) <= Cardinality(SUBSET D)
      /\ (Cardinality(Singles) = Cardinality(SUBSET D) => Singles = SUBSET D)
  BY <1>2, <1>4, FS_Subset
<1>7. 2 ^ n \in Nat
  BY PowerNat
<1> QED
  BY <1>2, <1>3, <1>5, <1>6, <1>7

(* The power of two that a number of tuples is rounded up to exists. *)
LEMMA NextPowerExists ==
    ASSUME NEW v \in Nat \ {0}
    PROVE  Parallel!NEXT_POW_2(v) \in Nat \ {0}
<1> DEFINE T == {e \in 0 .. v : v <= 2 ^ e}
           R == {d \in Nat \X Nat : d[1] < d[2]}
<1>1. \A e \in Nat : 2 ^ e \in Nat \ {0} /\ 2 ^ (e + 1) = 2 * 2 ^ e /\ e < 2 ^ e
  BY PowerNat, PowerDoubles, PowerGrows
<1>2. v \in T
  <2>1. v < 2 ^ v /\ 2 ^ v \in Nat
    BY <1>1
  <2> QED
    BY <2>1
<1>3. IsWellFoundedOn(R, Nat)
  BY NatLessThanWellFounded DEF OpToRel
<1>4. T \subseteq Nat /\ T # {}
  BY <1>2
<1>5. \A x, y \in Nat : <<x, y>> \in R <=> x < y
  OBVIOUS
<1> HIDE DEF R, T
<1>6. PICK e \in T : \A d \in T : ~ (<<d, e>> \in R)
  BY <1>3, <1>4, WFMin
<1>7. e \in 0 .. v /\ v <= 2 ^ e
  BY <1>6 DEF T
<1>8. v <= 2 ^ e /\ 2 ^ e < 2 * v
  <2>1. CASE e = 0
    <3>1. 2 ^ 0 = 1
      BY FS_EmptySet, FS_SUBSET, FS_Singleton
    <3> QED
      BY <1>7, <2>1, <3>1
  <2>2. CASE e # 0
    <3>1. e - 1 \in Nat /\ e - 1 \in 0 .. v /\ e = (e - 1) + 1 /\ e \in Nat
      BY <1>7, <2>2
    <3>2. ~ (e - 1 \in T)
      <4>1. e - 1 < e
        BY <3>1
      <4> QED
        BY <1>5, <1>6, <3>1, <4>1
    <3>3. 2 ^ (e - 1) < v /\ 2 ^ e = 2 * 2 ^ (e - 1) /\ 2 ^ (e - 1) \in Nat
      <4>1. 2 ^ (e - 1) \in Nat
        BY <1>1, <3>1
      <4>2. ~ (v <= 2 ^ (e - 1))
        BY <3>1, <3>2 DEF T
      <4>3. 2 ^ e = 2 * 2 ^ (e - 1)
        BY <1>1, <3>1
      <4> QED
        BY <4>1, <4>2, <4>3
    <3> QED
      BY <1>7, <3>3
  <2> QED
    BY <2>1, <2>2
<1>9. \E p \in {2 ^ d : d \in 0 .. v} : v <= p /\ p < 2 * v
  BY <1>7, <1>8
<1>10. Parallel!NEXT_POW_2(v) = CHOOSE p \in {2 ^ d : d \in 0 .. v} : v <= p /\ p < 2 * v
  BY DEF Parallel!NEXT_POW_2
<1>11. Parallel!NEXT_POW_2(v) \in {2 ^ d : d \in 0 .. v}
  BY <1>9, <1>10
<1> QED
  BY <1>1, <1>11

(* The number of counters of a histogram join. *)
LEMMA HistSize ==
    ASSUME NEW v \in Nat \ {0}
    PROVE  Parallel!get_hist_size(v) \in Nat \ {0}
<1>1. PICK p \in Nat : p = Parallel!NEXT_POW_2(v)
  BY NextPowerExists
<1>2. p \div 4 \in Nat
  BY <1>1
<1>3. Parallel!get_hist_size(v) = IF p \div 4 < 4 THEN 4 ELSE p \div 4
  BY <1>1 DEF Parallel!get_hist_size
<1> QED
  BY <1>2, <1>3

(* A key's hash value is the number of a counter. *)
LEMMA HashTyped ==
    ASSUME NEW key \in Nat, NEW size \in Nat \ {0}
    PROVE  Parallel!HistHash(key, size) \in 0 .. size - 1
<1>1. PICK q : q = key \div NUM_RADIX
  OBVIOUS
<1>2. q \in Nat
  BY <1>1, Sizes
<1>3. Parallel!HistHash(key, size) = q % size
  BY <1>1 DEF Parallel!HistHash, Parallel!HASH_BIT_MODULO, Parallel!NUM_RADIX, NUM_RADIX,
     Parallel!FANOUT_PASS1, FANOUT_PASS1, Parallel!FANOUT_PASS2, FANOUT_PASS2
<1>4. q % size \in 0 .. size - 1
  BY <1>2
<1> QED
  BY <1>3, <1>4

(* The counters that a histogram join leaves behind are numbers. *)
LEMMA CountersTyped ==
    ASSUME NEW R \in Seq(Nat), Len(R) # 0
    PROVE  Parallel!HistAfterReorder(R) \in [0 .. Parallel!get_hist_size(Len(R)) + 1 -> Nat]
<1> DEFINE N == Parallel!get_hist_size(Len(R))
           n == Len(R)
           Advanced(h) == {x \in 1 .. n : Parallel!HistHash(R[x], N) + 1 = h}
           Before(h) == {x \in 1 .. n : Parallel!HistHash(R[x], N) + 2 <= h}
<1>1. n \in Nat
  OBVIOUS
<1>2. Parallel!HistAfterReorder(R) =
        [h \in 0 .. N + 1 |-> Parallel!PrefixSum(R, N, h) + Parallel!Cardinality(Advanced(h))]
  BY DEF Parallel!HistAfterReorder, Parallel!CountIf
<1>3. \A h : Parallel!PrefixSum(R, N, h) = Parallel!Cardinality(Before(h))
  BY DEF Parallel!PrefixSum, Parallel!CountIf
<1>4. \A h : Advanced(h) \subseteq 1 .. n /\ Before(h) \subseteq 1 .. n
  OBVIOUS
<1> HIDE DEF Advanced, Before, N, n
<1>5. \A h : Parallel!Cardinality(Advanced(h)) \in Nat /\ Parallel!Cardinality(Before(h)) \in Nat
  BY <1>1, <1>4, CountNat
<1> QED
  BY <1>2, <1>3, <1>5 DEF N

(* The join functions return numbers. *)

(* Pairs of numbers up to given ones are finitely many. *)
LEMMA PairsNat ==
    ASSUME NEW n \in Nat, NEW m \in Nat, NEW S, S \subseteq (1 .. n) \X (1 .. m)
    PROVE  Cardinality(S) \in Nat
<1>1. IsFiniteSet(1 .. n) /\ IsFiniteSet(1 .. m)
  BY FS_Interval
<1>2. IsFiniteSet((1 .. n) \X (1 .. m))
  BY <1>1, FS_Product
<1>3. IsFiniteSet(S)
  BY <1>2, FS_Subset
<1> QED
  BY <1>3, FS_CardinalityType

(* Likewise what bucket_chaining_join counts. *)
LEMMA BucketsNat ==
    ASSUME NEW R \in Seq(Nat), NEW S \in Seq(Nat)
    PROVE  Parallel!bucket_chaining_join(R, S) \in Nat
<1> DEFINE N == Parallel!NEXT_POW_2(Len(R))
           Hash(key) == Parallel!HASH_BIT_MODULO(key, Parallel!NUM_RADIX, N)
           bucket == [b \in 0 .. N - 1 |-> Parallel!LastOrNone({x \in DOMAIN R : Hash(R[x]) = b})]
           next == [x \in DOMAIN R |->
                       Parallel!LastOrNone({y \in 1 .. x - 1 : Hash(R[y]) = Hash(R[x])})]
           chain == CHOOSE c : c = [x \in 0 .. Len(R) |->
                                       IF x = 0 THEN {} ELSE {x} \union c[next[x]]]
           Found == {p \in (DOMAIN R) \X (DOMAIN S) :
                       p[1] \in chain[bucket[Hash(S[p[2]])]] /\ R[p[1]] = S[p[2]]}
<1>1. Parallel!bucket_chaining_join(R, S) = Parallel!Cardinality(Found)
  BY DEF Parallel!bucket_chaining_join
<1>2. Found \subseteq (1 .. Len(R)) \X (1 .. Len(S))
  <2>1. DOMAIN R = 1 .. Len(R) /\ DOMAIN S = 1 .. Len(S)
    OBVIOUS
  <2> HIDE DEF N, Hash, bucket, next, chain
  <2>2. Found \subseteq (DOMAIN R) \X (DOMAIN S)
    OBVIOUS
  <2> HIDE DEF Found
  <2> QED
    BY <2>1, <2>2
<1> HIDE DEF Found
<1>3. Len(R) \in Nat /\ Len(S) \in Nat
  OBVIOUS
<1>4. Cardinality(Found) \in Nat
  BY <1>2, <1>3, PairsNat
<1> QED
  BY <1>1, <1>4, CardinalitySame

(* Likewise what the histogram joins count, wherever they look. *)
LEMMA ProbesNat ==
    ASSUME NEW S \in Seq(Nat), NEW memory, NEW first, NEW numR \in Nat \ {0}, NEW probed,
           \A h \in 0 .. Parallel!get_hist_size(numR) - 1 : IsFiniteSet(probed[h])
    PROVE  Parallel!ProbeAll(S, memory, first, probed, numR) \in Nat
<1> DEFINE N == Parallel!get_hist_size(numR)
           MatchesOf(x) ==
               {s \in probed[Parallel!HistHash(S[x], N)] : memory[first + s + 1] = S[x]}
           Found == UNION {{x} \X MatchesOf(x) : x \in DOMAIN S}
           Slots == UNION {probed[h] : h \in 0 .. N - 1}
<1>1. Parallel!ProbeAll(S, memory, first, probed, numR) = Parallel!Cardinality(Found)
  BY DEF Parallel!ProbeAll
<1>2. N \in Nat \ {0}
  BY HistSize
<1>3. IsFiniteSet(0 .. N - 1) /\ IsFiniteSet(1 .. Len(S))
  <2>1. 0 \in Int /\ N - 1 \in Int /\ 1 \in Int /\ Len(S) \in Int
    BY <1>2
  <2> QED
    BY <2>1, FS_Interval
<1>4. IsFiniteSet(Slots)
  <2>1. IsFiniteSet({probed[h] : h \in 0 .. N - 1})
    <3> DEFINE I == 0 .. N - 1
               f == [h \in I |-> probed[h]]
               T == {probed[h] : h \in I}
    <3>1. f \in Surjection(I, T)
      BY DEF Surjection
    <3> HIDE DEF f, T, I
    <3> QED
      BY <1>3, <3>1, FS_Surjection DEF I, T
  <2>2. \A T \in {probed[h] : h \in 0 .. N - 1} : IsFiniteSet(T)
    OBVIOUS
  <2> QED
    BY <2>1, <2>2, FS_UNION
<1>5. Found \subseteq (1 .. Len(S)) \X Slots
  <2>1. ASSUME NEW x \in DOMAIN S PROVE MatchesOf(x) \subseteq Slots
    <3>1. S[x] \in Nat
      OBVIOUS
    <3> HIDE DEF N
    <3>2. Parallel!HistHash(S[x], N) \in 0 .. N - 1
      BY <1>2, <3>1, HashTyped
    <3> QED
      BY <3>2
  <2>2. DOMAIN S = 1 .. Len(S)
    OBVIOUS
  <2> HIDE DEF MatchesOf, Slots
  <2> QED
    BY <2>1, <2>2
<1> HIDE DEF Found, Slots
<1>6. IsFiniteSet((1 .. Len(S)) \X Slots)
  BY <1>3, <1>4, FS_Product
<1>7. IsFiniteSet(Found)
  BY <1>5, <1>6, FS_Subset
<1> QED
  BY <1>1, <1>7, FS_CardinalityType, CardinalitySame

(* Division leaves a remainder that is less than the divisor. *)
LEMMA Quotient ==
    ASSUME NEW a \in Nat, NEW b \in Nat \ {0}
    PROVE  /\ a \div b \in Nat /\ (a \div b) * b <= a
           /\ a % b \in 0 .. b - 1 /\ a % b <= a
  OBVIOUS

(* Whichever way a histogram join probes. *)
LEMMA ProbeNat ==
    ASSUME NEW S \in Seq(Nat), NEW memory, NEW first, NEW numR \in Nat \ {0},
           NEW h \in [0 .. Parallel!get_hist_size(numR) + 1 -> Nat]
    PROVE  /\ Parallel!ProbeScalar(S, memory, first, h, numR) \in Nat
           /\ Parallel!ProbeBuffered(S, memory, first, h, numR) \in Nat
<1> DEFINE N == Parallel!get_hist_size(numR)
           scalar == [b \in 0 .. N - 1 |-> Parallel!ProbedScalar(h, b)]
           pairs == [b \in 0 .. N - 1 |-> Parallel!ProbedInPairs(h, b)]
           inGroups == Parallel!Grouped(S)
           rest == Parallel!Remaining(S)
<1>1. N \in Nat \ {0}
  BY HistSize
<1>2. ASSUME NEW b \in 0 .. N - 1 PROVE IsFiniteSet(scalar[b]) /\ IsFiniteSet(pairs[b])
  <2>1. b \in 0 .. N + 1 /\ b + 1 \in 0 .. N + 1
    BY <1>1
  <2>2. PICK k \in Int, l \in Int : k = h[b] /\ l = h[b + 1]
    BY <2>1
  <2>3. IsFiniteSet(k .. l - 1) /\ IsFiniteSet(k .. l)
    <3>1. l - 1 \in Int
      OBVIOUS
    <3> QED
      BY <3>1, FS_Interval
  <2>4. scalar[b] = k .. l - 1 /\ pairs[b] \in {k .. l - 1, k .. l}
    BY <2>2 DEF Parallel!ProbedScalar, Parallel!ProbedInPairs
  <2> QED
    BY <2>3, <2>4
<1>3. inGroups \in Seq(Nat) /\ rest \in Seq(Nat)
  <2>1. PICK len \in Nat, size \in Nat \ {0} : len = Len(S) /\ size = PROBE_BUFFER_SIZE
    BY SizesAssumption
  <2>2. /\ len \div size \in Nat /\ (len \div size) * size <= len
        /\ len % size \in 0 .. size - 1 /\ len % size <= len
    BY Quotient
  <2>3. inGroups = SubSeq(S, 1, (len \div size) * size)
        /\ rest = SubSeq(S, len - (len % size) + 1, len)
    BY <2>1 DEF Parallel!Grouped, Parallel!Remaining
  <2>4. PICK a \in Nat : a = (len \div size) * size /\ a <= len
    <3>1. (len \div size) * size \in Nat
      BY <2>2, ProductNat
    <3> QED
      BY <2>2, <3>1
  <2>5. PICK r \in Nat : r = len % size /\ r <= len
    BY <2>2
  <2>6. SubSeq(S, 1, a) \in Seq(Nat) /\ SubSeq(S, len - r + 1, len) \in Seq(Nat)
    <3>1. \A e \in 1 .. len : S[e] \in Nat
      BY <2>1
    <3>2. \A e \in 1 .. a : S[e] \in Nat
      BY <2>4, <3>1
    <3>3. \A e \in len - r + 1 .. len : S[e] \in Nat
      BY <2>5, <3>1
    <3>4. 1 \in Int /\ a \in Int /\ len \in Int /\ len - r + 1 \in Int
      BY <2>5
    <3> QED
      BY <3>2, <3>3, <3>4, SubSeqProperties
  <2>7. inGroups = SubSeq(S, 1, a) /\ rest = SubSeq(S, len - r + 1, len)
    BY <2>3, <2>4, <2>5
  <2> QED
    BY <2>6, <2>7
<1>4. Parallel!ProbeScalar(S, memory, first, h, numR) = Parallel!ProbeAll(S, memory, first, scalar, numR)
  BY DEF Parallel!ProbeScalar
<1>5. Parallel!ProbeBuffered(S, memory, first, h, numR) =
        Parallel!ProbeAll(inGroups, memory, first, pairs, numR)
            + Parallel!ProbeAll(rest, memory, first, pairs, numR)
  BY DEF Parallel!ProbeBuffered
<1> HIDE DEF scalar, pairs, inGroups, rest
<1>6. \A X \in {S, inGroups, rest} :
        /\ Parallel!ProbeAll(X, memory, first, scalar, numR) \in Nat
        /\ Parallel!ProbeAll(X, memory, first, pairs, numR) \in Nat
  BY <1>2, <1>3, ProbesNat
<1> QED
  BY <1>4, <1>5, <1>6

(* The tasks of the first pass are tasks. *)
LEMMA FirstTasksTyped ==
    ASSUME NEW input \in Inputs, NEW p \in Parallel!FirstPassTasks(input)
    PROVE  p \in TaskSet
<1>1. PICK c : p = FirstTask(input, c)
  BY FirstTasksAre
<1>2. p["R"].first \in Nat /\ p["R"].n \in Nat /\ p["S"].first \in Nat /\ p["S"].n \in Nat
  <2>1. \A X \in Rels : p[X].first \in Nat /\ p[X].n \in 1 .. Len(input[X]) /\ Len(input[X]) \in Nat
    BY FirstTasksApart, InputTypes
  <2> QED
    BY <2>1 DEF Rels
<1>3. PICK a, b, k, l : p = Parallel!Task(a, b, k, l)
  BY <1>1 DEF FirstTask
<1> QED
  BY <1>2, <1>3 DEF Parallel!Task, TaskSet, Span

(* A task's fields are numbers. *)
LEMMA TaskTyped ==
    ASSUME NEW k \in TaskSet, NEW X \in Rels
    PROVE  k[X].first \in Nat /\ k[X].n \in Nat
  BY DEF TaskSet, Span, Rels

(* A join task lies within the memory of its relations. *)
LEMMA WithinMemory ==
    ASSUME Typed, Places, NEW k \in JoinTasks, NEW X \in Rels
    PROVE  /\ k[X].first \in Nat /\ k[X].n \in Nat \ {0}
           /\ k[X].first + k[X].n + 1 <= Len(in[X]) + RELATION_PADDING
           /\ Parallel!Reach(k, X, 1) \subseteq 0 .. Len(in[X]) + RELATION_PADDING - 1
<1>1. k \in TaskSet /\ k[X].n \in 1 .. Len(in[X])
  BY DEF Places
<1>2. k[X].first \in Nat /\ k[X].n \in Nat \ {0}
  BY <1>1, TaskTyped
<1>3. PICK p \in Parallel!FirstPassTasks(in) : Within(k, p)
  BY DEF Places, Partitioned
<1>4. in \in Inputs
  BY DEF Typed
<1>5. /\ p[X].first \in Nat /\ p[X].n \in Nat
      /\ p[X].first + p[X].n + Margin <= Len(in[X]) + RELATION_PADDING
      /\ Len(in[X]) \in Nat
  BY <1>4, FirstTasksApart, InputTypes
<1>6. k[X].first + k[X].n + 1 <= p[X].first + p[X].n + Margin
  BY <1>3 DEF Within
<1>7. PICK m \in Nat : m = Len(in[X]) + RELATION_PADDING
  BY <1>5, Sizes
<1>8. PICK a \in Nat, n \in Nat : a = k[X].first /\ n = k[X].n
  BY <1>2
<1>9. a + n + 1 <= m
  <2>1. Margin \in Nat
    BY Sizes
  <2>2. PICK e \in Nat : e = p[X].first + p[X].n + Margin
    BY <1>5, <2>1
  <2>3. e <= m /\ a + n + 1 <= e
    BY <1>5, <1>6, <1>7, <1>8, <2>2
  <2> QED
    BY <2>3
<1>10. Parallel!Reach(k, X, 1) \subseteq 0 .. m - 1
  <2>1. Parallel!Reach(k, X, 1) = a .. a + n + 1 - 1
    BY <1>8 DEF Parallel!Reach
  <2> QED
    BY <1>9, <2>1
<1>11. k[X].first + k[X].n + 1 <= Len(in[X]) + RELATION_PADDING
  BY <1>7, <1>8, <1>9
<1>12. Parallel!Reach(k, X, 1) \subseteq 0 .. Len(in[X]) + RELATION_PADDING - 1
  <2>1. RELATION_PADDING \in Nat
    BY Sizes
  <2> QED
    BY <1>5, <1>7, <1>10, <2>1
<1> QED
  BY <1>2, <1>11, <1>12

(* Tasks of different partitions are apart. *)
LEMMA WithinApart ==
    ASSUME NEW input \in Inputs,
           NEW p \in Parallel!FirstPassTasks(input), NEW q \in Parallel!FirstPassTasks(input),
           p # q, NEW k \in TaskSet, NEW l \in TaskSet, Within(k, p), Within(l, q), NEW X \in Rels
    PROVE  Parallel!Reach(k, X, 1) \cap Parallel!Reach(l, X, 1) = {}
<1>1. ASSUME NEW j \in TaskSet, NEW r \in Parallel!FirstPassTasks(input), Within(j, r)
      PROVE  Parallel!Reach(j, X, 1) \subseteq Parallel!Reach(r, X, Margin)
  <2>1. j[X].first \in Nat /\ j[X].n \in Nat
    BY TaskTyped
  <2>2. r[X].first \in Nat /\ r[X].n \in Nat
    BY FirstTasksTyped, TaskTyped
  <2>3. r[X].first <= j[X].first /\ j[X].first + j[X].n + 1 <= r[X].first + r[X].n + Margin
    BY <1>1 DEF Within
  <2> QED
    BY <2>1, <2>2, <2>3, Sizes DEF Parallel!Reach
<1>2. Parallel!Reach(p, X, Margin) \cap Parallel!Reach(q, X, Margin) = {}
  BY FirstTasksApart
<1> QED
  BY <1>1, <1>2

(* TasksApart follows. *)
LEMMA TasksApartFollows == ParallelInv => Parallel!TasksApart
<1> SUFFICES ASSUME ParallelInv PROVE Parallel!TasksApart
  OBVIOUS
<1>1. Typed /\ PartitionTasks /\ Places /\ in \in Inputs
  BY DEF ParallelInv, Typed
<1> DEFINE P == part_queue \union {task[t] : t \in {u \in Threads : Parallel!Partitioning(u)}}
           J == join_queue \union {task[t] : t \in {u \in Threads : Parallel!Joining(u)}}
<1>2. P = part_queue \union {task[t] : t \in InSecondPass} /\ J = JoinTasks
  BY DEF Parallel!Partitioning, Parallel!Joining, InSecondPass, InJoin, JoinTasks
<1>3. P \subseteq Parallel!FirstPassTasks(in)
  BY <1>1, <1>2 DEF PartitionTasks
<1>4. ASSUME NEW X \in Rels
      PROVE  0 .. Len(mem[X].rel) - 1 = 0 .. Len(in[X]) + RELATION_PADDING - 1
  <2>0. Len(in[X]) \in Nat /\ RELATION_PADDING \in Nat
    BY <1>1, InputTypes, Sizes
  <2>1. PICK m \in Nat : m = Len(in[X]) + RELATION_PADDING
    BY <1>1, InputTypes, Sizes
  <2>2. mem[X].rel \in [1 .. m -> Nat]
    BY <1>1, <2>1 DEF Typed, Memory
  <2>3. Len(mem[X].rel) = m
    BY <2>2
  <2> QED
    BY <2>0, <2>1, <2>3
<1> HIDE DEF P, J
<1>5. ASSUME NEW k \in P, NEW X \in Rels
      PROVE  /\ Parallel!Reach(k, X, Margin) \subseteq 0 .. Len(mem[X].rel) - 1
             /\ \A l \in P \ {k} : Parallel!Reach(k, X, Margin) \cap Parallel!Reach(l, X, Margin) = {}
  <2>1. k \in Parallel!FirstPassTasks(in)
    BY <1>3
  <2>2. Parallel!Reach(k, X, Margin) \subseteq 0 .. Len(mem[X].rel) - 1
    <3>1. Parallel!Reach(k, X, Margin) \subseteq 0 .. Len(in[X]) + RELATION_PADDING - 1
      BY <1>1, <2>1, FirstTasksApart
    <3> QED
      BY <1>4, <3>1
  <2>3. \A l \in P \ {k} : Parallel!Reach(k, X, Margin) \cap Parallel!Reach(l, X, Margin) = {}
    BY <1>1, <1>3, <2>1, FirstTasksApart
  <2> QED
    BY <2>2, <2>3
<1>6. ASSUME NEW k \in J, NEW X \in Rels
      PROVE  /\ Parallel!Reach(k, X, 1) \subseteq 0 .. Len(mem[X].rel) - 1
             /\ \A l \in J \ {k} : Parallel!Reach(k, X, 1) \cap Parallel!Reach(l, X, 1) = {}
  <2>1. Parallel!Reach(k, X, 1) \subseteq 0 .. Len(mem[X].rel) - 1
    <3>1. k \in JoinTasks
      BY <1>2
    <3>2. Parallel!Reach(k, X, 1) \subseteq 0 .. Len(in[X]) + RELATION_PADDING - 1
      BY <1>1, <3>1, WithinMemory
    <3> QED
      BY <1>4, <3>2
  <2>2. \A l \in J \ {k} : Parallel!Reach(k, X, 1) \cap Parallel!Reach(l, X, 1) = {}
    BY <1>1, <1>2 DEF Places
  <2> QED
    BY <2>1, <2>2
<1>7. (Parallel!FANOUT_PASS2 - 1) * SMALL_PADDING_TUPLES + 1 = Margin
  BY SizesSame DEF Margin
<1> QED
  BY <1>5, <1>6, <1>7 DEF Parallel!TasksApart, P, J, Parallel!Rels, Rels

(* What the parts of the invariant depend on. *)

(* A step that takes no partition and gives none to a thread leaves each   *)
(* with who has it.                                                        *)
LEMMA PartitionTasksKept ==
    ASSUME PartitionTasks, in' = in, part_queue' = part_queue,
           InSecondPass' \subseteq InSecondPass,
           \A u \in InSecondPass' : task'[u] = task[u]
    PROVE  PartitionTasks' /\ Partitioned \subseteq Partitioned'
<1>1. PartitionTasks'
  BY DEF PartitionTasks
<1>2. {task[t] : t \in InSecondPass}' \subseteq {task[t] : t \in InSecondPass}
  OBVIOUS
<1>3. Partitioned \subseteq Partitioned'
  BY <1>2 DEF Partitioned
<1> QED
  BY <1>1, <1>3

(* A step that adds no join task leaves them where they are. *)
LEMMA PlacesKept ==
    ASSUME Places, in' = in, JoinTasks' \subseteq JoinTasks, Partitioned \subseteq Partitioned'
    PROVE  Places'
<1>1. ASSUME NEW k \in JoinTasks'
      PROVE  /\ k \in TaskSet /\ \A X \in Rels : k[X].n \in 1 .. Len(in'[X])
             /\ \E p \in Partitioned' : Within(k, p)
  BY <1>1 DEF Places
<1>2. \A k \in JoinTasks' : \A l \in JoinTasks' \ {k} : \A X \in Rels :
        Parallel!Reach(k, X, 1) \cap Parallel!Reach(l, X, 1) = {}
  BY DEF Places
<1> QED
  BY <1>1, <1>2 DEF Places

(* A step that no thread between its loops over R and S takes part in      *)
(* leaves the histograms.                                                  *)
LEMMA CountedKept ==
    ASSUME Counted,
           \A u \in Threads : pc'[u] \in {"clusterS", "add"} =>
               pc'[u] = pc[u] /\ output'[u] = output[u] /\ task'[u] = task[u]
    PROVE  Counted'
  BY DEF Counted

(* A step that no thread between the halves of a histogram join takes part *)
(* in leaves the counters.                                                 *)
LEMMA CountersKept ==
    ASSUME CountersReady,
           \A u \in Threads : pc'[u] = "probe" =>
               pc'[u] = pc[u] /\ hist'[u] = hist[u] /\ task'[u] = task[u]
    PROVE  CountersReady'
  BY DEF CountersReady

(* The second pass. *)

(* A thread that takes a partition from the queue has it alone. *)
LEMMA GetPartitionTaskStep ==
    ASSUME ParallelInv, NEW t \in Threads, Parallel!GetPartitionTask(t)
    PROVE  ParallelInv'
<1>1. Typed /\ PartitionTasks /\ Counted /\ Places /\ CountersReady
  BY DEF ParallelInv
<1>2. PICK k \in part_queue :
        part_queue' = part_queue \ {k} /\ task' = [task EXCEPT ![t] = k]
  BY DEF Parallel!GetPartitionTask
<1>3. /\ pc[t] = "partition" /\ pc' = [pc EXCEPT ![t] = "clusterR"]
      /\ UNCHANGED <<in, join_function, mem, join_queue, output, hist, results>>
  BY DEF Parallel!GetPartitionTask
<1>4. k \in Parallel!FirstPassTasks(in) /\ in \in Inputs /\ k \in TaskSet
  BY <1>1, FirstTasksTyped DEF PartitionTasks, Typed
<1>5. pc \in [Threads -> Parallel!Steps] /\ task \in [Threads -> TaskSet]
  BY <1>1 DEF Typed
<1>6. /\ InSecondPass' = InSecondPass \cup {t} /\ t \notin InSecondPass
      /\ InJoin' = InJoin /\ t \notin InJoin
  BY <1>3, <1>5 DEF InSecondPass, InJoin
<1>7. task'[t] = k /\ \A u \in Threads \ {t} : task'[u] = task[u]
  BY <1>2, <1>5
<1>8. Typed'
  BY <1>1, <1>2, <1>3, <1>4 DEF Typed, Memory, Parallel!Steps
<1>9. PartitionTasks'
  <2>1. \A u \in InSecondPass : u \in Threads \ {t}
    BY <1>6 DEF InSecondPass
  <2>2. \A u \in InSecondPass' : task'[u] \in Parallel!FirstPassTasks(in') \ part_queue'
    BY <1>1, <1>2, <1>3, <1>4, <1>6, <1>7, <2>1 DEF PartitionTasks
  <2>3. \A u, v \in InSecondPass' : u # v => task'[u] # task'[v]
    BY <1>1, <1>2, <1>6, <1>7, <2>1 DEF PartitionTasks
  <2>4. part_queue' \subseteq Parallel!FirstPassTasks(in')
    BY <1>1, <1>2, <1>3 DEF PartitionTasks
  <2> QED
    BY <2>2, <2>3, <2>4 DEF PartitionTasks
<1>10. Partitioned \subseteq Partitioned'
  <2>1. \A u \in InSecondPass : u \in Threads \ {t}
    BY <1>6 DEF InSecondPass
  <2>2. {task[u] : u \in InSecondPass}' = {task[u] : u \in InSecondPass} \cup {k}
    BY <1>6, <1>7, <2>1
  <2> QED
    BY <1>2, <1>3, <2>2 DEF Partitioned
<1>11. JoinTasks' \subseteq JoinTasks
  BY <1>3, <1>6, <1>7 DEF JoinTasks, InJoin
<1>12. Places'
  BY <1>1, <1>3, <1>10, <1>11, PlacesKept
<1>13. \A u \in Threads : pc'[u] \in {"clusterS", "add", "probe"} =>
          pc'[u] = pc[u] /\ output'[u] = output[u] /\ hist'[u] = hist[u] /\ task'[u] = task[u]
  BY <1>3, <1>5, <1>7
<1>14. Counted' /\ CountersReady'
  BY <1>1, <1>13, CountedKept, CountersKept
<1> QED
  BY <1>8, <1>9, <1>12, <1>14 DEF ParallelInv

(* The tuples of a partition, wherever they are read from. *)
LEMMA PartitionTuples ==
    ASSUME Typed, PartitionTasks, NEW t \in InSecondPass, NEW X \in Rels
    PROVE  /\ Parallel!Tuples(t, X, "tmp") \in Seq(Nat)
           /\ Len(Parallel!Tuples(t, X, "tmp")) = task[t][X].n
<1>1. task[t] \in Parallel!FirstPassTasks(in) /\ in \in Inputs
  BY DEF PartitionTasks, Typed
<1>2. Len(in[X]) \in Nat /\ RELATION_PADDING \in Nat /\ Margin \in Nat
  BY <1>1, InputTypes, Sizes
<1>3. PICK m \in Nat : m = Len(in[X]) + RELATION_PADDING
  BY <1>2
<1>4. /\ task[t][X].first \in Nat /\ task[t][X].n \in Nat
      /\ task[t][X].first + task[t][X].n + Margin <= Len(in[X]) + RELATION_PADDING
  BY <1>1, <1>2, FirstTasksApart
<1>5. task[t][X].first + task[t][X].n <= m
  <2>1. PICK a \in Nat, n \in Nat : a = task[t][X].first /\ n = task[t][X].n
    BY <1>4
  <2>2. a + n + Margin <= m
    BY <1>3, <1>4, <2>1
  <2> QED
    BY <1>2, <2>1, <2>2
<1>6. mem[X].tmp \in [1 .. m -> Nat]
  BY <1>3 DEF Typed, Memory
<1>7. PICK a \in Nat, n \in Nat, memory \in [1 .. m -> Nat] :
        a = task[t][X].first /\ n = task[t][X].n /\ memory = mem[X].tmp
  BY <1>4, <1>6
<1>8. a + n <= m
  BY <1>5, <1>7
<1>9. Parallel!Slice(memory, a, n) \in Seq(Nat) /\ Len(Parallel!Slice(memory, a, n)) = n
  BY <1>8, SliceTyped
<1>10. Parallel!Tuples(t, X, "tmp") = Parallel!Slice(memory, a, n)
  BY <1>7 DEF Parallel!Tuples
<1> QED
  BY <1>7, <1>9, <1>10

(* Clustering a partition keeps the memory's type and gives a histogram. *)
LEMMA ClusterStep ==
    ASSUME Typed, PartitionTasks, NEW t \in InSecondPass, NEW X \in Rels,
           Parallel!radix_cluster(t, X), in' = in
    PROVE  /\ mem' = [Y \in Rels |-> [tmp |-> mem'[Y].tmp, rel |-> mem'[Y].rel]]
           /\ \A Y \in Rels : mem'[Y].tmp \in Memory(Y)' /\ mem'[Y].rel \in Memory(Y)'
           /\ output' = [u \in Threads |-> [Y \in Rels |-> output'[u][Y]]]
           /\ IsHistogram(output'[t][X], task[t][X].n)
           /\ \A u \in Threads, Y \in Rels :
                u # t \/ Y # X => output'[u][Y] = output[u][Y]
<1> DEFINE tuples == Parallel!Tuples(t, X, "tmp")
           new == Parallel!Scattered(tuples, task[t][X].first, Parallel!FANOUT_PASS1,
                                     Parallel!FANOUT_PASS2, SMALL_PADDING_TUPLES)
           written == Parallel!Written(mem[X].rel, new)
           counts == Parallel!Histogram(tuples, Parallel!FANOUT_PASS1, Parallel!FANOUT_PASS2)
<1>1. /\ mem' = [mem EXCEPT ![X].rel = written]
      /\ output' = [output EXCEPT ![t][X] = counts]
  BY DEF Parallel!radix_cluster
<1>2. tuples \in Seq(Nat) /\ Len(tuples) = task[t][X].n
  BY PartitionTuples
<1>3. \A w \in new : w[2] \in Nat
  BY <1>2, ScatteredTyped
<1>4. IsHistogram(counts, task[t][X].n)
  BY <1>2, HistogramIs, SizesSame DEF IsHistogram
<1> HIDE DEF tuples, new, counts
<1>5. written \in Memory(X)
  <2>0. Len(in[X]) \in Nat /\ RELATION_PADDING \in Nat
    BY InputTypes, Sizes DEF Typed
  <2>1. PICK m \in Nat : m = Len(in[X]) + RELATION_PADDING
    BY <2>0
  <2> QED
    BY <1>3, <2>1, WrittenTyped DEF Typed, Memory
<1> HIDE DEF written
<1>6. /\ mem = [Y \in Rels |-> [tmp |-> mem[Y].tmp, rel |-> mem[Y].rel]]
      /\ \A Y \in Rels : mem[Y].tmp \in Memory(Y) /\ mem[Y].rel \in Memory(Y)
      /\ output = [u \in Threads |-> [Y \in Rels |-> output[u][Y]]]
  BY DEF Typed
<1>7. \A Y : Memory(Y)' = Memory(Y)
  BY DEF Memory
<1>8. mem' = [Y \in Rels |-> [tmp |-> mem[Y].tmp,
                             rel |-> IF Y = X THEN written ELSE mem[Y].rel]]
  BY <1>1, <1>6
<1>9. /\ mem' = [Y \in Rels |-> [tmp |-> mem'[Y].tmp, rel |-> mem'[Y].rel]]
      /\ \A Y \in Rels : mem'[Y].tmp \in Memory(Y)' /\ mem'[Y].rel \in Memory(Y)'
  BY <1>5, <1>6, <1>7, <1>8
<1>10. t \in Threads
  BY DEF InSecondPass
<1>11. output' = [u \in Threads |-> [Y \in Rels |->
                    IF u = t /\ Y = X THEN counts ELSE output[u][Y]]]
  <2> DEFINE row(u) == [Y \in Rels |-> output[u][Y]]
  <2>1. output' = [u \in Threads |-> IF u = t THEN [output[t] EXCEPT ![X] = counts] ELSE output[u]]
    BY <1>1, <1>6
  <2>2. \A u \in Threads : output[u] = row(u)
    BY <1>6
  <2>3. [output[t] EXCEPT ![X] = counts] = [Y \in Rels |-> IF Y = X THEN counts ELSE output[t][Y]]
    BY <1>10, <2>2
  <2>4. ASSUME NEW u \in Threads
        PROVE  output'[u] = [Y \in Rels |-> IF u = t /\ Y = X THEN counts ELSE output[u][Y]]
    <3>1. CASE u = t
      BY <2>1, <2>3, <3>1
    <3>2. CASE u # t
      BY <2>1, <2>2, <3>2
    <3> QED
      BY <3>1, <3>2
  <2> QED
    BY <2>1, <2>4
<1>12. output' = [u \in Threads |-> [Y \in Rels |-> output'[u][Y]]]
  BY <1>11
<1>13. IsHistogram(output'[t][X], task[t][X].n)
  BY <1>4, <1>10, <1>11
<1>14. \A u \in Threads, Y \in Rels : u # t \/ Y # X => output'[u][Y] = output[u][Y]
  BY <1>11
<1> QED
  BY <1>9, <1>12, <1>13, <1>14

(* Clustering one relation of a task leaves all else as it is. *)
LEMMA ClusterKeeps ==
    ASSUME ParallelInv, NEW t \in InSecondPass, NEW X \in Rels, NEW after \in {"clusterS", "add"},
           Parallel!radix_cluster(t, X), pc' = [pc EXCEPT ![t] = after],
           UNCHANGED <<in, join_function, part_queue, join_queue, task, hist, results>>,
           \A Y \in Rels : Y # X /\ (after = "add" \/ Y = "R") =>
               IsHistogram(output[t][Y], task[t][Y].n),
           after = "clusterS" => X = "R"
    PROVE  ParallelInv'
<1>1. Typed /\ PartitionTasks /\ Counted /\ Places /\ CountersReady
  BY DEF ParallelInv
<1>2. /\ mem' = [Y \in Rels |-> [tmp |-> mem'[Y].tmp, rel |-> mem'[Y].rel]]
      /\ \A Y \in Rels : mem'[Y].tmp \in Memory(Y)' /\ mem'[Y].rel \in Memory(Y)'
      /\ output' = [u \in Threads |-> [Y \in Rels |-> output'[u][Y]]]
      /\ IsHistogram(output'[t][X], task[t][X].n)
      /\ \A u \in Threads, Y \in Rels : u # t \/ Y # X => output'[u][Y] = output[u][Y]
  BY <1>1, ClusterStep
<1>3. t \in Threads /\ pc[t] \in {"clusterR", "clusterS", "add"} /\ pc \in [Threads -> Parallel!Steps]
  BY <1>1 DEF InSecondPass, Typed
<1>4. pc'[t] = after /\ \A u \in Threads \ {t} : pc'[u] = pc[u]
  BY <1>3
<1>5. InSecondPass' = InSecondPass /\ InJoin' = InJoin
  BY <1>3, <1>4 DEF InSecondPass, InJoin
<1>6. Typed'
  <2>1. pc' \in [Threads -> Parallel!Steps]
    BY <1>3 DEF Parallel!Steps
  <2> QED
    BY <1>1, <1>2, <2>1 DEF Typed
<1>7. PartitionTasks' /\ Partitioned \subseteq Partitioned'
  BY <1>1, <1>5, PartitionTasksKept
<1>8. JoinTasks' = JoinTasks
  BY <1>5 DEF JoinTasks
<1>9. Places'
  BY <1>1, <1>7, <1>8, PlacesKept
<1>10. Counted'
  <2> SUFFICES ASSUME NEW u \in Threads
               PROVE  /\ pc'[u] \in {"clusterS", "add"} => IsHistogram(output'[u]["R"], task[u]["R"].n)
                      /\ pc'[u] = "add" => IsHistogram(output'[u]["S"], task[u]["S"].n)
    BY DEF Counted
  <2>1. CASE u # t
    <3>1. pc'[u] = pc[u] /\ \A Y \in Rels : output'[u][Y] = output[u][Y]
      BY <1>2, <1>4, <2>1
    <3>2. output'[u]["R"] = output[u]["R"] /\ output'[u]["S"] = output[u]["S"]
      BY <3>1 DEF Rels
    <3> QED
      BY <1>1, <3>1, <3>2 DEF Counted
  <2>2. CASE u = t
    <3>1. \A Y \in Rels : (after = "add" \/ Y = "R") => IsHistogram(output'[t][Y], task[t][Y].n)
      BY <1>2, <1>3
    <3>2. "R" \in Rels /\ "S" \in Rels
      BY DEF Rels
    <3>3. pc'[t] \in {"clusterS", "add"} => IsHistogram(output'[t]["R"], task[t]["R"].n)
      BY <3>1, <3>2
    <3>4. pc'[t] = "add" => IsHistogram(output'[t]["S"], task[t]["S"].n)
      BY <1>4, <3>1, <3>2
    <3> QED
      BY <2>2, <3>3, <3>4
  <2> QED
    BY <2>1, <2>2
<1>11. CountersReady'
  <2>1. \A u \in Threads : pc'[u] = "probe" => pc'[u] = pc[u]
    BY <1>4
  <2> QED
    BY <1>1, <2>1, CountersKept
<1> QED
  BY <1>6, <1>7, <1>9, <1>10, <1>11 DEF ParallelInv

(* The second pass over a partition of R, and over one of S. *)
LEMMA ClusterRStep ==
    ASSUME ParallelInv, NEW t \in Threads, Parallel!ClusterR(t)
    PROVE  ParallelInv'
<1>1. t \in InSecondPass
  BY DEF Parallel!ClusterR, InSecondPass
<1>2. /\ Parallel!radix_cluster(t, "R") /\ pc' = [pc EXCEPT ![t] = "clusterS"]
      /\ UNCHANGED <<in, join_function, part_queue, join_queue, task, hist, results>>
  BY DEF Parallel!ClusterR
<1>3. "R" \in Rels
  BY DEF Rels
<1> QED
  BY <1>1, <1>2, <1>3, ClusterKeeps

(* Its output is the histogram that the join tasks are made from. *)
LEMMA ClusterSStep ==
    ASSUME ParallelInv, NEW t \in Threads, Parallel!ClusterS(t)
    PROVE  ParallelInv'
<1>1. t \in InSecondPass /\ pc[t] = "clusterS"
  BY DEF Parallel!ClusterS, InSecondPass
<1>2. /\ Parallel!radix_cluster(t, "S") /\ pc' = [pc EXCEPT ![t] = "add"]
      /\ UNCHANGED <<in, join_function, part_queue, join_queue, task, hist, results>>
  BY DEF Parallel!ClusterS
<1>3. "S" \in Rels
  BY DEF Rels
<1>4. \A Y \in Rels : Y # "S" => IsHistogram(output[t][Y], task[t][Y].n)
  BY <1>1 DEF ParallelInv, Counted, Rels
<1> QED
  BY <1>1, <1>2, <1>3, <1>4, ClusterKeeps

(* The clusters of a partition become join tasks. *)

(* What a join task says of a relation. *)
LEMMA JoinTaskFields ==
    ASSUME NEW t, NEW c, NEW X \in Rels
    PROVE  /\ Parallel!JoinTask(t, c)[X].first =
                task[t][X].first + SumBelow(output[t][X], c) + c * SMALL_PADDING_TUPLES
           /\ Parallel!JoinTask(t, c)[X].n = output[t][X][c]
<1> DEFINE First(Y) == task[t][Y].first + SumBelow(output[t][Y], c) + c * SMALL_PADDING_TUPLES
<1>1. Parallel!JoinTask(t, c) = Parallel!Task(First("R"), output[t].R[c], First("S"), output[t].S[c])
  BY SumSame DEF Parallel!JoinTask, Parallel!Offset
<1> QED
  BY <1>1, TaskFields DEF Rels

(* Where clusters of the partition that t has clustered are. *)
LEMMA ClusterPlaces ==
    ASSUME ParallelInv, NEW t \in Threads, pc[t] = "add", NEW X \in Rels,
           NEW c \in 0 .. FANOUT_PASS2 - 1
    PROVE  /\ Parallel!JoinTask(t, c)[X].first \in Nat
           /\ Parallel!JoinTask(t, c)[X].n \in Nat
           /\ Parallel!JoinTask(t, c)[X].n <= Len(in[X])
           /\ task[t][X].first <= Parallel!JoinTask(t, c)[X].first
           /\ Parallel!JoinTask(t, c)[X].first + Parallel!JoinTask(t, c)[X].n + 1
                <= task[t][X].first + task[t][X].n + Margin
           /\ \A d \in c + 1 .. FANOUT_PASS2 - 1 :
                Parallel!JoinTask(t, c)[X].first + Parallel!JoinTask(t, c)[X].n + 1
                    <= Parallel!JoinTask(t, d)[X].first
<1>1. task[t] \in Parallel!FirstPassTasks(in) /\ in \in Inputs
  BY DEF ParallelInv, PartitionTasks, InSecondPass, Typed
<1>2. Len(in[X]) \in Nat /\ task[t][X].first \in Nat /\ task[t][X].n \in 1 .. Len(in[X])
  BY <1>1, FirstTasksApart, InputTypes
<1>3. PICK first \in Nat, n \in Nat : first = task[t][X].first /\ n = task[t][X].n /\ n <= Len(in[X])
  BY <1>2
<1>4. IsHistogram(output[t][X], n)
  BY <1>3 DEF ParallelInv, Counted, Rels
<1>5. PICK Y \in Seq(Nat) : Len(Y) = n /\ output[t][X] = Histogram(Y, FANOUT_PASS1, FANOUT_PASS2)
  BY <1>4 DEF IsHistogram
<1> DEFINE Start(d) == StartOf(Y, FANOUT_PASS1, FANOUT_PASS2, SMALL_PADDING_TUPLES, d)
           Size(d) == SizeOf(Y, FANOUT_PASS1, FANOUT_PASS2, d)
<1>6. PICK pad \in Nat \ {0} : pad = SMALL_PADDING_TUPLES
  BY Sizes
<1>7. /\ Size(c) \in Nat /\ Size(c) <= n /\ Start(c) \in Nat
      /\ Start(c) + Size(c) <= n + (FANOUT_PASS2 - 1) * SMALL_PADDING_TUPLES
      /\ \A d \in c + 1 .. FANOUT_PASS2 - 1 : Start(c) + Size(c) + pad <= Start(d)
  <2>1. FANOUT_PASS2 \in Nat /\ SMALL_PADDING_TUPLES \in Nat /\ Len(Y) \in Nat
    BY <1>5, Sizes
  <2> QED
    BY <1>5, <1>6, <2>1, Layout
<1>8. ASSUME NEW d \in 0 .. FANOUT_PASS2 - 1
      PROVE  Parallel!JoinTask(t, d)[X].first = first + Start(d)
  <2>1. d * SMALL_PADDING_TUPLES \in Nat
    BY Sizes, ProductNat
  <2>2. SumBelow(output[t][X], d) \in Nat
    BY <1>3, <1>5, Sizes, ClusterSizes
  <2>3. Parallel!JoinTask(t, d)[X].first = first + SumBelow(output[t][X], d) + d * SMALL_PADDING_TUPLES
    BY <1>3, JoinTaskFields
  <2>4. Start(d) = SumBelow(output[t][X], d) + d * SMALL_PADDING_TUPLES
    BY <1>5 DEF StartOf
  <2> HIDE DEF Start
  <2> QED
    BY <2>1, <2>2, <2>3, <2>4
<1>9. Parallel!JoinTask(t, c)[X].n = Size(c)
  BY <1>5, JoinTaskFields DEF SizeOf
<1> HIDE DEF Start, Size
<1>10. PICK a \in Nat, b \in Nat : a = Start(c) /\ b = Size(c)
  BY <1>7
<1>11. PICK m \in Nat : m = (FANOUT_PASS2 - 1) * SMALL_PADDING_TUPLES /\ Margin = m + 1
  <2>1. FANOUT_PASS2 - 1 \in Nat
    BY Sizes
  <2>2. (FANOUT_PASS2 - 1) * SMALL_PADDING_TUPLES \in Nat
    BY <2>1, Sizes, ProductNat
  <2> QED
    BY <2>2 DEF Margin
<1>12. Parallel!JoinTask(t, c)[X].first = first + a /\ Parallel!JoinTask(t, c)[X].n = b
  BY <1>8, <1>9, <1>10
<1>13. a + b <= n + m
  BY <1>7, <1>10, <1>11
<1>14. first + a + b + 1 <= task[t][X].first + task[t][X].n + Margin
  <2>1. first + a + b + 1 <= first + n + (m + 1)
    BY <1>13
  <2> QED
    BY <1>3, <1>11, <2>1
<1>15. ASSUME NEW d \in c + 1 .. FANOUT_PASS2 - 1
       PROVE  first + a + b + 1 <= Parallel!JoinTask(t, d)[X].first
  <2>1. d \in 0 .. FANOUT_PASS2 - 1
    OBVIOUS
  <2>2. FANOUT_PASS2 \in Nat /\ Len(Y) \in Nat /\ SMALL_PADDING_TUPLES \in Nat
    BY Sizes
  <2>3. PICK e \in Nat : e = Start(d)
    BY <2>1, <2>2, Layout DEF Start
  <2>4. a + b + pad <= e
    BY <1>7, <1>10, <2>3
  <2>5. Parallel!JoinTask(t, d)[X].first = first + e
    BY <1>8, <2>1, <2>3
  <2> QED
    BY <2>4, <2>5
<1>16. first + a \in Nat /\ first <= first + a
  OBVIOUS
<1>17. b <= Len(in[X])
  <2>1. PICK len \in Nat : len = Len(in[X]) /\ n <= len
    BY <1>2, <1>3
  <2>2. b <= n
    BY <1>7, <1>10
  <2> QED
    BY <2>1, <2>2
<1>18. \A d \in c + 1 .. FANOUT_PASS2 - 1 :
         Parallel!JoinTask(t, c)[X].first + Parallel!JoinTask(t, c)[X].n + 1
             <= Parallel!JoinTask(t, d)[X].first
  BY <1>12, <1>15
<1>19. Parallel!JoinTask(t, c)[X].first + Parallel!JoinTask(t, c)[X].n + 1
         <= task[t][X].first + task[t][X].n + Margin
  BY <1>12, <1>14
<1> QED
  BY <1>3, <1>12, <1>16, <1>17, <1>18, <1>19

(* The join tasks of a partition lie in it one behind the other, and as    *)
(* partitions are apart, they are apart from those of all the others.      *)
LEMMA AddJoinTasksStep ==
    ASSUME ParallelInv, NEW t \in Threads, Parallel!AddJoinTasks(t)
    PROVE  ParallelInv'
<1> DEFINE p == task[t]
           Present == {c \in 0 .. FANOUT_PASS2 - 1 : Parallel!BothPresent(t, c)}
           New == {Parallel!JoinTask(t, c) : c \in Present}
<1>1. Typed /\ PartitionTasks /\ Counted /\ Places /\ CountersReady
  BY DEF ParallelInv
<1>2. /\ pc[t] = "add" /\ join_queue' = join_queue \cup New
      /\ pc' = [pc EXCEPT ![t] = "partition"] /\ task' = [task EXCEPT ![t] = Parallel!NoTask]
      /\ UNCHANGED <<in, join_function, mem, part_queue, output, hist, results>>
  BY SizesSame DEF Parallel!AddJoinTasks
<1>3. pc \in [Threads -> Parallel!Steps] /\ task \in [Threads -> TaskSet] /\ in \in Inputs
  BY <1>1 DEF Typed
<1>4. /\ pc'[t] = "partition" /\ task'[t] = Parallel!NoTask
      /\ \A u \in Threads \ {t} : pc'[u] = pc[u] /\ task'[u] = task[u]
  BY <1>2, <1>3
<1>5. /\ InSecondPass' = InSecondPass \ {t} /\ t \in InSecondPass
      /\ InJoin' = InJoin /\ t \notin InJoin
  BY <1>2, <1>3, <1>4 DEF InSecondPass, InJoin
<1>6. \A u \in InSecondPass' : u \in Threads \ {t}
  BY <1>5 DEF InSecondPass
<1>7. PartitionTasks' /\ Partitioned \subseteq Partitioned'
  BY <1>1, <1>2, <1>4, <1>5, <1>6, PartitionTasksKept
<1>8. p \in Parallel!FirstPassTasks(in) /\ p \notin Partitioned /\ p \in Partitioned'
  <2>1. p \in Parallel!FirstPassTasks(in) /\ p \notin part_queue
    BY <1>1, <1>5 DEF PartitionTasks
  <2>2. \A u \in InSecondPass' : task'[u] # p
    BY <1>1, <1>4, <1>5, <1>6 DEF PartitionTasks
  <2> QED
    BY <1>2, <1>5, <2>1, <2>2 DEF Partitioned
<1>9. Typed'
  <2>1. pc' \in [Threads -> Parallel!Steps]
    BY <1>2, <1>3 DEF Parallel!Steps
  <2>2. Parallel!NoTask \in TaskSet
    BY DEF Parallel!NoTask, Parallel!Task, TaskSet, Span
  <2>3. task' \in [Threads -> TaskSet]
    BY <1>2, <1>3, <2>2
  <2> QED
    BY <1>1, <1>2, <2>1, <2>3 DEF Typed, Memory
<1>10. ASSUME NEW c \in Present
       PROVE  /\ Parallel!JoinTask(t, c) \in TaskSet
              /\ \A X \in Rels : Parallel!JoinTask(t, c)[X].n \in 1 .. Len(in[X])
              /\ Within(Parallel!JoinTask(t, c), p)
  <2> DEFINE k == Parallel!JoinTask(t, c)
  <2>1. ASSUME NEW X \in Rels
        PROVE  /\ k[X].first \in Nat /\ k[X].n \in Nat /\ k[X].n <= Len(in[X])
               /\ p[X].first <= k[X].first
               /\ k[X].first + k[X].n + 1 <= p[X].first + p[X].n + Margin
    BY <1>2, ClusterPlaces
  <2>2. \A X \in Rels : k[X].n > 0
    <3>1. output[t].R[c] > 0 /\ output[t].S[c] > 0
      BY DEF Parallel!BothPresent
    <3>2. \A X \in Rels : k[X].n = output[t][X][c]
      BY JoinTaskFields
    <3> HIDE DEF k
    <3> QED
      BY <3>1, <3>2 DEF Rels
  <2>3. PICK a, b, e, f : k = Parallel!Task(a, b, e, f)
    BY DEF Parallel!JoinTask
  <2> HIDE DEF k
  <2>4. k["R"].first \in Nat /\ k["R"].n \in Nat /\ k["S"].first \in Nat /\ k["S"].n \in Nat
    BY <2>1 DEF Rels
  <2>5. k \in TaskSet
    BY <2>3, <2>4 DEF Parallel!Task, TaskSet, Span
  <2>6. \A X \in Rels : k[X].n \in 1 .. Len(in[X])
    <3> TAKE X \in Rels
    <3>1. Len(in[X]) \in Nat
      BY <1>3, InputTypes
    <3> QED
      BY <2>1, <2>2, <3>1
  <2>7. Within(k, p)
    BY <2>1 DEF Within
  <2> QED
    BY <2>5, <2>6, <2>7 DEF k
<1>11. ASSUME NEW c \in Present, NEW d \in Present, c # d, NEW X \in Rels
       PROVE  Parallel!Reach(Parallel!JoinTask(t, c), X, 1)
                \cap Parallel!Reach(Parallel!JoinTask(t, d), X, 1) = {}
  <2>1. c \in 0 .. FANOUT_PASS2 - 1 /\ d \in 0 .. FANOUT_PASS2 - 1 /\ FANOUT_PASS2 \in Nat
    BY Sizes
  <2>2. ASSUME NEW a \in 0 .. FANOUT_PASS2 - 1, NEW b \in 0 .. FANOUT_PASS2 - 1, a < b
        PROVE  Parallel!Reach(Parallel!JoinTask(t, a), X, 1)
                \cap Parallel!Reach(Parallel!JoinTask(t, b), X, 1) = {}
    <3>1. b \in a + 1 .. FANOUT_PASS2 - 1
      BY <2>1, <2>2
    <3>2. /\ Parallel!JoinTask(t, a)[X].first \in Nat /\ Parallel!JoinTask(t, a)[X].n \in Nat
          /\ Parallel!JoinTask(t, b)[X].first \in Nat /\ Parallel!JoinTask(t, b)[X].n \in Nat
          /\ Parallel!JoinTask(t, a)[X].first + Parallel!JoinTask(t, a)[X].n + 1
                <= Parallel!JoinTask(t, b)[X].first
      BY <1>2, <3>1, ClusterPlaces
    <3> QED
      BY <3>2, InOrder
  <2>3. CASE c < d
    BY <2>1, <2>2, <2>3
  <2>4. CASE d < c
    <3>1. Parallel!Reach(Parallel!JoinTask(t, d), X, 1)
            \cap Parallel!Reach(Parallel!JoinTask(t, c), X, 1) = {}
      BY <2>1, <2>2, <2>4
    <3> QED
      BY <3>1
  <2> QED
    BY <1>11, <2>1, <2>3, <2>4
<1> HIDE DEF p, Present
<1>12. JoinTasks' = JoinTasks \cup New
  <2>1. \A u \in InJoin : task'[u] = task[u]
    BY <1>4, <1>5 DEF InJoin
  <2> QED
    BY <1>2, <1>5, <2>1 DEF JoinTasks
<1>13. ASSUME NEW k \in JoinTasks'
       PROVE  /\ k \in TaskSet /\ \A X \in Rels : k[X].n \in 1 .. Len(in[X])
              /\ k \in JoinTasks => \E q \in Partitioned : Within(k, q)
              /\ k \notin JoinTasks => Within(k, p) /\ k \in New
              /\ \E q \in Partitioned' : Within(k, q)
  <2>1. CASE k \in JoinTasks
    BY <1>1, <1>7, <2>1 DEF Places
  <2>2. CASE k \notin JoinTasks
    <3>1. k \in New
      BY <1>12, <2>2
    <3> QED
      BY <1>8, <1>10, <2>2, <3>1
  <2> QED
    BY <2>1, <2>2
<1>14. ASSUME NEW k \in JoinTasks', NEW l \in JoinTasks' \ {k}, NEW X \in Rels
       PROVE  Parallel!Reach(k, X, 1) \cap Parallel!Reach(l, X, 1) = {}
  <2>1. k \in TaskSet /\ l \in TaskSet
    BY <1>13
  <2>2. CASE k \in JoinTasks /\ l \in JoinTasks
    BY <1>1, <1>14, <2>2 DEF Places
  <2>3. CASE k \notin JoinTasks /\ l \notin JoinTasks
    <3>1. k \in New /\ l \in New
      BY <1>13, <1>14, <2>3
    <3> QED
      BY <1>11, <1>14, <3>1
  <2>4. ASSUME NEW o \in JoinTasks', NEW n \in JoinTasks', o \in JoinTasks, n \notin JoinTasks
        PROVE  Parallel!Reach(o, X, 1) \cap Parallel!Reach(n, X, 1) = {}
    <3>1. PICK q \in Partitioned : Within(o, q)
      BY <1>13, <2>4
    <3>2. Within(n, p) /\ o \in TaskSet /\ n \in TaskSet
      BY <1>13, <2>4
    <3>3. q \in Parallel!FirstPassTasks(in) /\ q # p
      BY <1>8, <3>1 DEF Partitioned
    <3> QED
      BY <1>3, <1>8, <3>1, <3>2, <3>3, WithinApart
  <2>5. CASE k \in JoinTasks /\ l \notin JoinTasks
    BY <1>14, <2>4, <2>5
  <2>6. CASE k \notin JoinTasks /\ l \in JoinTasks
    <3>1. Parallel!Reach(l, X, 1) \cap Parallel!Reach(k, X, 1) = {}
      BY <1>14, <2>4, <2>6
    <3> QED
      BY <3>1
  <2> QED
    BY <2>2, <2>3, <2>5, <2>6
<1>15. Places'
  <2>1. in' = in
    BY <1>2
  <2> QED
    BY <1>13, <1>14, <2>1 DEF Places
<1>16. Counted' /\ CountersReady'
  <2>1. \A u \in Threads : pc'[u] \in {"clusterS", "add", "probe"} =>
          pc'[u] = pc[u] /\ output'[u] = output[u] /\ hist'[u] = hist[u] /\ task'[u] = task[u]
    BY <1>2, <1>4
  <2> QED
    BY <1>1, <2>1, CountedKept, CountersKept
<1> QED
  BY <1>7, <1>9, <1>15, <1>16 DEF ParallelInv

(* The steps of a thread that only changes pc, from and to outside tasks. *)
LEMMA PcStep ==
    ASSUME ParallelInv, pc' \in [Threads -> Parallel!Steps],
           \A u \in Threads : pc'[u] = pc[u] \/ (pc[u] \in {"partition", "barrier", "join"}
                                                /\ pc'[u] \in {"barrier", "join", "done"}),
           UNCHANGED <<in, join_function, mem, part_queue, join_queue, task, output, hist, results>>
    PROVE  ParallelInv'
<1>1. Typed /\ PartitionTasks /\ Counted /\ Places /\ CountersReady
  BY DEF ParallelInv
<1>2. Typed'
  BY <1>1 DEF Typed, Memory
<1>3. InSecondPass' = InSecondPass /\ InJoin' = InJoin
  BY DEF InSecondPass, InJoin
<1>4. PartitionTasks' /\ Partitioned \subseteq Partitioned'
  BY <1>1, <1>3, PartitionTasksKept
<1>5. JoinTasks' = JoinTasks
  BY <1>3 DEF JoinTasks
<1>6. Places'
  BY <1>1, <1>4, <1>5, PlacesKept
<1>7. Counted' /\ CountersReady'
  BY <1>1, CountedKept, CountersKept
<1> QED
  BY <1>2, <1>4, <1>6, <1>7 DEF ParallelInv

(* Who finds no partition left waits for the others. *)
LEMMA EndPartitioningStep ==
    ASSUME ParallelInv, NEW t \in Threads, Parallel!EndPartitioning(t)
    PROVE  ParallelInv'
<1>1. pc \in [Threads -> Parallel!Steps]
  BY DEF ParallelInv, Typed
<1>2. /\ pc[t] = "partition" /\ pc' = [pc EXCEPT ![t] = "barrier"]
      /\ UNCHANGED <<in, join_function, mem, part_queue, join_queue, task, output, hist, results>>
  BY DEF Parallel!EndPartitioning
<1>3. pc' \in [Threads -> Parallel!Steps]
  BY <1>1, <1>2 DEF Parallel!Steps
<1> QED
  BY <1>1, <1>2, <1>3, PcStep

(* The barrier opens when no thread has a partition. *)
LEMMA ReleaseBarrierStep ==
    ASSUME ParallelInv, Parallel!ReleaseBarrier
    PROVE  ParallelInv'
<1>1. pc \in [Threads -> Parallel!Steps]
  BY DEF ParallelInv, Typed
<1>2. /\ pc' = [t \in Threads |-> IF pc[t] = "barrier" THEN "join" ELSE pc[t]]
      /\ UNCHANGED <<in, join_function, mem, part_queue, join_queue, task, output, hist, results>>
  BY DEF Parallel!ReleaseBarrier
<1>3. pc' \in [Threads -> Parallel!Steps]
  BY <1>1, <1>2 DEF Parallel!Steps
<1> QED
  BY <1>1, <1>2, <1>3, PcStep

(* Who finds no join task left is done. *)
LEMMA EndJoiningStep ==
    ASSUME ParallelInv, NEW t \in Threads, Parallel!EndJoining(t)
    PROVE  ParallelInv'
<1>1. pc \in [Threads -> Parallel!Steps]
  BY DEF ParallelInv, Typed
<1>2. /\ pc[t] = "join" /\ pc' = [pc EXCEPT ![t] = "done"]
      /\ UNCHANGED <<in, join_function, mem, part_queue, join_queue, task, output, hist, results>>
  BY DEF Parallel!EndJoining
<1>3. pc' \in [Threads -> Parallel!Steps]
  BY <1>1, <1>2 DEF Parallel!Steps
<1> QED
  BY <1>1, <1>2, <1>3, PcStep

(* A thread that takes a join task from the queue has it alone. *)
LEMMA GetJoinTaskStep ==
    ASSUME ParallelInv, NEW t \in Threads, Parallel!GetJoinTask(t)
    PROVE  ParallelInv'
<1>1. Typed /\ PartitionTasks /\ Counted /\ Places /\ CountersReady
  BY DEF ParallelInv
<1>2. PICK k \in join_queue :
        join_queue' = join_queue \ {k} /\ task' = [task EXCEPT ![t] = k]
  BY DEF Parallel!GetJoinTask
<1>3. /\ pc[t] = "join" /\ pc' = [pc EXCEPT ![t] = "build"]
      /\ UNCHANGED <<in, join_function, mem, part_queue, output, hist, results>>
  BY DEF Parallel!GetJoinTask
<1>4. k \in JoinTasks /\ k \in TaskSet
  BY <1>1 DEF JoinTasks, Places
<1>5. pc \in [Threads -> Parallel!Steps] /\ task \in [Threads -> TaskSet]
  BY <1>1 DEF Typed
<1>6. /\ pc'[t] = "build" /\ task'[t] = k
      /\ \A u \in Threads \ {t} : pc'[u] = pc[u] /\ task'[u] = task[u]
  BY <1>2, <1>3, <1>5
<1>7. /\ InSecondPass' = InSecondPass /\ t \notin InSecondPass
      /\ InJoin' = InJoin \cup {t}
  BY <1>3, <1>5, <1>6 DEF InSecondPass, InJoin
<1>8. Typed'
  <2>1. pc' \in [Threads -> Parallel!Steps] /\ task' \in [Threads -> TaskSet]
    BY <1>2, <1>3, <1>4, <1>5 DEF Parallel!Steps
  <2> QED
    BY <1>1, <1>3, <2>1 DEF Typed, Memory
<1>9. PartitionTasks' /\ Partitioned \subseteq Partitioned'
  <2>1. \A u \in InSecondPass' : task'[u] = task[u]
    BY <1>6, <1>7 DEF InSecondPass
  <2> QED
    BY <1>1, <1>3, <1>7, <2>1, PartitionTasksKept
<1>10. JoinTasks' \subseteq JoinTasks
  <2>1. \A u \in InJoin' : task'[u] \in JoinTasks
    BY <1>4, <1>6, <1>7 DEF JoinTasks, InJoin
  <2>2. {task[u] : u \in InJoin}' \subseteq JoinTasks
    BY <2>1
  <2>3. join_queue' \subseteq JoinTasks
    BY <1>2 DEF JoinTasks
  <2> QED
    BY <2>2, <2>3 DEF JoinTasks
<1>11. Places'
  BY <1>1, <1>3, <1>9, <1>10, PlacesKept
<1>12. \A u \in Threads : pc'[u] \in {"clusterS", "add", "probe"} =>
          pc'[u] = pc[u] /\ output'[u] = output[u] /\ hist'[u] = hist[u] /\ task'[u] = task[u]
  BY <1>3, <1>6
<1>13. Counted' /\ CountersReady'
  BY <1>1, <1>12, CountedKept, CountersKept
<1> QED
  BY <1>8, <1>9, <1>11, <1>13 DEF ParallelInv

(* The tuples of a join task, wherever they are read from. *)
LEMMA JoinTuples ==
    ASSUME ParallelInv, NEW t \in InJoin, NEW X \in Rels
    PROVE  /\ Parallel!Tuples(t, X, "rel") \in Seq(Nat)
           /\ Len(Parallel!Tuples(t, X, "rel")) = task[t][X].n
           /\ task[t][X].n \in Nat \ {0}
<1>1. Typed /\ Places /\ task[t] \in JoinTasks /\ in \in Inputs
  BY DEF ParallelInv, JoinTasks, Typed
<1>2. /\ task[t][X].first \in Nat /\ task[t][X].n \in Nat \ {0}
      /\ task[t][X].first + task[t][X].n + 1 <= Len(in[X]) + RELATION_PADDING
  BY <1>1, WithinMemory
<1>3. Len(in[X]) \in Nat /\ RELATION_PADDING \in Nat
  BY <1>1, InputTypes, Sizes
<1>4. PICK m \in Nat : m = Len(in[X]) + RELATION_PADDING
  BY <1>3
<1>5. task[t][X].first + task[t][X].n <= m
  <2>1. PICK a \in Nat, n \in Nat : a = task[t][X].first /\ n = task[t][X].n
    BY <1>2
  <2>2. a + n + 1 <= m
    BY <1>2, <1>4, <2>1
  <2> QED
    BY <2>1, <2>2
<1>6. mem[X].rel \in [1 .. m -> Nat]
  BY <1>1, <1>4 DEF Typed, Memory
<1>7. Parallel!Tuples(t, X, "rel") =
        Parallel!Slice(mem[X].rel, task[t][X].first, task[t][X].n)
  BY DEF Parallel!Tuples
<1>8. PICK a \in Nat, n \in Nat \ {0} : a = task[t][X].first /\ n = task[t][X].n
  BY <1>2
<1>9. /\ Parallel!Slice(mem[X].rel, a, n) \in Seq(Nat)
      /\ Len(Parallel!Slice(mem[X].rel, a, n)) = n
  <2>1. PICK k \in Nat : k = n
    OBVIOUS
  <2>2. a + k <= m
    BY <1>5, <1>8, <2>1
  <2>3. PICK memory \in [1 .. m -> Nat] : memory = mem[X].rel
    BY <1>6
  <2>4. Parallel!Slice(memory, a, k) \in Seq(Nat) /\ Len(Parallel!Slice(memory, a, k)) = k
    BY <2>2, SliceTyped
  <2> QED
    BY <2>1, <2>3, <2>4
<1> QED
  BY <1>7, <1>8, <1>9

(* A join that ends. *)
LEMMA JoinedKeeps ==
    ASSUME ParallelInv, NEW t \in InJoin, NEW matches \in Nat, Parallel!Joined(t, matches),
           UNCHANGED <<in, join_function, mem, part_queue, join_queue, output, hist>>
    PROVE  ParallelInv'
<1>1. Typed /\ PartitionTasks /\ Counted /\ Places /\ CountersReady
  BY DEF ParallelInv
<1>2. /\ results' = [results EXCEPT ![t] = @ + matches]
      /\ task' = [task EXCEPT ![t] = Parallel!NoTask] /\ pc' = [pc EXCEPT ![t] = "join"]
  BY DEF Parallel!Joined
<1>3. /\ pc \in [Threads -> Parallel!Steps] /\ task \in [Threads -> TaskSet]
      /\ results \in [Threads -> Nat] /\ t \in Threads /\ pc[t] \in {"build", "probe"}
  BY <1>1 DEF Typed, InJoin
<1>4. /\ pc'[t] = "join"
      /\ \A u \in Threads \ {t} : pc'[u] = pc[u] /\ task'[u] = task[u]
  BY <1>2, <1>3
<1>5. /\ InSecondPass' = InSecondPass /\ t \notin InSecondPass
      /\ InJoin' = InJoin \ {t}
  BY <1>3, <1>4 DEF InSecondPass, InJoin
<1>6. Typed'
  <2>1. Parallel!NoTask \in TaskSet
    BY DEF Parallel!NoTask, Parallel!Task, TaskSet, Span
  <2>2. pc' \in [Threads -> Parallel!Steps] /\ task' \in [Threads -> TaskSet]
        /\ results' \in [Threads -> Nat]
    BY <1>2, <1>3, <2>1 DEF Parallel!Steps
  <2> QED
    BY <1>1, <2>2 DEF Typed, Memory
<1>7. PartitionTasks' /\ Partitioned \subseteq Partitioned'
  <2>1. \A u \in InSecondPass' : task'[u] = task[u]
    BY <1>4, <1>5 DEF InSecondPass
  <2> QED
    BY <1>1, <1>5, <2>1, PartitionTasksKept
<1>8. JoinTasks' \subseteq JoinTasks
  <2>1. \A u \in InJoin' : task'[u] = task[u] /\ u \in InJoin
    BY <1>4, <1>5 DEF InJoin
  <2> QED
    BY <2>1 DEF JoinTasks
<1>9. Places'
  BY <1>1, <1>7, <1>8, PlacesKept
<1>10. \A u \in Threads : pc'[u] \in {"clusterS", "add", "probe"} =>
          pc'[u] = pc[u] /\ output'[u] = output[u] /\ hist'[u] = hist[u] /\ task'[u] = task[u]
  BY <1>4
<1>11. Counted' /\ CountersReady'
  BY <1>1, <1>10, CountedKept, CountersKept
<1> QED
  BY <1>6, <1>7, <1>9, <1>11 DEF ParallelInv

(* bucket_chaining_join changes no memory. *)
LEMMA JoinBucketsStep ==
    ASSUME ParallelInv, NEW t \in Threads, Parallel!JoinBuckets(t)
    PROVE  ParallelInv'
<1>1. t \in InJoin
  BY DEF Parallel!JoinBuckets, InJoin
<1>2. PICK matches :
        /\ matches = Parallel!bucket_chaining_join(Parallel!Tuples(t, "R", "rel"),
                                                   Parallel!Tuples(t, "S", "rel"))
        /\ Parallel!Joined(t, matches)
        /\ UNCHANGED <<in, join_function, mem, part_queue, join_queue, output, hist>>
  BY DEF Parallel!JoinBuckets
<1>3. matches \in Nat
  <2>1. Parallel!Tuples(t, "R", "rel") \in Seq(Nat) /\ Parallel!Tuples(t, "S", "rel") \in Seq(Nat)
    BY <1>1, JoinTuples DEF Rels
  <2> QED
    BY <1>2, <2>1, BucketsNat
<1> QED
  BY <1>1, <1>2, <1>3, JoinedKeeps

(* Nor does comparing the tuples of S. *)
LEMMA ProbeStep ==
    ASSUME ParallelInv, NEW t \in Threads, Parallel!Probe(t)
    PROVE  ParallelInv'
<1> DEFINE S == Parallel!Tuples(t, "S", "rel")
           first == task[t].R.first
           numR == task[t].R.n
<1>1. t \in InJoin /\ pc[t] = "probe"
  BY DEF Parallel!Probe, InJoin
<1>2. PICK matches :
        /\ matches = IF join_function = "optimized"
                     THEN Parallel!ProbeBuffered(S, mem.R.tmp, first, hist[t], numR)
                     ELSE Parallel!ProbeScalar(S, mem.R.tmp, first, hist[t], numR)
        /\ Parallel!Joined(t, matches)
        /\ UNCHANGED <<in, join_function, mem, part_queue, join_queue, output, hist>>
  BY DEF Parallel!Probe
<1>3. S \in Seq(Nat) /\ numR \in Nat \ {0}
  BY <1>1, JoinTuples DEF Rels
<1>4. hist[t] \in [0 .. Parallel!get_hist_size(numR) + 1 -> Nat]
  BY <1>1 DEF ParallelInv, CountersReady
<1> HIDE DEF S, first, numR
<1>5. matches \in Nat
  BY <1>2, <1>3, <1>4, ProbeNat
<1> QED
  BY <1>1, <1>2, <1>5, JoinedKeeps

(* Copying R in the order of its hash values leaves a counter for each. *)
LEMMA ReorderStep ==
    ASSUME ParallelInv, NEW t \in Threads, Parallel!Reorder(t)
    PROVE  ParallelInv'
<1> DEFINE R == Parallel!Tuples(t, "R", "rel")
           copied == Parallel!Reordered(R, task[t].R.first)
           once == Parallel!Written(mem.R.tmp, copied)
           written ==
               IF join_function = "optimized"
               THEN Parallel!Written(once, Parallel!SentinelCleared(Len(R), task[t].R.first))
               ELSE once
           counts == Parallel!HistAfterReorder(R)
<1>1. Typed /\ PartitionTasks /\ Counted /\ Places /\ CountersReady
  BY DEF ParallelInv
<1>2. /\ pc[t] = "build" /\ pc' = [pc EXCEPT ![t] = "probe"]
      /\ mem' = [mem EXCEPT !.R.tmp = written]
      /\ hist' = [hist EXCEPT ![t] = counts]
      /\ UNCHANGED <<in, join_function, part_queue, join_queue, task, output, results>>
  BY DEF Parallel!Reorder
<1>3. t \in InJoin /\ "R" \in Rels
  BY <1>2 DEF InJoin, Rels
<1>4. R \in Seq(Nat) /\ Len(R) = task[t]["R"].n /\ Len(R) # 0
  BY <1>3, JoinTuples
<1>5. counts \in [0 .. Parallel!get_hist_size(Len(R)) + 1 -> Nat]
  BY <1>4, CountersTyped
<1>6. written \in Memory("R")
  <2>1. PICK m \in Nat : m = Len(in["R"]) + RELATION_PADDING
    <3>1. Len(in["R"]) \in Nat /\ RELATION_PADDING \in Nat
      BY <1>1, <1>3, InputTypes, Sizes DEF Typed
    <3> QED
      BY <3>1
  <2>2. \A w \in copied : w[2] \in Nat
    BY <1>4, ReorderedTyped
  <2>3. \A w \in Parallel!SentinelCleared(Len(R), task[t].R.first) : w[2] \in Nat
    BY DEF Parallel!SentinelCleared
  <2>4. mem.R.tmp \in [1 .. m -> Nat]
    BY <1>1, <1>3, <2>1 DEF Typed, Memory
  <2> HIDE DEF copied, R
  <2>5. once \in [1 .. m -> Nat]
    BY <2>2, <2>4, WrittenTyped
  <2> HIDE DEF once
  <2>6. written \in [1 .. m -> Nat]
    BY <2>3, <2>5, WrittenTyped
  <2> QED
    BY <2>1, <2>6 DEF Memory
<1> HIDE DEF R, copied, once, written, counts
<1>7. /\ pc \in [Threads -> Parallel!Steps]
      /\ hist = [u \in Threads |-> hist[u]]
      /\ mem = [Y \in Rels |-> [tmp |-> mem[Y].tmp, rel |-> mem[Y].rel]]
      /\ \A Y \in Rels : mem[Y].tmp \in Memory(Y) /\ mem[Y].rel \in Memory(Y)
  BY <1>1 DEF Typed
<1>8. /\ pc'[t] = "probe" /\ hist'[t] = counts
      /\ \A u \in Threads \ {t} : pc'[u] = pc[u] /\ hist'[u] = hist[u]
  BY <1>2, <1>7
<1>9. InSecondPass' = InSecondPass /\ InJoin' = InJoin
  BY <1>2, <1>7, <1>8 DEF InSecondPass, InJoin
<1>10. Typed'
  <2>1. pc' \in [Threads -> Parallel!Steps] /\ hist' = [u \in Threads |-> hist'[u]]
    BY <1>2, <1>7 DEF Parallel!Steps
  <2>2. mem' = [Y \in Rels |-> [tmp |-> IF Y = "R" THEN written ELSE mem[Y].tmp,
                               rel |-> mem[Y].rel]]
    BY <1>2, <1>3, <1>7
  <2>3. \A Y : Memory(Y)' = Memory(Y)
    BY <1>2 DEF Memory
  <2>4. /\ mem' = [Y \in Rels |-> [tmp |-> mem'[Y].tmp, rel |-> mem'[Y].rel]]
        /\ \A Y \in Rels : mem'[Y].tmp \in Memory(Y)' /\ mem'[Y].rel \in Memory(Y)'
    BY <1>6, <1>7, <2>2, <2>3
  <2>5. /\ in \in Inputs /\ join_function \in JoinFunctionNames
        /\ task \in [Threads -> TaskSet] /\ results \in [Threads -> Nat]
        /\ output = [u \in Threads |-> [Y \in Rels |-> output[u][Y]]]
    BY <1>1 DEF Typed
  <2>6. UNCHANGED <<in, join_function, task, results, output>>
    BY <1>2
  <2> HIDE DEF Memory
  <2> QED
    BY <2>1, <2>4, <2>5, <2>6 DEF Typed
<1>11. PartitionTasks' /\ Partitioned \subseteq Partitioned'
  BY <1>1, <1>2, <1>9, PartitionTasksKept
<1>12. JoinTasks' = JoinTasks
  BY <1>2, <1>9 DEF JoinTasks
<1>13. Places'
  BY <1>1, <1>2, <1>11, <1>12, PlacesKept
<1>14. Counted'
  BY <1>1, <1>2, <1>8, CountedKept
<1>15. CountersReady'
  <2> SUFFICES ASSUME NEW u \in Threads, pc'[u] = "probe"
               PROVE  hist'[u] \in [0 .. Parallel!get_hist_size(task'[u]["R"].n) + 1 -> Nat]
    BY DEF CountersReady
  <2>1. CASE u = t
    BY <1>2, <1>4, <1>5, <1>8, <2>1
  <2>2. CASE u # t
    BY <1>1, <1>2, <1>8, <2>2 DEF CountersReady
  <2> QED
    BY <2>1, <2>2
<1> QED
  BY <1>10, <1>11, <1>13, <1>14, <1>15 DEF ParallelInv

(* A relation and its padding are an array. *)
LEMMA Padded ==
    ASSUME NEW X \in Seq(Nat), NEW m \in Nat, NEW junk \in Nat
    PROVE  X \o [s \in 1 .. m |-> junk] \in [1 .. Len(X) + m -> Nat]
<1> DEFINE padding == [s \in 1 .. m |-> junk]
<1>1. padding \in Seq(Nat) /\ Len(padding) = m
  OBVIOUS
<1> HIDE DEF padding
<1>2. X \o padding \in Seq(Nat) /\ Len(X \o padding) = Len(X) + m
  BY <1>1, ConcatProperties
<1>3. PICK Y \in Seq(Nat) : Y = X \o padding
  BY <1>2
<1>4. PICK k \in Nat : k = Len(Y) /\ k = Len(X) + m
  BY <1>2, <1>3
<1>5. Y \in [1 .. k -> Nat]
  <2>1. Y \in [1 .. Len(Y) -> Nat]
    BY LenProperties
  <2> QED
    BY <1>4, <2>1
<1> QED
  BY <1>3, <1>4, <1>5 DEF padding

(* What the first pass leaves has the invariant. *)
LEMMA InitParallel == Parallel!Init => ParallelInv
<1> SUFFICES ASSUME Parallel!Init PROVE ParallelInv
  OBVIOUS
<1>1. PICK input \in Inputs : Parallel!InitWith(input)
  BY DEF Parallel!Init
<1>2. in = input /\ in \in Inputs /\ join_function \in JoinFunctionNames
  BY <1>1 DEF Parallel!InitWith
<1>3. PICK junk \in Junk :
        mem = [X \in Rels |->
                [tmp |-> Parallel!Written([s \in DOMAIN in[X] |-> junk]
                                            \o [s \in 1 .. Parallel!RELATION_PADDING |-> junk],
                            Parallel!Scattered(in[X], 0, 1, Parallel!FANOUT_PASS1,
                                               Parallel!PADDING_TUPLES)),
                 rel |-> in[X] \o [s \in 1 .. Parallel!RELATION_PADDING |-> junk]]]
  BY <1>1 DEF Parallel!InitWith, Parallel!Rels, Rels
<1>4. /\ part_queue = Parallel!FirstPassTasks(in) /\ join_queue = {}
      /\ pc = [t \in Threads |-> "partition"] /\ task = [t \in Threads |-> Parallel!NoTask]
      /\ output = [t \in Threads |-> [X \in Rels |-> <<>>]]
      /\ hist = [t \in Threads |-> <<>>] /\ results = [t \in Threads |-> 0]
  BY <1>1, <1>2 DEF Parallel!InitWith, Parallel!Rels, Rels
<1>5. junk \in Nat
  BY JunkAssumption
<1>6. ASSUME NEW X \in Rels
      PROVE  mem[X].tmp \in Memory(X) /\ mem[X].rel \in Memory(X)
  <2> DEFINE padding == [s \in 1 .. RELATION_PADDING |-> junk]
             garbage == [s \in DOMAIN in[X] |-> junk]
             new == Parallel!Scattered(in[X], 0, 1, FANOUT_PASS1, PADDING_TUPLES)
  <2>1. in[X] \in Seq(Nat) /\ Len(in[X]) \in Nat /\ RELATION_PADDING \in Nat
    BY <1>2, InputTypes, Sizes
  <2>2. garbage \in Seq(Nat) /\ Len(garbage) = Len(in[X])
    BY <1>5, <2>1
  <2>3. \A w \in new : w[2] \in Nat
    BY <2>1, ScatteredTyped
  <2>4. PICK m \in Nat : m = Len(in[X]) + RELATION_PADDING
    BY <2>1
  <2>5. mem[X].tmp = Parallel!Written(garbage \o padding, new) /\ mem[X].rel = in[X] \o padding
    BY <1>3, SizesSame
  <2> HIDE DEF garbage, new
  <2>6. garbage \o padding \in [1 .. m -> Nat] /\ in[X] \o padding \in [1 .. m -> Nat]
    BY <1>5, <2>1, <2>2, <2>4, Padded
  <2> HIDE DEF padding
  <2>7. Parallel!Written(garbage \o padding, new) \in [1 .. m -> Nat]
    BY <2>3, <2>6, WrittenTyped
  <2> QED
    BY <2>4, <2>5, <2>6, <2>7 DEF Memory
<1>7. mem = [X \in Rels |-> [tmp |-> mem[X].tmp, rel |-> mem[X].rel]]
  BY <1>3
<1>8. Typed
  <2>1. Parallel!NoTask \in TaskSet
    BY DEF Parallel!NoTask, Parallel!Task, TaskSet, Span
  <2> QED
    BY <1>2, <1>4, <1>6, <1>7, <2>1 DEF Typed, Parallel!Steps
<1>9. InSecondPass = {} /\ InJoin = {}
  BY <1>4 DEF InSecondPass, InJoin
<1>10. PartitionTasks /\ Counted /\ Places /\ CountersReady
  BY <1>4, <1>9 DEF PartitionTasks, Counted, Places, CountersReady, JoinTasks
<1> QED
  BY <1>8, <1>10 DEF ParallelInv

(* Every step of a thread keeps the invariant. *)
LEMMA ThreadStepKeeps ==
    ASSUME ParallelInv, NEW t \in Threads, Parallel!ThreadStep(t)
    PROVE  ParallelInv'
  BY GetPartitionTaskStep, ClusterRStep, ClusterSStep, AddJoinTasksStep, EndPartitioningStep,
     GetJoinTaskStep, JoinBucketsStep, ReorderStep, ProbeStep, EndJoiningStep
     DEF Parallel!ThreadStep

(* The functions of the module of the single-threaded joins are those of   *)
(* the parallel ones.                                                      *)
LEMMA SerialCardinalitySame == ASSUME NEW S PROVE Serial!Cardinality(S) = Cardinality(S)
  BY DEF Serial!Cardinality, Cardinality

(* The sizes. *)
LEMMA SerialSizesSame ==
    /\ Serial!FANOUT_PASS1 = FANOUT_PASS1 /\ Serial!FANOUT_PASS2 = FANOUT_PASS2
    /\ Serial!NUM_RADIX = NUM_RADIX /\ Serial!RELATION_PADDING = RELATION_PADDING
  BY DEF Serial!FANOUT_PASS1, FANOUT_PASS1, Serial!FANOUT_PASS2, FANOUT_PASS2,
     Serial!NUM_RADIX, NUM_RADIX, Serial!PADDING_TUPLES, PADDING_TUPLES,
     Serial!RELATION_PADDING, RELATION_PADDING

(* Writing memory and reading it. *)
LEMMA MemorySame ==
    ASSUME NEW memory, NEW new, NEW first, NEW n
    PROVE  /\ Serial!Written(memory, new) = Parallel!Written(memory, new)
           /\ Serial!Slice(memory, first, n) = Parallel!Slice(memory, first, n)
  BY DEF Serial!Written, Parallel!Written, Serial!Slice, Parallel!Slice

(* The histograms. *)
LEMMA SerialHistogramSame ==
    ASSUME NEW X, NEW shift, NEW fanOut
    PROVE  Serial!Histogram(X, shift, fanOut) = Histogram(X, shift, fanOut)
  BY HistogramIs, SerialCardinalitySame
     DEF Serial!Histogram, Serial!CountIf, Serial!HASH_BIT_MODULO, HASH_BIT_MODULO

(* What is written is a key. *)
LEMMA SerialScatteredTyped ==
    ASSUME NEW X \in Seq(Nat), NEW first, NEW shift, NEW fanOut, NEW padding,
           NEW w \in Serial!Scattered(X, first, shift, fanOut, padding)
    PROVE  w[2] \in Nat
<1>1. PICK x \in DOMAIN X : w[2] = X[x]
  BY DEF Serial!Scattered
<1> QED
  BY <1>1

(* The join function. *)
LEMMA SerialBucketsSame ==
    ASSUME NEW R, NEW S
    PROVE  Serial!bucket_chaining_join(R, S) = Parallel!bucket_chaining_join(R, S)
  BY DEF Serial!bucket_chaining_join, Parallel!bucket_chaining_join,
     Serial!NEXT_POW_2, Parallel!NEXT_POW_2, Serial!NUM_RADIX, Parallel!NUM_RADIX,
     Serial!FANOUT_PASS1, Parallel!FANOUT_PASS1, Serial!FANOUT_PASS2, Parallel!FANOUT_PASS2,
     Serial!HASH_BIT_MODULO, Parallel!HASH_BIT_MODULO,
     Serial!LastOrNone, Parallel!LastOrNone, Serial!Max, Parallel!Max,
     Serial!Cardinality, Parallel!Cardinality

(* Every place is one element's. *)
LEMMA Ranks ==
    ASSUME NEW n \in Nat, NEW at, at \subseteq 1 .. n
    PROVE  /\ IsFiniteSet(at) /\ Cardinality(at) \in Nat /\ Cardinality(at) <= n
           /\ \A x \in at : RankIn(at, x) \in 0 .. Cardinality(at) - 1
           /\ \A x, y \in at : RankIn(at, x) = RankIn(at, y) => x = y
           /\ \A k \in 1 .. Cardinality(at) : \E x \in at : RankIn(at, x) = k - 1
<1> DEFINE m == Cardinality(at)
           Before(x) == {y \in at : y < x}
           rank == [x \in at |-> Cardinality(Before(x))]
           Taken == {rank[x] : x \in at}
<1>1. IsFiniteSet(1 .. n) /\ Cardinality(1 .. n) = n
  BY FS_Interval
<1>2. IsFiniteSet(at) /\ m <= n /\ m \in Nat
  BY <1>1, FS_Subset, FS_CardinalityType
<1>3. \A x : IsFiniteSet(Before(x)) /\ Cardinality(Before(x)) \in Nat
  <2>1. \A x : Before(x) \subseteq at
    OBVIOUS
  <2> HIDE DEF Before
  <2> QED
    BY <1>2, <2>1, FS_Subset, FS_CardinalityType
<1>4. ASSUME NEW x \in at PROVE Cardinality(Before(x)) \in 0 .. m - 1
  <2>1. Before(x) \subseteq at /\ x \notin Before(x)
    OBVIOUS
  <2>2. Before(x) # at
    BY <2>1
  <2> HIDE DEF Before
  <2>3. Cardinality(Before(x)) <= m /\ Cardinality(Before(x)) # m
    BY <1>2, <2>1, <2>2, FS_Subset
  <2> QED
    BY <1>2, <1>3, <2>3
<1>5. ASSUME NEW x \in at, NEW y \in at, x < y
      PROVE  Cardinality(Before(x)) # Cardinality(Before(y))
  <2>1. Before(x) \subseteq Before(y) /\ x \in Before(y) /\ x \notin Before(x)
    <3>1. x \in Int /\ y \in Int /\ \A z \in at : z \in Int
      OBVIOUS
    <3>2. \A z \in at : z < x => z < y
      BY <1>5, <3>1
    <3>3. ~ (x < x)
      BY <3>1
    <3> QED
      BY <1>5, <3>2, <3>3
  <2>2. Before(x) # Before(y)
    BY <2>1
  <2> HIDE DEF Before
  <2> QED
    BY <1>3, <2>1, <2>2, FS_Subset
<1>6. \A x, y \in at : rank[x] = rank[y] => x = y
  <2> TAKE x \in at, y \in at
  <2>1. x \in Int /\ y \in Int
    OBVIOUS
  <2> HIDE DEF Before
  <2> QED
    BY <1>5, <2>1
<1>7. Cardinality(Taken) = m
  <2>1. rank \in [at -> Taken] /\ \A r \in Taken : \E x \in at : rank[x] = r
    OBVIOUS
  <2> HIDE DEF rank, Taken
  <2> QED
    BY <1>2, <1>6, <2>1, PairedOff
<1>8. Taken = 0 .. m - 1
  <2>1. Taken \subseteq 0 .. m - 1
    BY <1>4
  <2>2. IsFiniteSet(0 .. m - 1) /\ Cardinality(0 .. m - 1) = m
    <3>1. PICK k \in Int : k = m - 1
      BY <1>2
    <3>2. 0 \in Int /\ IsFiniteSet(0 .. k)
          /\ Cardinality(0 .. k) = IF 0 > k THEN 0 ELSE k - 0 + 1
      BY FS_Interval
    <3> QED
      BY <1>2, <3>1, <3>2
  <2> HIDE DEF rank, Taken, m
  <2> QED
    BY <1>7, <2>1, <2>2, FS_Subset
<1>9. \A x : RankIn(at, x) = Cardinality(Before(x))
  BY DEF RankIn
<1>10. ASSUME NEW k \in 1 .. m PROVE \E x \in at : Cardinality(Before(x)) = k - 1
  <2>1. k - 1 \in Taken
    <3> HIDE DEF m, Taken
    <3> QED
      BY <1>2, <1>8
  <2> QED
    BY <2>1
<1> HIDE DEF Before
<1> QED
  BY <1>2, <1>4, <1>6, <1>9, <1>10

(* The tuples at some positions: each is at its place among them. *)
LEMMA TuplesAtAre ==
    ASSUME NEW X \in Seq(Nat), NEW at, at \subseteq DOMAIN X
    PROVE  /\ Parallel!TuplesAt(X, at) \in [1 .. Cardinality(at) -> Nat]
           /\ \A x \in at : Parallel!TuplesAt(X, at)[RankIn(at, x) + 1] = X[x]
<1> DEFINE n == Len(X)
           m == Cardinality(at)
           Of(k) == CHOOSE x \in at : RankIn(at, x) = k - 1
<1>1. n \in Nat /\ at \subseteq 1 .. n
  OBVIOUS
<1>2. /\ m \in Nat
      /\ \A x \in at : RankIn(at, x) \in 0 .. m - 1
      /\ \A x, y \in at : RankIn(at, x) = RankIn(at, y) => x = y
      /\ \A k \in 1 .. m : \E x \in at : RankIn(at, x) = k - 1
  <2> HIDE DEF n
  <2> QED
    BY <1>1, Ranks
<1>3. Parallel!TuplesAt(X, at) = [k \in 1 .. m |-> X[Of(k)]]
  BY DEF Parallel!TuplesAt, RankIn, Parallel!Cardinality, Cardinality
<1>4. ASSUME NEW k \in 1 .. m PROVE Of(k) \in at /\ RankIn(at, Of(k)) = k - 1
  BY <1>2
<1>5. ASSUME NEW k \in 1 .. m PROVE X[Of(k)] \in Nat
  <2>1. Of(k) \in 1 .. n
    BY <1>1, <1>4
  <2> HIDE DEF Of
  <2> QED
    BY <2>1
<1>6. ASSUME NEW x \in at PROVE X[Of(RankIn(at, x) + 1)] = X[x] /\ RankIn(at, x) + 1 \in 1 .. m
  <2>1. RankIn(at, x) \in 0 .. m - 1
    BY <1>2
  <2>2. PICK k \in 1 .. m : k = RankIn(at, x) + 1 /\ k - 1 = RankIn(at, x)
    BY <1>2, <2>1
  <2>3. Of(k) \in at /\ RankIn(at, Of(k)) = RankIn(at, x)
    BY <1>4, <2>2
  <2> HIDE DEF Of
  <2> QED
    BY <1>2, <2>2, <2>3
<1> HIDE DEF Of, m
<1> QED
  BY <1>3, <1>5, <1>6 DEF m

(* The tuples that are kept. *)
LEMMA SerialTuplesAtSame ==
    ASSUME NEW X, NEW at
    PROVE  Serial!TuplesAt(X, at) = Parallel!TuplesAt(X, at)
  BY DEF Serial!TuplesAt, Parallel!TuplesAt, Serial!Cardinality, Parallel!Cardinality

(* What stays of a relation is a relation that is not longer. *)
LEMMA TuplesAtTyped ==
    ASSUME NEW X \in Seq(Nat), NEW at, at \subseteq DOMAIN X
    PROVE  /\ Serial!TuplesAt(X, at) \in Seq(Nat)
           /\ Len(Serial!TuplesAt(X, at)) <= Len(X)
<1>1. PICK n \in Nat : n = Len(X) /\ at \subseteq 1 .. n
  OBVIOUS
<1>2. PICK m \in Nat : m = Cardinality(at) /\ m <= n
  BY <1>1, Ranks
<1>3. PICK Y \in [1 .. m -> Nat] : Y = Serial!TuplesAt(X, at)
  BY <1>2, SerialTuplesAtSame, TuplesAtAre
<1>4. Y \in Seq(Nat) /\ Len(Y) = m
  OBVIOUS
<1> QED
  BY <1>1, <1>2, <1>3, <1>4

(* It holds when they begin. *)
LEMMA InitSerial == Serial!Init => SerialInv
<1> SUFFICES ASSUME Serial!Init PROVE SerialInv
  OBVIOUS
<1>1. PICK input \in Inputs : Serial!InitWith(input)
  BY DEF Serial!Init
<1>2. /\ in \in Inputs /\ alg \in [filter : BOOLEAN, passes : {1, 2}]
      /\ step = 0 /\ i = 0 /\ result = 0 /\ count = Serial!NotCounted
      /\ start = [X \in Rels |-> 0]
      /\ num = [X \in Rels |-> [rel |-> Len(in[X]), out |-> Len(in[X])]]
  BY <1>1 DEF Serial!InitWith, Serial!Rels, Rels
<1>3. smem = [X \in Rels |->
                [rel |-> in[X] \o [s \in 1 .. RELATION_PADDING |-> 0],
                 out |-> [s \in DOMAIN in[X] |-> 0] \o [s \in 1 .. RELATION_PADDING |-> 0]]]
  BY <1>1, SerialSizesSame DEF Serial!InitWith, Serial!Rels, Rels
<1>4. ASSUME NEW X \in Rels
      PROVE  smem[X].rel \in Memory(X) /\ smem[X].out \in Memory(X)
  <2> DEFINE padding == [s \in 1 .. RELATION_PADDING |-> 0]
             zeros == [s \in DOMAIN in[X] |-> 0]
  <2>1. in[X] \in Seq(Nat) /\ Len(in[X]) \in Nat /\ RELATION_PADDING \in Nat
    BY <1>2, InputTypes, Sizes
  <2>2. zeros \in Seq(Nat) /\ Len(zeros) = Len(in[X])
    BY <2>1
  <2>3. PICK m \in Nat : m = Len(in[X]) + RELATION_PADDING
    BY <2>1
  <2>4. smem[X].rel = in[X] \o padding /\ smem[X].out = zeros \o padding
    BY <1>3
  <2> HIDE DEF zeros
  <2>5. in[X] \o padding \in [1 .. m -> Nat] /\ zeros \o padding \in [1 .. m -> Nat]
    BY <2>1, <2>2, <2>3, Padded
  <2> QED
    BY <2>3, <2>4, <2>5 DEF Memory
<1>5. smem = [X \in Rels |-> [rel |-> smem[X].rel, out |-> smem[X].out]]
  BY <1>3
<1>6. \A X \in Rels : Len(in[X]) \in Nat
  BY <1>2, InputTypes
<1>7. SerialTyped
  <2>1. NUM_RADIX \in Nat
    BY Sizes
  <2>2. i \in 0 .. NUM_RADIX /\ step \in 0 .. 4 /\ result \in Nat
    BY <1>2, <2>1
  <2>3. /\ num = [X \in Rels |-> [rel |-> num[X].rel, out |-> num[X].out]]
        /\ \A X \in Rels : num[X].rel \in 0 .. Len(in[X]) /\ num[X].out \in 0 .. Len(in[X])
        /\ \A X \in Rels : start[X] \in 0 .. Len(in[X])
    BY <1>2, <1>6
  <2> QED
    BY <1>2, <1>4, <1>5, <2>2, <2>3 DEF SerialTyped
<1>8. SerialCounted
  BY <1>2 DEF SerialCounted
<1> QED
  BY <1>7, <1>8 DEF SerialInv

(* With one pass. *)
LEMMA OnePassCalls ==
    ASSUME alg \in [filter : BOOLEAN, passes : {1, 2}], alg.passes = 1,
           step \in 0 .. 4, step < Len(Serial!Calls), NEW c, c = Serial!Calls[step + 1]
    PROVE  step + 1 \in 0 .. 4 /\ step + 1 <= Len(Serial!Calls) /\ CallInOrder(c)
<1>1. StagesOf("R") = <<0, 2, 2>> /\ StagesOf("S") = <<0, 0, 2>>
  BY DEF StagesOf
<1>2. PICK usage : usage = (IF alg.filter THEN "INSERT" ELSE "IGNORE")
  OBVIOUS
<1>3. PICK other : other = (IF alg.filter THEN "CHECK" ELSE "IGNORE")
  OBVIOUS
<1>4. PICK C, D : /\ C = Serial!Call("R", "rel", "out", 0, usage)
                  /\ D = Serial!Call("S", "rel", "out", 0, other)
  OBVIOUS
<1>5. Serial!Calls = <<C, D>>
  <2>1. CASE alg.filter
    BY <1>2, <1>3, <1>4, <2>1 DEF Serial!Calls, Serial!CallsOfBRJ
  <2>2. CASE ~ alg.filter
    BY <1>2, <1>3, <1>4, <2>2 DEF Serial!Calls, Serial!CallsOfRJ
  <2> QED
    BY <2>1, <2>2
<1>6. /\ C.X = "R" /\ C.from = "rel" /\ C.to = "out" /\ C.usage = usage
      /\ C.shift = 1 /\ C.fanOut = NUM_RADIX
  BY <1>4, SerialSizesSame DEF Serial!Call
<1>7. /\ D.X = "S" /\ D.from = "rel" /\ D.to = "out" /\ D.usage = other
      /\ D.shift = 1 /\ D.fanOut = NUM_RADIX
  BY <1>4, SerialSizesSame DEF Serial!Call
<1>8. Len(Serial!Calls) = 2 /\ Serial!Calls[1] = C /\ Serial!Calls[2] = D
  BY <1>5
<1>9. step = 0 \/ step = 1
  BY <1>8
<1>10. CASE step = 0
  <2>1. c = C
    BY <1>8, <1>10
  <2>2. Stage("R") = 0 /\ NextStage("R") = 2 /\ Stage("S") = 0 /\ NextStage("S") = 0
    BY <1>1, <1>10 DEF Stage, NextStage
  <2>3. FirstCall(c)
    BY <1>6, <2>1, <2>2 DEF FirstCall
  <2> QED
    BY <1>2, <1>6, <1>8, <1>10, <2>1, <2>2, <2>3 DEF CallInOrder, Rels
<1>11. CASE step = 1
  <2>1. c = D
    BY <1>8, <1>11
  <2>2. Stage("R") = 2 /\ NextStage("R") = 2 /\ Stage("S") = 0 /\ NextStage("S") = 2
    BY <1>1, <1>11 DEF Stage, NextStage
  <2>3. FirstCall(c)
    BY <1>7, <2>1, <2>2 DEF FirstCall
  <2> QED
    BY <1>3, <1>7, <1>8, <1>11, <2>1, <2>2, <2>3 DEF CallInOrder, Rels
<1> QED
  BY <1>9, <1>10, <1>11

(* With two, BRJ sorts R first. *)
LEMMA TwoPassCallsOfBRJ ==
    ASSUME alg \in [filter : BOOLEAN, passes : {1, 2}], alg.passes # 1, alg.filter,
           step \in 0 .. 4, step < Len(Serial!Calls), NEW c, c = Serial!Calls[step + 1]
    PROVE  step + 1 \in 0 .. 4 /\ step + 1 <= Len(Serial!Calls) /\ CallInOrder(c)
<1>1. StagesOf("R") = <<0, 1, 2, 2, 2>> /\ StagesOf("S") = <<0, 0, 0, 1, 2>> /\ alg.passes = 2
  BY DEF StagesOf
<1>2. PICK C, D, E, F : /\ C = Serial!Call("R", "rel", "out", 1, "IGNORE")
                        /\ D = Serial!Call("R", "out", "rel", 2, "INSERT")
                        /\ E = Serial!Call("S", "rel", "out", 1, "CHECK")
                        /\ F = Serial!Call("S", "out", "rel", 2, "IGNORE")
  OBVIOUS
<1>3. Serial!Calls = <<C, D, E, F>>
  BY <1>2 DEF Serial!Calls, Serial!CallsOfBRJ
<1>4. /\ C.X = "R" /\ C.from = "rel" /\ C.to = "out" /\ C.usage = "IGNORE"
      /\ C.shift = 1 /\ C.fanOut = FANOUT_PASS1
  BY <1>2, SerialSizesSame DEF Serial!Call
<1>5. /\ D.X = "R" /\ D.from = "out" /\ D.to = "rel" /\ D.usage = "INSERT"
      /\ D.shift = FANOUT_PASS1 /\ D.fanOut = FANOUT_PASS2
  BY <1>2, SerialSizesSame DEF Serial!Call
<1>6. /\ E.X = "S" /\ E.from = "rel" /\ E.to = "out" /\ E.usage = "CHECK"
      /\ E.shift = 1 /\ E.fanOut = FANOUT_PASS1
  BY <1>2, SerialSizesSame DEF Serial!Call
<1>7. /\ F.X = "S" /\ F.from = "out" /\ F.to = "rel" /\ F.usage = "IGNORE"
      /\ F.shift = FANOUT_PASS1 /\ F.fanOut = FANOUT_PASS2
  BY <1>2, SerialSizesSame DEF Serial!Call
<1>8. /\ Len(Serial!Calls) = 4 /\ Serial!Calls[1] = C /\ Serial!Calls[2] = D
      /\ Serial!Calls[3] = E /\ Serial!Calls[4] = F
  BY <1>3
<1>9. step = 0 \/ step = 1 \/ step = 2 \/ step = 3
  BY <1>8
<1>10. CASE step = 0
  <2>1. c = C
    BY <1>8, <1>10
  <2>2. Stage("R") = 0 /\ NextStage("R") = 1 /\ Stage("S") = 0 /\ NextStage("S") = 0
    BY <1>1, <1>10 DEF Stage, NextStage
  <2>3. FirstCall(c)
    BY <1>1, <1>4, <2>1, <2>2 DEF FirstCall
  <2> QED
    BY <1>4, <1>8, <1>10, <2>1, <2>2, <2>3 DEF CallInOrder, Rels
<1>11. CASE step = 1
  <2>1. c = D
    BY <1>8, <1>11
  <2>2. Stage("R") = 1 /\ NextStage("R") = 2 /\ Stage("S") = 0 /\ NextStage("S") = 0
    BY <1>1, <1>11 DEF Stage, NextStage
  <2>3. SecondCall(c)
    BY <1>1, <1>5, <2>1, <2>2 DEF SecondCall
  <2> QED
    BY <1>5, <1>8, <1>11, <2>1, <2>2, <2>3 DEF CallInOrder, Rels
<1>12. CASE step = 2
  <2>1. c = E
    BY <1>8, <1>12
  <2>2. Stage("R") = 2 /\ NextStage("R") = 2 /\ Stage("S") = 0 /\ NextStage("S") = 1
    BY <1>1, <1>12 DEF Stage, NextStage
  <2>3. FirstCall(c)
    BY <1>1, <1>6, <2>1, <2>2 DEF FirstCall
  <2> QED
    BY <1>6, <1>8, <1>12, <2>1, <2>2, <2>3 DEF CallInOrder, Rels
<1>13. CASE step = 3
  <2>1. c = F
    BY <1>8, <1>13
  <2>2. Stage("R") = 2 /\ NextStage("R") = 2 /\ Stage("S") = 1 /\ NextStage("S") = 2
    BY <1>1, <1>13 DEF Stage, NextStage
  <2>3. SecondCall(c) /\ ~ FirstCall(c)
    BY <1>1, <1>7, <2>1, <2>2 DEF SecondCall, FirstCall
  <2> QED
    BY <1>7, <1>8, <1>13, <2>1, <2>2, <2>3 DEF CallInOrder, Rels
<1> QED
  BY <1>9, <1>10, <1>11, <1>12, <1>13

(* RJ has the first pass of both before the second. *)
LEMMA TwoPassCallsOfRJ ==
    ASSUME alg \in [filter : BOOLEAN, passes : {1, 2}], alg.passes # 1, ~ alg.filter,
           step \in 0 .. 4, step < Len(Serial!Calls), NEW c, c = Serial!Calls[step + 1]
    PROVE  step + 1 \in 0 .. 4 /\ step + 1 <= Len(Serial!Calls) /\ CallInOrder(c)
<1>1. StagesOf("R") = <<0, 1, 1, 2, 2>> /\ StagesOf("S") = <<0, 0, 1, 1, 2>> /\ alg.passes = 2
  BY DEF StagesOf
<1>2. PICK C, D, E, F : /\ C = Serial!Call("R", "rel", "out", 1, "IGNORE")
                        /\ D = Serial!Call("S", "rel", "out", 1, "IGNORE")
                        /\ E = Serial!Call("R", "out", "rel", 2, "IGNORE")
                        /\ F = Serial!Call("S", "out", "rel", 2, "IGNORE")
  OBVIOUS
<1>3. Serial!Calls = <<C, D, E, F>>
  BY <1>2 DEF Serial!Calls, Serial!CallsOfRJ
<1>4. /\ C.X = "R" /\ C.from = "rel" /\ C.to = "out" /\ C.usage = "IGNORE"
      /\ C.shift = 1 /\ C.fanOut = FANOUT_PASS1
  BY <1>2, SerialSizesSame DEF Serial!Call
<1>5. /\ D.X = "S" /\ D.from = "rel" /\ D.to = "out" /\ D.usage = "IGNORE"
      /\ D.shift = 1 /\ D.fanOut = FANOUT_PASS1
  BY <1>2, SerialSizesSame DEF Serial!Call
<1>6. /\ E.X = "R" /\ E.from = "out" /\ E.to = "rel" /\ E.usage = "IGNORE"
      /\ E.shift = FANOUT_PASS1 /\ E.fanOut = FANOUT_PASS2
  BY <1>2, SerialSizesSame DEF Serial!Call
<1>7. /\ F.X = "S" /\ F.from = "out" /\ F.to = "rel" /\ F.usage = "IGNORE"
      /\ F.shift = FANOUT_PASS1 /\ F.fanOut = FANOUT_PASS2
  BY <1>2, SerialSizesSame DEF Serial!Call
<1>8. /\ Len(Serial!Calls) = 4 /\ Serial!Calls[1] = C /\ Serial!Calls[2] = D
      /\ Serial!Calls[3] = E /\ Serial!Calls[4] = F
  BY <1>3
<1>9. step = 0 \/ step = 1 \/ step = 2 \/ step = 3
  BY <1>8
<1>10. CASE step = 0
  <2>1. c = C
    BY <1>8, <1>10
  <2>2. Stage("R") = 0 /\ NextStage("R") = 1 /\ Stage("S") = 0 /\ NextStage("S") = 0
    BY <1>1, <1>10 DEF Stage, NextStage
  <2>3. FirstCall(c)
    BY <1>1, <1>4, <2>1, <2>2 DEF FirstCall
  <2> QED
    BY <1>4, <1>8, <1>10, <2>1, <2>2, <2>3 DEF CallInOrder, Rels
<1>11. CASE step = 1
  <2>1. c = D
    BY <1>8, <1>11
  <2>2. Stage("R") = 1 /\ NextStage("R") = 1 /\ Stage("S") = 0 /\ NextStage("S") = 1
    BY <1>1, <1>11 DEF Stage, NextStage
  <2>3. FirstCall(c)
    BY <1>1, <1>5, <2>1, <2>2 DEF FirstCall
  <2> QED
    BY <1>5, <1>8, <1>11, <2>1, <2>2, <2>3 DEF CallInOrder, Rels
<1>12. CASE step = 2
  <2>1. c = E
    BY <1>8, <1>12
  <2>2. Stage("R") = 1 /\ NextStage("R") = 2 /\ Stage("S") = 1 /\ NextStage("S") = 1
    BY <1>1, <1>12 DEF Stage, NextStage
  <2>3. SecondCall(c)
    BY <1>1, <1>6, <2>1, <2>2 DEF SecondCall
  <2> QED
    BY <1>6, <1>8, <1>12, <2>1, <2>2, <2>3 DEF CallInOrder, Rels
<1>13. CASE step = 3
  <2>1. c = F
    BY <1>8, <1>13
  <2>2. Stage("R") = 2 /\ NextStage("R") = 2 /\ Stage("S") = 1 /\ NextStage("S") = 2
    BY <1>1, <1>13 DEF Stage, NextStage
  <2>3. SecondCall(c) /\ ~ FirstCall(c)
    BY <1>1, <1>7, <2>1, <2>2 DEF SecondCall, FirstCall
  <2> QED
    BY <1>7, <1>8, <1>13, <2>1, <2>2, <2>3 DEF CallInOrder, Rels
<1> QED
  BY <1>9, <1>10, <1>11, <1>12, <1>13

(* Calls are in the order of the stages. *)
LEMMA CallsInOrder ==
    ASSUME alg \in [filter : BOOLEAN, passes : {1, 2}],
           step \in 0 .. 4, step < Len(Serial!Calls), NEW c, c = Serial!Calls[step + 1]
    PROVE  step + 1 \in 0 .. 4 /\ step + 1 <= Len(Serial!Calls) /\ CallInOrder(c)
  BY OnePassCalls, TwoPassCallsOfBRJ, TwoPassCallsOfRJ

(* After all of them both relations are sorted. *)
LEMMA CallsSort ==
    ASSUME alg \in [filter : BOOLEAN, passes : {1, 2}], step = Len(Serial!Calls)
    PROVE  Stage("R") = 2 /\ Stage("S") = 2
<1>1. CASE alg.passes = 1
  <2>1. Len(Serial!Calls) = 2
    BY <1>1 DEF Serial!Calls, Serial!CallsOfBRJ, Serial!CallsOfRJ
  <2> QED
    BY <1>1, <2>1 DEF Stage, StagesOf
<1>2. CASE alg.passes # 1
  <2>1. Len(Serial!Calls) = 4
    BY <1>2 DEF Serial!Calls, Serial!CallsOfBRJ, Serial!CallsOfRJ
  <2> QED
    BY <1>2, <2>1 DEF Stage, StagesOf
<1> QED
  BY <1>1, <1>2

(* The tuples of a copy of a relation. *)
LEMMA CopyTuples ==
    ASSUME SerialTyped, NEW X \in Rels, NEW array \in {"rel", "out"}
    PROVE  /\ Serial!Slice(smem[X][array], 0, num[X][array]) \in Seq(Nat)
           /\ Len(Serial!Slice(smem[X][array], 0, num[X][array])) <= Len(in[X])
<1>1. Len(in[X]) \in Nat /\ RELATION_PADDING \in Nat
  BY InputTypes, Sizes DEF SerialTyped
<1>2. PICK len \in Nat, m \in Nat : len = Len(in[X]) /\ m = Len(in[X]) + RELATION_PADDING /\ len <= m
  BY <1>1
<1>3. PICK n \in Nat : n = num[X][array] /\ n <= len
  <2>1. num[X].rel \in 0 .. len /\ num[X].out \in 0 .. len
    BY <1>2 DEF SerialTyped
  <2> QED
    BY <1>2, <2>1
<1>4. smem[X][array] \in [1 .. m -> Nat]
  BY <1>2 DEF SerialTyped, Memory
<1>5. PICK memory \in [1 .. m -> Nat] : memory = smem[X][array]
  BY <1>4
<1>6. 0 + n <= m
  BY <1>2, <1>3
<1>7. PICK first \in Nat : first = 0
  OBVIOUS
<1>8. Parallel!Slice(memory, 0, n) \in Seq(Nat) /\ Len(Parallel!Slice(memory, 0, n)) = n
  <2>1. first + n <= m
    BY <1>6, <1>7
  <2>2. Parallel!Slice(memory, first, n) \in Seq(Nat) /\ Len(Parallel!Slice(memory, first, n)) = n
    BY <2>1, SliceTyped
  <2> QED
    BY <1>7, <2>2
<1> QED
  BY <1>2, <1>3, <1>5, <1>8, MemorySame

(* What contains_cache remembers is kept. *)
LEMMA KeptTyped ==
    ASSUME NEW X \in Seq(Nat), NEW usage
    PROVE  /\ Serial!Kept(X, usage) \in Seq(Nat)
           /\ Len(Serial!Kept(X, usage)) <= Len(X)
<1>1. CASE usage = "CHECK"
  <2> DEFINE at == {x \in DOMAIN X : Bits[X[x]] \subseteq bitmap}
  <2>1. Serial!Kept(X, usage) = Serial!TuplesAt(X, at)
    BY <1>1 DEF Serial!Kept
  <2>2. at \subseteq DOMAIN X
    OBVIOUS
  <2> HIDE DEF at
  <2> QED
    BY <2>1, <2>2, TuplesAtTyped
<1>2. CASE usage # "CHECK"
  <2>1. Len(X) \in Nat /\ Serial!Kept(X, usage) = X
    BY <1>2 DEF Serial!Kept
  <2> QED
    BY <2>1
<1> QED
  BY <1>1, <1>2

(* A call writes to one of a relation's two copies. *)
LEMMA RadixClusterStep == SerialInv /\ Serial!radix_cluster_nopadding => SerialInv'
<1> SUFFICES ASSUME SerialInv, Serial!radix_cluster_nopadding PROVE SerialInv'
  OBVIOUS
<1>1. SerialTyped /\ SerialCounted
  BY DEF SerialInv
<1>2. /\ step < Len(Serial!Calls) /\ step \in 0 .. 4 /\ step' = step + 1
      /\ UNCHANGED <<in, alg, count, i, start, result>>
  BY <1>1 DEF Serial!radix_cluster_nopadding, SerialTyped
<1>3. PICK X \in Rels, from \in {"rel", "out"}, to \in {"rel", "out"} :
        /\ step + 1 \in 0 .. 4
        /\ X = Serial!Calls[step + 1].X
        /\ from = Serial!Calls[step + 1].from /\ to = Serial!Calls[step + 1].to
  <2>1. PICK call : call = Serial!Calls[step + 1]
    OBVIOUS
  <2>2. step + 1 \in 0 .. 4 /\ CallInOrder(call)
    BY <1>1, <1>2, <2>1, CallsInOrder DEF SerialTyped
  <2> QED
    BY <2>1, <2>2 DEF CallInOrder, FirstCall, SecondCall
<1> DEFINE c == Serial!Calls[step + 1]
           tuples == Serial!Slice(smem[X][from], 0, num[X][from])
           kept == Serial!Kept(tuples, c.usage)
           new == Serial!Scattered(kept, 0, c.shift, c.fanOut, 0)
           Lengths(Y) == 0 .. Len(in[Y])
<1>4. /\ smem' = [smem EXCEPT ![X][to] = Serial!Written(smem[X][to], new)]
      /\ num' = [num EXCEPT ![X][to] = Len(kept)]
  BY <1>3 DEF Serial!radix_cluster_nopadding
<1>5. tuples \in Seq(Nat) /\ Len(tuples) <= Len(in[X])
  BY <1>1, CopyTuples
<1>6. kept \in Seq(Nat) /\ Len(kept) <= Len(tuples)
  <2> HIDE DEF tuples
  <2> QED
    BY <1>5, KeptTyped
<1>7. PICK len \in Nat, m \in Nat :
        len = Len(in[X]) /\ m = Len(in[X]) + RELATION_PADDING
  <2>1. Len(in[X]) \in Nat /\ RELATION_PADDING \in Nat
    BY <1>1, InputTypes, Sizes DEF SerialTyped
  <2> QED
    BY <2>1
<1>8. PICK n \in Nat : n = Len(kept) /\ n <= len
  <2>1. Len(kept) \in Nat /\ Len(tuples) \in Nat
    BY <1>5, <1>6
  <2> HIDE DEF kept, tuples
  <2> QED
    BY <1>5, <1>6, <1>7, <2>1
<1>9. \A w \in new : w[2] \in Nat
  <2> HIDE DEF kept, c
  <2> QED
    BY <1>6, SerialScatteredTyped
<1>10. smem[X][to] \in [1 .. m -> Nat]
  BY <1>1, <1>7 DEF SerialTyped, Memory
<1> HIDE DEF new, kept, tuples, c
<1>11. Serial!Written(smem[X][to], new) \in [1 .. m -> Nat]
  <2>1. PICK memory \in [1 .. m -> Nat] : memory = smem[X][to]
    BY <1>10
  <2>2. Parallel!Written(memory, new) \in [1 .. m -> Nat]
    BY <1>9, WrittenTyped
  <2> QED
    BY <2>1, <2>2, MemorySame
<1>12. PICK memory \in [1 .. m -> Nat] : memory = Serial!Written(smem[X][to], new)
  BY <1>11
<1>13. \A Y \in Rels : Memory(Y)' = Memory(Y)
  BY <1>2 DEF Memory
<1>14. memory \in Memory(X)
  BY <1>7 DEF Memory
<1>15. /\ smem' = [Y \in Rels |-> [rel |-> smem'[Y].rel, out |-> smem'[Y].out]]
       /\ \A Y \in Rels : smem'[Y].rel \in Memory(Y) /\ smem'[Y].out \in Memory(Y)
  <2>1. /\ smem = [Y \in Rels |-> [rel |-> smem[Y].rel, out |-> smem[Y].out]]
        /\ \A Y \in Rels : smem[Y].rel \in Memory(Y) /\ smem[Y].out \in Memory(Y)
    BY <1>1 DEF SerialTyped
  <2>2. smem' = [smem EXCEPT ![X][to] = memory]
    BY <1>4, <1>12
  <2>3. CASE to = "rel"
    <3>1. smem' = [smem EXCEPT ![X].rel = memory]
      BY <2>2, <2>3
    <3> QED
      BY <1>14, <2>1, <3>1
  <2>4. CASE to = "out"
    <3>1. smem' = [smem EXCEPT ![X].out = memory]
      BY <2>2, <2>4
    <3> QED
      BY <1>14, <2>1, <3>1
  <2> QED
    BY <2>3, <2>4
<1>16. /\ num' = [Y \in Rels |-> [rel |-> num'[Y].rel, out |-> num'[Y].out]]
       /\ \A Y \in Rels : num'[Y].rel \in Lengths(Y) /\ num'[Y].out \in Lengths(Y)
  <2>1. /\ num = [Y \in Rels |-> [rel |-> num[Y].rel, out |-> num[Y].out]]
        /\ \A Y \in Rels : num[Y].rel \in Lengths(Y) /\ num[Y].out \in Lengths(Y)
    BY <1>1 DEF SerialTyped
  <2>2. num' = [num EXCEPT ![X][to] = n] /\ n \in Lengths(X)
    BY <1>4, <1>7, <1>8
  <2> HIDE DEF Lengths
  <2>3. CASE to = "rel"
    <3>1. num' = [num EXCEPT ![X].rel = n]
      BY <2>2, <2>3
    <3> QED
      BY <2>1, <2>2, <3>1
  <2>4. CASE to = "out"
    <3>1. num' = [num EXCEPT ![X].out = n]
      BY <2>2, <2>4
    <3> QED
      BY <2>1, <2>2, <3>1
  <2> QED
    BY <2>3, <2>4
<1>17. SerialTyped'
  BY <1>1, <1>2, <1>3, <1>13, <1>15, <1>16 DEF SerialTyped
<1>18. SerialCounted'
  <2>1. Serial!NotCounted' = Serial!NotCounted
    BY DEF Serial!NotCounted, Serial!Rels
  <2>2. \A Y : CountOf(Y)' = CountOf(Y)
    BY <1>2 DEF CountOf
  <2> QED
    BY <1>1, <1>2, <2>1, <2>2 DEF SerialCounted
<1> QED
  BY <1>17, <1>18 DEF SerialInv

(* The relations that are joined are no longer than the inputs. *)
LEMMA ClusteredTyped ==
    ASSUME SerialTyped, NEW X \in Rels
    PROVE  /\ Serial!last \in {"rel", "out"}
           /\ Serial!Clustered(X) \in Seq(Nat) /\ Len(Serial!Clustered(X)) <= Len(in[X])
<1>1. Serial!last \in {"rel", "out"}
  BY DEF Serial!last
<1> QED
  BY <1>1, CopyTuples DEF Serial!Clustered

(* Counting the clusters' tuples. *)
LEMMA CountClustersStep == SerialInv /\ Serial!CountClusters => SerialInv'
<1> SUFFICES ASSUME SerialInv, Serial!CountClusters PROVE SerialInv'
  OBVIOUS
<1>1. /\ SerialTyped /\ SerialCounted /\ count = Serial!NotCounted
      /\ UNCHANGED <<in, alg, smem, num, bitmap, step, i, start, result>>
  BY DEF SerialInv, Serial!CountClusters
<1>2. i = 0 /\ \A X \in Rels : start[X] = 0
  BY <1>1 DEF SerialCounted
<1>3. count' = [X \in Rels |-> Histogram(Serial!Clustered(X), 1, NUM_RADIX)]
  BY SerialHistogramSame, SerialSizesSame DEF Serial!CountClusters, Serial!Rels, Rels
<1>4. ASSUME NEW X \in Rels PROVE CountOf(X)'
  <2>1. PICK Y \in Seq(Nat) : Y = Serial!Clustered(X) /\ Len(Y) <= Len(in[X])
    BY <1>1, ClusteredTyped
  <2>2. Len(Y) \in Nat /\ NUM_RADIX \in Nat \ {0}
    BY Sizes
  <2>3. PICK c \in 0 .. NUM_RADIX - 1 : c = 0
    BY <2>2
  <2>4. SumBelow(Histogram(Y, 1, NUM_RADIX), c) \in Nat
    BY <2>2, ClusterSizes
  <2>5. start[X] <= SumBelow(Histogram(Y, 1, NUM_RADIX), i)
    BY <1>2, <2>3, <2>4
  <2>6. count'[X] = Histogram(Y, 1, NUM_RADIX)
    BY <1>3, <2>1
  <2> QED
    BY <1>1, <2>1, <2>5, <2>6 DEF CountOf
<1>5. SerialTyped'
  BY <1>1 DEF SerialTyped, Memory
<1>6. SerialCounted'
  BY <1>1, <1>2, <1>4 DEF SerialCounted
<1> QED
  BY <1>5, <1>6 DEF SerialInv

(* Joining a cluster: it is within the relations, and r and s move behind  *)
(* it.                                                                     *)
LEMMA JoinClusterStep == SerialInv /\ Serial!JoinCluster => SerialInv'
<1> SUFFICES ASSUME SerialInv, Serial!JoinCluster PROVE SerialInv'
  OBVIOUS
<1>1. /\ SerialTyped /\ SerialCounted /\ count # Serial!NotCounted
      /\ i < NUM_RADIX /\ i' = i + 1
      /\ start' = [X \in Rels |-> start[X] + count[X][i]]
      /\ UNCHANGED <<in, alg, smem, num, bitmap, step, count>>
  BY SerialSizesSame DEF SerialInv, Serial!JoinCluster, Serial!Rels, Rels
<1>2. PICK n \in Nat : n = NUM_RADIX /\ i \in 0 .. n - 1 /\ i + 1 \in 0 .. n
  <2>1. i \in 0 .. NUM_RADIX /\ NUM_RADIX \in Nat
    BY <1>1, Sizes DEF SerialTyped
  <2> QED
    BY <1>1, <2>1
<1>3. ASSUME NEW X \in Rels
      PROVE  /\ CountOf(X)'
             /\ count[X][i] \in Nat
             /\ start[X] + count[X][i] \in 0 .. Len(in[X])
             /\ Serial!Cluster(X) \in Seq(Nat)
  <2>1. PICK Y \in Seq(Nat) :
          /\ Len(Y) <= Len(in[X]) /\ count[X] = Histogram(Y, 1, n)
          /\ start[X] <= SumBelow(count[X], i)
    BY <1>1, <1>2 DEF SerialCounted, CountOf
  <2> DEFINE h == Histogram(Y, 1, n)
  <2>2. Len(Y) \in Nat
    OBVIOUS
  <2>3. /\ h[i] \in Nat /\ SumBelow(h, i) \in Nat /\ SumBelow(h, i) + h[i] <= Len(Y)
        /\ \A d \in i + 1 .. n - 1 : SumBelow(h, i) + h[i] <= SumBelow(h, d)
    BY <1>2, <2>2, ClusterSizes
  <2>4. PICK len \in Nat, m \in Nat :
          len = Len(in[X]) /\ m = Len(in[X]) + RELATION_PADDING /\ len <= m
    <3>1. Len(in[X]) \in Nat /\ RELATION_PADDING \in Nat
      BY <1>1, InputTypes, Sizes DEF SerialTyped
    <3> QED
      BY <3>1
  <2>5. PICK s \in Nat, k \in Nat, b \in Nat :
          s = start[X] /\ k = h[i] /\ b = SumBelow(h, i) /\ s <= b
    <3>1. start[X] \in 0 .. len
      BY <1>1, <2>4 DEF SerialTyped
    <3>2. start[X] \in Nat
      BY <3>1
    <3> QED
      BY <2>1, <2>3, <3>2
  <2> HIDE DEF h
  <2>6. s + k <= len
    <3>1. PICK l \in Nat : l = Len(Y) /\ l <= len
      BY <2>1, <2>2, <2>4
    <3>2. b + k <= l
      BY <2>3, <2>5, <3>1
    <3> QED
      BY <2>5, <3>1, <3>2
  <2>7. i + 1 < n => s + k <= SumBelow(h, i + 1)
    <3> SUFFICES ASSUME i + 1 < n PROVE s + k <= SumBelow(h, i + 1)
      OBVIOUS
    <3>1. i + 1 \in i + 1 .. n - 1 /\ i + 1 \in 0 .. n - 1
      BY <1>2
    <3>2. b + k <= SumBelow(h, i + 1)
      BY <2>3, <2>5, <3>1
    <3>3. SumBelow(h, i + 1) \in Nat
      BY <2>2, <3>1, ClusterSizes DEF h
    <3> QED
      BY <2>5, <3>2, <3>3
  <2>8. count[X] = h /\ count[X][i] = k /\ start[X] + count[X][i] = s + k
    BY <2>1, <2>5 DEF h
  <2>9. start'[X] = s + k
    BY <1>1, <2>8
  <2>10. CountOf(X)'
    <3>1. i' < n => start'[X] <= SumBelow(count'[X], i')
      BY <1>1, <2>7, <2>8, <2>9
    <3>2. count'[X] = Histogram(Y, 1, n) /\ Len(Y) <= Len(in'[X])
      BY <1>1, <2>1
    <3>3. NUM_RADIX = n
      BY <1>2
    <3> QED
      BY <3>1, <3>2, <3>3 DEF CountOf
  <2>11. Serial!Cluster(X) \in Seq(Nat)
    <3>1. smem[X][Serial!last] \in [1 .. m -> Nat]
      BY <1>1, <2>4, ClusteredTyped DEF SerialTyped, Memory
    <3>2. PICK memory \in [1 .. m -> Nat] : memory = smem[X][Serial!last]
      BY <3>1
    <3>3. s + k <= m
      BY <2>4, <2>6
    <3>4. Parallel!Slice(memory, s, k) \in Seq(Nat)
      BY <3>3, SliceTyped
    <3>5. Serial!Cluster(X) = Serial!Slice(memory, s, k)
      BY <2>5, <2>8, <3>2 DEF Serial!Cluster
    <3> QED
      BY <3>4, <3>5, MemorySame
  <2> QED
    BY <2>4, <2>6, <2>8, <2>10, <2>11
<1>4. result' \in Nat
  <2>1. "R" \in Rels /\ "S" \in Rels
    BY DEF Rels
  <2>2. Serial!bucket_chaining_join(Serial!Cluster("R"), Serial!Cluster("S")) \in Nat
    BY <1>3, <2>1, BucketsNat, SerialBucketsSame
  <2>3. result \in Nat
    BY <1>1 DEF SerialTyped
  <2>4. PICK matches \in Nat : result' = result + matches
    <3>1. \/ result' = result
                + Serial!bucket_chaining_join(Serial!Cluster("R"), Serial!Cluster("S"))
          \/ result' = result + 0
      BY DEF Serial!JoinCluster
    <3> QED
      BY <2>2, <3>1
  <2> QED
    BY <2>3, <2>4
<1>5. \A X \in Rels : start'[X] \in 0 .. Len(in[X])
  BY <1>1, <1>3
<1>6. SerialTyped'
  BY <1>1, <1>2, <1>4, <1>5 DEF SerialTyped, Memory
<1>7. SerialCounted'
  <2>1. count' # Serial!NotCounted'
    BY <1>1 DEF Serial!NotCounted, Serial!Rels
  <2> QED
    BY <1>3, <2>1 DEF SerialCounted
<1> QED
  BY <1>6, <1>7 DEF SerialInv

(* Every step of the single-threaded joins keeps their invariant. *)
LEMMA SerialSteps ==
    ASSUME SerialInv, Serial!Next \/ UNCHANGED <<in, serialVars>>
    PROVE  SerialInv'
<1>1. CASE UNCHANGED <<in, serialVars>>
  <2>1. SerialTyped'
    BY <1>1 DEF SerialInv, SerialTyped, Memory, serialVars
  <2>2. SerialCounted'
    BY <1>1 DEF SerialInv, SerialCounted, CountOf, Serial!NotCounted, Serial!Rels, serialVars
  <2> QED
    BY <2>1, <2>2 DEF SerialInv
<1> QED
  BY <1>1, RadixClusterStep, CountClustersStep, JoinClusterStep DEF Serial!Next

(* The invariant holds at first. *)
LEMMA InitJoins == Init => JoinsInv
  BY InitParallel, InitSerial DEF Init, JoinsInv

(* Every step keeps it. *)
LEMMA NextJoins == JoinsInv /\ [Next]_vars => JoinsInv'
<1> SUFFICES ASSUME JoinsInv, [Next]_vars PROVE JoinsInv'
  OBVIOUS
<1>1. CASE SerialStep
  BY <1>1, SerialSteps DEF SerialStep, JoinsInv
<1>2. CASE ParallelRelease
  BY <1>2, ReleaseBarrierStep DEF ParallelRelease, JoinsInv
<1>3. ASSUME NEW t \in Threads, ParallelStep(t) PROVE JoinsInv'
  BY <1>3, ThreadStepKeeps DEF ParallelStep, JoinsInv
<1>4. CASE UNCHANGED vars
  <2>1. UNCHANGED <<algo, in, join_function, mem, part_queue, join_queue, pc, task, output, hist,
                    results>>
    BY <1>4 DEF vars, parallelVars
  <2>2. ParallelInv => ParallelInv'
    <3> SUFFICES ASSUME ParallelInv PROVE ParallelInv'
      OBVIOUS
    <3>1. pc' \in [Threads -> Parallel!Steps]
      BY <2>1 DEF ParallelInv, Typed
    <3> QED
      BY <2>1, <3>1, PcStep
  <2>3. SerialInv => SerialInv'
    BY <1>4, SerialSteps DEF vars
  <2> QED
    BY <2>1, <2>2, <2>3 DEF JoinsInv
<1> QED
  BY <1>1, <1>2, <1>3, <1>4 DEF Next

(* The single-threaded joins keep their types. *)
LEMMA SerialTypes == SerialInv => Serial!TypeOK
<1> SUFFICES ASSUME SerialInv PROVE Serial!TypeOK
  OBVIOUS
<1>1. SerialTyped
  BY DEF SerialInv
<1>2. ASSUME NEW X \in Rels, NEW m \in {"rel", "out"}
      PROVE  /\ smem[X][m] \in Memory(X) /\ num[X][m] \in 0 .. Len(in[X])
             /\ start[X] \in 0 .. Len(in[X])
  BY <1>1 DEF SerialTyped
<1> QED
  BY <1>1, <1>2, SerialSizesSame DEF SerialTyped, Serial!TypeOK, Serial!Rels, Rels, Memory

(* The parallel joins keep theirs. *)
LEMMA ParallelTypes == ParallelInv => Parallel!TypeOK
<1> SUFFICES ASSUME ParallelInv PROVE Parallel!TypeOK
  OBVIOUS
<1>1. Typed /\ PartitionTasks /\ Places
  BY DEF ParallelInv
<1>2. ASSUME NEW X \in Rels, NEW array \in {"tmp", "rel"} PROVE mem[X][array] \in Memory(X)
  BY <1>1 DEF Typed
<1>3. ASSUME NEW k \in part_queue \union join_queue, NEW X \in Rels
      PROVE  k[X].first \in Nat /\ k[X].n \in 1 .. Len(in[X])
  <2>1. CASE k \in part_queue
    <3>1. k \in Parallel!FirstPassTasks(in) /\ in \in Inputs
      BY <1>1, <2>1 DEF PartitionTasks, Typed
    <3> QED
      BY <3>1, FirstTasksApart
  <2>2. CASE k \in join_queue
    <3>1. k \in TaskSet /\ k[X].n \in 1 .. Len(in[X])
      BY <1>1, <2>2 DEF Places, JoinTasks
    <3> QED
      BY <3>1, TaskTyped
  <2> QED
    BY <2>1, <2>2
<1>4. \A X \in Parallel!Rels, array \in {"tmp", "rel"} :
        mem[X][array] \in [1 .. Len(in[X]) + Parallel!RELATION_PADDING -> Nat]
  BY <1>2, SizesSame DEF Parallel!Rels, Rels, Memory
<1>5. \A k \in part_queue \union join_queue, X \in Parallel!Rels :
        k[X].first \in Nat /\ k[X].n \in 1 .. Len(in[X])
  BY <1>3 DEF Parallel!Rels, Rels
<1> QED
  BY <1>1, <1>4, <1>5 DEF Parallel!TypeOK, Typed

(* RJ, BRJ and the parallel joins never leave an array, a counter or a     *)
(* queue without its type: no slice that is read reaches beyond the array  *)
(* it is read from, two passes of r and s included.                        *)
THEOREM TypesAreKept == Spec => []TypeOK
<1>1. JoinsInv => TypeOK
  BY SerialTypes, ParallelTypes DEF JoinsInv, TypeOK
<1> QED
  BY <1>1, InitJoins, NextJoins, PTL DEF Spec

(* Tasks of the parallel joins never share a slot that may be written for  *)
(* them: a partition and the padding of its clusters, a cluster of R and   *)
(* the sentinel behind it.  All slots lie within the allocation.           *)
THEOREM TasksAreApart == Spec => []TasksApart
<1>1. JoinsInv => TasksApart
  BY TasksApartFollows DEF JoinsInv, TasksApart
<1> QED
  BY <1>1, InitJoins, NextJoins, PTL DEF Spec

(* Only they are in this order. *)
LEMMA TuplesAtOnly ==
    ASSUME NEW X \in Seq(Nat), NEW at, at \subseteq DOMAIN X,
           NEW Y \in [1 .. Cardinality(at) -> Nat],
           \A x \in at : Y[RankIn(at, x) + 1] = X[x]
    PROVE  Y = Parallel!TuplesAt(X, at)
<1>1. PICK n \in Nat : n = Len(X) /\ at \subseteq 1 .. n
  OBVIOUS
<1>2. PICK m \in Nat : m = Cardinality(at)
  BY <1>1, Ranks
<1>3. PICK Z \in [1 .. m -> Nat] :
        Z = Parallel!TuplesAt(X, at) /\ \A x \in at : Z[RankIn(at, x) + 1] = X[x]
  BY <1>2, TuplesAtAre
<1>4. ASSUME NEW k \in 1 .. m PROVE Y[k] = Z[k]
  <2>1. PICK x \in at : RankIn(at, x) = k - 1
    <3>1. \A l \in 1 .. Cardinality(at) : \E x \in at : RankIn(at, x) = l - 1
      BY <1>1, Ranks
    <3> QED
      BY <1>2, <3>1
  <2>2. RankIn(at, x) + 1 = k
    BY <2>1
  <2> QED
    BY <1>3, <2>2
<1> QED
  BY <1>2, <1>3, <1>4

(* The radix bits of a key are the number of a cluster. *)
LEMMA RadixTyped ==
    ASSUME NEW key \in Nat, NEW shift \in Nat \ {0}, NEW fanOut \in Nat \ {0}
    PROVE  HASH_BIT_MODULO(key, shift, fanOut) \in 0 .. fanOut - 1
<1>1. PICK q \in Nat : q = key \div shift
  <2>1. key \div shift \in Nat
    OBVIOUS
  <2> QED
    BY <2>1
<1>2. q % fanOut \in 0 .. fanOut - 1
  OBVIOUS
<1> QED
  BY <1>1, <1>2 DEF HASH_BIT_MODULO

(* A cluster is as large as it has tuples. *)
LEMMA SizeIs ==
    ASSUME NEW X, NEW shift, NEW fanOut, NEW c \in 0 .. fanOut - 1
    PROVE  SizeOf(X, shift, fanOut, c) = Cardinality(At(X, shift, fanOut, c))
<1>1. \A d : At(X, shift, fanOut, d) =
                {x \in 1 .. Len(X) : HASH_BIT_MODULO(X[x], shift, fanOut) = d}
  BY DEF At
<1>2. Histogram(X, shift, fanOut) =
        [d \in 0 .. fanOut - 1 |->
            Cardinality({x \in 1 .. Len(X) : HASH_BIT_MODULO(X[x], shift, fanOut) = d})]
  BY HistogramIs
<1>3. Histogram(X, shift, fanOut)[c] =
        Cardinality({x \in 1 .. Len(X) : HASH_BIT_MODULO(X[x], shift, fanOut) = c})
  BY <1>2
<1> QED
  BY <1>1, <1>3 DEF SizeOf

(* Where Scattered writes tuple x: behind the tuples of its cluster that   *)
(* come before it.                                                         *)
LEMMA ScatteredIs ==
    ASSUME NEW X \in Seq(Nat), NEW first, NEW shift, NEW fanOut, NEW padding
    PROVE  Parallel!Scattered(X, first, shift, fanOut, padding) =
                {<<SlotOf(X, first, shift, fanOut, padding, x), X[x]>> : x \in DOMAIN X}
<1> DEFINE hash(x) == HASH_BIT_MODULO(X[x], shift, fanOut)
           new(x) == <<first + StartOf(X, shift, fanOut, padding, hash(x))
                         + Parallel!RankInCluster(X, x, shift, fanOut), X[x]>>
<1>1. Parallel!Scattered(X, first, shift, fanOut, padding) = {new(x) : x \in DOMAIN X}
  BY HistogramIs, SumSame
     DEF Parallel!Scattered, Parallel!ClusterStart, StartOf, Parallel!HASH_BIT_MODULO,
         HASH_BIT_MODULO
<1>2. ASSUME NEW x \in DOMAIN X
      PROVE  Parallel!RankInCluster(X, x, shift, fanOut) = RankIn(At(X, shift, fanOut, hash(x)), x)
  <2>1. PICK n \in Nat : n = Len(X) /\ x \in 1 .. n
    OBVIOUS
  <2>2. {y \in 1 .. x - 1 : HASH_BIT_MODULO(X[y], shift, fanOut) = hash(x)}
          = {y \in At(X, shift, fanOut, hash(x)) : y < x}
    BY <2>1 DEF At
  <2>3. Parallel!RankInCluster(X, x, shift, fanOut) =
          Parallel!Cardinality({y \in 1 .. x - 1 : HASH_BIT_MODULO(X[y], shift, fanOut) = hash(x)})
    BY DEF Parallel!RankInCluster, Parallel!CountIf, Parallel!HASH_BIT_MODULO, HASH_BIT_MODULO
  <2> QED
    BY <2>2, <2>3, CardinalitySame DEF RankIn
<1>3. \A x \in DOMAIN X : new(x) = <<SlotOf(X, first, shift, fanOut, padding, x), X[x]>>
  BY <1>2 DEF SlotOf
<1> QED
  BY <1>1, <1>3

(* Different clusters get different slots. *)
LEMMA SlotsOfClusters ==
    ASSUME NEW X \in Seq(Nat), NEW first \in Nat, NEW shift \in Nat \ {0},
           NEW fanOut \in Nat \ {0}, NEW padding \in Nat, NEW x \in DOMAIN X
    PROVE  LET c == HASH_BIT_MODULO(X[x], shift, fanOut)
               slot == SlotOf(X, first, shift, fanOut, padding, x)
           IN  /\ c \in 0 .. fanOut - 1 /\ slot \in Nat
               /\ first + StartOf(X, shift, fanOut, padding, c) <= slot
               /\ slot < first + StartOf(X, shift, fanOut, padding, c)
                           + SizeOf(X, shift, fanOut, c)
<1> DEFINE c == HASH_BIT_MODULO(X[x], shift, fanOut)
           at == At(X, shift, fanOut, c)
<1>1. PICK n \in Nat : n = Len(X) /\ x \in 1 .. n
  OBVIOUS
<1>2. X[x] \in Nat
  BY <1>1
<1>3. c \in 0 .. fanOut - 1
  BY <1>2, RadixTyped
<1>4. at \subseteq 1 .. n /\ x \in at
  BY <1>1 DEF At
<1>5. PICK size \in Nat : size = SizeOf(X, shift, fanOut, c) /\ size = Cardinality(at)
  <2> HIDE DEF c
  <2>1. SizeOf(X, shift, fanOut, c) \in Nat
    BY <1>1, <1>3, Layout
  <2> QED
    BY <1>3, <2>1, SizeIs
<1>6. PICK rank \in Nat : rank = RankIn(at, x) /\ rank < size
  <2> HIDE DEF at
  <2>1. RankIn(at, x) \in 0 .. size - 1
    BY <1>4, <1>5, Ranks
  <2> QED
    BY <2>1
<1>7. PICK s \in Nat : s = StartOf(X, shift, fanOut, padding, c)
  <2> HIDE DEF c
  <2> QED
    BY <1>1, <1>3, Layout
<1>8. SlotOf(X, first, shift, fanOut, padding, x) = first + s + rank
  BY <1>6, <1>7 DEF SlotOf
<1> HIDE DEF c, at
<1>9. first + s + rank \in Nat /\ first + s <= first + s + rank
      /\ first + s + rank < first + s + size
  BY <1>6
<1> QED
  BY <1>3, <1>5, <1>7, <1>8, <1>9 DEF c

(* A cluster's slots hold its tuples in their order, whatever there is of  *)
(* other clusters.                                                         *)
LEMMA ScatterSlot ==
    ASSUME NEW X \in Seq(Nat), NEW first \in Nat, NEW shift \in Nat \ {0},
           NEW fanOut \in Nat \ {0}, NEW padding \in Nat, NEW c \in 0 .. fanOut - 1,
           NEW x \in At(X, shift, fanOut, c),
           NEW memory, NEW slot \in DOMAIN memory,
           IsSlot(slot, X, first, shift, fanOut, padding, c, x)
    PROVE  Parallel!Written(memory, Parallel!Scattered(X, first, shift, fanOut, padding))[slot] = X[x]
<1> DEFINE at == At(X, shift, fanOut, c)
           new == Parallel!Scattered(X, first, shift, fanOut, padding)
           Slot(y) == SlotOf(X, first, shift, fanOut, padding, y)
           hash(y) == HASH_BIT_MODULO(X[y], shift, fanOut)
           Start(d) == StartOf(X, shift, fanOut, padding, d)
           Size(d) == SizeOf(X, shift, fanOut, d)
<1>1. PICK n \in Nat : n = Len(X) /\ at \subseteq 1 .. n
  BY DEF At
<1>2. x \in DOMAIN X /\ hash(x) = c /\ Slot(x) = first + Start(c) + RankIn(at, x)
  <2>1. x \in 1 .. n /\ hash(x) = c
    BY <1>1 DEF At
  <2>2. \A d : hash(x) = d =>
            Slot(x) = first + StartOf(X, shift, fanOut, padding, d)
                            + RankIn(At(X, shift, fanOut, d), x)
    BY DEF SlotOf
  <2> QED
    BY <1>1, <2>1, <2>2
<1>3. new = {<<Slot(y), X[y]>> : y \in DOMAIN X}
  BY ScatteredIs
<1>4. ASSUME NEW y \in DOMAIN X, Slot(y) = Slot(x) PROVE y = x
  <2>1. /\ hash(y) \in 0 .. fanOut - 1 /\ Slot(y) \in Nat
        /\ first + Start(hash(y)) <= Slot(y) /\ Slot(y) < first + Start(hash(y)) + Size(hash(y))
    BY SlotsOfClusters
  <2>2. /\ first + Start(c) <= Slot(x) /\ Slot(x) < first + Start(c) + Size(c)
    BY <1>2, SlotsOfClusters
  <2>3. \A d \in 0 .. fanOut - 1 :
          /\ Start(d) \in Nat /\ Size(d) \in Nat
          /\ \A e \in d + 1 .. fanOut - 1 : Start(d) + Size(d) + padding <= Start(e)
    BY <1>1, Layout
  <2>4. CASE hash(y) = c
    <3>1. y \in at /\ Slot(y) = first + Start(c) + RankIn(at, y)
      BY <1>1, <2>4 DEF At, SlotOf
    <3>2. RankIn(at, y) \in Nat /\ RankIn(at, x) \in Nat
      <4>1. RankIn(at, y) \in 0 .. Cardinality(at) - 1 /\ RankIn(at, x) \in 0 .. Cardinality(at) - 1
        BY <1>1, <3>1, Ranks
      <4> QED
        BY <4>1
    <3>3. Start(c) \in Nat
      BY <2>3
    <3> HIDE DEF Start, at, Slot, hash
    <3>4. RankIn(at, y) = RankIn(at, x)
      BY <1>2, <1>4, <3>1, <3>2, <3>3
    <3>5. x \in at
      BY DEF at
    <3> QED
      BY <1>1, <3>1, <3>4, <3>5, Ranks
  <2>5. CASE hash(y) # c
    <3>1. PICK d \in 0 .. fanOut - 1, s \in Nat : d = hash(y) /\ s = Slot(y)
      BY <2>1
    <3> HIDE DEF Start, at, Slot, hash, Size
    <3>2. /\ first + Start(d) <= s /\ s < first + Start(d) + Size(d)
          /\ first + Start(c) <= s /\ s < first + Start(c) + Size(c)
      BY <1>4, <2>1, <2>2, <3>1
    <3>3. PICK sd \in Nat, zd \in Nat, sc \in Nat, zc \in Nat :
            sd = Start(d) /\ zd = Size(d) /\ sc = Start(c) /\ zc = Size(c)
      BY <2>3
    <3>9. /\ first + sd <= s /\ s < first + sd + zd
          /\ first + sc <= s /\ s < first + sc + zc
      BY <3>2, <3>3
    <3>4. d < c \/ c < d
      BY <2>5, <3>1
    <3>5. CASE d < c
      <4>1. c \in d + 1 .. fanOut - 1
        BY <3>5
      <4>2. sd + zd + padding <= sc
        BY <2>3, <3>3, <4>1
      <4> QED
        BY <3>9, <4>2
    <3>6. CASE c < d
      <4>1. d \in c + 1 .. fanOut - 1
        BY <3>6
      <4>2. sc + zc + padding <= sd
        BY <2>3, <3>3, <4>1
      <4> QED
        BY <3>9, <4>2
    <3> QED
      BY <3>4, <3>5, <3>6
  <2> QED
    BY <2>4, <2>5
<1>5. Slot(x) \in Nat
  BY <1>2, SlotsOfClusters
<1>6. slot = Slot(x) + 1 /\ slot - 1 = Slot(x)
  <2>1. slot = first + Start(c) + RankIn(at, x) + 1
    BY DEF IsSlot
  <2> HIDE DEF Slot, Start, at
  <2> QED
    BY <1>2, <1>5, <2>1
<1> HIDE DEF Slot, hash, at, Start, Size
<1>7. \E w \in new : w[1] = slot - 1
  <2>1. <<Slot(x), X[x]>> \in new
    BY <1>2, <1>3
  <2> QED
    BY <1>6, <2>1
<1>8. \A w \in new : w[1] = slot - 1 => w[2] = X[x]
  BY <1>3, <1>4, <1>6
<1> HIDE DEF new
<1>9. Parallel!Written(memory, new)[slot] = (CHOOSE w \in new : w[1] = slot - 1)[2]
  BY <1>6, <1>7 DEF Parallel!Written
<1>10. Parallel!Written(memory, new)[slot] = X[x]
  <2>1. (CHOOSE w \in new : w[1] = slot - 1) \in new /\ (CHOOSE w \in new : w[1] = slot - 1)[1] = slot - 1
    BY <1>7
  <2> QED
    BY <1>8, <1>9, <2>1
<1> QED
  BY <1>10 DEF new, Start, at

(* The same, for any memory and slot. *)
LEMMA ScatterLands ==
    ASSUME NEW X, NEW first, NEW shift, NEW fanOut, NEW padding, NEW c, NEW x,
           NEW memory, NEW slot,
           Lands(memory, slot, X, first, shift, fanOut, padding, c, x)
    PROVE  Parallel!Written(memory, Parallel!Scattered(X, first, shift, fanOut, padding))[slot] = X[x]
  BY ScatterSlot DEF Lands

(* Then they are what is read there. *)
LEMMA HeldIsRead ==
    ASSUME NEW X \in Seq(Nat), NEW at, at \subseteq DOMAIN X, NEW m \in Nat,
           NEW memory \in [1 .. m -> Nat], NEW first \in Nat,
           NEW size, size = Cardinality(at), Fits(first, size, m), Holds(memory, first, X, at)
    PROVE  Parallel!Slice(memory, first, size) = Parallel!TuplesAt(X, at)
<1>1. PICK len \in Nat : len = Len(X) /\ at \subseteq 1 .. len
  OBVIOUS
<1>2. PICK n \in Nat : /\ n = Cardinality(at) /\ n = size
                       /\ \A x \in at : RankIn(at, x) \in 0 .. n - 1
  BY <1>1, Ranks
<1>3. first + n <= m
  BY <1>2 DEF Fits
<1>4. /\ memory \in Seq(Nat) /\ Len(memory) = m
      /\ Parallel!Slice(memory, first, n) = SubSeq(memory, first + 1, first + n)
  BY DEF Parallel!Slice
<1>5. SubSeq(memory, first + 1, first + n) = [k \in 1 .. n |-> memory[first + k]]
  BY <1>3, <1>4
<1>6. PICK Y : Y = [k \in 1 .. n |-> memory[first + k]]
  OBVIOUS
<1>7. Y \in [1 .. n -> Nat]
  BY <1>3, <1>6
<1>8. ASSUME NEW x \in at PROVE Y[RankIn(at, x) + 1] = X[x]
  <2>1. PICK r \in 0 .. n - 1 : r = RankIn(at, x)
    BY <1>2
  <2>2. r + 1 \in 1 .. n /\ first + (r + 1) = first + r + 1
    BY <2>1
  <2>3. Y[r + 1] = memory[first + r + 1]
    BY <1>6, <2>2
  <2>4. memory[first + RankIn(at, x) + 1] = X[x]
    BY DEF Holds
  <2> QED
    BY <2>1, <2>3, <2>4
<1>9. Y = Parallel!TuplesAt(X, at)
  BY <1>2, <1>7, <1>8, TuplesAtOnly
<1> QED
  BY <1>2, <1>4, <1>5, <1>6, <1>9

(* What is written elsewhere does not change what slots hold. *)
LEMMA StillHeld ==
    ASSUME NEW X, NEW n \in Nat, NEW at, at \subseteq 1 .. n, NEW first \in Nat,
           NEW memory, NEW later, Holds(memory, first, X, at),
           \A s \in first .. first + Cardinality(at) - 1 : later[s + 1] = memory[s + 1]
    PROVE  Holds(later, first, X, at)
<1> SUFFICES ASSUME NEW x \in at PROVE later[first + RankIn(at, x) + 1] = X[x]
  BY DEF Holds
<1>1. PICK size \in Nat : size = Cardinality(at)
  BY Ranks
<1>2. RankIn(at, x) \in 0 .. size - 1
  BY <1>1, Ranks
<1>3. PICK s \in first .. first + size - 1 : s = first + RankIn(at, x)
  BY <1>2
<1>4. later[s + 1] = memory[s + 1]
  BY <1>1, <1>3
<1> QED
  BY <1>3, <1>4 DEF Holds

(* radix_cluster writes within them. *)
LEMMA NotScattered ==
    ASSUME NEW X \in Seq(Nat), NEW first \in Nat, NEW shift \in Nat \ {0},
           NEW fanOut \in Nat \ {0}, NEW padding \in Nat, NEW memory,
           NEW s \in DOMAIN memory, Outside(s, X, first, fanOut, padding)
    PROVE  Parallel!Written(memory, Parallel!Scattered(X, first, shift, fanOut, padding))[s]
                = memory[s]
<1> DEFINE new == Parallel!Scattered(X, first, shift, fanOut, padding)
<1>1. PICK n \in Nat, m \in Nat : n = Len(X) /\ m = (fanOut - 1) * padding
  <2>1. fanOut - 1 \in Nat /\ Len(X) \in Nat
    OBVIOUS
  <2> QED
    BY <2>1, ProductNat
<1>2. ASSUME NEW w \in new PROVE w[1] # s - 1
  <2>1. PICK x \in DOMAIN X : w[1] = SlotOf(X, first, shift, fanOut, padding, x)
    BY ScatteredIs
  <2> DEFINE c == HASH_BIT_MODULO(X[x], shift, fanOut)
  <2>2. /\ c \in 0 .. fanOut - 1 /\ w[1] \in Nat
        /\ first + StartOf(X, shift, fanOut, padding, c) <= w[1]
        /\ w[1] < first + StartOf(X, shift, fanOut, padding, c) + SizeOf(X, shift, fanOut, c)
    BY <2>1, SlotsOfClusters
  <2> HIDE DEF c
  <2>3. /\ StartOf(X, shift, fanOut, padding, c) \in Nat /\ SizeOf(X, shift, fanOut, c) \in Nat
        /\ StartOf(X, shift, fanOut, padding, c) + SizeOf(X, shift, fanOut, c) <= n + m
    BY <1>1, <2>2, Layout
  <2>4. PICK a \in Nat, b \in Nat, v \in Nat :
          /\ a = StartOf(X, shift, fanOut, padding, c) /\ b = SizeOf(X, shift, fanOut, c)
          /\ v = w[1]
    BY <2>2, <2>3
  <2>5. first + a <= v /\ v < first + a + b /\ a + b <= n + m
    BY <2>2, <2>3, <2>4
  <2>6. v \in first .. first + n + m - 1
    BY <2>5
  <2>7. s - 1 \notin first .. first + n + m - 1
    BY <1>1 DEF Outside
  <2> QED
    BY <2>4, <2>6, <2>7
<1> HIDE DEF new
<1>3. Parallel!Written(memory, new)[s] = memory[s]
  BY <1>2 DEF Parallel!Written
<1> QED
  BY <1>3 DEF new

(* Ranks are in the order of what they are ranks of. *)
LEMMA RanksInOrder ==
    ASSUME NEW n \in Nat, NEW at, at \subseteq 1 .. n, NEW x \in at, NEW y \in at
    PROVE  x < y <=> RankIn(at, x) < RankIn(at, y)
<1> DEFINE Before(z) == {u \in at : u < z}
<1>1. \A z : RankIn(at, z) = Cardinality(Before(z))
  BY DEF RankIn
<1>2. \A z : Before(z) \subseteq at
  OBVIOUS
<1>3. \A u \in at : u \in Int
  OBVIOUS
<1>4. ASSUME NEW u \in at, NEW v \in at, u < v PROVE Before(u) \subseteq Before(v)
  <2>1. u \in Int /\ v \in Int
    BY <1>3
  <2>2. \A z \in at : z < u => z < v
    BY <1>3, <1>4, <2>1
  <2> QED
    BY <2>2
<1> HIDE DEF Before
<1>5. IsFiniteSet(at)
  BY Ranks
<1>6. \A z : IsFiniteSet(Before(z)) /\ Cardinality(Before(z)) \in Nat
  BY <1>2, <1>5, FS_Subset, FS_CardinalityType
<1>7. \A u, v \in at : RankIn(at, u) = RankIn(at, v) => u = v
  BY Ranks
<1>8. \A u, v \in at : u < v => RankIn(at, u) < RankIn(at, v)
  <2> TAKE u \in at, v \in at
  <2> HAVE u < v
  <2>1. Cardinality(Before(u)) <= Cardinality(Before(v))
    BY <1>4, <1>6, FS_Subset
  <2>2. u \in Int /\ v \in Int /\ u # v
    BY <1>3
  <2>3. Cardinality(Before(u)) # Cardinality(Before(v))
    BY <1>1, <1>7, <2>2
  <2> QED
    BY <1>1, <1>6, <2>1, <2>3
<1>9. CASE x < y
  BY <1>8, <1>9
<1>10. CASE y < x
  <2>1. RankIn(at, y) < RankIn(at, x) /\ RankIn(at, x) \in Nat /\ RankIn(at, y) \in Nat
    BY <1>1, <1>6, <1>8, <1>10
  <2>2. x \in Int /\ y \in Int
    BY <1>3
  <2> QED
    BY <1>10, <2>1, <2>2
<1>11. CASE x = y
  <2>1. RankIn(at, x) \in Nat /\ x \in Int
    BY <1>1, <1>3, <1>6
  <2> QED
    BY <1>11, <2>1
<1> QED
  BY <1>3, <1>9, <1>10, <1>11

(* A number is its quotient times the divisor, and the remainder. *)
LEMMA Division ==
    ASSUME NEW a \in Nat, NEW b \in Nat \ {0}
    PROVE  \E q \in Nat, r \in 0 .. b - 1 : q = a \div b /\ r = a % b /\ a = q * b + r
<1>1. a \div b \in Nat /\ a % b \in 0 .. b - 1 /\ a = b * (a \div b) + (a % b)
  OBVIOUS
<1>2. PICK q \in Nat, r \in 0 .. b - 1 : q = a \div b /\ r = a % b
  BY <1>1
<1>3. a = b * q + r /\ b * q = q * b
  BY <1>1, <1>2
<1>4. a = q * b + r
  BY <1>3
<1> WITNESS q \in Nat, r \in 0 .. b - 1
<1> QED
  BY <1>2, <1>4

(* Division has one quotient and one remainder. *)
LEMMA Divides ==
    ASSUME NEW a \in Nat, NEW b \in Nat \ {0}, NEW q \in Nat, NEW r \in 0 .. b - 1,
           a = q * b + r
    PROVE  a \div b = q /\ a % b = r
<1>1. PICK p \in Nat, s \in 0 .. b - 1 : p = a \div b /\ s = a % b /\ a = p * b + s
  BY Division
<1>2. ASSUME NEW k \in Nat, NEW l \in Nat, k < l, NEW u \in 0 .. b - 1, NEW v \in 0 .. b - 1
      PROVE  k * b + u # l * b + v
  <2>1. PICK e \in Nat : l = k + 1 + e
    <3>1. l - k - 1 \in Nat /\ l = k + 1 + (l - k - 1)
      BY <1>2
    <3> QED
      BY <3>1
  <2>2. k * b \in Nat /\ e * b \in Nat
    BY ProductNat
  <2>3. l * b = k * b + b + e * b
    BY <2>1
  <2> QED
    BY <2>2, <2>3
<1>3. ~ (p < q)
  BY <1>1, <1>2
<1>4. ~ (q < p)
  BY <1>1, <1>2
<1>5. p = q
  BY <1>3, <1>4
<1>6. q * b \in Nat
  BY ProductNat
<1> QED
  BY <1>1, <1>5, <1>6

(* Clustering by f values of the lowest bits, and then by g of the next,   *)
(* is clustering by both.                                                  *)
LEMMA RadixOfBoth ==
    ASSUME NEW f \in Nat \ {0}, NEW g \in Nat \ {0},
           NEW c \in 0 .. f - 1, NEW d \in 0 .. g - 1,
           NEW N, NEW v, AreBoth(N, v, f, c, g, d)
    PROVE  \A key \in Nat :
              /\ v \in 0 .. N - 1
              /\ HASH_BIT_MODULO(key, 1, N) = v <=>
                    HASH_BIT_MODULO(key, 1, f) = c /\ HASH_BIT_MODULO(key, f, g) = d
<1> TAKE key \in Nat
<1>0. N = f * g /\ v = c + f * d
  BY DEF AreBoth
<1>1. PICK q \in Nat, r \in 0 .. f - 1 : q = key \div f /\ r = key % f /\ key = q * f + r
  BY Division
<1>2. PICK s \in Nat, e \in 0 .. g - 1 : s = q \div g /\ e = q % g /\ q = s * g + e
  BY Division
<1>3. ASSUME NEW k \in 0 .. g - 1, NEW u \in 0 .. f - 1
      PROVE  k * f + u \in 0 .. f * g - 1
  <2>1. PICK l \in Nat : g = k + 1 + l
    <3>1. g - k - 1 \in Nat /\ g = k + 1 + (g - k - 1)
      OBVIOUS
    <3> QED
      BY <3>1
  <2>2. k * f \in Nat /\ l * f \in Nat
    BY ProductNat
  <2>3. f * g = k * f + f + l * f
    BY <2>1
  <2> QED
    BY <2>2, <2>3
<1>4. PICK m \in Nat \ {0} : m = f * g
  <2>1. f * g \in Nat
    BY ProductNat
  <2>2. 0 * f + 0 \in 0 .. f * g - 1
    <3>1. 0 \in 0 .. g - 1 /\ 0 \in 0 .. f - 1
      OBVIOUS
    <3> QED
      BY <1>3, <3>1
  <2>3. f * g # 0
    BY <2>1, <2>2
  <2> QED
    BY <2>1, <2>3
<1>5. PICK o \in 0 .. m - 1 : o = e * f + r
  BY <1>3, <1>4
<1>6. key = s * m + o
  <2>1. key = (s * g + e) * f + r
    BY <1>1, <1>2
  <2>2. (s * g + e) * f = s * (f * g) + e * f
    OBVIOUS
  <2>3. s * (f * g) \in Nat /\ e * f \in Nat
    <3>1. f * g \in Nat
      BY ProductNat
    <3> QED
      BY <3>1, ProductNat
  <2> QED
    BY <1>4, <1>5, <2>1, <2>2, <2>3
<1>7. key % m = o
  BY <1>6, Divides
<1>8. key \div 1 = key
  OBVIOUS
<1>9. HASH_BIT_MODULO(key, 1, N) = o /\ HASH_BIT_MODULO(key, 1, f) = r
      /\ HASH_BIT_MODULO(key, f, g) = e
  BY <1>0, <1>1, <1>2, <1>4, <1>7, <1>8 DEF HASH_BIT_MODULO
<1>10. v \in Nat /\ v = d * f + c
  <2>1. d * f \in Nat /\ d * f = f * d
    BY ProductNat
  <2> QED
    BY <1>0, <2>1
<1>11. v \in 0 .. N - 1
  BY <1>0, <1>3, <1>10
<1>12. v = o <=> r = c /\ e = d
  <2>1. v \div f = d /\ v % f = c
    BY <1>10, Divides
  <2>2. o \div f = e /\ o % f = r
    BY <1>5, Divides
  <2>3. e = d /\ r = c => v = o
    BY <1>5, <1>10
  <2> QED
    BY <2>1, <2>2, <2>3
<1> QED
  BY <1>9, <1>10, <1>11, <1>12

(* A cluster of a cluster holds the tuples of both radix values, in the    *)
(* relation's order.                                                       *)
LEMMA ClusterOfCluster ==
    ASSUME NEW X \in Seq(Nat), NEW f \in Nat \ {0}, NEW g \in Nat \ {0},
           NEW c \in 0 .. f - 1, NEW d \in 0 .. g - 1,
           NEW A, A = At(X, 1, f, c), NEW T, T = Parallel!TuplesAt(X, A),
           NEW D, D = At(T, f, g, d), NEW N, NEW v, AreBoth(N, v, f, c, g, d), NEW B, B = At(X, 1, N, v)
    PROVE  /\ T \in Seq(Nat) /\ Len(T) = Cardinality(A)
           /\ Cardinality(D) = Cardinality(B)
           /\ \A x \in B :
                /\ RankIn(A, x) + 1 \in D /\ RankIn(B, x) = RankIn(D, RankIn(A, x) + 1)
                /\ T[RankIn(A, x) + 1] = X[x]
<1>1. PICK n \in Nat : n = Len(X) /\ DOMAIN X = 1 .. n /\ \A x \in 1 .. n : X[x] \in Nat
  OBVIOUS
<1>2. A = {x \in 1 .. n : HASH_BIT_MODULO(X[x], 1, f) = c} /\ A \subseteq 1 .. n
  BY <1>1 DEF At
<1>3. PICK m \in Nat : m = Cardinality(A)
  BY <1>2, Ranks
<1>4. T \in [1 .. m -> Nat] /\ \A x \in A : T[RankIn(A, x) + 1] = X[x]
  BY <1>1, <1>2, <1>3, TuplesAtAre
<1>5. T \in Seq(Nat) /\ Len(T) = m
  BY <1>4
<1>6. B = {x \in A : HASH_BIT_MODULO(X[x], f, g) = d}
  <2>1. B = {x \in 1 .. n : HASH_BIT_MODULO(X[x], 1, N) = v}
    BY <1>1 DEF At
  <2>2. \A x \in 1 .. n : HASH_BIT_MODULO(X[x], 1, N) = v
          <=> HASH_BIT_MODULO(X[x], 1, f) = c /\ HASH_BIT_MODULO(X[x], f, g) = d
    <3> TAKE x \in 1 .. n
    <3>1. PICK key \in Nat : key = X[x]
      BY <1>1
    <3>2. HASH_BIT_MODULO(key, 1, N) = v
            <=> HASH_BIT_MODULO(key, 1, f) = c /\ HASH_BIT_MODULO(key, f, g) = d
      BY RadixOfBoth
    <3> QED
      BY <3>1, <3>2
  <2> QED
    BY <1>2, <2>1, <2>2
<1>7. D = {k \in 1 .. m : HASH_BIT_MODULO(T[k], f, g) = d}
  BY <1>5 DEF At
<1> DEFINE phi == [x \in A |-> RankIn(A, x) + 1]
<1>8. phi \in [A -> 1 .. m]
  <2>1. \A x \in A : RankIn(A, x) \in 0 .. m - 1
    BY <1>2, <1>3, Ranks
  <2>2. \A x \in A : RankIn(A, x) + 1 \in 1 .. m
    BY <2>1
  <2> QED
    BY <2>2
<1>9. \A x, y \in A : phi[x] = phi[y] => x = y
  <2>1. \A x \in A : RankIn(A, x) \in 0 .. m - 1
    BY <1>2, <1>3, Ranks
  <2>2. \A x, y \in A : RankIn(A, x) = RankIn(A, y) => x = y
    BY <1>2, Ranks
  <2> QED
    BY <2>1, <2>2
<1>10. \A k \in 1 .. m : \E x \in A : phi[x] = k
  <2> TAKE k \in 1 .. m
  <2>1. PICK x \in A : RankIn(A, x) = k - 1
    BY <1>2, <1>3, Ranks
  <2>2. phi[x] = k
    BY <2>1
  <2> QED
    BY <2>2
<1>11. \A x, y \in A : x < y <=> phi[x] < phi[y]
  <2> TAKE x \in A, y \in A
  <2>1. x < y <=> RankIn(A, x) < RankIn(A, y)
    BY <1>2, RanksInOrder
  <2>2. RankIn(A, x) \in 0 .. m - 1 /\ RankIn(A, y) \in 0 .. m - 1
    BY <1>2, <1>3, Ranks
  <2>3. phi[x] = RankIn(A, x) + 1 /\ phi[y] = RankIn(A, y) + 1
    OBVIOUS
  <2> HIDE DEF phi
  <2> QED
    BY <2>1, <2>2, <2>3
<1>12. \A x \in A : T[phi[x]] = X[x] /\ phi[x] = RankIn(A, x) + 1
  BY <1>4
<1> HIDE DEF phi
<1>13. \A x \in A : x \in B <=> phi[x] \in D
  BY <1>6, <1>7, <1>8, <1>12
<1>14. IsFiniteSet(B) /\ B \subseteq A
  <2>1. IsFiniteSet(A) /\ B \subseteq A
    BY <1>2, <1>6, Ranks
  <2> QED
    BY <2>1, FS_Subset
<1>15. Cardinality(D) = Cardinality(B)
  <2> DEFINE h == [x \in B |-> phi[x]]
  <2>1. h \in [B -> D]
    BY <1>13, <1>14
  <2>2. \A x, y \in B : h[x] = h[y] => x = y
    BY <1>9, <1>14
  <2>3. \A k \in D : \E x \in B : h[x] = k
    <3> TAKE k \in D
    <3>1. PICK x \in A : phi[x] = k
      BY <1>7, <1>10
    <3> QED
      BY <1>13, <3>1
  <2> HIDE DEF h
  <2> QED
    BY <1>14, <2>1, <2>2, <2>3, PairedOff
<1>16. ASSUME NEW x \in B PROVE RankIn(B, x) = RankIn(D, phi[x])
  <2> DEFINE S == {y \in B : y < x}
             U == {k \in D : k < phi[x]}
             h == [y \in S |-> phi[y]]
  <2>1. x \in A /\ S \subseteq B /\ \A y \in B : y \in A
    BY <1>14
  <2>2. IsFiniteSet(S)
    <3> HIDE DEF S
    <3> QED
      BY <1>14, <2>1, FS_Subset
  <2>3. h \in [S -> U]
    BY <1>11, <1>13, <2>1
  <2>4. \A y, z \in S : h[y] = h[z] => y = z
    BY <1>9, <2>1
  <2>5. \A k \in U : \E y \in S : h[y] = k
    <3> TAKE k \in U
    <3>1. k \in D /\ k < phi[x]
      OBVIOUS
    <3>2. PICK y \in A : phi[y] = k
      BY <1>7, <1>10, <3>1
    <3>3. y \in B /\ y < x
      BY <1>11, <1>13, <2>1, <3>1, <3>2
    <3> QED
      BY <3>2, <3>3
  <2>6. RankIn(B, x) = Cardinality(S) /\ RankIn(D, phi[x]) = Cardinality(U)
    BY DEF RankIn
  <2> HIDE DEF h, S, U
  <2>7. Cardinality(U) = Cardinality(S)
    BY <2>2, <2>3, <2>4, <2>5, PairedOff
  <2> QED
    BY <2>6, <2>7
<1>17. ASSUME NEW x \in B PROVE x \in A /\ phi[x] \in D
  BY <1>13, <1>14
<1>18. ASSUME NEW x \in B
       PROVE  /\ RankIn(A, x) + 1 \in D /\ RankIn(B, x) = RankIn(D, RankIn(A, x) + 1)
              /\ T[RankIn(A, x) + 1] = X[x]
  <2>1. phi[x] = RankIn(A, x) + 1 /\ T[phi[x]] = X[x]
    BY <1>12, <1>17
  <2> QED
    BY <1>16, <1>17, <2>1
<1> QED
  BY <1>3, <1>5, <1>15, <1>18

(* A step that writes to neither relR nor relS, clusters nothing and adds  *)
(* no join task.                                                           *)
LEMMA ContentKept ==
    ASSUME ContentInv, OnePhase', in' = in, JoinTasks' \subseteq JoinTasks,
           \A X \in Rels : mem'[X].rel = mem[X].rel,
           JoinPhase' \/ (~ JoinPhase /\ \A X \in Rels : mem'[X].tmp = mem[X].tmp),
           \A u \in Threads, X \in Rels : HasClustered(u, X)' =>
               HasClustered(u, X) /\ task'[u] = task[u] /\ output'[u] = output[u]
    PROVE  ContentInv'
<1>1. \A X, c : /\ PartOf(X, c)' = PartOf(X, c) /\ ClusterOf(X, c)' = ClusterOf(X, c)
                /\ PartTuples(X, c)' = PartTuples(X, c) /\ PartFirst(X, c)' = PartFirst(X, c)
  BY DEF PartOf, ClusterOf, PartTuples, PartFirst
<1>2. \A X, c, d : ClusterFirst(X, c, d)' = ClusterFirst(X, c, d)
  BY <1>1 DEF ClusterFirst
<1>3. PartitionsRight'
  BY <1>1 DEF ContentInv, PartitionsRight
<1>4. ClusteredRight'
  <2> SUFFICES ASSUME NEW u \in Threads, NEW X \in Rels, NEW c \in 0 .. FANOUT_PASS1 - 1,
                      HasClustered(u, X)', task'[u] = FirstTask(in, c)
               PROVE  ClusteredAt(u, X, c)'
    BY DEF ClusteredRight
  <2>1. ClusteredAt(u, X, c) /\ output'[u] = output[u]
    BY DEF ContentInv, ClusteredRight
  <2> QED
    BY <1>1, <1>2, <2>1 DEF ClusteredAt
<1>5. JoinTasksRight'
  <2> SUFFICES ASSUME NEW k \in JoinTasks' PROVE \E r \in 0 .. NUM_RADIX - 1 : IsCluster(k, r)'
    BY DEF JoinTasksRight
  <2>1. PICK r \in 0 .. NUM_RADIX - 1 : IsCluster(k, r)
    BY DEF ContentInv, JoinTasksRight
  <2>2. Planned(k, r)' = Planned(k, r)
    BY <1>2 DEF Planned, RadixOf
  <2>3. IsCluster(k, r)'
    BY <1>1, <2>1, <2>2 DEF IsCluster
  <2> QED
    BY <2>3
<1> QED
  BY <1>3, <1>4, <1>5 DEF ContentInv

(* Where partitions are. *)
LEMMA PartPlaces ==
    ASSUME NEW X \in Rels, in \in Inputs, NEW c \in 0 .. FANOUT_PASS1 - 1
    PROVE  /\ in[X] \in Seq(Nat) /\ PartOf(X, c) \subseteq DOMAIN in[X]
           /\ PartFirst(X, c) \in Nat /\ Cardinality(PartOf(X, c)) \in Nat
           /\ FirstTask(in, c)[X].first = PartFirst(X, c)
           /\ FirstTask(in, c)[X].n = Cardinality(PartOf(X, c))
           /\ PartFirst(X, c) + Cardinality(PartOf(X, c)) + Margin <= Len(in[X]) + RELATION_PADDING
<1>1. PICK n \in Nat : n = Len(in[X]) /\ in[X] \in Seq(Nat) /\ DOMAIN in[X] = 1 .. n
  BY InputTypes
<1>2. PartOf(X, c) \subseteq 1 .. n
  BY <1>1 DEF PartOf, At
<1>3. PICK size \in Nat : size = Cardinality(PartOf(X, c))
  BY <1>2, Ranks
<1>4. SizeOf(in[X], 1, FANOUT_PASS1, c) = size
  BY <1>3, SizeIs DEF PartOf
<1>5. /\ PartFirst(X, c) \in Nat
      /\ PartFirst(X, c) + size <= n + (FANOUT_PASS1 - 1) * PADDING_TUPLES
  BY <1>1, <1>4, Sizes, Layout DEF PartFirst
<1>6. FirstTask(in, c)[X].first = PartFirst(X, c) /\ FirstTask(in, c)[X].n = size
  BY <1>4, FirstTaskOf DEF PartFirst
<1>7. PICK m \in Nat : m = (FANOUT_PASS1 - 1) * PADDING_TUPLES /\ m + PADDING_TUPLES = RELATION_PADDING
  BY Sizes
<1>8. PICK first \in Nat : first = PartFirst(X, c) /\ first + size <= n + m
  BY <1>5, <1>7
<1>9. first + size + Margin <= n + RELATION_PADDING
  <2>1. Margin \in Nat /\ PADDING_TUPLES \in Nat /\ Margin <= PADDING_TUPLES
    BY Sizes
  <2> QED
    BY <1>7, <1>8, <2>1
<1> QED
  BY <1>1, <1>2, <1>3, <1>6, <1>8, <1>9

(* What serial_radix_partition reads are the tuples of the partition. *)
LEMMA PartitionRead ==
    ASSUME ParallelInv, ContentInv, NEW t \in InSecondPass, NEW X \in Rels,
           NEW c \in 0 .. FANOUT_PASS1 - 1, task[t] = FirstTask(in, c)
    PROVE  Parallel!Tuples(t, X, "tmp") = PartTuples(X, c)
<1>1. in \in Inputs
  BY DEF ParallelInv, Typed
<1>2. ~ JoinPhase
  BY DEF JoinPhase, InSecondPass
<1>3. Holds(mem[X].tmp, PartFirst(X, c), in[X], PartOf(X, c))
  BY <1>2 DEF ContentInv, PartitionsRight
<1>4. PICK first \in Nat, size \in Nat :
        /\ first = PartFirst(X, c) /\ size = Cardinality(PartOf(X, c))
        /\ task[t][X].first = first /\ task[t][X].n = size
        /\ first + size + Margin <= Len(in[X]) + RELATION_PADDING
  BY <1>1, PartPlaces
<1>5. PICK m \in Nat : m = Len(in[X]) + RELATION_PADDING
  BY <1>1, InputTypes, Sizes
<1>6. mem[X].tmp \in [1 .. m -> Nat]
  BY <1>5 DEF ParallelInv, Typed, Memory
<1>7. first + size <= m
  <2>1. Margin \in Nat
    BY Sizes
  <2> QED
    BY <1>4, <1>5, <2>1
<1>8. in[X] \in Seq(Nat) /\ PartOf(X, c) \subseteq DOMAIN in[X]
  BY <1>1, PartPlaces
<1>9. Parallel!Slice(mem[X].tmp, first, size) = Parallel!TuplesAt(in[X], PartOf(X, c))
  <2>0. PICK at : at = PartOf(X, c)
    OBVIOUS
  <2>1. PICK Y \in Seq(Nat) : Y = in[X] /\ at = PartOf(X, c) /\ at \subseteq DOMAIN Y
    BY <1>8, <2>0
  <2>2. PICK memory \in [1 .. m -> Nat] : memory = mem[X].tmp
    BY <1>6
  <2>3. Holds(memory, first, Y, at) /\ Cardinality(at) = size
    BY <1>3, <1>4, <2>1, <2>2
  <2>4. Fits(first, size, m)
    BY <1>7 DEF Fits
  <2>5. Parallel!Slice(memory, first, size) = Parallel!TuplesAt(Y, at)
    BY <2>1, <2>3, <2>4, HeldIsRead
  <2> QED
    BY <2>1, <2>2, <2>3, <2>5
<1> QED
  BY <1>4, <1>9 DEF Parallel!Tuples, PartTuples

(* A cluster of a partition: its tuples, its size and where it is put. *)
LEMMA ClusterTuples ==
    ASSUME NEW X \in Rels, in \in Inputs, NEW c \in 0 .. FANOUT_PASS1 - 1,
           NEW d \in 0 .. FANOUT_PASS2 - 1
    PROVE  LET T == PartTuples(X, c)
               D == At(T, FANOUT_PASS1, FANOUT_PASS2, d)
               B == ClusterOf(X, RadixOf(c, d))
               begin == StartOf(T, FANOUT_PASS1, FANOUT_PASS2, SMALL_PADDING_TUPLES, d)
           IN  /\ T \in Seq(Nat) /\ Len(T) = Cardinality(PartOf(X, c))
               /\ RadixOf(c, d) \in 0 .. NUM_RADIX - 1
               /\ Cardinality(B) \in Nat /\ Cardinality(D) = Cardinality(B)
               /\ SizeOf(T, FANOUT_PASS1, FANOUT_PASS2, d) = Cardinality(B)
               /\ B \subseteq DOMAIN in[X]
               /\ \A x \in B :
                    /\ RankIn(PartOf(X, c), x) + 1 \in D
                    /\ RankIn(B, x) = RankIn(D, RankIn(PartOf(X, c), x) + 1)
                    /\ T[RankIn(PartOf(X, c), x) + 1] = in[X][x]
                    /\ RankIn(B, x) \in 0 .. Cardinality(B) - 1
               /\ begin \in Nat
               /\ begin + Cardinality(B) + 1 <= Cardinality(PartOf(X, c)) + Margin
               /\ ClusterFirst(X, c, d) = PartFirst(X, c) + begin
<1> DEFINE A == PartOf(X, c)
           T == PartTuples(X, c)
           D == At(T, FANOUT_PASS1, FANOUT_PASS2, d)
           r == RadixOf(c, d)
           B == ClusterOf(X, r)
           begin == StartOf(T, FANOUT_PASS1, FANOUT_PASS2, SMALL_PADDING_TUPLES, d)
<1>1. PICK n \in Nat : n = Len(in[X]) /\ in[X] \in Seq(Nat) /\ DOMAIN in[X] = 1 .. n
  BY InputTypes
<1>2. AreBoth(NUM_RADIX, r, FANOUT_PASS1, c, FANOUT_PASS2, d)
  BY DEF AreBoth, NUM_RADIX, RadixOf
<1>3. FANOUT_PASS1 \in Nat \ {0} /\ FANOUT_PASS2 \in Nat \ {0} /\ SMALL_PADDING_TUPLES \in Nat
  BY Sizes
<1>4. r \in 0 .. NUM_RADIX - 1
  <2>1. 0 \in Nat
    OBVIOUS
  <2> HIDE DEF r
  <2> QED
    BY <1>2, <1>3, <2>1, RadixOfBoth
<1>5. /\ A = At(in[X], 1, FANOUT_PASS1, c) /\ T = Parallel!TuplesAt(in[X], A)
      /\ B = At(in[X], 1, NUM_RADIX, r)
  BY DEF PartOf, PartTuples, ClusterOf
<1>6. B \subseteq 1 .. n
  BY <1>1, <1>5 DEF At
<1> HIDE DEF A, T, B, r
<1>7. /\ T \in Seq(Nat) /\ Len(T) = Cardinality(A) /\ Cardinality(D) = Cardinality(B)
      /\ \A x \in B :
            /\ RankIn(A, x) + 1 \in D /\ RankIn(B, x) = RankIn(D, RankIn(A, x) + 1)
            /\ T[RankIn(A, x) + 1] = in[X][x]
  BY <1>1, <1>2, <1>3, <1>5, ClusterOfCluster
<1>8. PICK size \in Nat : size = Cardinality(B) /\ \A x \in B : RankIn(B, x) \in 0 .. size - 1
  BY <1>6, Ranks
<1>9. SizeOf(T, FANOUT_PASS1, FANOUT_PASS2, d) = size
  BY <1>7, <1>8, SizeIs
<1>10. PICK part \in Nat : part = Len(T)
  BY <1>7
<1>11. begin \in Nat /\ begin + size <= part + (FANOUT_PASS2 - 1) * SMALL_PADDING_TUPLES
  BY <1>3, <1>9, <1>10, Layout
<1> HIDE DEF begin
<1>12. begin + size + 1 <= part + Margin
  <2>1. FANOUT_PASS2 - 1 \in Nat
    BY <1>3
  <2>2. PICK m \in Nat : m = (FANOUT_PASS2 - 1) * SMALL_PADDING_TUPLES /\ Margin = m + 1
    BY <1>3, <2>1, ProductNat DEF Margin
  <2>3. begin + size <= part + m
    BY <1>11, <2>2
  <2> QED
    BY <1>11, <2>2, <2>3
<1>13. ClusterFirst(X, c, d) = PartFirst(X, c) + begin
  BY DEF ClusterFirst, T, begin
<1> QED
  BY <1>1, <1>4, <1>6, <1>7, <1>8, <1>9, <1>10, <1>11, <1>12, <1>13 DEF A, T, B, r, begin

(* What serial_radix_partition leaves of a partition it has read, for one  *)
(* of its relations.                                                       *)
LEMMA ClusterWrites ==
    ASSUME ParallelInv, ContentInv, NEW t \in InSecondPass, NEW X \in Rels,
           Parallel!radix_cluster(t, X), in' = in
    PROVE  /\ \A Y \in Rels : mem'[Y].tmp = mem[Y].tmp /\ (Y # X => mem'[Y].rel = mem[Y].rel)
           /\ \A s \in 0 .. Len(in[X]) + RELATION_PADDING - 1 :
                s \notin Parallel!Reach(task[t], X, Margin) => mem'[X].rel[s + 1] = mem[X].rel[s + 1]
           /\ \A u \in Threads, Y \in Rels : u # t \/ Y # X => output'[u][Y] = output[u][Y]
           /\ \A c \in 0 .. FANOUT_PASS1 - 1 : task[t] = FirstTask(in, c) => ClusteredAt(t, X, c)'
<1> DEFINE tuples == Parallel!Tuples(t, X, "tmp")
           new == Parallel!Scattered(tuples, task[t][X].first, FANOUT_PASS1, FANOUT_PASS2,
                                     SMALL_PADDING_TUPLES)
           written == Parallel!Written(mem[X].rel, new)
           counts == Histogram(tuples, FANOUT_PASS1, FANOUT_PASS2)
<1>1. /\ mem' = [mem EXCEPT ![X].rel = written]
      /\ output' = [output EXCEPT ![t][X] = counts]
  BY SizesSame, HistogramIs DEF Parallel!radix_cluster
<1>2. in \in Inputs /\ task[t] \in Parallel!FirstPassTasks(in) /\ t \in Threads
  BY DEF ParallelInv, Typed, PartitionTasks, InSecondPass
<1>3. /\ mem = [Y \in Rels |-> [tmp |-> mem[Y].tmp, rel |-> mem[Y].rel]]
      /\ \A Y \in Rels : mem[Y].rel \in Memory(Y)
      /\ output = [u \in Threads |-> [Y \in Rels |-> output[u][Y]]]
  BY DEF ParallelInv, Typed
<1>4. tuples \in Seq(Nat) /\ Len(tuples) = task[t][X].n
  BY PartitionTuples DEF ParallelInv
<1>5. PICK m \in Nat : m = Len(in[X]) + RELATION_PADDING
  BY <1>2, InputTypes, Sizes
<1>6. mem[X].rel \in [1 .. m -> Nat]
  BY <1>3, <1>5 DEF Memory
<1>7. PICK first \in Nat, n \in Nat :
        first = task[t][X].first /\ n = task[t][X].n /\ first + n + Margin <= m
  <2>1. task[t][X].first \in Nat /\ task[t][X].n \in Nat
    BY <1>2, FirstTasksTyped, TaskTyped
  <2>2. task[t][X].first + task[t][X].n + Margin <= m
    BY <1>2, <1>5, FirstTasksApart
  <2> QED
    BY <2>1, <2>2
<1>8. ASSUME NEW s \in 0 .. m - 1, s \notin Parallel!Reach(task[t], X, Margin)
      PROVE  written[s + 1] = mem[X].rel[s + 1]
  <2>1. FANOUT_PASS1 \in Nat \ {0} /\ FANOUT_PASS2 \in Nat \ {0} /\ SMALL_PADDING_TUPLES \in Nat
    BY Sizes
  <2>2. PICK memory : memory = mem[X].rel /\ s + 1 \in DOMAIN memory
    BY <1>6
  <2> HIDE DEF tuples
  <2>3. PICK T \in Seq(Nat) : T = tuples /\ Len(T) = n
    BY <1>4, <1>7
  <2>4. PICK pad \in Nat : pad = (FANOUT_PASS2 - 1) * SMALL_PADDING_TUPLES /\ Margin = pad + 1
    <3>1. FANOUT_PASS2 - 1 \in Nat
      BY <2>1
    <3> QED
      BY <2>1, <3>1, ProductNat DEF Margin
  <2>5. Parallel!Reach(task[t], X, Margin) = first .. first + n + Margin - 1
    BY <1>7 DEF Parallel!Reach
  <2>6. s + 1 - 1 \notin first .. first + n + pad - 1
    <3>1. s \notin first .. first + n + (pad + 1) - 1
      BY <1>8, <2>4, <2>5
    <3> QED
      BY <3>1
  <2>7. Outside(s + 1, T, first, FANOUT_PASS2, SMALL_PADDING_TUPLES)
    BY <2>3, <2>4, <2>6 DEF Outside
  <2>8. Parallel!Written(memory,
            Parallel!Scattered(T, first, FANOUT_PASS1, FANOUT_PASS2, SMALL_PADDING_TUPLES))[s + 1]
          = memory[s + 1]
    BY <2>1, <2>2, <2>7, NotScattered
  <2> QED
    BY <1>7, <2>2, <2>3, <2>8
<1> HIDE DEF written, counts
<1>9. mem' = [Y \in Rels |-> [tmp |-> mem[Y].tmp,
                             rel |-> IF Y = X THEN written ELSE mem[Y].rel]]
  BY <1>1, <1>3
<1>10. \A u \in Threads, Y \in Rels :
         output'[u][Y] = IF u = t /\ Y = X THEN counts ELSE output[u][Y]
  <2> TAKE u \in Threads, Y \in Rels
  <2>1. output' = [v \in Threads |-> IF v = t THEN [output[t] EXCEPT ![X] = counts] ELSE output[v]]
    BY <1>1, <1>3
  <2>2. output[t] = [Z \in Rels |-> output[t][Z]]
    BY <1>2, <1>3
  <2>3. [output[t] EXCEPT ![X] = counts] = [Z \in Rels |-> IF Z = X THEN counts ELSE output[t][Z]]
    BY <2>2
  <2>4. CASE u = t
    BY <2>1, <2>3, <2>4
  <2>5. CASE u # t
    BY <2>1, <2>5
  <2> QED
    BY <2>4, <2>5
<1>11. /\ \A Y \in Rels : mem'[Y].tmp = mem[Y].tmp /\ (Y # X => mem'[Y].rel = mem[Y].rel)
       /\ mem'[X].rel = written
  BY <1>9
<1>12. ASSUME NEW c \in 0 .. FANOUT_PASS1 - 1, task[t] = FirstTask(in, c)
       PROVE  ClusteredAt(t, X, c)'
  <2>1. tuples = PartTuples(X, c)
    BY <1>12, PartitionRead
  <2>2. /\ PartTuples(X, c)' = PartTuples(X, c)
        /\ \A d : ClusterFirst(X, c, d)' = ClusterFirst(X, c, d)
        /\ \A r : ClusterOf(X, r)' = ClusterOf(X, r)
    BY DEF PartTuples, PartOf, ClusterFirst, PartFirst, ClusterOf
  <2>3. output'[t][X] = Histogram(PartTuples(X, c), FANOUT_PASS1, FANOUT_PASS2)
    BY <1>2, <1>10, <2>1 DEF counts
  <2>4. ASSUME NEW d \in 0 .. FANOUT_PASS2 - 1
        PROVE  Holds(written, ClusterFirst(X, c, d), in[X], ClusterOf(X, RadixOf(c, d)))
    <3> DEFINE B == ClusterOf(X, RadixOf(c, d))
               D == At(PartTuples(X, c), FANOUT_PASS1, FANOUT_PASS2, d)
               A == PartOf(X, c)
    <3>1. PICK T \in Seq(Nat) : T = PartTuples(X, c)
      BY <1>2, ClusterTuples
    <3>2. PICK begin \in Nat, size \in Nat :
            /\ begin = StartOf(T, FANOUT_PASS1, FANOUT_PASS2, SMALL_PADDING_TUPLES, d)
            /\ size = Cardinality(B) /\ begin + size + 1 <= Cardinality(A) + Margin
            /\ ClusterFirst(X, c, d) = PartFirst(X, c) + begin
      BY <1>2, <3>1, ClusterTuples
    <3>3. \A x \in B :
            /\ RankIn(A, x) + 1 \in D /\ RankIn(B, x) = RankIn(D, RankIn(A, x) + 1)
            /\ T[RankIn(A, x) + 1] = in[X][x]
            /\ RankIn(B, x) \in 0 .. size - 1
      BY <1>2, <3>1, <3>2, ClusterTuples
    <3>4. first = PartFirst(X, c) /\ n = Cardinality(A)
      BY <1>2, <1>7, <1>12, PartPlaces
    <3> HIDE DEF B, A
    <3>5. ASSUME NEW x \in B
          PROVE  written[ClusterFirst(X, c, d) + RankIn(B, x) + 1] = in[X][x]
      <4>1. PICK k \in D : k = RankIn(A, x) + 1
        BY <3>3
      <4>2. PICK rank \in Nat : rank = RankIn(B, x) /\ rank = RankIn(D, k) /\ rank < size
        BY <3>3, <4>1
      <4>3. T[k] = in[X][x]
        BY <3>3, <4>1
      <4>4. PICK margin \in Nat : margin = Margin
        BY Sizes
      <4>5. begin + size + 1 <= n + margin /\ first + n + margin <= m
        BY <1>7, <3>2, <3>4, <4>4
      <4>6. first + begin + rank + 1 \in 1 .. m
        BY <4>2, <4>5
      <4>7. /\ k \in At(T, FANOUT_PASS1, FANOUT_PASS2, d)
            /\ rank = RankIn(At(T, FANOUT_PASS1, FANOUT_PASS2, d), k)
        BY <3>1, <4>1, <4>2
      <4>8. FANOUT_PASS1 \in Nat \ {0} /\ FANOUT_PASS2 \in Nat \ {0} /\ SMALL_PADDING_TUPLES \in Nat
        BY Sizes
      <4>9. PICK memory : memory = mem[X].rel
        OBVIOUS
      <4>13. PICK slot \in DOMAIN memory : slot = first + begin + rank + 1
        BY <1>6, <4>6, <4>9
      <4>10. IsSlot(slot, T, first, FANOUT_PASS1, FANOUT_PASS2, SMALL_PADDING_TUPLES, d, k)
        BY <3>2, <4>7, <4>13 DEF IsSlot
      <4>11. Parallel!Written(memory, Parallel!Scattered(T, first, FANOUT_PASS1, FANOUT_PASS2,
                                                         SMALL_PADDING_TUPLES))[slot] = T[k]
        <5>1. Lands(memory, slot, T, first, FANOUT_PASS1, FANOUT_PASS2, SMALL_PADDING_TUPLES, d, k)
          BY <4>7, <4>8, <4>10 DEF Lands
        <5> QED
          BY <5>1, ScatterLands
      <4>12. written = Parallel!Written(memory,
                          Parallel!Scattered(T, first, FANOUT_PASS1, FANOUT_PASS2,
                                             SMALL_PADDING_TUPLES))
        BY <1>7, <2>1, <3>1, <4>9 DEF written
      <4> QED
        BY <3>2, <3>4, <4>2, <4>3, <4>9, <4>13, <4>11, <4>12
    <3> QED
      BY <3>5 DEF Holds, B
  <2>5. /\ (RadixOf(c, 0))' = RadixOf(c, 0)
        /\ \A d : RadixOf(c, d)' = RadixOf(c, d)
    BY DEF RadixOf
  <2> QED
    BY <1>11, <2>2, <2>3, <2>4, <2>5 DEF ClusteredAt
<1>13. \A s \in 0 .. Len(in[X]) + RELATION_PADDING - 1 :
         s \notin Parallel!Reach(task[t], X, Margin) => mem'[X].rel[s + 1] = mem[X].rel[s + 1]
  <2>0. Len(in[X]) \in Nat /\ RELATION_PADDING \in Nat
    BY <1>2, InputTypes, Sizes
  <2>1. 0 .. Len(in[X]) + RELATION_PADDING - 1 = 0 .. m - 1
    BY <1>5, <2>0
  <2>2. \A s \in 0 .. m - 1 :
          s \notin Parallel!Reach(task[t], X, Margin) => mem'[X].rel[s + 1] = mem[X].rel[s + 1]
    BY <1>8, <1>11
  <2> QED
    BY <2>1, <2>2
<1> QED
  BY <1>10, <1>11, <1>12, <1>13

(* What lies in another partition stays as it is. *)
LEMMA StillThere ==
    ASSUME ParallelInv, ContentInv, NEW t \in InSecondPass, NEW X \in Rels,
           Parallel!radix_cluster(t, X), in' = in,
           NEW q \in Parallel!FirstPassTasks(in), q # task[t],
           NEW at, at \subseteq DOMAIN in[X], NEW first \in Nat,
           q[X].first <= first,
           first + Cardinality(at) + 1 <= q[X].first + q[X].n + Margin,
           Holds(mem[X].rel, first, in[X], at)
    PROVE  Holds(mem'[X].rel, first, in[X], at)
<1>1. in \in Inputs /\ task[t] \in Parallel!FirstPassTasks(in)
  BY DEF ParallelInv, Typed, PartitionTasks
<1>2. PICK n \in Nat : n = Len(in[X]) /\ DOMAIN in[X] = 1 .. n
  BY <1>1, InputTypes
<1>3. PICK size \in Nat : size = Cardinality(at)
  BY <1>2, Ranks
<1>4. PICK a \in Nat, b \in Nat, margin \in Nat :
        /\ a = q[X].first /\ b = q[X].n /\ margin = Margin
        /\ a <= first /\ first + size + 1 <= a + b + margin
  <2>1. q[X].first \in Nat /\ q[X].n \in Nat /\ Margin \in Nat
    BY <1>1, FirstTasksTyped, TaskTyped, Sizes
  <2> QED
    BY <1>3, <2>1
<1>5. ASSUME NEW s \in first .. first + size - 1
      PROVE  mem'[X].rel[s + 1] = mem[X].rel[s + 1]
  <2>1. Parallel!Reach(q, X, Margin) = a .. a + b + margin - 1
    BY <1>4 DEF Parallel!Reach
  <2>2. s \in Parallel!Reach(q, X, Margin)
    <3>1. s \in Int /\ first <= s /\ s < first + size
      OBVIOUS
    <3>2. s \in a .. a + b + margin - 1
      BY <1>4, <3>1
    <3> QED
      BY <2>1, <3>2
  <2>3. /\ Parallel!Reach(q, X, Margin) \subseteq 0 .. Len(in[X]) + RELATION_PADDING - 1
        /\ Parallel!Reach(q, X, Margin) \cap Parallel!Reach(task[t], X, Margin) = {}
    BY <1>1, FirstTasksApart
  <2>4. s \in 0 .. Len(in[X]) + RELATION_PADDING - 1 /\ s \notin Parallel!Reach(task[t], X, Margin)
    BY <2>2, <2>3
  <2> QED
    BY <2>4, ClusterWrites
<1>6. PICK memory, later : memory = mem[X].rel /\ later = mem'[X].rel
  OBVIOUS
<1>7. PICK Y : Y = in[X]
  OBVIOUS
<1>8. Holds(memory, first, Y, at)
  BY <1>6, <1>7
<1>9. \A s \in first .. first + Cardinality(at) - 1 : later[s + 1] = memory[s + 1]
  BY <1>3, <1>5, <1>6
<1>10. at \subseteq 1 .. n
  BY <1>2
<1>11. Holds(later, first, Y, at)
  BY <1>8, <1>9, <1>10, StillHeld
<1> QED
  BY <1>6, <1>7, <1>11

(* Clustering a partition leaves the join tasks of the others. *)
LEMMA ClusterStays ==
    ASSUME ParallelInv, ContentInv, NEW t \in InSecondPass, NEW X \in Rels,
           Parallel!radix_cluster(t, X), in' = in,
           NEW k \in JoinTasks, NEW r, IsCluster(k, r)
    PROVE  IsCluster(k, r)'
<1>1. in \in Inputs /\ k \in TaskSet
  BY DEF ParallelInv, Typed, Places
<1>2. \A Y \in Rels : Y # X => mem'[Y].rel = mem[Y].rel
  BY ClusterWrites
<1>3. \A Y, c, d :
        /\ ClusterOf(Y, c)' = ClusterOf(Y, c) /\ ClusterFirst(Y, c, d)' = ClusterFirst(Y, c, d)
        /\ RadixOf(c, d)' = RadixOf(c, d)
  BY DEF PartOf, ClusterOf, PartTuples, PartFirst, ClusterFirst, RadixOf
<1>4. PICK p \in Partitioned : Within(k, p)
  BY DEF ParallelInv, Places
<1>5. p \in Parallel!FirstPassTasks(in) /\ p # task[t]
  BY <1>4 DEF Partitioned
<1>6. ASSUME NEW Y \in Rels
      PROVE  Holds(mem'[Y].rel, k[Y].first, in[Y], ClusterOf(Y, r))
  <2>1. Holds(mem[Y].rel, k[Y].first, in[Y], ClusterOf(Y, r)) /\ k[Y].n = Cardinality(ClusterOf(Y, r))
    BY DEF IsCluster
  <2>2. CASE Y # X
    BY <1>2, <2>1, <2>2
  <2>3. CASE Y = X
    <3>1. PICK at : at = ClusterOf(X, r)
      OBVIOUS
    <3>2. k[X].first \in Nat /\ at \subseteq DOMAIN in[X]
      <4>1. in[X] \in Seq(Nat)
        BY <1>1, InputTypes
      <4> QED
        BY <1>1, <3>1, <4>1, TaskTyped DEF ClusterOf, At
    <3>3. /\ p[X].first <= k[X].first
          /\ k[X].first + Cardinality(at) + 1 <= p[X].first + p[X].n + Margin
      BY <1>4, <2>1, <2>3, <3>1 DEF Within
    <3>4. Holds(mem'[X].rel, k[X].first, in[X], at)
      BY <1>5, <2>1, <2>3, <3>1, <3>2, <3>3, StillThere
    <3> QED
      BY <2>3, <3>1, <3>4
  <2> QED
    BY <2>2, <2>3
<1>7. Planned(k, r)' = Planned(k, r)
  BY <1>3 DEF Planned
<1> QED
  BY <1>3, <1>6, <1>7 DEF IsCluster

(* Clustering a partition of one relation. *)
LEMMA ClusterContent ==
    ASSUME ParallelInv, ContentInv, NEW t \in InSecondPass, NEW X \in Rels, NEW after,
           Parallel!radix_cluster(t, X), pc' = [pc EXCEPT ![t] = after],
           UNCHANGED <<in, join_queue, task>>,
           (after = "clusterS" /\ X = "R") \/ (after = "add" /\ X = "S" /\ pc[t] = "clusterS")
    PROVE  ContentInv'
<1>1. /\ in \in Inputs /\ pc \in [Threads -> Parallel!Steps] /\ t \in Threads
      /\ \A u \in InSecondPass : task[u] \in Parallel!FirstPassTasks(in)
      /\ \A u \in InSecondPass : u # t => task[u] # task[t]
  BY DEF ParallelInv, Typed, PartitionTasks, InSecondPass
<1>2. pc'[t] = after /\ \A u \in Threads \ {t} : pc'[u] = pc[u]
  BY <1>1
<1>3. ~ JoinPhase /\ ~ JoinPhase'
  BY <1>1, <1>2 DEF JoinPhase, InSecondPass
<1>4. OnePhase'
  BY <1>2, <1>3 DEF ContentInv, OnePhase
<1>5. /\ \A Y \in Rels : mem'[Y].tmp = mem[Y].tmp /\ (Y # X => mem'[Y].rel = mem[Y].rel)
      /\ \A u \in Threads, Y \in Rels : u # t \/ Y # X => output'[u][Y] = output[u][Y]
      /\ \A c \in 0 .. FANOUT_PASS1 - 1 : task[t] = FirstTask(in, c) => ClusteredAt(t, X, c)'
  BY ClusterWrites
<1>6. \A Y, c, d :
        /\ PartOf(Y, c)' = PartOf(Y, c) /\ ClusterOf(Y, c)' = ClusterOf(Y, c)
        /\ PartTuples(Y, c)' = PartTuples(Y, c) /\ PartFirst(Y, c)' = PartFirst(Y, c)
        /\ ClusterFirst(Y, c, d)' = ClusterFirst(Y, c, d) /\ RadixOf(c, d)' = RadixOf(c, d)
  BY DEF PartOf, ClusterOf, PartTuples, PartFirst, ClusterFirst, RadixOf
<1>7. PartitionsRight'
  BY <1>3, <1>5, <1>6 DEF ContentInv, PartitionsRight
<1>8. ClusteredRight'
  <2> SUFFICES ASSUME NEW u \in Threads, NEW Y \in Rels, NEW c \in 0 .. FANOUT_PASS1 - 1,
                      HasClustered(u, Y)', task[u] = FirstTask(in, c)
               PROVE  ClusteredAt(u, Y, c)'
    BY DEF ClusteredRight
  <2>1. CASE u = t /\ Y = X
    BY <1>5, <2>1
  <2>2. CASE u # t \/ Y # X
    <3>1. HasClustered(u, Y)
      <4>1. CASE u # t
        BY <1>2, <4>1 DEF HasClustered
      <4>2. CASE u = t
        <5>1. pc'[t] = after /\ Y # X /\ HasClustered(t, Y)'
          BY <1>2, <2>2, <4>2
        <5>2. after = "add" \/ (after = "clusterS" /\ Y = "R")
          BY <5>1 DEF HasClustered
        <5>3. pc[t] = "clusterS" /\ Y = "R"
          BY <5>1, <5>2 DEF Rels
        <5> QED
          BY <4>2, <5>3 DEF HasClustered
      <4> QED
        BY <4>1, <4>2
    <3>2. ClusteredAt(u, Y, c) /\ output'[u][Y] = output[u][Y]
      BY <1>5, <2>2, <3>1 DEF ContentInv, ClusteredRight
    <3>3. ASSUME NEW d \in 0 .. FANOUT_PASS2 - 1
          PROVE  Holds(mem'[Y].rel, ClusterFirst(Y, c, d), in[Y], ClusterOf(Y, RadixOf(c, d)))
      <4>1. Holds(mem[Y].rel, ClusterFirst(Y, c, d), in[Y], ClusterOf(Y, RadixOf(c, d)))
        BY <3>2 DEF ClusteredAt
      <4>2. CASE Y # X
        BY <1>5, <4>1, <4>2
      <4>3. CASE Y = X
        <5>1. u # t /\ u \in InSecondPass
          BY <2>2, <3>1, <4>3 DEF HasClustered, InSecondPass
        <5>2. task[u] \in Parallel!FirstPassTasks(in) /\ task[u] # task[t]
          BY <1>1, <5>1
        <5>3. PICK first \in Nat, part \in Nat :
                /\ first = PartFirst(X, c) /\ part = Cardinality(PartOf(X, c))
                /\ task[u][X].first = first /\ task[u][X].n = part
          BY <1>1, PartPlaces
        <5>4. PICK at : at = ClusterOf(X, RadixOf(c, d))
          OBVIOUS
        <5>5. PICK begin \in Nat, size \in Nat :
                /\ size = Cardinality(at) /\ begin + size + 1 <= part + Margin
                /\ ClusterFirst(X, c, d) = first + begin /\ at \subseteq DOMAIN in[X]
          BY <1>1, <5>3, <5>4, ClusterTuples
        <5>6. PICK margin \in Nat : margin = Margin
          BY Sizes
        <5>7. first <= first + begin /\ first + begin \in Nat
              /\ first + begin + size + 1 <= first + part + margin
          BY <5>5, <5>6
        <5>8. PICK place \in Nat : place = first + begin
          OBVIOUS
        <5>9. task[u][X].first <= place
              /\ place + Cardinality(at) + 1 <= task[u][X].first + task[u][X].n + Margin
          BY <5>3, <5>5, <5>6, <5>7, <5>8
        <5>10. Holds(mem[X].rel, place, in[X], at)
          BY <4>1, <4>3, <5>4, <5>5, <5>8
        <5>11. Holds(mem'[X].rel, place, in[X], at)
          BY <5>2, <5>5, <5>9, <5>10, StillThere
        <5> QED
          BY <4>3, <5>4, <5>5, <5>8, <5>11
      <4> QED
        BY <4>2, <4>3
    <3> QED
      BY <1>6, <3>2, <3>3 DEF ClusteredAt
  <2> QED
    BY <2>1, <2>2
<1>9. JoinTasksRight'
  <2>1. JoinTasks' = JoinTasks
    <3>1. InJoin' = InJoin
      BY <1>1, <1>2 DEF InJoin, InSecondPass
    <3> QED
      BY <3>1 DEF JoinTasks
  <2> SUFFICES ASSUME NEW k \in JoinTasks PROVE \E r \in 0 .. NUM_RADIX - 1 : IsCluster(k, r)'
    BY <2>1 DEF JoinTasksRight
  <2>2. PICK r \in 0 .. NUM_RADIX - 1 : IsCluster(k, r)
    BY DEF ContentInv, JoinTasksRight
  <2>3. IsCluster(k, r)'
    BY <2>2, ClusterStays
  <2> QED
    BY <2>3
<1> QED
  BY <1>4, <1>7, <1>8, <1>9 DEF ContentInv

(* What a thread has clustered of its partition is the cluster where a     *)
(* join task for it would be.                                              *)
LEMMA AddedAreClusters ==
    ASSUME in \in Inputs, ContentInv, NEW t \in Threads, pc[t] = "add",
           NEW c \in 0 .. FANOUT_PASS1 - 1, task[t] = FirstTask(in, c),
           NEW d \in 0 .. FANOUT_PASS2 - 1
    PROVE  /\ IsCluster(Parallel!JoinTask(t, d), RadixOf(c, d))
           /\ \A X \in Rels : output[t][X][d] = Cardinality(ClusterOf(X, RadixOf(c, d)))
<1>1. ASSUME NEW X \in Rels
      PROVE  /\ output[t][X][d] = Cardinality(ClusterOf(X, RadixOf(c, d)))
             /\ Parallel!JoinTask(t, d)[X].first = ClusterFirst(X, c, d)
             /\ Parallel!JoinTask(t, d)[X].n = Cardinality(ClusterOf(X, RadixOf(c, d)))
             /\ Holds(mem[X].rel, ClusterFirst(X, c, d), in[X], ClusterOf(X, RadixOf(c, d)))
  <2>1. ClusteredAt(t, X, c)
    BY DEF ContentInv, ClusteredRight, HasClustered
  <2>2. PICK T : T = PartTuples(X, c) /\ output[t][X] = Histogram(T, FANOUT_PASS1, FANOUT_PASS2)
    BY <2>1 DEF ClusteredAt
  <2>3. PICK first \in Nat : first = PartFirst(X, c) /\ task[t][X].first = first
    BY PartPlaces
  <2>4. PICK begin \in Nat :
          /\ begin = StartOf(T, FANOUT_PASS1, FANOUT_PASS2, SMALL_PADDING_TUPLES, d)
          /\ ClusterFirst(X, c, d) = first + begin
          /\ SizeOf(T, FANOUT_PASS1, FANOUT_PASS2, d) = Cardinality(ClusterOf(X, RadixOf(c, d)))
    BY <2>2, <2>3, ClusterTuples
  <2>5. /\ Parallel!JoinTask(t, d)[X].first =
              first + SumBelow(output[t][X], d) + d * SMALL_PADDING_TUPLES
        /\ Parallel!JoinTask(t, d)[X].n = output[t][X][d]
    BY <2>3, JoinTaskFields
  <2>6. PICK sum \in Nat, pads \in Nat :
          /\ sum = SumBelow(output[t][X], d) /\ pads = d * SMALL_PADDING_TUPLES
          /\ begin = sum + pads
    <3>1. PICK m \in Nat : m = Len(T)
      BY <2>2, ClusterTuples
    <3>2. SumBelow(Histogram(T, FANOUT_PASS1, FANOUT_PASS2), d) \in Nat
      BY <3>1, Sizes, ClusterSizes
    <3>3. d * SMALL_PADDING_TUPLES \in Nat
      BY Sizes, ProductNat
    <3>4. begin = SumBelow(Histogram(T, FANOUT_PASS1, FANOUT_PASS2), d) + d * SMALL_PADDING_TUPLES
      BY <2>4 DEF StartOf
    <3> QED
      BY <2>2, <3>2, <3>3, <3>4
  <2>7. Parallel!JoinTask(t, d)[X].first = first + begin
    BY <2>5, <2>6
  <2>8. Parallel!JoinTask(t, d)[X].n = Cardinality(ClusterOf(X, RadixOf(c, d)))
    BY <2>2, <2>4, <2>5 DEF SizeOf
  <2>9. Holds(mem[X].rel, ClusterFirst(X, c, d), in[X], ClusterOf(X, RadixOf(c, d)))
    BY <2>1 DEF ClusteredAt
  <2> QED
    BY <2>4, <2>5, <2>7, <2>8, <2>9
<1>2. Planned(Parallel!JoinTask(t, d), RadixOf(c, d))
  BY <1>1 DEF Planned
<1> QED
  BY <1>1, <1>2 DEF IsCluster

(* The join tasks that a thread adds are clusters. *)
LEMMA AddContent ==
    ASSUME ParallelInv, ContentInv, NEW t \in Threads, Parallel!AddJoinTasks(t)
    PROVE  ContentInv'
<1> DEFINE Present == {d \in 0 .. FANOUT_PASS2 - 1 : Parallel!BothPresent(t, d)}
           New == {Parallel!JoinTask(t, d) : d \in Present}
<1>1. /\ pc[t] = "add" /\ join_queue' = join_queue \cup New
      /\ pc' = [pc EXCEPT ![t] = "partition"] /\ task' = [task EXCEPT ![t] = Parallel!NoTask]
      /\ UNCHANGED <<in, mem, output>>
  BY SizesSame DEF Parallel!AddJoinTasks
<1>2. /\ in \in Inputs /\ pc \in [Threads -> Parallel!Steps] /\ task \in [Threads -> TaskSet]
      /\ t \in InSecondPass /\ task[t] \in Parallel!FirstPassTasks(in)
  BY <1>1 DEF ParallelInv, Typed, PartitionTasks, InSecondPass
<1>3. /\ pc'[t] = "partition"
      /\ \A u \in Threads \ {t} : pc'[u] = pc[u] /\ task'[u] = task[u]
  BY <1>1, <1>2
<1>4. ~ JoinPhase /\ ~ JoinPhase'
  BY <1>1, <1>3 DEF JoinPhase
<1>5. OnePhase'
  BY <1>3, <1>4 DEF ContentInv, OnePhase
<1>6. \A Y, c, d :
        /\ PartOf(Y, c)' = PartOf(Y, c) /\ ClusterOf(Y, c)' = ClusterOf(Y, c)
        /\ PartTuples(Y, c)' = PartTuples(Y, c) /\ PartFirst(Y, c)' = PartFirst(Y, c)
        /\ ClusterFirst(Y, c, d)' = ClusterFirst(Y, c, d)
  BY <1>1 DEF PartOf, ClusterOf, PartTuples, PartFirst, ClusterFirst
<1>7. PartitionsRight'
  BY <1>1, <1>4, <1>6 DEF ContentInv, PartitionsRight
<1>8. ClusteredRight'
  <2> SUFFICES ASSUME NEW u \in Threads, NEW Y \in Rels, NEW c \in 0 .. FANOUT_PASS1 - 1,
                      HasClustered(u, Y)', task'[u] = FirstTask(in', c)
               PROVE  ClusteredAt(u, Y, c)'
    BY DEF ClusteredRight
  <2>1. u # t
    BY <1>3 DEF HasClustered
  <2>2. HasClustered(u, Y) /\ task[u] = FirstTask(in, c)
    BY <1>1, <1>3, <2>1 DEF HasClustered
  <2>3. ClusteredAt(u, Y, c)
    BY <2>2 DEF ContentInv, ClusteredRight
  <2> QED
    BY <1>1, <1>6, <2>3 DEF ClusteredAt, RadixOf
<1>9. \A k, r : IsCluster(k, r) => IsCluster(k, r)'
  <2> TAKE k, r
  <2>1. Planned(k, r)' = Planned(k, r)
    BY <1>6 DEF Planned, RadixOf
  <2> QED
    BY <1>1, <1>6, <2>1 DEF IsCluster
<1>10. ASSUME NEW d \in Present
       PROVE  \E r \in 0 .. NUM_RADIX - 1 : IsCluster(Parallel!JoinTask(t, d), r)
  <2>1. PICK c \in 0 .. FANOUT_PASS1 - 1 : task[t] = FirstTask(in, c)
    BY <1>2, FirstTasksAre
  <2>2. "R" \in Rels
    BY DEF Rels
  <2>3. RadixOf(c, d) \in 0 .. NUM_RADIX - 1
    BY <1>2, <2>2, ClusterTuples
  <2> QED
    BY <1>1, <1>2, <2>1, <2>3, AddedAreClusters
<1>11. JoinTasks' \subseteq JoinTasks \cup New
  <2>1. \A u \in InJoin' : u # t /\ u \in InJoin /\ task'[u] = task[u]
    BY <1>3 DEF InJoin
  <2> QED
    BY <1>1, <2>1 DEF JoinTasks
<1>12. JoinTasksRight'
  <2> HIDE DEF Present
  <2>1. \A k \in New : \E r \in 0 .. NUM_RADIX - 1 : IsCluster(k, r)
    BY <1>10
  <2> HIDE DEF New
  <2> SUFFICES ASSUME NEW k \in JoinTasks' PROVE \E r \in 0 .. NUM_RADIX - 1 : IsCluster(k, r)'
    BY DEF JoinTasksRight
  <2>2. \E r \in 0 .. NUM_RADIX - 1 : IsCluster(k, r)
    BY <1>11, <2>1 DEF ContentInv, JoinTasksRight
  <2> QED
    BY <1>9, <2>2
<1> QED
  BY <1>5, <1>7, <1>8, <1>12 DEF ContentInv

(* The steps that write to neither relR nor relS. *)
LEMMA OtherContent ==
    ASSUME ParallelInv, ContentInv, NEW t \in Threads,
           \/ Parallel!GetPartitionTask(t) \/ Parallel!EndPartitioning(t) \/ Parallel!GetJoinTask(t)
           \/ Parallel!JoinBuckets(t) \/ Parallel!Reorder(t) \/ Parallel!Probe(t)
           \/ Parallel!EndJoining(t)
    PROVE  ContentInv'
<1>1. /\ in \in Inputs /\ pc \in [Threads -> Parallel!Steps] /\ task \in [Threads -> TaskSet]
      /\ mem = [Y \in Rels |-> [tmp |-> mem[Y].tmp, rel |-> mem[Y].rel]]
  BY DEF ParallelInv, Typed
<1>2. ASSUME NEW a, NEW b, NEW k, pc[t] = a, pc' = [pc EXCEPT ![t] = b],
             a \in {"partition", "join", "build", "probe"},
             a = "partition" => b \in {"clusterR", "barrier"} /\ mem' = mem,
             a # "partition" => b \in {"join", "build", "probe", "done"},
             in' = in, output' = output, \A X \in Rels : mem'[X].rel = mem[X].rel,
             task' = [task EXCEPT ![t] = k], join_queue' \subseteq join_queue,
             b \in {"build", "probe"} => k \in JoinTasks
      PROVE  ContentInv'
  <2>1. /\ pc'[t] = b /\ task'[t] = k
        /\ \A u \in Threads \ {t} : pc'[u] = pc[u] /\ task'[u] = task[u]
    BY <1>1, <1>2
  <2>2. /\ OnePhase'
        /\ JoinPhase' \/ (~ JoinPhase /\ \A X \in Rels : mem'[X].tmp = mem[X].tmp)
    <3>1. CASE a = "partition"
      <4>1. ~ JoinPhase /\ mem' = mem
        BY <1>2, <3>1 DEF JoinPhase
      <4>2. \A u \in Threads :
              pc'[u] \in {"partition", "clusterR", "clusterS", "add", "barrier"}
        BY <1>2, <2>1, <3>1, <4>1 DEF ContentInv, OnePhase
      <4> QED
        BY <4>1, <4>2 DEF OnePhase
    <3>2. CASE a # "partition"
      <4>1. JoinPhase
        BY <1>2, <3>2 DEF ContentInv, OnePhase
      <4>2. JoinPhase'
        BY <1>2, <2>1, <3>2, <4>1 DEF JoinPhase
      <4> QED
        BY <4>2 DEF OnePhase
    <3> QED
      BY <3>1, <3>2
  <2>3. JoinTasks' \subseteq JoinTasks
    <3>1. ASSUME NEW u \in InJoin' PROVE task'[u] \in JoinTasks
      <4>1. CASE u = t
        BY <1>2, <2>1, <3>1, <4>1 DEF InJoin
      <4>2. CASE u # t
        BY <2>1, <3>1, <4>2 DEF InJoin, JoinTasks
      <4> QED
        BY <4>1, <4>2
    <3>2. {task[u] : u \in InJoin}' \subseteq JoinTasks
      BY <3>1
    <3> QED
      BY <1>2, <3>2 DEF JoinTasks
  <2>4. \A u \in Threads, X \in Rels : HasClustered(u, X)' =>
          HasClustered(u, X) /\ task'[u] = task[u] /\ output'[u] = output[u]
    BY <1>2, <2>1 DEF HasClustered
  <2> QED
    BY <1>2, <2>2, <2>3, <2>4, ContentKept
<1>3. [task EXCEPT ![t] = task[t]] = task
  BY <1>1
<1>4. pc[t] \in {"build", "probe"} => task[t] \in JoinTasks
  BY DEF JoinTasks, InJoin
<1>5. CASE Parallel!GetPartitionTask(t)
  <2>1. PICK k : task' = [task EXCEPT ![t] = k]
    BY <1>5 DEF Parallel!GetPartitionTask
  <2>2. /\ pc[t] = "partition" /\ pc' = [pc EXCEPT ![t] = "clusterR"]
        /\ UNCHANGED <<in, mem, output, join_queue>>
    BY <1>5 DEF Parallel!GetPartitionTask
  <2> QED
    BY <1>2, <2>1, <2>2
<1>6. CASE Parallel!EndPartitioning(t)
  <2>1. /\ pc[t] = "partition" /\ pc' = [pc EXCEPT ![t] = "barrier"]
        /\ UNCHANGED <<in, mem, output, join_queue, task>>
    BY <1>6 DEF Parallel!EndPartitioning
  <2>2. task' = [task EXCEPT ![t] = task[t]]
    BY <1>3, <2>1
  <2> QED
    BY <1>2, <2>1, <2>2
<1>7. CASE Parallel!GetJoinTask(t)
  <2>1. PICK k \in join_queue :
          join_queue' = join_queue \ {k} /\ task' = [task EXCEPT ![t] = k]
    BY <1>7 DEF Parallel!GetJoinTask
  <2>2. /\ pc[t] = "join" /\ pc' = [pc EXCEPT ![t] = "build"]
        /\ UNCHANGED <<in, mem, output>>
    BY <1>7 DEF Parallel!GetJoinTask
  <2>3. k \in JoinTasks /\ join_queue' \subseteq join_queue
    BY <2>1 DEF JoinTasks
  <2> QED
    BY <1>2, <2>1, <2>2, <2>3
<1>8. ASSUME NEW matches, Parallel!Joined(t, matches), pc[t] \in {"build", "probe"},
             UNCHANGED <<in, mem, output, join_queue>>
      PROVE  ContentInv'
  <2>1. task' = [task EXCEPT ![t] = Parallel!NoTask] /\ pc' = [pc EXCEPT ![t] = "join"]
    BY <1>8 DEF Parallel!Joined
  <2>2. PICK a : pc[t] = a /\ a \in {"build", "probe"}
    BY <1>8
  <2> QED
    BY <1>2, <1>8, <2>1, <2>2
<1>9. CASE Parallel!JoinBuckets(t)
  <2>1. PICK matches : /\ Parallel!Joined(t, matches) /\ pc[t] = "build"
                       /\ UNCHANGED <<in, mem, output, join_queue>>
    BY <1>9 DEF Parallel!JoinBuckets
  <2> QED
    BY <1>8, <2>1
<1>10. CASE Parallel!Probe(t)
  <2>1. PICK matches : /\ Parallel!Joined(t, matches) /\ pc[t] = "probe"
                       /\ UNCHANGED <<in, mem, output, join_queue>>
    BY <1>10 DEF Parallel!Probe
  <2> QED
    BY <1>8, <2>1
<1>11. CASE Parallel!Reorder(t)
  <2>1. PICK tmp : mem' = [mem EXCEPT !.R.tmp = tmp]
    BY <1>11 DEF Parallel!Reorder
  <2>2. /\ pc[t] = "build" /\ pc' = [pc EXCEPT ![t] = "probe"]
        /\ UNCHANGED <<in, output, join_queue, task>>
    BY <1>11 DEF Parallel!Reorder
  <2>3. \A X \in Rels : mem'[X].rel = mem[X].rel
    <3>1. mem' = [Y \in Rels |-> [tmp |-> IF Y = "R" THEN tmp ELSE mem[Y].tmp, rel |-> mem[Y].rel]]
      BY <1>1, <2>1 DEF Rels
    <3> QED
      BY <3>1
  <2>4. task' = [task EXCEPT ![t] = task[t]] /\ task[t] \in JoinTasks
    BY <1>3, <1>4, <2>2
  <2> QED
    BY <1>2, <2>2, <2>3, <2>4
<1>12. CASE Parallel!EndJoining(t)
  <2>1. /\ pc[t] = "join" /\ pc' = [pc EXCEPT ![t] = "done"]
        /\ UNCHANGED <<in, mem, output, join_queue, task>>
    BY <1>12 DEF Parallel!EndJoining
  <2>2. task' = [task EXCEPT ![t] = task[t]]
    BY <1>3, <2>1
  <2> QED
    BY <1>2, <2>1, <2>2
<1> QED
  BY <1>5, <1>6, <1>7, <1>9, <1>10, <1>11, <1>12

(* The barrier lets all threads into the join loop. *)
LEMMA ReleaseContent ==
    ASSUME ParallelInv, ContentInv, Parallel!ReleaseBarrier
    PROVE  ContentInv'
<1>1. /\ \A t \in Threads : pc[t] = "barrier"
      /\ pc' = [t \in Threads |-> IF pc[t] = "barrier" THEN "join" ELSE pc[t]]
      /\ UNCHANGED <<in, mem, join_queue, task, output>>
  BY DEF Parallel!ReleaseBarrier, Parallel!AllArrived
<1>2. \A t \in Threads : pc'[t] = "join"
  BY <1>1
<1>3. JoinPhase' /\ OnePhase'
  BY <1>2 DEF JoinPhase, OnePhase
<1>4. JoinTasks' \subseteq JoinTasks
  <2>1. InJoin' = {}
    BY <1>2 DEF InJoin
  <2> QED
    BY <1>1, <2>1 DEF JoinTasks
<1>5. \A t \in Threads, X \in Rels : ~ HasClustered(t, X)'
  BY <1>2 DEF HasClustered
<1> QED
  BY <1>1, <1>3, <1>4, <1>5, ContentKept

(* Every step of a thread leaves in memory what is to be there. *)
LEMMA ThreadStepContent ==
    ASSUME ParallelInv, ContentInv, NEW t \in Threads, Parallel!ThreadStep(t)
    PROVE  ContentInv'
<1>1. CASE Parallel!ClusterR(t)
  <2>1. t \in InSecondPass /\ "R" \in Rels
    BY <1>1 DEF Parallel!ClusterR, InSecondPass, Rels
  <2>2. /\ Parallel!radix_cluster(t, "R") /\ pc' = [pc EXCEPT ![t] = "clusterS"]
        /\ UNCHANGED <<in, join_queue, task>>
    BY <1>1 DEF Parallel!ClusterR
  <2> QED
    BY <2>1, <2>2, ClusterContent
<1>2. CASE Parallel!ClusterS(t)
  <2>1. t \in InSecondPass /\ "S" \in Rels
    BY <1>2 DEF Parallel!ClusterS, InSecondPass, Rels
  <2>2. /\ Parallel!radix_cluster(t, "S") /\ pc' = [pc EXCEPT ![t] = "add"] /\ pc[t] = "clusterS"
        /\ UNCHANGED <<in, join_queue, task>>
    BY <1>2 DEF Parallel!ClusterS
  <2> QED
    BY <2>1, <2>2, ClusterContent
<1>3. CASE Parallel!AddJoinTasks(t)
  BY <1>3, AddContent
<1> QED
  BY <1>1, <1>2, <1>3, OtherContent DEF Parallel!ThreadStep

(* The first pass leaves the partitions in tmpRelR and tmpRelS. *)
LEMMA InitContent == Parallel!Init => ContentInv
<1> SUFFICES ASSUME Parallel!Init PROVE ContentInv
  OBVIOUS
<1>1. PICK input \in Inputs : Parallel!InitWith(input)
  BY DEF Parallel!Init
<1>2. in = input /\ in \in Inputs
  BY <1>1 DEF Parallel!InitWith
<1>3. PICK junk \in Junk :
        mem = [X \in Rels |->
                [tmp |-> Parallel!Written([s \in DOMAIN in[X] |-> junk]
                                            \o [s \in 1 .. Parallel!RELATION_PADDING |-> junk],
                            Parallel!Scattered(in[X], 0, 1, Parallel!FANOUT_PASS1,
                                               Parallel!PADDING_TUPLES)),
                 rel |-> in[X] \o [s \in 1 .. Parallel!RELATION_PADDING |-> junk]]]
  BY <1>1 DEF Parallel!InitWith, Parallel!Rels, Rels
<1>4. join_queue = {} /\ pc = [t \in Threads |-> "partition"]
  BY <1>1, <1>2 DEF Parallel!InitWith
<1>5. junk \in Nat
  BY JunkAssumption
<1>6. ASSUME NEW X \in Rels, NEW c \in 0 .. FANOUT_PASS1 - 1
      PROVE  Holds(mem[X].tmp, PartFirst(X, c), in[X], PartOf(X, c))
  <2>1. PICK Y \in Seq(Nat), n \in Nat, p \in Nat :
          Y = in[X] /\ n = Len(Y) /\ p = RELATION_PADDING
    BY <1>2, InputTypes, Sizes
  <2> DEFINE garbage == [s \in DOMAIN Y |-> junk]
             padding == [s \in 1 .. p |-> junk]
  <2>2. garbage \in Seq(Nat) /\ Len(garbage) = n
    BY <1>5, <2>1
  <2> HIDE DEF garbage
  <2>3. PICK memory \in [1 .. n + p -> Nat] : memory = garbage \o padding
    BY <1>5, <2>2, Padded
  <2> HIDE DEF padding
  <2>4. mem[X].tmp = Parallel!Written(memory,
                        Parallel!Scattered(Y, 0, 1, FANOUT_PASS1, PADDING_TUPLES))
    BY <1>3, <2>1, <2>3, SizesSame DEF garbage, padding
  <2>5. PICK first \in Nat, size \in Nat, margin \in Nat :
          /\ first = PartFirst(X, c) /\ size = Cardinality(PartOf(X, c)) /\ margin = Margin
          /\ first + size + margin <= n + p
    BY <1>2, <2>1, PartPlaces, Sizes
  <2>6. PICK at : at = PartOf(X, c) /\ at \subseteq 1 .. n /\ at = At(Y, 1, FANOUT_PASS1, c)
    <3>1. PartOf(X, c) = At(Y, 1, FANOUT_PASS1, c)
      BY <2>1 DEF PartOf
    <3>2. PartOf(X, c) \subseteq 1 .. n
      BY <2>1, <3>1 DEF At
    <3> QED
      BY <3>1, <3>2
  <2>7. ASSUME NEW x \in at PROVE mem[X].tmp[first + RankIn(at, x) + 1] = Y[x]
    <3>1. PICK rank \in Nat : rank = RankIn(at, x) /\ rank < size
      <4>1. RankIn(at, x) \in 0 .. size - 1
        BY <2>5, <2>6, Ranks
      <4> QED
        BY <4>1
    <3>2. first + rank + 1 \in 1 .. n + p
      <4>1. first + size <= n + p
        BY <2>5
      <4>2. first + rank + 1 <= n + p /\ 1 <= first + rank + 1
        BY <3>1, <4>1
      <4> QED
        BY <4>2
    <3>3. PICK slot \in DOMAIN memory : slot = first + rank + 1
      BY <3>2
    <3>4. IsSlot(slot, Y, 0, 1, FANOUT_PASS1, PADDING_TUPLES, c, x)
      <4>1. slot = 0 + first + rank + 1
        BY <3>3
      <4>2. first = StartOf(Y, 1, FANOUT_PASS1, PADDING_TUPLES, c)
        BY <2>1, <2>5 DEF PartFirst
      <4> QED
        BY <2>6, <3>1, <4>1, <4>2 DEF IsSlot
    <3>5. /\ x \in At(Y, 1, FANOUT_PASS1, c) /\ 0 \in Nat /\ 1 \in Nat \ {0}
          /\ FANOUT_PASS1 \in Nat \ {0} /\ PADDING_TUPLES \in Nat
      BY <2>6, Sizes
    <3>6. Parallel!Written(memory,
              Parallel!Scattered(Y, 0, 1, FANOUT_PASS1, PADDING_TUPLES))[slot] = Y[x]
      <4>1. Lands(memory, slot, Y, 0, 1, FANOUT_PASS1, PADDING_TUPLES, c, x)
        BY <3>4, <3>5 DEF Lands
      <4> QED
        BY <4>1, ScatterLands
    <3> QED
      BY <2>4, <3>1, <3>3, <3>6
  <2> QED
    BY <2>1, <2>5, <2>6, <2>7 DEF Holds
<1>7. JoinTasks = {} /\ \A t \in Threads, X \in Rels : ~ HasClustered(t, X)
  BY <1>4 DEF JoinTasks, InJoin, HasClustered
<1> QED
  BY <1>4, <1>6, <1>7 DEF ContentInv, OnePhase, PartitionsRight, ClusteredRight, JoinTasksRight

(* The cluster of a value of all radix bits is those keys that have it. *)
LEMMA RadixParts ==
    ASSUME in \in Inputs, NEW X \in Rels, NEW r
    PROVE  /\ ClusterOf(X, r) = {x \in DOMAIN in[X] : Parallel!Radix(in[X][x]) = r}
           /\ in[X] \in Seq(Nat) /\ ClusterOf(X, r) \subseteq DOMAIN in[X]
           /\ Parallel!RadixPart(in[X], r) = Parallel!TuplesAt(in[X], ClusterOf(X, r))
<1>1. Parallel!NUM_RADIX = NUM_RADIX
  BY DEF Parallel!NUM_RADIX, NUM_RADIX, Parallel!FANOUT_PASS1, FANOUT_PASS1,
         Parallel!FANOUT_PASS2, FANOUT_PASS2
<1>2. PICK Y \in Seq(Nat), n \in Nat : Y = in[X] /\ n = Len(Y) /\ DOMAIN Y = 1 .. n
  BY InputTypes
<1>3. \A x \in 1 .. n : HASH_BIT_MODULO(Y[x], 1, NUM_RADIX) = Parallel!Radix(Y[x])
  <2> TAKE x \in 1 .. n
  <2>1. PICK key \in Nat : key = Y[x]
    BY <1>2
  <2>2. key \div 1 = key
    OBVIOUS
  <2> QED
    BY <1>1, <2>1, <2>2 DEF HASH_BIT_MODULO, Parallel!Radix
<1>4. ClusterOf(X, r) = {x \in 1 .. n : HASH_BIT_MODULO(Y[x], 1, NUM_RADIX) = r}
  BY <1>2 DEF ClusterOf, At
<1>5. ClusterOf(X, r) = {x \in DOMAIN in[X] : Parallel!Radix(in[X][x]) = r}
  BY <1>2, <1>3, <1>4
<1> QED
  BY <1>2, <1>5 DEF Parallel!RadixPart

(* A join task's slots are read as the cluster. *)
LEMMA TaskIsRead ==
    ASSUME ParallelInv, NEW k \in JoinTasks, NEW r, IsCluster(k, r), NEW X \in Rels
    PROVE  Parallel!Slice(mem[X].rel, k[X].first, k[X].n) = Parallel!RadixPart(in[X], r)
<1>1. /\ in \in Inputs /\ k[X].first \in Nat /\ k[X].n \in Nat \ {0}
      /\ k[X].first + k[X].n + 1 <= Len(in[X]) + RELATION_PADDING
  BY WithinMemory DEF ParallelInv, Typed
<1>2. PICK m \in Nat : m = Len(in[X]) + RELATION_PADDING
  BY <1>1, InputTypes, Sizes
<1>3. PICK memory \in [1 .. m -> Nat] : memory = mem[X].rel
  BY <1>2 DEF ParallelInv, Typed, Memory
<1>4. PICK at : at = ClusterOf(X, r)
  OBVIOUS
<1>5. PICK Y \in Seq(Nat) : Y = in[X] /\ at \subseteq DOMAIN Y
  BY <1>1, <1>4, RadixParts
<1>6. PICK first \in Nat, n \in Nat : first = k[X].first /\ n = k[X].n /\ first + n + 1 <= m
  BY <1>1, <1>2
<1>7. n = Cardinality(at) /\ Holds(memory, first, Y, at)
  BY <1>3, <1>4, <1>5, <1>6 DEF IsCluster
<1>8. Fits(first, n, m)
  BY <1>6 DEF Fits
<1>9. Parallel!Slice(memory, first, n) = Parallel!TuplesAt(Y, at)
  <2>1. PICK size : size = n
    OBVIOUS
  <2>2. size = Cardinality(at) /\ Fits(first, size, m)
    BY <1>7, <1>8, <2>1
  <2>3. Parallel!Slice(memory, first, size) = Parallel!TuplesAt(Y, at)
    BY <1>5, <1>7, <2>2, HeldIsRead
  <2> QED
    BY <2>1, <2>3
<1> QED
  BY <1>1, <1>3, <1>4, <1>5, <1>6, <1>9, RadixParts

(* The first of its keys tells which cluster it is. *)
LEMMA TaskRadix ==
    ASSUME ParallelInv, NEW k \in JoinTasks, NEW r, IsCluster(k, r)
    PROVE  Parallel!Radix(mem["R"].rel[k["R"].first + 1]) = r
<1>1. "R" \in Rels
  BY DEF Rels
<1>2. PICK at : at = ClusterOf("R", r)
  OBVIOUS
<1>3. /\ in \in Inputs
      /\ k["R"].first \in Nat /\ k["R"].n \in Nat \ {0} /\ k["R"].n = Cardinality(at)
  BY <1>1, <1>2, WithinMemory DEF IsCluster, ParallelInv, Typed
<1>4. PICK n \in Nat : at \subseteq 1 .. n
  <2>1. PICK n \in Nat : n = Len(in["R"]) /\ DOMAIN in["R"] = 1 .. n
    BY <1>1, <1>3, InputTypes
  <2>2. at \subseteq DOMAIN in["R"]
    BY <1>1, <1>2, <1>3, RadixParts
  <2> QED
    BY <2>1, <2>2
<1>5. 1 \in 1 .. Cardinality(at)
  BY <1>3
<1>6. PICK x \in at : RankIn(at, x) = 0
  <2>1. \E x \in at : RankIn(at, x) = 1 - 1
    BY <1>4, <1>5, Ranks
  <2> QED
    BY <2>1
<1>7. mem["R"].rel[k["R"].first + RankIn(at, x) + 1] = in["R"][x]
  BY <1>1, <1>2 DEF IsCluster, Holds
<1>8. PICK first \in Nat : first = k["R"].first
  BY <1>3
<1>9. first + 0 + 1 = first + 1
  OBVIOUS
<1>10. mem["R"].rel[first + 1] = in["R"][x]
  BY <1>6, <1>7, <1>8, <1>9
<1>11. Parallel!Radix(in["R"][x]) = r
  BY <1>1, <1>2, <1>3, RadixParts
<1> QED
  BY <1>8, <1>10, <1>11

(* ClustersRight follows. *)
LEMMA ClustersFollow == ParallelInv /\ ContentInv => Parallel!ClustersRight
<1> SUFFICES ASSUME ParallelInv, ContentInv PROVE Parallel!ClustersRight
  OBVIOUS
<1>1. join_queue \union {task[t] : t \in {u \in Threads : Parallel!Joining(u)}} = JoinTasks
  BY DEF JoinTasks, InJoin, Parallel!Joining
<1>2. ASSUME NEW k \in JoinTasks
      PROVE  \E r : /\ Parallel!Radix(mem["R"].rel[k["R"].first + 1]) = r
                    /\ \A X \in Rels :
                         Parallel!Slice(mem[X].rel, k[X].first, k[X].n) = Parallel!RadixPart(in[X], r)
  <2>1. PICK r \in 0 .. NUM_RADIX - 1 : IsCluster(k, r)
    BY DEF ContentInv, JoinTasksRight
  <2> QED
    BY <2>1, TaskIsRead, TaskRadix
<1> QED
  BY <1>1, <1>2 DEF Parallel!ClustersRight, Parallel!Rels, Rels

(* It is so at first. *)
LEMMA InitMemory == Init => MemoryRight
  BY InitContent DEF Init, MemoryRight

(* Every step keeps it so. *)
LEMMA NextMemory == JoinsInv /\ MemoryRight /\ [Next]_vars => MemoryRight'
<1> SUFFICES ASSUME JoinsInv, MemoryRight, [Next]_vars PROVE MemoryRight'
  OBVIOUS
<1>1. CASE SerialStep
  BY <1>1 DEF SerialStep, MemoryRight
<1>2. CASE ParallelRelease
  BY <1>2, ReleaseContent DEF ParallelRelease, MemoryRight, JoinsInv
<1>3. ASSUME NEW t \in Threads, ParallelStep(t) PROVE MemoryRight'
  BY <1>3, ThreadStepContent DEF ParallelStep, MemoryRight, JoinsInv
<1>4. CASE UNCHANGED vars
  <2>1. UNCHANGED <<algo, in, mem, join_queue, pc, task, output>>
    BY <1>4 DEF vars, parallelVars
  <2>2. ASSUME ContentInv PROVE ContentInv'
    <3>1. OnePhase' /\ (JoinPhase' <=> JoinPhase) /\ JoinTasks' = JoinTasks
      BY <2>1, <2>2 DEF ContentInv, OnePhase, JoinPhase, JoinTasks, InJoin
    <3>2. \A u \in Threads, X \in Rels : HasClustered(u, X)' =>
            HasClustered(u, X) /\ task'[u] = task[u] /\ output'[u] = output[u]
      BY <2>1 DEF HasClustered
    <3> QED
      BY <2>1, <2>2, <3>1, <3>2, ContentKept
  <2> QED
    BY <2>1, <2>2 DEF MemoryRight
<1> QED
  BY <1>1, <1>2, <1>3, <1>4 DEF Next

(* A join task is one cluster of R and the cluster of S with the same radix *)
(* bits, each with all its tuples in the order of the input: two passes by *)
(* two sets of bits are one pass by all of them, and nothing that another  *)
(* thread writes while it clusters or joins falls into a task.             *)
THEOREM ClustersAreRight == Spec => []ClustersRight
<1>1. JoinsInv /\ MemoryRight => ClustersRight
  BY ClustersFollow DEF JoinsInv, MemoryRight, ClustersRight
<1> QED
  BY <1>1, InitJoins, NextJoins, InitMemory, NextMemory, PTL DEF Spec

(* A set of natural numbers has a least element. *)
LEMMA LeastNatural ==
    ASSUME NEW T, T \subseteq Nat, T # {}
    PROVE  \E x \in T : \A y \in T : x <= y
<1> DEFINE R == {d \in Nat \X Nat : d[1] < d[2]}
<1>1. IsWellFoundedOn(R, Nat)
  BY NatLessThanWellFounded DEF OpToRel
<1>2. \A x, y \in Nat : <<x, y>> \in R <=> x < y
  OBVIOUS
<1> HIDE DEF R
<1>3. PICK x \in T : \A y \in T : ~ (<<y, x>> \in R)
  BY <1>1, WFMin
<1>4. ASSUME NEW y \in T PROVE x <= y
  <2>1. x \in Nat /\ y \in Nat
    OBVIOUS
  <2>2. ~ (y < x)
    BY <1>2, <1>3, <2>1
  <2> QED
    BY <2>1, <2>2
<1> QED
  BY <1>4

(* The last of some positions, from 1. *)
LEMMA LastOf ==
    ASSUME NEW n \in Nat, NEW at, at \subseteq 1 .. n, NEW z, z = Parallel!LastOrNone(at)
    PROVE  \/ z = 0 /\ at = {}
           \/ z \in at /\ \A y \in at : y <= z
<1>1. CASE at = {}
  BY <1>1 DEF Parallel!LastOrNone
<1>2. CASE at # {}
  <2> DEFINE T == {n - y : y \in at}
  <2>1. T \subseteq Nat /\ T # {}
    <3>1. \A y \in at : n - y \in Nat
      OBVIOUS
    <3>2. PICK y \in at : TRUE
      BY <1>2
    <3> QED
      BY <3>1, <3>2
  <2> HIDE DEF T
  <2>2. PICK d \in T : \A e \in T : d <= e
    BY <2>1, LeastNatural
  <2>3. PICK x \in at : d = n - x
    BY DEF T
  <2>4. \A y \in at : x >= y
    <3> TAKE y \in at
    <3>1. n - x <= n - y
      BY <2>2, <2>3 DEF T
    <3> QED
      BY <3>1
  <2>5. z = CHOOSE m \in at : \A y \in at : m >= y
    BY <1>2 DEF Parallel!LastOrNone, Parallel!Max
  <2>6. z \in at /\ \A y \in at : z >= y
    BY <2>4, <2>5
  <2>7. \A y \in at : y <= z
    <3> TAKE y \in at
    <3>1. y \in Int /\ z \in Int /\ z >= y
      BY <2>6
    <3> QED
      BY <3>1
  <2> QED
    BY <2>6, <2>7
<1> QED
  BY <1>1, <1>2

(* Who follows next from x on meets all of them, and nobody else. *)
LEMMA ChainIs ==
    ASSUME NEW n \in Nat, NEW hash, NEW next, IsNext(next, hash, n)
    PROVE  /\ ChainOf(next, n)[0] = {}
           /\ \A x \in 1 .. n : ChainOf(next, n)[x] = SameHash(hash, x)
<1> DEFINE chain == ChainOf(next, n)
            Is(c) == c = [x \in 0 .. n |-> IF x = 0 THEN {} ELSE {x} \union c[next[x]]]
           right == [x \in 0 .. n |-> IF x = 0 THEN {} ELSE SameHash(hash, x)]
<1>1. ASSUME NEW x \in 1 .. n
      PROVE  /\ next[x] \in 0 .. x - 1
             /\ next[x] = 0 => SameHash(hash, x) = {x}
             /\ next[x] # 0 => SameHash(hash, x) = {x} \union SameHash(hash, next[x])
  <2> DEFINE at == {y \in 1 .. x - 1 : hash[y] = hash[x]}
  <2>1. at \subseteq 1 .. x - 1 /\ x - 1 \in Nat
    OBVIOUS
  <2>2. next[x] = Parallel!LastOrNone(at)
    BY DEF IsNext
  <2>3. \/ next[x] = 0 /\ at = {}
        \/ next[x] \in at /\ \A y \in at : y <= next[x]
    <3> HIDE DEF at
    <3> QED
      BY <2>1, <2>2, LastOf
  <2>4. SameHash(hash, x) = {x} \union at
    BY DEF SameHash
  <2>5. CASE next[x] = 0 /\ at = {}
    BY <2>4, <2>5
  <2>6. CASE next[x] \in at /\ \A y \in at : y <= next[x]
    <3>1. PICK z \in 1 .. x - 1 : z = next[x] /\ hash[z] = hash[x] /\ \A y \in at : y <= z
      BY <2>6
    <3>2. at = {y \in 1 .. z : hash[y] = hash[z]}
      <4>1. ASSUME NEW y \in at PROVE y \in 1 .. z /\ hash[y] = hash[z]
        BY <3>1
      <4>2. ASSUME NEW y \in 1 .. z, hash[y] = hash[z] PROVE y \in at
        BY <3>1, <4>2
      <4> HIDE DEF at
      <4> QED
        BY <4>1, <4>2
    <3> QED
      BY <2>4, <3>1, <3>2 DEF SameHash
  <2> QED
    BY <2>3, <2>5, <2>6
<1>2. Is(right)
  <2>1. ASSUME NEW x \in 0 .. n
        PROVE  right[x] = IF x = 0 THEN {} ELSE {x} \union right[next[x]]
    <3>1. CASE x = 0
      BY <3>1
    <3>2. CASE x # 0
      <4>1. x \in 1 .. n
        BY <3>2
      <4>2. next[x] \in 0 .. n
        BY <1>1, <4>1
      <4> QED
        BY <1>1, <3>2, <4>1, <4>2
    <3> QED
      BY <3>1, <3>2
  <2> QED
    BY <2>1
<1>3. Is(chain)
  <2> HIDE DEF right
  <2>1. chain = CHOOSE c : Is(c)
    BY DEF ChainOf
  <2> HIDE DEF Is
  <2> QED
    BY <1>2, <2>1
<1> HIDE DEF chain
<1>4. \A x \in 0 .. n : chain[x] = IF x = 0 THEN {} ELSE {x} \union chain[next[x]]
  BY <1>3
<1>5. \A x \in 0 .. n : right[x] = IF x = 0 THEN {} ELSE {x} \union right[next[x]]
  BY <1>2
<1> DEFINE Wrong == {x \in 0 .. n : chain[x] # right[x]}
<1>6. Wrong = {}
  <2> SUFFICES ASSUME Wrong # {} PROVE FALSE
    OBVIOUS
  <2>1. Wrong \subseteq Nat
    OBVIOUS
  <2> HIDE DEF Wrong
  <2>2. PICK x \in Wrong : \A y \in Wrong : x <= y
    BY <2>1, LeastNatural
  <2> HIDE DEF right
  <2>3. x \in 0 .. n /\ chain[x] # right[x]
    BY DEF Wrong
  <2>4. x # 0
    BY <1>4, <1>5, <2>3
  <2>5. x \in 1 .. n
    BY <2>3, <2>4
  <2>6. PICK z \in 0 .. x - 1 : z = next[x]
    BY <1>1, <2>5
  <2>7. z \in 0 .. n /\ ~ (x <= z)
    BY <2>5, <2>6
  <2>8. chain[z] = right[z]
    BY <2>2, <2>7 DEF Wrong
  <2>9. chain[x] = {x} \union chain[z]
    BY <1>4, <2>3, <2>4, <2>6
  <2>10. right[x] = {x} \union right[z]
    BY <1>5, <2>3, <2>4, <2>6
  <2> QED
    BY <2>3, <2>8, <2>9, <2>10
<1>7. \A x \in 0 .. n : chain[x] = right[x]
  BY <1>6
<1>8. 0 \in 0 .. n /\ \A x \in 1 .. n : x \in 0 .. n /\ x # 0
  OBVIOUS
<1> QED
  BY <1>7, <1>8 DEF chain

(* bucket_chaining_join finds every pair of tuples with equal keys, once. *)
LEMMA BucketsFind ==
    ASSUME NEW R \in Seq(Nat), NEW S \in Seq(Nat), Len(R) # 0
    PROVE  Parallel!bucket_chaining_join(R, S) = Parallel!Matches(R, S)
<1> DEFINE N == Parallel!NEXT_POW_2(Len(R))
           Hash(key) == Parallel!HASH_BIT_MODULO(key, Parallel!NUM_RADIX, N)
           bucket == [b \in 0 .. N - 1 |-> Parallel!LastOrNone({x \in DOMAIN R : Hash(R[x]) = b})]
           next == [x \in DOMAIN R |->
                       Parallel!LastOrNone({y \in 1 .. x - 1 : Hash(R[y]) = Hash(R[x])})]
           chain == CHOOSE c : c = [x \in 0 .. Len(R) |->
                                       IF x = 0 THEN {} ELSE {x} \union c[next[x]]]
           Found == {p \in (DOMAIN R) \X (DOMAIN S) :
                       p[1] \in chain[bucket[Hash(S[p[2]])]] /\ R[p[1]] = S[p[2]]}
           Equal == {p \in (DOMAIN R) \X (DOMAIN S) : R[p[1]] = S[p[2]]}
           hash == [x \in DOMAIN R |-> Hash(R[x])]
<1>1. Parallel!bucket_chaining_join(R, S) = Parallel!Cardinality(Found)
  BY DEF Parallel!bucket_chaining_join
<1>2. Parallel!Matches(R, S) = Parallel!Cardinality(Equal)
  BY DEF Parallel!Matches
<1>3. PICK n \in Nat \ {0} : n = Len(R) /\ DOMAIN R = 1 .. n
  <2>1. Len(R) \in Nat \ {0} /\ DOMAIN R = 1 .. Len(R)
    OBVIOUS
  <2> QED
    BY <2>1
<1>4. N \in Nat \ {0}
  BY <1>3, NextPowerExists
<1>5. \A key \in Nat : Hash(key) \in 0 .. N - 1
  <2> TAKE key \in Nat
  <2>1. Hash(key) = Parallel!HistHash(key, N)
    BY DEF Parallel!HistHash
  <2> HIDE DEF N, Hash
  <2> QED
    BY <1>4, <2>1, HashTyped
<1>6. /\ \A x \in 1 .. n : hash[x] = Hash(R[x])
      /\ \A b \in 0 .. N - 1 : bucket[b] = Parallel!LastOrNone({x \in 1 .. n : hash[x] = b})
      /\ \A x \in 1 .. n :
            next[x] = Parallel!LastOrNone({y \in 1 .. x - 1 : hash[y] = hash[x]})
  <2>1. \A x \in 1 .. n : hash[x] = Hash(R[x])
    BY <1>3
  <2>2. ASSUME NEW b \in 0 .. N - 1
        PROVE  bucket[b] = Parallel!LastOrNone({x \in 1 .. n : hash[x] = b})
    <3>1. {x \in DOMAIN R : Hash(R[x]) = b} = {x \in 1 .. n : hash[x] = b}
      BY <1>3, <2>1
    <3>2. bucket[b] = Parallel!LastOrNone({x \in DOMAIN R : Hash(R[x]) = b})
      OBVIOUS
    <3> QED
      BY <3>1, <3>2
  <2>3. ASSUME NEW x \in 1 .. n
        PROVE  next[x] = Parallel!LastOrNone({y \in 1 .. x - 1 : hash[y] = hash[x]})
    <3>1. x \in DOMAIN R /\ \A y \in 1 .. x - 1 : y \in 1 .. n
      BY <1>3
    <3>2. {y \in 1 .. x - 1 : Hash(R[y]) = Hash(R[x])} = {y \in 1 .. x - 1 : hash[y] = hash[x]}
      BY <2>1, <3>1
    <3>3. next[x] = Parallel!LastOrNone({y \in 1 .. x - 1 : Hash(R[y]) = Hash(R[x])})
      BY <3>1
    <3> QED
      BY <3>2, <3>3
  <2> QED
    BY <2>1, <2>2, <2>3
<1>7. chain[0] = {} /\ \A x \in 1 .. n : chain[x] = SameHash(hash, x)
  <2>1. chain = ChainOf(next, n)
    BY <1>3 DEF ChainOf
  <2> HIDE DEF N, Hash, bucket, next, chain, hash
  <2>2. IsNext(next, hash, n)
    BY <1>6 DEF IsNext
  <2> QED
    BY <2>1, <2>2, ChainIs
<1> HIDE DEF N, Hash, bucket, next, chain, hash
<1>8. ASSUME NEW b \in 0 .. N - 1
      PROVE  chain[bucket[b]] = {x \in 1 .. n : hash[x] = b}
  <2>1. PICK at : at = {x \in 1 .. n : hash[x] = b}
    OBVIOUS
  <2>2. PICK z : z = bucket[b]
    OBVIOUS
  <2>3. \/ z = 0 /\ at = {}
        \/ z \in at /\ \A y \in at : y <= z
    <3>1. at \subseteq 1 .. n /\ z = Parallel!LastOrNone(at)
      BY <1>6, <2>1, <2>2
    <3> QED
      BY <3>1, LastOf
  <2>4. CASE z = 0 /\ at = {}
    BY <1>7, <2>1, <2>2, <2>4
  <2>5. CASE z \in at /\ \A y \in at : y <= z
    <3>1. z \in 1 .. n /\ hash[z] = b
      BY <2>1, <2>5
    <3>2. SameHash(hash, z) = at
      <4>1. ASSUME NEW y \in at PROVE y \in 1 .. z /\ hash[y] = hash[z]
        BY <2>1, <2>5, <3>1
      <4>2. ASSUME NEW y \in 1 .. z, hash[y] = hash[z] PROVE y \in at
        BY <2>1, <3>1, <4>2
      <4> QED
        BY <4>1, <4>2 DEF SameHash
    <3> QED
      BY <1>7, <2>1, <2>2, <3>1, <3>2
  <2> QED
    BY <2>3, <2>4, <2>5
<1>9. Found = Equal
  <2>1. ASSUME NEW x \in DOMAIN R, NEW y \in DOMAIN S, R[x] = S[y]
        PROVE  x \in chain[bucket[Hash(S[y])]]
    <3>1. PICK key \in Nat : key = R[x] /\ key = S[y]
      BY <2>1
    <3>2. PICK b \in 0 .. N - 1 : b = Hash(key)
      BY <1>5
    <3>3. x \in 1 .. n /\ hash[x] = b
      BY <1>3, <1>6, <3>1, <3>2
    <3> QED
      BY <1>8, <3>1, <3>2, <3>3
  <2>2. \A p \in Equal : p[1] \in chain[bucket[Hash(S[p[2]])]]
    BY <2>1
  <2> QED
    BY <2>2
<1> HIDE DEF Found, Equal
<1> QED
  BY <1>1, <1>2, <1>9

(* They are those that lie before. *)
LEMMA StartIsBefore ==
    ASSUME NEW R \in Seq(Nat), NEW N \in Nat \ {0}, NEW h \in 0 .. N
    PROVE  HashStart(R, N, h) = Cardinality(Smaller(R, N, h))
<1> DEFINE g == [x \in 1 .. Len(R) |-> HASH_BIT_MODULO(R[x], NUM_RADIX, N)]
           ends == Histogram(R, NUM_RADIX, N)
<1>1. PICK n \in Nat : n = Len(R) /\ DOMAIN R = 1 .. n
  OBVIOUS
<1>2. \A x \in 1 .. n : g[x] = HASH_BIT_MODULO(R[x], NUM_RADIX, N) /\ g[x] \in 0 .. N - 1
  <2> TAKE x \in 1 .. n
  <2>1. g[x] = HASH_BIT_MODULO(R[x], NUM_RADIX, N)
    BY <1>1
  <2>2. R[x] \in Nat
    BY <1>1
  <2> QED
    BY <2>1, <2>2, RadixTyped, Sizes
<1> HIDE DEF g
<1>3. ASSUME NEW d \in 0 .. h - 1 PROVE ends[d] = Cardinality(With(g, n, d))
  <2>1. d \in 0 .. N - 1
    OBVIOUS
  <2>2. ends[d] = Cardinality({x \in 1 .. Len(R) : HASH_BIT_MODULO(R[x], NUM_RADIX, N) = d})
    BY <2>1, HistogramIs
  <2>3. {x \in 1 .. Len(R) : HASH_BIT_MODULO(R[x], NUM_RADIX, N) = d} = With(g, n, d)
    BY <1>1, <1>2 DEF With
  <2> QED
    BY <2>2, <2>3
<1> HIDE DEF ends
<1>4. SumBelow(ends, h) = Cardinality(WithBelow(g, n, h))
  <2>1. h \in Nat
    OBVIOUS
  <2> QED
    BY <1>3, <2>1, ClustersBefore
<1>5. WithBelow(g, n, h) = Smaller(R, N, h)
  <2>1. \A x \in 1 .. n : g[x] \in 0 .. h - 1 <=> g[x] < h
    BY <1>2
  <2> QED
    BY <1>1, <1>2, <2>1 DEF WithBelow, Smaller
<1>6. HashStart(R, N, h) = SumBelow(ends, h) + h * 0
  BY DEF HashStart, StartOf, ends
<1>7. Cardinality(Smaller(R, N, h)) \in Nat
  <2>1. Smaller(R, N, h) \subseteq 1 .. n
    BY <1>1 DEF Smaller
  <2> QED
    BY <2>1, Ranks
<1>8. h * 0 = 0
  OBVIOUS
<1> QED
  BY <1>4, <1>5, <1>6, <1>7, <1>8

(* hist counts the tuples before a hash value, when all have been copied. *)
LEMMA CountersAre ==
    ASSUME NEW R \in Seq(Nat), NEW N \in Nat \ {0}, N = Parallel!get_hist_size(Len(R)),
           NEW h \in 0 .. N
    PROVE  /\ Parallel!HistAfterReorder(R)[h] = HashStart(R, N, h)
           /\ h < N => Parallel!PrefixSum(R, N, h + 1) = HashStart(R, N, h)
<1>1. PICK n \in Nat : n = Len(R) /\ DOMAIN R = 1 .. n
  OBVIOUS
<1> DEFINE hash(x) == Parallel!HistHash(R[x], N)
           Advanced == {x \in 1 .. n : hash(x) + 1 = h}
           Before(k) == {x \in 1 .. n : hash(x) + 2 <= k}
<1>2. \A x \in 1 .. n : hash(x) \in 0 .. N - 1 /\ hash(x) = HASH_BIT_MODULO(R[x], NUM_RADIX, N)
  <2> TAKE x \in 1 .. n
  <2>1. R[x] \in Nat
    BY <1>1
  <2>2. hash(x) = HASH_BIT_MODULO(R[x], NUM_RADIX, N)
    BY DEF Parallel!HistHash, Parallel!HASH_BIT_MODULO, HASH_BIT_MODULO, Parallel!NUM_RADIX,
           NUM_RADIX, Parallel!FANOUT_PASS1, FANOUT_PASS1, Parallel!FANOUT_PASS2, FANOUT_PASS2
  <2> QED
    BY <2>1, <2>2, HashTyped
<1>3. Parallel!HistAfterReorder(R)[h] = Parallel!PrefixSum(R, N, h) + Parallel!Cardinality(Advanced)
  <2>1. h \in 0 .. N + 1
    OBVIOUS
  <2> QED
    BY <1>1, <2>1 DEF Parallel!HistAfterReorder, Parallel!CountIf
<1>4. \A k : Parallel!PrefixSum(R, N, k) = Parallel!Cardinality(Before(k))
  BY <1>1 DEF Parallel!PrefixSum, Parallel!CountIf
<1> HIDE DEF hash
<1>5. Smaller(R, N, h) = Before(h) \union Advanced /\ Before(h) \cap Advanced = {}
  <2>1. \A x \in 1 .. n : HASH_BIT_MODULO(R[x], NUM_RADIX, N) < h
                            <=> hash(x) + 2 <= h \/ hash(x) + 1 = h
    BY <1>2
  <2>2. \A x \in 1 .. n : ~ (hash(x) + 2 <= h /\ hash(x) + 1 = h)
    BY <1>2
  <2> QED
    BY <1>1, <2>1, <2>2 DEF Smaller
<1>6. Before(h + 1) = Smaller(R, N, h)
  <2>1. \A x \in 1 .. n : HASH_BIT_MODULO(R[x], NUM_RADIX, N) < h <=> hash(x) + 2 <= h + 1
    BY <1>2
  <2> QED
    BY <1>1, <2>1 DEF Smaller
<1>7. \A k : Before(k) \subseteq 1 .. n
  OBVIOUS
<1>8. Advanced \subseteq 1 .. n
  OBVIOUS
<1> HIDE DEF Advanced, Before
<1>9. /\ IsFiniteSet(Before(h)) /\ IsFiniteSet(Advanced)
      /\ Cardinality(Before(h)) \in Nat /\ Cardinality(Advanced) \in Nat
  BY <1>7, <1>8, Ranks
<1>10. Cardinality(Smaller(R, N, h)) = Cardinality(Before(h)) + Cardinality(Advanced)
  <2>1. Cardinality(Before(h) \union Advanced)
            = Cardinality(Before(h)) + Cardinality(Advanced) - Cardinality(Before(h) \cap Advanced)
    BY <1>9, FS_Union
  <2>2. Cardinality(Before(h) \cap Advanced) = 0
    BY <1>5, FS_EmptySet
  <2> QED
    BY <1>5, <1>9, <2>1, <2>2
<1>11. Parallel!HistAfterReorder(R)[h] = HashStart(R, N, h)
  BY <1>3, <1>4, <1>10, StartIsBefore, CardinalitySame
<1>12. Parallel!PrefixSum(R, N, h + 1) = HashStart(R, N, h)
  BY <1>4, <1>6, StartIsBefore, CardinalitySame
<1> QED
  BY <1>11, <1>12

(* Copying R in the order of its hash values is clustering it by them. *)
LEMMA ReorderedIs ==
    ASSUME NEW R \in Seq(Nat), NEW N \in Nat \ {0}, N = Parallel!get_hist_size(Len(R)),
           NEW first
    PROVE  Parallel!Reordered(R, first) = Parallel!Scattered(R, first, NUM_RADIX, N, 0)
<1> DEFINE hash(x) == Parallel!HistHash(R[x], N)
           new(x) == <<first + Parallel!PrefixSum(R, N, hash(x) + 1)
                         + Parallel!CountIf(x - 1, LAMBDA y : hash(y) = hash(x)), R[x]>>
<1>1. Parallel!Reordered(R, first) = {new(x) : x \in DOMAIN R}
  BY DEF Parallel!Reordered
<1>2. ASSUME NEW x \in DOMAIN R
      PROVE  new(x) = <<SlotOf(R, first, NUM_RADIX, N, 0, x), R[x]>>
  <2>1. PICK n \in Nat : n = Len(R) /\ x \in 1 .. n
    OBVIOUS
  <2>2. \A y : hash(y) = HASH_BIT_MODULO(R[y], NUM_RADIX, N)
    BY DEF Parallel!HistHash, Parallel!HASH_BIT_MODULO, HASH_BIT_MODULO, Parallel!NUM_RADIX,
           NUM_RADIX, Parallel!FANOUT_PASS1, FANOUT_PASS1, Parallel!FANOUT_PASS2, FANOUT_PASS2
  <2>3. PICK h \in 0 .. N - 1 : h = hash(x)
    <3>1. R[x] \in Nat
      OBVIOUS
    <3> QED
      BY <3>1, HashTyped
  <2>4. Parallel!PrefixSum(R, N, hash(x) + 1) = HashStart(R, N, h)
    <3>1. h \in 0 .. N /\ h < N
      OBVIOUS
    <3> QED
      BY <2>3, <3>1, CountersAre
  <2>5. Parallel!CountIf(x - 1, LAMBDA y : hash(y) = hash(x))
            = Parallel!Cardinality({y \in 1 .. x - 1 : hash(y) = hash(x)})
    BY DEF Parallel!CountIf
  <2>6. {y \in 1 .. x - 1 : hash(y) = hash(x)} = {y \in HashAt(R, N, h) : y < x}
    BY <2>1, <2>2, <2>3 DEF HashAt, At
  <2>7. Parallel!CountIf(x - 1, LAMBDA y : hash(y) = hash(x)) = RankIn(HashAt(R, N, h), x)
    BY <2>5, <2>6, CardinalitySame DEF RankIn
  <2> QED
    BY <2>2, <2>3, <2>4, <2>7 DEF SlotOf, HashStart, HashAt
<1> HIDE DEF new
<1>3. {new(x) : x \in DOMAIN R} = {<<SlotOf(R, first, NUM_RADIX, N, 0, x), R[x]>> : x \in DOMAIN R}
  BY <1>2
<1> QED
  BY <1>1, <1>3, ScatteredIs

(* The tuples of a hash value lie behind each other within R's length. *)
LEMMA HashPlaces ==
    ASSUME NEW R \in Seq(Nat), NEW N \in Nat \ {0}, NEW h \in 0 .. N - 1
    PROVE  /\ HashAt(R, N, h) \subseteq 1 .. Len(R)
           /\ HashStart(R, N, h) \in Nat /\ Cardinality(HashAt(R, N, h)) \in Nat
           /\ HashStart(R, N, h + 1) = HashStart(R, N, h) + Cardinality(HashAt(R, N, h))
           /\ HashStart(R, N, h) + Cardinality(HashAt(R, N, h)) <= Len(R)
<1>1. PICK n \in Nat : n = Len(R) /\ DOMAIN R = 1 .. n
  OBVIOUS
<1>2. /\ HashAt(R, N, h) \subseteq 1 .. n /\ Smaller(R, N, h) \subseteq 1 .. n
      /\ Smaller(R, N, h + 1) \subseteq 1 .. n
  BY <1>1 DEF HashAt, At, Smaller
<1>3. h \in 0 .. N /\ h + 1 \in 0 .. N
  OBVIOUS
<1>4. /\ HashStart(R, N, h) = Cardinality(Smaller(R, N, h))
      /\ HashStart(R, N, h + 1) = Cardinality(Smaller(R, N, h + 1))
  BY <1>3, StartIsBefore
<1>5. \A x \in 1 .. n : HASH_BIT_MODULO(R[x], NUM_RADIX, N) \in Nat
  <2> TAKE x \in 1 .. n
  <2>1. R[x] \in Nat
    BY <1>1
  <2>2. HASH_BIT_MODULO(R[x], NUM_RADIX, N) \in 0 .. N - 1
    BY <2>1, RadixTyped, Sizes
  <2> QED
    BY <2>2
<1>6. /\ Smaller(R, N, h + 1) = Smaller(R, N, h) \union HashAt(R, N, h)
      /\ Smaller(R, N, h) \cap HashAt(R, N, h) = {}
  <2>1. \A x \in 1 .. n : LET v == HASH_BIT_MODULO(R[x], NUM_RADIX, N)
                          IN  (v < h + 1 <=> v < h \/ v = h) /\ ~ (v < h /\ v = h)
    BY <1>5
  <2> QED
    BY <1>1, <2>1 DEF Smaller, HashAt, At
<1>7. /\ \A T \in {Smaller(R, N, h), HashAt(R, N, h), Smaller(R, N, h + 1)} :
            IsFiniteSet(T) /\ Cardinality(T) \in Nat /\ Cardinality(T) <= n
  BY <1>2, Ranks
<1>8. Cardinality(Smaller(R, N, h + 1)) = Cardinality(Smaller(R, N, h)) + Cardinality(HashAt(R, N, h))
  <2>1. Cardinality(Smaller(R, N, h) \union HashAt(R, N, h))
            = Cardinality(Smaller(R, N, h)) + Cardinality(HashAt(R, N, h))
                - Cardinality(Smaller(R, N, h) \cap HashAt(R, N, h))
    BY <1>7, FS_Union
  <2>2. Cardinality(Smaller(R, N, h) \cap HashAt(R, N, h)) = 0
    BY <1>6, FS_EmptySet
  <2>3. PICK a \in Nat, b \in Nat :
          a = Cardinality(Smaller(R, N, h)) /\ b = Cardinality(HashAt(R, N, h))
    BY <1>7
  <2>4. a + b - 0 = a + b
    OBVIOUS
  <2> QED
    BY <1>6, <2>1, <2>2, <2>3, <2>4
<1> QED
  BY <1>1, <1>2, <1>4, <1>7, <1>8

(* So it is after Reordered has been written. *)
LEMMA SortedAfter ==
    ASSUME NEW R \in Seq(Nat), NEW N \in Nat \ {0}, N = Parallel!get_hist_size(Len(R)),
           NEW first \in Nat, NEW m \in Nat, Fits(first, Len(R), m),
           NEW memory, DOMAIN memory = 1 .. m
    PROVE  Sorted(Parallel!Written(memory, Parallel!Reordered(R, first)), first, R, N)
<1> SUFFICES ASSUME NEW h \in 0 .. N - 1, NEW x \in HashAt(R, N, h)
             PROVE  Parallel!Written(memory, Parallel!Reordered(R, first))
                        [first + HashStart(R, N, h) + RankIn(HashAt(R, N, h), x) + 1] = R[x]
  BY DEF Sorted, Holds
<1>1. PICK n \in Nat : n = Len(R) /\ first + n <= m
  BY DEF Fits
<1>2. PICK base \in Nat, size \in Nat :
        base = HashStart(R, N, h) /\ size = Cardinality(HashAt(R, N, h)) /\ base + size <= n
  BY <1>1, HashPlaces
<1>3. PICK rank \in Nat : rank = RankIn(HashAt(R, N, h), x) /\ rank < size
  <2>1. HashAt(R, N, h) \subseteq 1 .. n
    BY <1>1, HashPlaces
  <2>2. RankIn(HashAt(R, N, h), x) \in 0 .. size - 1
    BY <1>2, <2>1, Ranks
  <2> QED
    BY <2>2
<1>4. PICK slot \in 1 .. m : slot = first + base + rank + 1
  <2>0. base + size <= n /\ rank < size
    BY <1>2, <1>3
  <2>1. base + rank + 1 <= n /\ base + rank + 1 \in Nat \ {0}
    BY ONLY <2>0, base \in Nat, size \in Nat, rank \in Nat, n \in Nat
  <2>2. first + (base + rank + 1) \in 1 .. m
    BY <1>1, <2>1
  <2>3. first + (base + rank + 1) = first + base + rank + 1
    OBVIOUS
  <2> QED
    BY <2>2, <2>3
<1>5. IsSlot(slot, R, first, NUM_RADIX, N, 0, h, x)
  BY <1>2, <1>3, <1>4 DEF IsSlot, HashStart, HashAt
<1>6. Lands(memory, slot, R, first, NUM_RADIX, N, 0, h, x)
  <2>1. 0 \in Nat /\ x \in At(R, NUM_RADIX, N, h)
    BY DEF HashAt
  <2> QED
    BY <1>4, <1>5, <2>1, Sizes DEF Lands
<1>7. Parallel!Written(memory, Parallel!Scattered(R, first, NUM_RADIX, N, 0))[slot] = R[x]
  BY <1>6, ScatterLands
<1> QED
  BY <1>2, <1>3, <1>4, <1>7, ReorderedIs

(* Every slot of R's length is the one of a tuple. *)
LEMMA SlotTaken ==
    ASSUME NEW R \in Seq(Nat), NEW N \in Nat \ {0}, NEW e \in Nat, e < Len(R)
    PROVE  \E h \in 0 .. N - 1 : \E x \in HashAt(R, N, h) :
                e = HashStart(R, N, h) + RankIn(HashAt(R, N, h), x)
<1>1. PICK n \in Nat : n = Len(R) /\ DOMAIN R = 1 .. n
  OBVIOUS
<1> DEFINE T == {h \in 0 .. N : e < HashStart(R, N, h)}
<1>2. N \in T
  <2>1. Smaller(R, N, N) = 1 .. n
    <3>1. ASSUME NEW x \in 1 .. n PROVE HASH_BIT_MODULO(R[x], NUM_RADIX, N) < N
      <4>1. R[x] \in Nat
        BY <1>1
      <4>2. HASH_BIT_MODULO(R[x], NUM_RADIX, N) \in 0 .. N - 1
        BY <4>1, RadixTyped, Sizes
      <4> QED
        BY <4>2
    <3> QED
      BY <1>1, <3>1 DEF Smaller
  <2>2. N \in 0 .. N
    OBVIOUS
  <2>3. HashStart(R, N, N) = n
    BY <2>1, <2>2, StartIsBefore, Interval
  <2> QED
    BY <1>1, <2>2, <2>3
<1>3. PICK k \in T : \A l \in T : k <= l
  <2>1. T \subseteq Nat /\ T # {}
    BY <1>2
  <2> HIDE DEF T
  <2> QED
    BY <2>1, LeastNatural
<1>4. k # 0
  <2>1. Smaller(R, N, 0) = {}
    <3>1. ASSUME NEW x \in 1 .. n PROVE ~ (HASH_BIT_MODULO(R[x], NUM_RADIX, N) < 0)
      <4>1. R[x] \in Nat
        BY <1>1
      <4>2. HASH_BIT_MODULO(R[x], NUM_RADIX, N) \in 0 .. N - 1
        BY <4>1, RadixTyped, Sizes
      <4> QED
        BY <4>2
    <3> QED
      BY <1>1, <3>1 DEF Smaller
  <2>2. 0 \in 0 .. N
    OBVIOUS
  <2>3. Cardinality(Smaller(R, N, 0)) = 0
    BY <2>1, FS_EmptySet
  <2>4. HashStart(R, N, 0) = Cardinality(Smaller(R, N, 0))
    BY <2>2, StartIsBefore
  <2> QED
    BY <2>3, <2>4
<1>5. PICK h \in 0 .. N - 1 : h + 1 = k
  <2>1. k - 1 \in 0 .. N - 1 /\ (k - 1) + 1 = k
    BY <1>4
  <2> QED
    BY <2>1
<1>6. PICK base \in Nat, size \in Nat :
        /\ base = HashStart(R, N, h) /\ size = Cardinality(HashAt(R, N, h))
        /\ HashStart(R, N, h + 1) = base + size
  BY HashPlaces
<1>7. base <= e /\ e < base + size
  <2>1. h \notin T
    <3>1. ~ (k <= h)
      BY <1>5
    <3> QED
      BY <1>3, <3>1
  <2>2. h \in 0 .. N
    OBVIOUS
  <2>3. e < base + size
    BY <1>3, <1>5, <1>6
  <2>4. ~ (e < base)
    BY <1>6, <2>1, <2>2
  <2> QED
    BY <1>6, <2>3, <2>4
<1>8. PICK rank \in 1 .. size : rank - 1 = e - base
  <2>1. e - base + 1 \in 1 .. size /\ (e - base + 1) - 1 = e - base
    BY ONLY <1>7, e \in Nat, base \in Nat, size \in Nat
  <2> QED
    BY <2>1
<1>9. HashAt(R, N, h) \subseteq 1 .. n
  BY <1>1, HashPlaces
<1>10. PICK x \in HashAt(R, N, h) : RankIn(HashAt(R, N, h), x) = rank - 1
  BY <1>6, <1>9, Ranks
<1>11. e = base + (rank - 1)
  BY <1>8
<1> QED
  BY <1>6, <1>10, <1>11

(* Those with the key's own hash value hold the tuples with the key. *)
LEMMA TuplesInSlots ==
    ASSUME NEW R \in Seq(Nat), NEW N \in Nat \ {0}, NEW first \in Nat, NEW memory,
           Sorted(memory, first, R, N), NEW key \in Nat
    PROVE  /\ \A y \in 1 .. Len(R) : R[y] = key =>
                 PlaceOf(R, N, y) \in SlotsWith(memory, first, SlotsOfHash(R, N, KeyHash(key, N)), key)
           /\ \A s \in SlotsWith(memory, first, SlotsOfHash(R, N, KeyHash(key, N)), key) :
                 \E y \in 1 .. Len(R) : R[y] = key /\ PlaceOf(R, N, y) = s
           /\ PlacesDiffer(R, N, key)
<1>1. PICK n \in Nat : n = Len(R) /\ DOMAIN R = 1 .. n
  OBVIOUS
<1>2. PICK h \in 0 .. N - 1 : h = KeyHash(key, N)
  BY RadixTyped, Sizes DEF KeyHash
<1>3. PICK at : at = HashAt(R, N, h) /\ at = {y \in 1 .. n : KeyHash(R[y], N) = h}
  BY <1>1 DEF HashAt, At, KeyHash
<1>4. PICK base \in Nat, size \in Nat :
        /\ base = HashStart(R, N, h) /\ size = Cardinality(at)
        /\ HashStart(R, N, h + 1) = base + size
  BY <1>3, HashPlaces
<1>5. at \subseteq 1 .. n
  BY <1>3
<1>6. SlotsOfHash(R, N, h) = base .. base + size - 1
  BY <1>4 DEF SlotsOfHash
<1>7. ASSUME NEW y \in at
      PROVE  /\ RankIn(at, y) \in 0 .. size - 1 /\ PlaceOf(R, N, y) = base + RankIn(at, y)
             /\ memory[first + (base + RankIn(at, y)) + 1] = R[y]
  <2>1. PICK rank \in 0 .. size - 1 : rank = RankIn(at, y)
    BY <1>4, <1>5, Ranks
  <2>2. PlaceOf(R, N, y) = base + rank
    BY <1>3, <1>4, <2>1 DEF PlaceOf
  <2>3. Holds(memory, first + base, R, at)
    BY <1>3, <1>4 DEF Sorted
  <2>4. memory[first + base + rank + 1] = R[y]
    BY <2>1, <2>3 DEF Holds
  <2>5. first + (base + rank) + 1 = first + base + rank + 1
    OBVIOUS
  <2> QED
    BY <2>1, <2>2, <2>4, <2>5
<1>8. ASSUME NEW y \in 1 .. n, R[y] = key
      PROVE  PlaceOf(R, N, y) \in SlotsWith(memory, first, SlotsOfHash(R, N, h), key)
  <2>1. y \in at
    BY <1>2, <1>3, <1>8
  <2>2. PICK rank \in 0 .. size - 1 : rank = RankIn(at, y)
    BY <1>7, <2>1
  <2>3. base + rank \in base .. base + size - 1
    BY <2>2
  <2> QED
    BY <1>6, <1>7, <1>8, <2>1, <2>2, <2>3 DEF SlotsWith
<1>9. ASSUME NEW s \in SlotsWith(memory, first, SlotsOfHash(R, N, h), key)
      PROVE  \E y \in 1 .. n : R[y] = key /\ PlaceOf(R, N, y) = s
  <2>1. s \in base .. base + size - 1 /\ memory[first + s + 1] = key
    BY <1>6 DEF SlotsWith
  <2>2. PICK k \in 1 .. size : k - 1 = s - base
    <3>1. s - base + 1 \in 1 .. size /\ (s - base + 1) - 1 = s - base
      BY <2>1
    <3> QED
      BY <3>1
  <2>3. PICK y \in at : RankIn(at, y) = k - 1
    BY <1>4, <1>5, Ranks
  <2>4. base + (k - 1) = s
    BY <2>1, <2>2
  <2>5. PlaceOf(R, N, y) = s /\ R[y] = key
    BY <1>7, <2>1, <2>3, <2>4
  <2> QED
    BY <1>5, <2>5
<1>10. ASSUME NEW y \in 1 .. n, NEW z \in 1 .. n, R[y] = key, R[z] = key,
              PlaceOf(R, N, y) = PlaceOf(R, N, z)
       PROVE  y = z
  <2>1. y \in at /\ z \in at
    BY <1>2, <1>3, <1>10
  <2>2. PICK a \in 0 .. size - 1, b \in 0 .. size - 1 : a = RankIn(at, y) /\ b = RankIn(at, z)
    BY <1>7, <2>1
  <2>3. base + a = base + b
    BY <1>7, <1>10, <2>1, <2>2
  <2>4. a = b
    BY <2>3
  <2> QED
    BY <1>5, <2>1, <2>2, <2>4, Ranks
<1> QED
  BY <1>1, <1>2, <1>8, <1>9, <1>10 DEF PlacesDiffer

(* So a join of the tuples of S finds as many. *)
LEMMA FoundAreMatches ==
    ASSUME NEW R \in Seq(Nat), NEW S \in Seq(Nat), NEW N \in Nat \ {0}, NEW first \in Nat,
           NEW memory, Sorted(memory, first, R, N)
    PROVE  /\ IsFiniteSet(FoundIn(S, memory, first, R, N))
           /\ Cardinality(FoundIn(S, memory, first, R, N)) = Parallel!Matches(R, S)
           /\ Parallel!Matches(R, S) \in Nat
<1> DEFINE Equal == {p \in (DOMAIN R) \X (DOMAIN S) : R[p[1]] = S[p[2]]}
           f == [p \in Equal |-> <<p[2], PlaceOf(R, N, p[1])>>]
           T == FoundIn(S, memory, first, R, N)
<1>1. PICK n \in Nat, m \in Nat :
        n = Len(R) /\ DOMAIN R = 1 .. n /\ m = Len(S) /\ DOMAIN S = 1 .. m
  OBVIOUS
<1>2. IsFiniteSet(Equal) /\ Cardinality(Equal) \in Nat
  <2>1. IsFiniteSet(1 .. n) /\ IsFiniteSet(1 .. m)
    BY FS_Interval
  <2>2. IsFiniteSet((1 .. n) \X (1 .. m))
    BY <2>1, FS_Product
  <2>3. Equal \subseteq (1 .. n) \X (1 .. m)
    BY <1>1
  <2> HIDE DEF Equal
  <2> QED
    BY <2>2, <2>3, FS_Subset, FS_CardinalityType
<1>3. \A p : p \in T <=> \E x \in 1 .. m :
        p \in {x} \X SlotsWith(memory, first, SlotsOfHash(R, N, KeyHash(S[x], N)), S[x])
  BY <1>1 DEF FoundIn
<1>4. \A x \in 1 .. m : S[x] \in Nat
  BY <1>1
<1> HIDE DEF T
<1>5. ASSUME NEW y \in 1 .. n, NEW x \in 1 .. m, R[y] = S[x]
      PROVE  <<x, PlaceOf(R, N, y)>> \in T
  <2>1. PICK key \in Nat : key = S[x]
    BY <1>4
  <2>2. PlaceOf(R, N, y) \in SlotsWith(memory, first, SlotsOfHash(R, N, KeyHash(key, N)), key)
    BY <1>1, <1>5, <2>1, TuplesInSlots
  <2> QED
    BY <1>3, <2>1, <2>2
<1>6. f \in [Equal -> T]
  <2>1. \A p \in Equal : p[1] \in 1 .. n /\ p[2] \in 1 .. m /\ R[p[1]] = S[p[2]]
    BY <1>1
  <2> HIDE DEF Equal
  <2> QED
    BY <1>5, <2>1
<1>7. ASSUME NEW p \in Equal, NEW q \in Equal, f[p] = f[q] PROVE p = q
  <2>1. PICK y \in 1 .. n, x \in 1 .. m : p = <<y, x>> /\ R[y] = S[x]
    BY <1>1
  <2>2. PICK z \in 1 .. n, w \in 1 .. m : q = <<z, w>> /\ R[z] = S[w]
    BY <1>1
  <2>3. f[p] = <<x, PlaceOf(R, N, y)>> /\ f[q] = <<w, PlaceOf(R, N, z)>>
    BY <2>1, <2>2
  <2>4. x = w /\ PlaceOf(R, N, y) = PlaceOf(R, N, z)
    BY <1>7, <2>3
  <2>5. PICK key \in Nat : key = S[x]
    BY <1>4
  <2>6. y = z
    <3>1. R[y] = key /\ R[z] = key
      BY <2>1, <2>2, <2>4, <2>5
    <3>2. \A a, b \in 1 .. n :
            R[a] = key /\ R[b] = key /\ PlaceOf(R, N, a) = PlaceOf(R, N, b) => a = b
      <4>1. PlacesDiffer(R, N, key)
        BY TuplesInSlots
      <4> QED
        BY <1>1, <4>1 DEF PlacesDiffer
    <3> QED
      BY <2>4, <3>1, <3>2
  <2> QED
    BY <2>1, <2>2, <2>4, <2>6
<1>8. ASSUME NEW e \in T PROVE \E p \in Equal : f[p] = e
  <2>1. PICK x \in 1 .. m :
          e \in {x} \X SlotsWith(memory, first, SlotsOfHash(R, N, KeyHash(S[x], N)), S[x])
    BY <1>3
  <2>2. PICK key \in Nat : key = S[x]
    BY <1>4
  <2>3. PICK s \in SlotsWith(memory, first, SlotsOfHash(R, N, KeyHash(key, N)), key) : e = <<x, s>>
    BY <2>1, <2>2
  <2>4. PICK y \in 1 .. n : R[y] = key /\ PlaceOf(R, N, y) = s
    BY <1>1, TuplesInSlots
  <2>5. <<y, x>> \in Equal /\ f[<<y, x>>] = e
    BY <1>1, <2>2, <2>3, <2>4
  <2> QED
    BY <2>5
<1> HIDE DEF f
<1>9. Cardinality(T) = Cardinality(Equal)
  <2> HIDE DEF Equal
  <2> QED
    BY <1>2, <1>6, <1>7, <1>8, PairedOff
<1>10. IsFiniteSet(T)
  <2>1. f \in Surjection(Equal, T)
    <3> HIDE DEF Equal
    <3> QED
      BY <1>6, <1>8 DEF Surjection
  <2> HIDE DEF Equal
  <2> QED
    BY <1>2, <2>1, FS_Surjection
<1>11. Parallel!Matches(R, S) = Cardinality(Equal)
  BY CardinalitySame DEF Parallel!Matches
<1> QED
  BY <1>2, <1>9, <1>10, <1>11 DEF T

(* This is what ProbeAll counts. *)
LEMMA ProbeAllIs ==
    ASSUME NEW S \in Seq(Nat), NEW memory, NEW first, NEW probed, NEW numR,
           NEW N, N = Parallel!get_hist_size(numR)
    PROVE  Parallel!ProbeAll(S, memory, first, probed, numR) =
             Cardinality(ProbedWith(S, memory, first, probed, N))
<1>1. \A key : Parallel!HistHash(key, N) = KeyHash(key, N)
  BY DEF KeyHash, Parallel!HistHash, Parallel!HASH_BIT_MODULO, HASH_BIT_MODULO,
         Parallel!NUM_RADIX, NUM_RADIX, Parallel!FANOUT_PASS1, FANOUT_PASS1,
         Parallel!FANOUT_PASS2, FANOUT_PASS2
<1> DEFINE with(x) == {s \in probed[Parallel!HistHash(S[x], N)] : memory[first + s + 1] = S[x]}
<1>2. Parallel!ProbeAll(S, memory, first, probed, numR) =
        Parallel!Cardinality(UNION {{x} \X with(x) : x \in DOMAIN S})
  BY DEF Parallel!ProbeAll
<1>3. \A x : with(x) = SlotsWith(memory, first, probed[KeyHash(S[x], N)], S[x])
  BY <1>1 DEF SlotsWith
<1> HIDE DEF with
<1> QED
  BY <1>2, <1>3, CardinalitySame DEF ProbedWith

(* The counters bound the slots of a hash value. *)
LEMMA CountersBound ==
    ASSUME NEW R \in Seq(Nat), NEW N \in Nat \ {0}, N = Parallel!get_hist_size(Len(R)),
           NEW h \in 0 .. N - 1, NEW ends, ends = Parallel!HistAfterReorder(R)
    PROVE  /\ ends[h] = HashStart(R, N, h) /\ ends[h + 1] = HashStart(R, N, h + 1)
           /\ Parallel!ProbedScalar(ends, h) = SlotsOfHash(R, N, h)
<1>1. h \in 0 .. N /\ h + 1 \in 0 .. N
  OBVIOUS
<1>2. ends[h] = HashStart(R, N, h) /\ ends[h + 1] = HashStart(R, N, h + 1)
  BY <1>1, CountersAre
<1> QED
  BY <1>2 DEF SlotsOfHash, Parallel!ProbedScalar

(* histogram_join finds every pair of tuples with equal keys, once. *)
LEMMA ScalarFinds ==
    ASSUME NEW R \in Seq(Nat), NEW S \in Seq(Nat), Len(R) # 0,
           NEW N \in Nat \ {0}, N = Parallel!get_hist_size(Len(R)),
           NEW first \in Nat, NEW memory, Sorted(memory, first, R, N)
    PROVE  Parallel!ProbeScalar(S, memory, first, Parallel!HistAfterReorder(R), Len(R))
                = Parallel!Matches(R, S)
<1> DEFINE ends == Parallel!HistAfterReorder(R)
           probed == [h \in 0 .. N - 1 |-> Parallel!ProbedScalar(ends, h)]
<1>1. Parallel!ProbeScalar(S, memory, first, ends, Len(R)) =
        Parallel!ProbeAll(S, memory, first, probed, Len(R))
  BY DEF Parallel!ProbeScalar
<1>2. \A h \in 0 .. N - 1 : probed[h] = SlotsOfHash(R, N, h)
  BY CountersBound
<1> HIDE DEF probed, ends
<1>3. \A x \in DOMAIN S : probed[KeyHash(S[x], N)] = SlotsOfHash(R, N, KeyHash(S[x], N))
  <2> TAKE x \in DOMAIN S
  <2>1. S[x] \in Nat
    OBVIOUS
  <2>2. KeyHash(S[x], N) \in 0 .. N - 1
    BY <2>1, RadixTyped, Sizes DEF KeyHash
  <2> QED
    BY <1>2, <2>2
<1>4. ProbedWith(S, memory, first, probed, N) = FoundIn(S, memory, first, R, N)
  BY <1>3 DEF FoundIn, ProbedWith
<1>5. Parallel!ProbeAll(S, memory, first, probed, Len(R)) = Cardinality(FoundIn(S, memory, first, R, N))
  BY <1>4, ProbeAllIs
<1>6. Cardinality(FoundIn(S, memory, first, R, N)) = Parallel!Matches(R, S)
  BY FoundAreMatches
<1> QED
  BY <1>1, <1>5, <1>6 DEF ends

(* The slot behind those of a hash value holds a key with it only if it    *)
(* is the sentinel.                                                        *)
LEMMA SlotBehind ==
    ASSUME NEW R \in Seq(Nat), NEW N \in Nat \ {0}, NEW first \in Nat, NEW memory,
           Sorted(memory, first, R, N), SentinelAt(memory, first, Len(R)),
           NEW key \in Nat, NEW h, NEW e, EndsAt(e, R, N, h), h = KeyHash(key, N)
    PROVE  memory[first + e + 1] = key <=> key = 0 /\ e = Len(R)
<1>0. h \in 0 .. N - 1 /\ e \in Nat /\ e = HashStart(R, N, h + 1)
  BY DEF EndsAt
<1>1. PICK n \in Nat : /\ n = Len(R) /\ DOMAIN R = 1 .. n /\ memory[first + n + 1] = 0
  BY DEF SentinelAt
<1>2. PICK base \in Nat, size \in Nat :
        /\ base = HashStart(R, N, h) /\ size = Cardinality(HashAt(R, N, h))
        /\ e = base + size /\ e <= n
  <2>1. /\ HashStart(R, N, h) \in Nat /\ Cardinality(HashAt(R, N, h)) \in Nat
        /\ HashStart(R, N, h + 1) = HashStart(R, N, h) + Cardinality(HashAt(R, N, h))
        /\ HashStart(R, N, h) + Cardinality(HashAt(R, N, h)) <= Len(R)
    BY <1>0, HashPlaces
  <2> QED
    BY ONLY <1>0, <1>1, <2>1
<1>3. CASE e = n
  BY <1>1, <1>3
<1>4. CASE e < n
  <2>1. PICK g \in 0 .. N - 1 : \E y \in HashAt(R, N, g) :
          e = HashStart(R, N, g) + RankIn(HashAt(R, N, g), y)
    BY <1>0, <1>1, <1>4, SlotTaken
  <2>0. PICK at : at = HashAt(R, N, g)
    OBVIOUS
  <2>2. PICK y \in at, begin \in Nat :
          at = HashAt(R, N, g) /\ begin = HashStart(R, N, g) /\ e = begin + RankIn(at, y)
    BY <2>0, <2>1, HashPlaces
  <2>3. PICK total \in Nat : total = Cardinality(at) /\ at \subseteq 1 .. n
    BY <1>1, <2>2, HashPlaces
  <2>4. PICK rank \in 0 .. total - 1 : rank = RankIn(at, y)
    BY <2>2, <2>3, Ranks
  <2>5. g # h
    <3> SUFFICES ASSUME g = h PROVE FALSE
      OBVIOUS
    <3>1. begin = base /\ total = size
      BY <1>2, <2>2, <2>3
    <3>2. e = begin + rank
      BY <2>2, <2>4
    <3>3. rank < size
      BY <2>4, <3>1
    <3>4. e = base + size
      BY <1>2
    <3> QED
      BY ONLY <3>1, <3>2, <3>3, <3>4, base \in Nat, size \in Nat, rank \in 0 .. total - 1,
         total \in Nat
  <2>6. memory[first + begin + rank + 1] = R[y]
    BY <2>2, <2>4 DEF Sorted, Holds
  <2>7. first + begin + rank + 1 = first + e + 1
    BY <2>2, <2>4
  <2>8. KeyHash(R[y], N) = g
    BY <2>2 DEF HashAt, At, KeyHash
  <2>9. R[y] # key
    BY <2>5, <2>8
  <2> QED
    BY <1>1, <1>4, <2>6, <2>7, <2>9
<1> QED
  BY <1>0, <1>2, <1>3, <1>4

(* Who has hash value 0. *)
LEMMA HashOfZero ==
    ASSUME NEW R \in Seq(Nat), NEW N \in Nat \ {0}
    PROVE  /\ KeyHash(0, N) = 0
           /\ HashStart(R, N, 0) = 0
           /\ SentinelIn(R, N) <=> Len(R) % 2 = 1 /\ Cardinality(HashAt(R, N, 0)) = Len(R)
<1>1. PICK n \in Nat : n = Len(R) /\ DOMAIN R = 1 .. n
  OBVIOUS
<1>2. KeyHash(0, N) = 0
  <2>1. 0 \div NUM_RADIX = 0 /\ 0 % N = 0
    BY Sizes
  <2> QED
    BY <2>1 DEF KeyHash, HASH_BIT_MODULO
<1>3. \A y \in 1 .. n : KeyHash(R[y], N) \in 0 .. N - 1
  <2> TAKE y \in 1 .. n
  <2>1. R[y] \in Nat
    BY <1>1
  <2> QED
    BY <2>1, RadixTyped, Sizes DEF KeyHash
<1>4. HashStart(R, N, 0) = 0
  <2>1. Smaller(R, N, 0) = {}
    <3>1. \A y \in 1 .. n : ~ (KeyHash(R[y], N) < 0)
      BY <1>3
    <3> QED
      BY <1>1, <3>1 DEF Smaller, KeyHash
  <2>2. 0 \in 0 .. N
    OBVIOUS
  <2>3. Cardinality(Smaller(R, N, 0)) = 0
    BY <2>1, FS_EmptySet
  <2>4. HashStart(R, N, 0) = Cardinality(Smaller(R, N, 0))
    BY <2>2, StartIsBefore
  <2> QED
    BY <2>3, <2>4
<1>5. PICK at : at = HashAt(R, N, 0) /\ at = {y \in 1 .. n : KeyHash(R[y], N) = 0}
  BY <1>1 DEF HashAt, At, KeyHash
<1>6. Cardinality(at) = n <=> at = 1 .. n
  <2>1. IsFiniteSet(1 .. n) /\ Cardinality(1 .. n) = n /\ at \subseteq 1 .. n
    BY <1>5, Interval
  <2> QED
    BY <2>1, FS_Subset
<1> QED
  BY <1>1, <1>2, <1>4, <1>5, <1>6 DEF SentinelIn

(* Comparing in pairs meets the sentinel, too, if it has the hash value. *)
LEMMA PairsWith ==
    ASSUME NEW R \in Seq(Nat), NEW N \in Nat \ {0}, N = Parallel!get_hist_size(Len(R)),
           NEW first \in Nat, NEW memory,
           Sorted(memory, first, R, N), SentinelAt(memory, first, Len(R)),
           NEW key \in Nat, NEW ends, ends = Parallel!HistAfterReorder(R)
    PROVE  SlotsWith(memory, first, Parallel!ProbedInPairs(ends, KeyHash(key, N)), key)
             = SlotsWith(memory, first, SlotsOfHash(R, N, KeyHash(key, N)), key)
                 \union IF key = 0 /\ SentinelIn(R, N) THEN {Len(R)} ELSE {}
<1>1. PICK n \in Nat : n = Len(R) /\ DOMAIN R = 1 .. n
  OBVIOUS
<1>2. PICK h \in 0 .. N - 1 : h = KeyHash(key, N)
  BY RadixTyped, Sizes DEF KeyHash
<1>3. PICK base \in Nat, size \in Nat :
        /\ base = HashStart(R, N, h) /\ size = Cardinality(HashAt(R, N, h))
        /\ HashStart(R, N, h + 1) = base + size
  <2>1. /\ HashStart(R, N, h) \in Nat /\ Cardinality(HashAt(R, N, h)) \in Nat
        /\ HashStart(R, N, h + 1) = HashStart(R, N, h) + Cardinality(HashAt(R, N, h))
    BY HashPlaces
  <2> QED
    BY ONLY <2>1
<1>4. PICK e \in Nat : e = base + size
  OBVIOUS
<1>5. ends[h] = base /\ ends[h + 1] = e /\ SlotsOfHash(R, N, h) = base .. e - 1
  <2>1. ends[h] = HashStart(R, N, h) /\ ends[h + 1] = HashStart(R, N, h + 1)
    BY CountersBound
  <2> QED
    BY ONLY <1>3, <1>4, <2>1 DEF SlotsOfHash
<1>6. Parallel!ProbedInPairs(ends, h) = IF size % 2 = 0 THEN base .. e - 1 ELSE base .. e
  <2>1. e - base = size
    BY <1>4
  <2> QED
    BY <1>5, <2>1 DEF Parallel!ProbedInPairs
<1>7. key = 0 => h = 0 /\ base = 0 /\ e = size /\ (SentinelIn(R, N) <=> n % 2 = 1 /\ size = n)
  <2>1. KeyHash(0, N) = 0 /\ HashStart(R, N, 0) = 0
    BY HashOfZero
  <2>2. SentinelIn(R, N) <=> Len(R) % 2 = 1 /\ Cardinality(HashAt(R, N, 0)) = Len(R)
    BY HashOfZero
  <2> QED
    BY ONLY <1>1, <1>2, <1>3, <1>4, <2>1, <2>2, size \in Nat
<1>8. CASE size % 2 = 0
  <2>1. ~ (key = 0 /\ SentinelIn(R, N))
    <3> SUFFICES ASSUME key = 0, SentinelIn(R, N) PROVE FALSE
      OBVIOUS
    <3>1. n % 2 = 1 /\ size = n
      BY <1>7
    <3>2. size % 2 = 1
      BY <3>1
    <3> QED
      BY <1>8, <3>2
  <2> QED
    BY <1>2, <1>5, <1>6, <1>8, <2>1
<1>9. CASE size % 2 # 0
  <2>1. Parallel!ProbedInPairs(ends, h) = (base .. e - 1) \union {e}
    <3>1. base .. e = (base .. e - 1) \union {e}
      BY <1>4
    <3> QED
      BY <1>6, <1>9, <3>1
  <2>2. SlotsWith(memory, first, (base .. e - 1) \union {e}, key)
          = SlotsWith(memory, first, base .. e - 1, key)
              \union IF memory[first + e + 1] = key THEN {e} ELSE {}
    <3> DEFINE B == base .. e - 1
    <3> HIDE DEF B
    <3> QED
      BY DEF SlotsWith
  <2>3. memory[first + e + 1] = key <=> key = 0 /\ e = n
    <3>1. EndsAt(e, R, N, h)
      BY <1>3, <1>4 DEF EndsAt
    <3> QED
      BY <1>1, <1>2, <3>1, SlotBehind
  <2>4. key = 0 /\ e = n <=> key = 0 /\ SentinelIn(R, N)
    <3> SUFFICES ASSUME key = 0 PROVE e = n <=> SentinelIn(R, N)
      OBVIOUS
    <3>1. size % 2 = 1
      BY <1>9
    <3> QED
      BY <1>7, <3>1
  <2>5. (IF memory[first + e + 1] = key THEN {e} ELSE {})
          = IF key = 0 /\ SentinelIn(R, N) THEN {Len(R)} ELSE {}
    BY <1>1, <2>3, <2>4
  <2> QED
    BY <1>2, <1>5, <2>1, <2>2, <2>5
<1> QED
  BY <1>8, <1>9

(* What histogram_optimized_join finds in one loop over tuples of S. *)
LEMMA PairsFind ==
    ASSUME NEW R \in Seq(Nat), NEW S \in Seq(Nat), Len(R) # 0,
           NEW N \in Nat \ {0}, N = Parallel!get_hist_size(Len(R)),
           NEW first \in Nat, NEW memory,
           Sorted(memory, first, R, N), SentinelAt(memory, first, Len(R)),
           NEW ends, ends = Parallel!HistAfterReorder(R),
           NEW probed, probed = [h \in 0 .. N - 1 |-> Parallel!ProbedInPairs(ends, h)]
    PROVE  /\ Parallel!ProbeAll(S, memory, first, probed, Len(R))
                = Parallel!Matches(R, S) + (IF SentinelIn(R, N) THEN Cardinality(Zeros(S)) ELSE 0)
           /\ Parallel!Matches(R, S) \in Nat /\ Cardinality(Zeros(S)) \in Nat
<1>1. PICK n \in Nat, m \in Nat : n = Len(R) /\ m = Len(S) /\ DOMAIN S = 1 .. m
  OBVIOUS
<1>2. \A x \in 1 .. m : S[x] \in Nat
  BY <1>1
<1> DEFINE Z == {x \in 1 .. m : S[x] = 0 /\ SentinelIn(R, N)}
           Ex == Z \X {n}
           F == FoundIn(S, memory, first, R, N)
           Old(x) == SlotsWith(memory, first, SlotsOfHash(R, N, KeyHash(S[x], N)), S[x])
           New(x) == SlotsWith(memory, first, probed[KeyHash(S[x], N)], S[x])
<1>3. ASSUME NEW x \in 1 .. m
      PROVE  /\ New(x) = Old(x) \union IF x \in Z THEN {n} ELSE {}
             /\ n \notin Old(x)
  <2>1. PICK key \in Nat : key = S[x]
    BY <1>2
  <2>2. PICK h \in 0 .. N - 1 : h = KeyHash(key, N)
    BY RadixTyped, Sizes DEF KeyHash
  <2>3. probed[h] = Parallel!ProbedInPairs(ends, h)
    OBVIOUS
  <2>4. New(x) = SlotsWith(memory, first, Parallel!ProbedInPairs(ends, KeyHash(key, N)), key)
    BY <2>1, <2>2, <2>3
  <2>5. SlotsWith(memory, first, Parallel!ProbedInPairs(ends, KeyHash(key, N)), key)
          = SlotsWith(memory, first, SlotsOfHash(R, N, KeyHash(key, N)), key)
              \union IF key = 0 /\ SentinelIn(R, N) THEN {n} ELSE {}
    BY <1>1, PairsWith
  <2>6. x \in Z <=> key = 0 /\ SentinelIn(R, N)
    BY <2>1
  <2>7. New(x) = Old(x) \union IF x \in Z THEN {n} ELSE {}
    BY <2>1, <2>4, <2>5, <2>6
  <2>8. n \notin SlotsOfHash(R, N, h)
    <3>1. PICK base \in Nat, size \in Nat :
            base = HashStart(R, N, h) /\ HashStart(R, N, h + 1) = base + size /\ base + size <= n
      BY <1>1, HashPlaces
    <3>2. SlotsOfHash(R, N, h) = base .. base + size - 1
      BY <3>1 DEF SlotsOfHash
    <3> QED
      BY <3>1, <3>2
  <2>9. n \notin Old(x)
    BY <2>1, <2>2, <2>8 DEF SlotsWith
  <2> QED
    BY <2>7, <2>9
<1>4. F = UNION {{x} \X Old(x) : x \in 1 .. m}
  BY <1>1 DEF FoundIn
<1>5. Parallel!ProbeAll(S, memory, first, probed, Len(R))
        = Cardinality(UNION {{x} \X New(x) : x \in 1 .. m})
  <2>1. PICK numR : numR = Len(R)
    OBVIOUS
  <2>2. N = Parallel!get_hist_size(numR)
    BY <2>1
  <2> HIDE DEF New
  <2>3. Parallel!ProbeAll(S, memory, first, probed, numR) =
          Cardinality(ProbedWith(S, memory, first, probed, N))
    BY <2>2, ProbeAllIs
  <2>4. ProbedWith(S, memory, first, probed, N) = UNION {{x} \X New(x) : x \in 1 .. m}
    BY <1>1 DEF New, ProbedWith
  <2> QED
    BY <2>1, <2>3, <2>4
<1>6. IsFiniteSet(F) /\ Cardinality(F) = Parallel!Matches(R, S) /\ Parallel!Matches(R, S) \in Nat
  BY FoundAreMatches
<1>7. Z \subseteq 1 .. m
  OBVIOUS
<1>8. Z = IF SentinelIn(R, N) THEN Zeros(S) ELSE {}
  BY <1>1 DEF Zeros
<1> HIDE DEF Old, New, F, Z
<1>9. UNION {{x} \X New(x) : x \in 1 .. m} = F \union Ex
  <2>1. ASSUME NEW p, p \in UNION {{x} \X New(x) : x \in 1 .. m} PROVE p \in F \union Ex
    BY <1>3, <1>4, <2>1
  <2>2. ASSUME NEW p \in F PROVE p \in UNION {{x} \X New(x) : x \in 1 .. m}
    BY <1>3, <1>4
  <2>3. ASSUME NEW p \in Ex PROVE p \in UNION {{x} \X New(x) : x \in 1 .. m}
    <3>1. PICK x \in Z : p = <<x, n>>
      OBVIOUS
    <3>2. x \in 1 .. m
      BY <1>7
    <3>3. n \in New(x)
      BY <1>3, <3>2
    <3> QED
      BY <3>1, <3>2, <3>3
  <2> QED
    BY <2>1, <2>2, <2>3
<1>10. F \cap Ex = {}
  BY <1>3, <1>4
<1>11. IsFiniteSet(Z) /\ Cardinality(Z) \in Nat
  BY <1>7, Ranks
<1>12. IsFiniteSet(Ex) /\ Cardinality(Ex) = Cardinality(Z)
  <2>1. IsFiniteSet({n}) /\ Cardinality({n}) = 1
    BY FS_Singleton
  <2>2. IsFiniteSet(Z \X {n}) /\ Cardinality(Z \X {n}) = Cardinality(Z) * Cardinality({n})
    BY <1>11, <2>1, FS_Product
  <2>3. PICK c \in Nat : c = Cardinality(Z)
    BY <1>11
  <2>4. c * 1 = c
    OBVIOUS
  <2> QED
    BY <2>1, <2>2, <2>3, <2>4
<1>13. Cardinality(F \union Ex) = Parallel!Matches(R, S) + Cardinality(Z)
  <2>1. Cardinality(F \union Ex) = Cardinality(F) + Cardinality(Ex) - Cardinality(F \cap Ex)
    BY <1>6, <1>12, FS_Union
  <2>2. Cardinality(F \cap Ex) = 0
    BY <1>10, FS_EmptySet
  <2>3. PICK a \in Nat, b \in Nat : a = Parallel!Matches(R, S) /\ b = Cardinality(Z)
    BY <1>6, <1>11
  <2>4. a + b - 0 = a + b
    OBVIOUS
  <2> QED
    BY <1>6, <1>12, <2>1, <2>2, <2>3, <2>4
<1>14. Cardinality(Zeros(S)) \in Nat
  <2>1. Zeros(S) \subseteq 1 .. m
    BY <1>1 DEF Zeros
  <2> QED
    BY <2>1, Ranks
<1>15. Cardinality(Z) = IF SentinelIn(R, N) THEN Cardinality(Zeros(S)) ELSE 0
  BY <1>8, FS_EmptySet
<1> QED
  BY <1>5, <1>6, <1>9, <1>13, <1>14, <1>15

(* As many as the reference counts. *)
LEMMA EqualPairsFinite ==
    ASSUME NEW R \in Seq(Nat), NEW S \in Seq(Nat)
    PROVE  /\ IsFiniteSet(EqualPairs(R, S)) /\ Cardinality(EqualPairs(R, S)) \in Nat
           /\ Parallel!Matches(R, S) = Cardinality(EqualPairs(R, S))
<1>1. PICK n \in Nat, m \in Nat :
        n = Len(R) /\ DOMAIN R = 1 .. n /\ m = Len(S) /\ DOMAIN S = 1 .. m
  OBVIOUS
<1>2. IsFiniteSet(1 .. n) /\ IsFiniteSet(1 .. m)
  BY FS_Interval
<1>3. IsFiniteSet((1 .. n) \X (1 .. m))
  BY <1>2, FS_Product
<1>4. EqualPairs(R, S) \subseteq (1 .. n) \X (1 .. m)
  BY <1>1 DEF EqualPairs
<1> QED
  BY <1>3, <1>4, FS_Subset, FS_CardinalityType, CardinalitySame DEF Parallel!Matches, EqualPairs

(* What is found of S is found of its two parts. *)
LEMMA MatchesSplit ==
    ASSUME NEW R \in Seq(Nat), NEW S \in Seq(Nat), NEW q, NEW A, NEW B, Cut(S, q, A, B)
    PROVE  /\ A \in Seq(Nat) /\ B \in Seq(Nat)
           /\ Parallel!Matches(R, S) = Parallel!Matches(R, A) + Parallel!Matches(R, B)
<1>0. PICK len \in Nat : len = Len(S) /\ DOMAIN S = 1 .. len
  OBVIOUS
<1>1. PICK w \in 0 .. len :
        /\ len = Len(S) /\ DOMAIN S = 1 .. len /\ w = q
        /\ A = SubSeq(S, 1, w) /\ B = SubSeq(S, w + 1, len)
  BY <1>0 DEF Cut
<1>2. A \in Seq(Nat) /\ DOMAIN A = 1 .. w /\ \A x \in 1 .. w : A[x] = S[x]
  BY <1>1
<1>3. /\ B \in Seq(Nat) /\ DOMAIN B = 1 .. len - w
      /\ \A x \in 1 .. len - w : B[x] = S[w + x]
  BY ONLY <1>1, S \in Seq(Nat), len \in Nat, w \in 0 .. len
<1> DEFINE E == EqualPairs(R, S)
           EA == EqualPairs(R, A)
           EB == EqualPairs(R, B)
           Later == {p \in E : p[2] > w}
           f == [p \in EB |-> <<p[1], w + p[2]>>]
<1>4. E = EA \union Later /\ EA \cap Later = {}
  <2>1. ASSUME NEW p \in E PROVE p \in EA \/ p \in Later
    <3>1. PICK y \in DOMAIN R, x \in 1 .. len : p = <<y, x>> /\ R[y] = S[x]
      BY <1>1 DEF EqualPairs
    <3>2. CASE x \in 1 .. w
      BY <1>2, <3>1, <3>2 DEF EqualPairs
    <3>3. CASE x \notin 1 .. w
      BY <3>1, <3>3
    <3> QED
      BY <3>2, <3>3
  <2>2. ASSUME NEW p \in EA PROVE p \in E /\ p \notin Later
    <3>1. PICK y \in DOMAIN R, x \in 1 .. w : p = <<y, x>> /\ R[y] = A[x]
      BY <1>2 DEF EqualPairs
    <3>2. x \in 1 .. len /\ ~ (x > w)
      BY <3>1
    <3> QED
      BY <1>1, <1>2, <3>1, <3>2 DEF EqualPairs
  <2> HIDE DEF E, EA
  <2> QED
    BY <2>1, <2>2
<1>5. f \in [EB -> Later]
  <2> SUFFICES ASSUME NEW p \in EB PROVE <<p[1], w + p[2]>> \in Later
    OBVIOUS
  <2>1. PICK y \in DOMAIN R, x \in 1 .. len - w : p = <<y, x>> /\ R[y] = B[x]
    BY <1>3 DEF EqualPairs
  <2>2. w + x \in 1 .. len /\ w + x > w
    OBVIOUS
  <2> QED
    BY <1>1, <1>3, <2>1, <2>2 DEF EqualPairs
<1>6. ASSUME NEW p \in EB, NEW r \in EB, f[p] = f[r] PROVE p = r
  <2>1. PICK y \in DOMAIN R, x \in 1 .. len - w : p = <<y, x>>
    BY <1>3 DEF EqualPairs
  <2>2. PICK z \in DOMAIN R, v \in 1 .. len - w : r = <<z, v>>
    BY <1>3 DEF EqualPairs
  <2>3. y = z /\ w + x = w + v
    BY <1>6, <2>1, <2>2
  <2>4. x = v
    BY <2>3
  <2> QED
    BY <2>1, <2>2, <2>3, <2>4
<1>7. ASSUME NEW e \in Later PROVE \E p \in EB : f[p] = e
  <2>1. PICK y \in DOMAIN R, x \in 1 .. len : e = <<y, x>> /\ R[y] = S[x] /\ x > w
    BY <1>1 DEF EqualPairs
  <2>2. x - w \in 1 .. len - w /\ w + (x - w) = x
    BY <2>1
  <2>3. B[x - w] = S[x]
    BY <1>3, <2>2
  <2>4. <<y, x - w>> \in EB
    BY <1>3, <2>1, <2>2, <2>3 DEF EqualPairs
  <2>5. f[<<y, x - w>>] = e
    BY <2>1, <2>2, <2>4
  <2> QED
    BY <2>4, <2>5
<1> HIDE DEF f, E, EA, EB
<1>8. /\ IsFiniteSet(EA) /\ IsFiniteSet(EB) /\ IsFiniteSet(E)
      /\ Cardinality(EA) \in Nat /\ Cardinality(EB) \in Nat
      /\ Cardinality(EA) = Parallel!Matches(R, A) /\ Cardinality(EB) = Parallel!Matches(R, B)
      /\ Cardinality(E) = Parallel!Matches(R, S)
  BY <1>2, <1>3, EqualPairsFinite DEF E, EA, EB
<1>9. IsFiniteSet(Later) /\ Cardinality(Later) = Cardinality(EB)
  <2>1. Later \subseteq E
    OBVIOUS
  <2> HIDE DEF Later
  <2> QED
    BY <1>5, <1>6, <1>7, <1>8, <2>1, FS_Subset, PairedOff
<1>10. Cardinality(E) = Cardinality(EA) + Cardinality(Later) - Cardinality(EA \cap Later)
  BY <1>4, <1>8, <1>9, FS_Union
<1>11. Cardinality(EA \cap Later) = 0
  BY <1>4, FS_EmptySet
<1>12. PICK a \in Nat, b \in Nat : a = Cardinality(EA) /\ b = Cardinality(EB)
  BY <1>8
<1>13. a + b - 0 = a + b
  OBVIOUS
<1> QED
  BY <1>2, <1>3, <1>8, <1>9, <1>10, <1>11, <1>12, <1>13

(* The tuples with key 0 are those that a relation of one 0 matches. *)
LEMMA ZerosAre ==
    ASSUME NEW S \in Seq(Nat)
    PROVE  Cardinality(Zeros(S)) = Parallel!Matches(<<0>>, S)
<1> DEFINE E == EqualPairs(<<0>>, S)
           f == [p \in E |-> p[2]]
<1>1. PICK m \in Nat : m = Len(S) /\ DOMAIN S = 1 .. m
  OBVIOUS
<1>2. <<0>> \in Seq(Nat) /\ DOMAIN <<0>> = {1} /\ <<0>>[1] = 0
  <2>1. Len(<<0>>) = 1 /\ <<0>>[1] = 0 /\ <<0>> \in Seq(Nat)
    OBVIOUS
  <2>2. DOMAIN <<0>> = 1 .. 1
    BY <2>1
  <2>3. 1 .. 1 = {1}
    OBVIOUS
  <2> QED
    BY <2>1, <2>2, <2>3
<1>3. IsFiniteSet(E) /\ Parallel!Matches(<<0>>, S) = Cardinality(E)
  BY <1>2, EqualPairsFinite
<1>4. PICK Z : Z = <<0>>
  OBVIOUS
<1>5. \A p : p \in E <=> \E x \in 1 .. m : p = <<1, x>> /\ S[x] = 0
  <2>1. E = {p \in {1} \X (1 .. m) : Z[p[1]] = S[p[2]]}
    BY <1>1, <1>2, <1>4 DEF EqualPairs
  <2>2. Z[1] = 0
    BY <1>2, <1>4
  <2> QED
    BY <2>1, <2>2
<1> HIDE DEF E
<1>6. /\ f \in [E -> Zeros(S)]
      /\ \A p, r \in E : f[p] = f[r] => p = r
      /\ \A x \in Zeros(S) : \E p \in E : f[p] = x
  <2>1. \A x : x \in Zeros(S) <=> x \in 1 .. m /\ S[x] = 0
    BY <1>1 DEF Zeros
  <2>2. \A p \in E : p[2] \in Zeros(S) /\ p = <<1, p[2]>>
    BY <1>5, <2>1
  <2>3. \A x \in Zeros(S) : <<1, x>> \in E /\ f[<<1, x>>] = x
    BY <1>5, <2>1
  <2> QED
    BY <2>2, <2>3
<1> HIDE DEF f
<1> QED
  BY <1>3, <1>6, PairedOff

(* What is found on top of the pairs of equal tuples. *)
LEMMA SentinelIs ==
    ASSUME NEW R \in Seq(Nat), NEW S \in Seq(Nat), NEW N, N = Parallel!get_hist_size(Len(R))
    PROVE  Parallel!SentinelMatches(R, S) = IF SentinelIn(R, N) THEN Cardinality(Zeros(S)) ELSE 0
<1>1. DOMAIN R = 1 .. Len(R)
  OBVIOUS
<1>2. \A key : Parallel!HistHash(key, N) = KeyHash(key, N)
  BY DEF KeyHash, Parallel!HistHash, Parallel!HASH_BIT_MODULO, HASH_BIT_MODULO,
         Parallel!NUM_RADIX, NUM_RADIX, Parallel!FANOUT_PASS1, FANOUT_PASS1,
         Parallel!FANOUT_PASS2, FANOUT_PASS2
<1>3. Parallel!CountIf(Len(S), LAMBDA x : S[x] = 0) = Cardinality(Zeros(S))
  BY CardinalitySame DEF Parallel!CountIf, Zeros
<1> QED
  BY <1>1, <1>2, <1>3 DEF Parallel!SentinelMatches, SentinelIn

(* histogram_optimized_join finds every pair of tuples with equal keys,    *)
(* once, in groups of any size, and the sentinel.                          *)
LEMMA BufferedFinds ==
    ASSUME NEW R \in Seq(Nat), NEW S \in Seq(Nat), Len(R) # 0,
           NEW N \in Nat \ {0}, N = Parallel!get_hist_size(Len(R)),
           NEW first \in Nat, NEW memory,
           Sorted(memory, first, R, N), SentinelAt(memory, first, Len(R))
    PROVE  /\ Parallel!ProbeBuffered(S, memory, first, Parallel!HistAfterReorder(R), Len(R))
                = Parallel!Matches(R, S) + Parallel!SentinelMatches(R, S)
           /\ Parallel!Matches(R, S) \in Nat /\ Parallel!SentinelMatches(R, S) \in Nat
<1> DEFINE probed == [h \in 0 .. N - 1 |->
                        Parallel!ProbedInPairs(Parallel!HistAfterReorder(R), h)]
           A == Parallel!Grouped(S)
           B == Parallel!Remaining(S)
           All(T) == Parallel!ProbeAll(T, memory, first, probed, Len(R))
           More(T) == IF SentinelIn(R, N) THEN Cardinality(Zeros(T)) ELSE 0
<1>1. Parallel!ProbeBuffered(S, memory, first, Parallel!HistAfterReorder(R), Len(R)) = All(A) + All(B)
  BY DEF Parallel!ProbeBuffered
<1>2. PICK q : Cut(S, q, A, B)
  <2>1. PICK len \in Nat, size \in Nat \ {0} : len = Len(S) /\ size = PROBE_BUFFER_SIZE
    BY SizesAssumption
  <2>2. PICK d \in Nat, r \in 0 .. size - 1 :
          d = len \div size /\ r = len % size /\ len = d * size + r
    BY Division
  <2>3. PICK a \in Nat : a = d * size
    BY ProductNat
  <2>8. PICK rest \in Nat : rest = r
    BY <2>2
  <2>9. len = a + rest
    BY <2>2, <2>3, <2>8
  <2>4. len - rest = a /\ a \in 0 .. len
    BY <2>9
  <2>5. A = SubSeq(S, 1, a)
    BY <2>1, <2>2, <2>3 DEF Parallel!Grouped
  <2>6. B = SubSeq(S, a + 1, len)
    BY <2>1, <2>2, <2>4, <2>8 DEF Parallel!Remaining
  <2>7. Cut(S, a, A, B)
    BY <2>1, <2>4, <2>5, <2>6 DEF Cut
  <2> QED
    BY <2>7
<1> HIDE DEF A, B
<1>3. /\ A \in Seq(Nat) /\ B \in Seq(Nat)
      /\ Parallel!Matches(R, S) = Parallel!Matches(R, A) + Parallel!Matches(R, B)
  BY <1>2, MatchesSplit
<1>4. Cardinality(Zeros(S)) = Cardinality(Zeros(A)) + Cardinality(Zeros(B))
  <2>0. <<0>> \in Seq(Nat)
    OBVIOUS
  <2>1. PICK Z \in Seq(Nat) : Z = <<0>>
    BY <2>0
  <2>2. Parallel!Matches(Z, S) = Parallel!Matches(Z, A) + Parallel!Matches(Z, B)
    BY <1>2, MatchesSplit
  <2> QED
    BY <1>3, <2>1, <2>2, ZerosAre
<1>5. ASSUME NEW T \in Seq(Nat)
      PROVE  /\ All(T) = Parallel!Matches(R, T) + More(T)
             /\ Parallel!Matches(R, T) \in Nat /\ Cardinality(Zeros(T)) \in Nat
  <2>1. PICK ends : ends = Parallel!HistAfterReorder(R)
    OBVIOUS
  <2>2. probed = [h \in 0 .. N - 1 |-> Parallel!ProbedInPairs(ends, h)]
    BY <2>1
  <2> HIDE DEF probed
  <2> QED
    BY <2>1, <2>2, PairsFind
<1> HIDE DEF All
<1>6. PICK a \in Nat, b \in Nat, c \in Nat, d \in Nat :
        /\ a = Parallel!Matches(R, A) /\ b = Parallel!Matches(R, B)
        /\ c = Cardinality(Zeros(A)) /\ d = Cardinality(Zeros(B))
  BY <1>3, <1>5
<1>7. Parallel!SentinelMatches(R, S) = IF SentinelIn(R, N) THEN c + d ELSE 0
  BY <1>4, <1>6, SentinelIs
<1>8. CASE SentinelIn(R, N)
  <2>1. All(A) = a + c /\ All(B) = b + d
    BY <1>3, <1>5, <1>6, <1>8
  <2>2. (a + c) + (b + d) = (a + b) + (c + d)
    OBVIOUS
  <2>3. Parallel!SentinelMatches(R, S) = c + d /\ c + d \in Nat
    BY <1>7, <1>8
  <2>4. Parallel!Matches(R, S) = a + b /\ a + b \in Nat
    BY ONLY <1>3, <1>6, a \in Nat, b \in Nat
  <2>5. All(A) + All(B) = (a + b) + (c + d)
    BY <2>1, <2>2
  <2> QED
    BY <1>1, <2>3, <2>4, <2>5
<1>9. CASE ~ SentinelIn(R, N)
  <2>1. All(A) = a + 0 /\ All(B) = b + 0
    BY <1>3, <1>5, <1>6, <1>9
  <2>2. (a + 0) + (b + 0) = (a + b) + 0
    OBVIOUS
  <2>3. Parallel!SentinelMatches(R, S) = 0
    BY <1>7, <1>9
  <2>4. Parallel!Matches(R, S) = a + b /\ a + b \in Nat
    BY ONLY <1>3, <1>6, a \in Nat, b \in Nat
  <2>5. All(A) + All(B) = (a + b) + 0
    BY <2>1, <2>2
  <2> QED
    BY <1>1, <2>3, <2>4, <2>5
<1> QED
  BY <1>8, <1>9

(* The tuples at some positions, place by place. *)
LEMMA TuplesByPlace ==
    ASSUME NEW X \in Seq(Nat), NEW at, at \subseteq DOMAIN X,
           NEW T, T = Parallel!TuplesAt(X, at)
    PROVE  /\ T \in Seq(Nat) /\ Len(T) = Cardinality(at) /\ IsFiniteSet(at)
           /\ \A x \in at : PlaceIn(at, x) \in DOMAIN T /\ T[PlaceIn(at, x)] = X[x]
           /\ \A x, y \in at : PlaceIn(at, x) = PlaceIn(at, y) => x = y
           /\ \A k \in DOMAIN T : \E x \in at : PlaceIn(at, x) = k
<1>1. PICK n \in Nat : n = Len(X) /\ at \subseteq 1 .. n
  OBVIOUS
<1>2. PICK m \in Nat : m = Cardinality(at) /\ IsFiniteSet(at)
  BY <1>1, Ranks
<1>3. /\ \A x \in at : RankIn(at, x) \in 0 .. m - 1
      /\ \A x, y \in at : RankIn(at, x) = RankIn(at, y) => x = y
      /\ \A k \in 1 .. m : \E x \in at : RankIn(at, x) = k - 1
  BY <1>1, <1>2, Ranks
<1>4. T \in [1 .. m -> Nat] /\ \A x \in at : T[RankIn(at, x) + 1] = X[x]
  BY <1>2, TuplesAtAre
<1>5. T \in Seq(Nat) /\ Len(T) = m /\ DOMAIN T = 1 .. m
  BY <1>4
<1>6. \A x \in at : RankIn(at, x) + 1 \in 1 .. m
  BY <1>3
<1>7. \A x, y \in at : RankIn(at, x) + 1 = RankIn(at, y) + 1 => x = y
  <2> SUFFICES ASSUME NEW x \in at, NEW y \in at, RankIn(at, x) + 1 = RankIn(at, y) + 1
               PROVE  x = y
    OBVIOUS
  <2>1. PICK a \in 0 .. m - 1, b \in 0 .. m - 1 : a = RankIn(at, x) /\ b = RankIn(at, y)
    BY <1>3
  <2>2. a = b
    BY <2>1
  <2> QED
    BY <1>3, <2>1, <2>2
<1>8. \A k \in 1 .. m : \E x \in at : RankIn(at, x) + 1 = k
  <2> TAKE k \in 1 .. m
  <2>1. PICK x \in at : RankIn(at, x) = k - 1
    BY <1>3
  <2>2. RankIn(at, x) + 1 = k
    BY <2>1
  <2> QED
    BY <2>2
<1> QED
  BY <1>2, <1>4, <1>5, <1>6, <1>7, <1>8 DEF PlaceIn

(* They are what is found of the tuples at these positions. *)
LEMMA MatchesAt ==
    ASSUME NEW R \in Seq(Nat), NEW S \in Seq(Nat), NEW A, NEW B,
           A \subseteq DOMAIN R, B \subseteq DOMAIN S
    PROVE  /\ IsFiniteSet(PairsAt(R, S, A, B))
           /\ Cardinality(PairsAt(R, S, A, B)) \in Nat
           /\ Cardinality(PairsAt(R, S, A, B)) =
                Parallel!Matches(Parallel!TuplesAt(R, A), Parallel!TuplesAt(S, B))
<1>1. PICK T : T = Parallel!TuplesAt(R, A)
  OBVIOUS
<1>2. PICK U : U = Parallel!TuplesAt(S, B)
  OBVIOUS
<1>3. /\ T \in Seq(Nat) /\ IsFiniteSet(A)
      /\ \A x \in A : PlaceIn(A, x) \in DOMAIN T /\ T[PlaceIn(A, x)] = R[x]
      /\ \A x, y \in A : PlaceIn(A, x) = PlaceIn(A, y) => x = y
      /\ \A k \in DOMAIN T : \E x \in A : PlaceIn(A, x) = k
  BY <1>1, TuplesByPlace
<1>4. /\ U \in Seq(Nat) /\ IsFiniteSet(B)
      /\ \A x \in B : PlaceIn(B, x) \in DOMAIN U /\ U[PlaceIn(B, x)] = S[x]
      /\ \A x, y \in B : PlaceIn(B, x) = PlaceIn(B, y) => x = y
      /\ \A k \in DOMAIN U : \E x \in B : PlaceIn(B, x) = k
  BY <1>2, TuplesByPlace
<1> DEFINE P == PairsAt(R, S, A, B)
           E == EqualPairs(T, U)
           f == [p \in P |-> <<PlaceIn(A, p[1]), PlaceIn(B, p[2])>>]
<1>5. IsFiniteSet(P)
  <2>1. P \subseteq A \X B
    BY DEF PairsAt
  <2> QED
    BY <1>3, <1>4, <2>1, FS_Product, FS_Subset
<1>6. \A p : p \in P <=> \E y \in A, x \in B : p = <<y, x>> /\ R[y] = S[x]
  BY DEF PairsAt
<1>7. \A p : p \in E <=> \E k \in DOMAIN T, l \in DOMAIN U : p = <<k, l>> /\ T[k] = U[l]
  BY DEF EqualPairs
<1> HIDE DEF P, E
<1>8. f \in [P -> E]
  <2> SUFFICES ASSUME NEW p \in P PROVE <<PlaceIn(A, p[1]), PlaceIn(B, p[2])>> \in E
    OBVIOUS
  <2>1. PICK y \in A, x \in B : p = <<y, x>> /\ R[y] = S[x]
    BY <1>6
  <2> QED
    BY <1>3, <1>4, <1>7, <2>1
<1>9. \A p, q \in P : f[p] = f[q] => p = q
  <2> SUFFICES ASSUME NEW p \in P, NEW q \in P, f[p] = f[q] PROVE p = q
    OBVIOUS
  <2>1. PICK y \in A, x \in B : p = <<y, x>>
    BY <1>6
  <2>2. PICK z \in A, v \in B : q = <<z, v>>
    BY <1>6
  <2>3. PlaceIn(A, y) = PlaceIn(A, z) /\ PlaceIn(B, x) = PlaceIn(B, v)
    BY <2>1, <2>2
  <2> QED
    BY <1>3, <1>4, <2>1, <2>2, <2>3
<1>10. \A e \in E : \E p \in P : f[p] = e
  <2> TAKE e \in E
  <2>1. PICK k \in DOMAIN T, l \in DOMAIN U : e = <<k, l>> /\ T[k] = U[l]
    BY <1>7
  <2>2. PICK y \in A, x \in B : PlaceIn(A, y) = k /\ PlaceIn(B, x) = l
    BY <1>3, <1>4
  <2>3. <<y, x>> \in P
    BY <1>3, <1>4, <1>6, <2>1, <2>2
  <2> QED
    BY <2>1, <2>2, <2>3
<1> HIDE DEF f
<1>11. Cardinality(E) = Cardinality(P)
  BY <1>5, <1>8, <1>9, <1>10, PairedOff
<1>12. Cardinality(E) = Parallel!Matches(T, U)
  BY <1>3, <1>4, EqualPairsFinite DEF E
<1> QED
  BY <1>1, <1>2, <1>5, <1>11, <1>12, FS_CardinalityType DEF P

(* The zeros among the tuples at some positions. *)
LEMMA ZerosAtAre ==
    ASSUME NEW S \in Seq(Nat), NEW B, B \subseteq DOMAIN S
    PROVE  /\ IsFiniteSet({x \in B : S[x] = 0})
           /\ Cardinality(Zeros(Parallel!TuplesAt(S, B))) = Cardinality({x \in B : S[x] = 0})
<1>1. PICK U : U = Parallel!TuplesAt(S, B)
  OBVIOUS
<1>2. /\ U \in Seq(Nat) /\ IsFiniteSet(B)
      /\ \A x \in B : PlaceIn(B, x) \in DOMAIN U /\ U[PlaceIn(B, x)] = S[x]
      /\ \A x, y \in B : PlaceIn(B, x) = PlaceIn(B, y) => x = y
      /\ \A k \in DOMAIN U : \E x \in B : PlaceIn(B, x) = k
  BY <1>1, TuplesByPlace
<1> DEFINE Z == {x \in B : S[x] = 0}
           f == [x \in Z |-> PlaceIn(B, x)]
<1>3. IsFiniteSet(Z)
  BY <1>2, FS_Subset
<1>4. \A k : k \in Zeros(U) <=> k \in DOMAIN U /\ U[k] = 0
  BY <1>2 DEF Zeros
<1>5. f \in [Z -> Zeros(U)]
  BY <1>2, <1>4
<1>6. \A x, y \in Z : f[x] = f[y] => x = y
  BY <1>2
<1>7. \A k \in Zeros(U) : \E x \in Z : f[x] = k
  BY <1>2, <1>4
<1> HIDE DEF f
<1> QED
  BY <1>1, <1>3, <1>5, <1>6, <1>7, PairedOff

(* The radix bits of key 0. *)
LEMMA RadixOfZero == Parallel!Radix(0) = 0
<1>1. Parallel!NUM_RADIX = NUM_RADIX
  BY DEF Parallel!NUM_RADIX, NUM_RADIX, Parallel!FANOUT_PASS1, FANOUT_PASS1,
         Parallel!FANOUT_PASS2, FANOUT_PASS2
<1>2. PICK n \in Nat \ {0} : n = NUM_RADIX
  BY Sizes
<1>3. 0 % n = 0
  OBVIOUS
<1> QED
  BY <1>1, <1>2, <1>3 DEF Parallel!Radix

(* What is found with the sentinel in one cluster. *)
LEMMA SentinelPairsOf ==
    ASSUME in \in Inputs, NEW r, NEW R, NEW S, R = RadixTuples("R", r), S = RadixTuples("S", r)
    PROVE  /\ IsFiniteSet({p \in SentinelPairs : ItemRadix(p) = r})
           /\ Cardinality({p \in SentinelPairs : ItemRadix(p) = r}) \in Nat
           /\ Cardinality({p \in SentinelPairs : ItemRadix(p) = r}) =
                IF join_function = "optimized" /\ R # <<>>
                THEN Parallel!SentinelMatches(R, S) ELSE 0
           /\ r = 0 => {p \in SentinelPairs : ItemRadix(p) = r} = SentinelPairs
<1> DEFINE B == ClusterOf("S", r)
           P == {p \in SentinelPairs : ItemRadix(p) = r}
           Z == {x \in B : in["S"][x] = 0}
<1>1. /\ in["R"] \in Seq(Nat) /\ in["S"] \in Seq(Nat)
      /\ ClusterOf("R", r) \subseteq DOMAIN in["R"] /\ B \subseteq DOMAIN in["S"]
      /\ B = {x \in DOMAIN in["S"] : Parallel!Radix(in["S"][x]) = r}
      /\ R = Parallel!TuplesAt(in["R"], ClusterOf("R", r))
      /\ S = Parallel!TuplesAt(in["S"], B)
  BY RadixParts DEF RadixTuples, Rels
<1>2. R \in Seq(Nat) /\ S \in Seq(Nat)
  BY <1>1, TuplesByPlace
<1> HIDE DEF B
<1>3. IsFiniteSet(Z) /\ Cardinality(Zeros(S)) = Cardinality(Z)
  BY <1>1, ZerosAtAre
<1>4. PICK N : N = HistSizeOf(R)
  OBVIOUS
<1>5. Parallel!SentinelMatches(R, S) = IF SentinelIn(R, N) THEN Cardinality(Z) ELSE 0
  <2>1. N = Parallel!get_hist_size(Len(R))
    BY <1>4 DEF HistSizeOf
  <2> QED
    BY <1>2, <1>3, <2>1, SentinelIs
<1>6. \A p \in SentinelPairs : ItemRadix(p) = 0
  <2>1. \A p \in SentinelPairs : in["S"][p[2]] = 0
    BY DEF SentinelPairs, ZeroKeys
  <2> QED
    BY <2>1, RadixOfZero DEF ItemRadix
<1>7. IsFiniteSet({}) /\ Cardinality({}) = 0
  BY FS_EmptySet
<1>8. CASE r # 0
  <2>1. P = {}
    BY <1>6, <1>8
  <2>2. Z = {}
    <3>1. \A x \in B : Parallel!Radix(in["S"][x]) = r
      BY <1>1
    <3> QED
      BY <1>8, <3>1, RadixOfZero
  <2> HIDE DEF P, Z
  <2> QED
    BY <1>5, <1>7, <1>8, <2>1, <2>2 DEF P
<1>9. CASE r = 0
  <2>1. P = SentinelPairs
    BY <1>6, <1>9
  <2>2. Z = ZeroKeys
    <3>1. \A x \in DOMAIN in["S"] : in["S"][x] = 0 => x \in B
      BY <1>1, <1>9, RadixOfZero
    <3> QED
      BY <1>1, <3>1 DEF ZeroKeys
  <2>3. SentinelFound <=> join_function = "optimized" /\ R # <<>> /\ SentinelIn(R, N)
    BY <1>4, <1>9 DEF SentinelFound
  <2> HIDE DEF P, Z
  <2>4. CASE SentinelFound
    <3>1. P = {0} \X Z
      BY <2>1, <2>2, <2>4 DEF SentinelPairs
    <3>2. IsFiniteSet({0}) /\ Cardinality({0}) = 1
      BY FS_Singleton
    <3>3. PICK c \in Nat : c = Cardinality(Z)
      BY <1>3, FS_CardinalityType
    <3>4. IsFiniteSet({0} \X Z) /\ Cardinality({0} \X Z) = 1 * c
      BY <1>3, <3>2, <3>3, FS_Product
    <3>5. 1 * c = c
      OBVIOUS
    <3>6. IsFiniteSet(P) /\ Cardinality(P) = c
      BY <3>1, <3>4, <3>5
    <3>7. (IF join_function = "optimized" /\ R # <<>>
           THEN Parallel!SentinelMatches(R, S) ELSE 0) = c
      BY <1>5, <2>3, <2>4, <3>3
    <3> QED
      BY <2>1, <3>6, <3>7 DEF P
  <2>5. CASE ~ SentinelFound
    <3>1. P = {}
      BY <2>1, <2>5 DEF SentinelPairs
    <3>2. (IF join_function = "optimized" /\ R # <<>>
           THEN Parallel!SentinelMatches(R, S) ELSE 0) = 0
      BY <1>5, <2>3, <2>5
    <3>3. PICK c \in Nat : c = 0
      OBVIOUS
    <3>4. IsFiniteSet(P) /\ Cardinality(P) = c
      BY <1>7, <3>1, <3>3
    <3> QED
      BY <2>1, <3>2, <3>3, <3>4 DEF P
  <2> QED
    BY <2>4, <2>5
<1> QED
  BY <1>8, <1>9

(* What is to be found in one cluster is what its join finds. *)
LEMMA ItemsOfCluster ==
    ASSUME in \in Inputs, NEW r, NEW R, NEW S, R = RadixTuples("R", r), S = RadixTuples("S", r)
    PROVE  /\ IsFiniteSet(ItemsOf(r)) /\ Cardinality(ItemsOf(r)) \in Nat
           /\ Cardinality(ItemsOf(r)) = Parallel!Matches(R, S)
                + (IF join_function = "optimized" /\ R # <<>>
                   THEN Parallel!SentinelMatches(R, S) ELSE 0)
<1> DEFINE A == ClusterOf("R", r)
           B == ClusterOf("S", r)
           P == {p \in SentinelPairs : ItemRadix(p) = r}
           E == PairsAt(in["R"], in["S"], A, B)
           extra == IF join_function = "optimized" /\ R # <<>>
                    THEN Parallel!SentinelMatches(R, S) ELSE 0
<1>1. /\ in["R"] \in Seq(Nat) /\ in["S"] \in Seq(Nat)
      /\ A = {y \in DOMAIN in["R"] : Parallel!Radix(in["R"][y]) = r}
      /\ B = {x \in DOMAIN in["S"] : Parallel!Radix(in["S"][x]) = r}
      /\ R = Parallel!TuplesAt(in["R"], A) /\ S = Parallel!TuplesAt(in["S"], B)
  BY RadixParts DEF RadixTuples, Rels
<1>2. DOMAIN in["R"] \subseteq Nat \ {0}
  <2>1. PICK Y \in Seq(Nat), n \in Nat : Y = in["R"] /\ n = Len(Y) /\ DOMAIN Y = 1 .. n
    BY <1>1
  <2> QED
    BY <2>1
<1> HIDE DEF A, B
<1>3. IsFiniteSet(E) /\ Cardinality(E) \in Nat /\ Cardinality(E) = Parallel!Matches(R, S)
  <2>1. A \subseteq DOMAIN in["R"] /\ B \subseteq DOMAIN in["S"]
    BY <1>1
  <2> QED
    BY <1>1, <2>1, MatchesAt
<1>4. IsFiniteSet(P) /\ Cardinality(P) \in Nat /\ Cardinality(P) = extra
  BY SentinelPairsOf
<1>5. {p \in EqualPairs(in["R"], in["S"]) : ItemRadix(p) = r} = E
  BY <1>1 DEF EqualPairs, PairsAt, ItemRadix
<1>6. ItemsOf(r) = E \cup P
  BY <1>5 DEF ItemsOf, Items
<1>7. E \cap P = {}
  <2>1. \A p \in E : p[1] \in DOMAIN in["R"]
    BY <1>1 DEF PairsAt
  <2>2. \A p \in P : p[1] = 0
    BY DEF SentinelPairs
  <2> QED
    BY <1>2, <2>1, <2>2
<1> HIDE DEF E, P, extra
<1>8. IsFiniteSet(E \cup P)
      /\ Cardinality(E \cup P) = Cardinality(E) + Cardinality(P) - Cardinality(E \cap P)
  BY <1>3, <1>4, FS_Union
<1>9. Cardinality(E \cap P) = 0
  BY <1>7, FS_EmptySet
<1>10. PICK a \in Nat, b \in Nat : a = Cardinality(E) /\ b = Cardinality(P)
  BY <1>3, <1>4
<1>11. a + b - 0 = a + b /\ a + b \in Nat
  OBVIOUS
<1> QED
  BY <1>3, <1>4, <1>6, <1>8, <1>9, <1>10, <1>11 DEF extra

(* All that is to be found is what the join promises. *)
LEMMA AllItems ==
    ASSUME in \in Inputs
    PROVE  /\ IsFiniteSet(Items) /\ Cardinality(Items) \in Nat
           /\ Parallel!Matches(in["R"], in["S"]) \in Nat
           /\ (IF join_function = "optimized" /\ RadixTuples("R", 0) # <<>>
               THEN Parallel!SentinelMatches(RadixTuples("R", 0), RadixTuples("S", 0))
               ELSE 0) \in Nat
           /\ Cardinality(Items) = Parallel!Matches(in["R"], in["S"])
                + (IF join_function = "optimized" /\ RadixTuples("R", 0) # <<>>
                   THEN Parallel!SentinelMatches(RadixTuples("R", 0), RadixTuples("S", 0))
                   ELSE 0)
<1> DEFINE P == SentinelPairs
           E == EqualPairs(in["R"], in["S"])
           extra == IF join_function = "optimized" /\ RadixTuples("R", 0) # <<>>
                    THEN Parallel!SentinelMatches(RadixTuples("R", 0), RadixTuples("S", 0)) ELSE 0
<1>1. in["R"] \in Seq(Nat) /\ in["S"] \in Seq(Nat)
  BY InputTypes DEF Rels
<1>2. DOMAIN in["R"] \subseteq Nat \ {0}
  <2>1. PICK Y \in Seq(Nat), n \in Nat : Y = in["R"] /\ n = Len(Y) /\ DOMAIN Y = 1 .. n
    BY <1>1
  <2> QED
    BY <2>1
<1>3. IsFiniteSet(E) /\ Cardinality(E) \in Nat
      /\ Cardinality(E) = Parallel!Matches(in["R"], in["S"])
  BY <1>1, EqualPairsFinite
<1>4. IsFiniteSet(P) /\ Cardinality(P) \in Nat /\ Cardinality(P) = extra
  <2>1. PICK R : R = RadixTuples("R", 0)
    OBVIOUS
  <2>2. PICK S : S = RadixTuples("S", 0)
    OBVIOUS
  <2>3. {p \in SentinelPairs : ItemRadix(p) = 0} = SentinelPairs
    BY <2>1, <2>2, SentinelPairsOf
  <2> QED
    BY <2>1, <2>2, <2>3, SentinelPairsOf
<1>5. E \cap P = {}
  <2>1. \A p \in E : p[1] \in DOMAIN in["R"]
    BY DEF EqualPairs
  <2>2. \A p \in P : p[1] = 0
    BY DEF SentinelPairs
  <2> QED
    BY <1>2, <2>1, <2>2
<1> HIDE DEF E, P, extra
<1>6. IsFiniteSet(E \cup P)
      /\ Cardinality(E \cup P) = Cardinality(E) + Cardinality(P) - Cardinality(E \cap P)
  BY <1>3, <1>4, FS_Union
<1>7. Cardinality(E \cap P) = 0
  BY <1>5, FS_EmptySet
<1>8. PICK a \in Nat, b \in Nat : a = Cardinality(E) /\ b = Cardinality(P)
  BY <1>3, <1>4
<1>9. a + b - 0 = a + b /\ a + b \in Nat
  OBVIOUS
<1>10. Items = E \cup P
  BY DEF Items, E, P
<1> QED
  BY <1>3, <1>4, <1>6, <1>7, <1>8, <1>9, <1>10 DEF extra

(* A tuple of cluster c + FANOUT_PASS1 * d is in partition c, and in it in *)
(* cluster d.                                                              *)
LEMMA RadixBits ==
    ASSUME in \in Inputs, NEW X \in Rels, NEW x \in DOMAIN in[X],
           NEW c \in 0 .. FANOUT_PASS1 - 1, NEW d \in 0 .. FANOUT_PASS2 - 1
    PROVE  /\ RadixOf(c, d) \in 0 .. NUM_RADIX - 1
           /\ x \in ClusterOf(X, RadixOf(c, d)) <=>
                /\ HASH_BIT_MODULO(in[X][x], 1, FANOUT_PASS1) = c
                /\ HASH_BIT_MODULO(in[X][x], FANOUT_PASS1, FANOUT_PASS2) = d
<1>1. PICK n \in Nat : n = Len(in[X]) /\ in[X] \in Seq(Nat) /\ DOMAIN in[X] = 1 .. n
  BY InputTypes
<1>2. PICK key \in Nat : key = in[X][x]
  BY <1>1
<1>3. FANOUT_PASS1 \in Nat \ {0} /\ FANOUT_PASS2 \in Nat \ {0}
  BY Sizes
<1>4. AreBoth(NUM_RADIX, RadixOf(c, d), FANOUT_PASS1, c, FANOUT_PASS2, d)
  BY DEF AreBoth, NUM_RADIX, RadixOf
<1>5. /\ RadixOf(c, d) \in 0 .. NUM_RADIX - 1
      /\ HASH_BIT_MODULO(key, 1, NUM_RADIX) = RadixOf(c, d) <=>
            /\ HASH_BIT_MODULO(key, 1, FANOUT_PASS1) = c
            /\ HASH_BIT_MODULO(key, FANOUT_PASS1, FANOUT_PASS2) = d
  BY <1>3, <1>4, RadixOfBoth
<1> QED
  BY <1>1, <1>2, <1>5 DEF ClusterOf, At

(* Every tuple is in such a cluster. *)
LEMMA RadixSplits ==
    ASSUME in \in Inputs, NEW X \in Rels, NEW r, NEW x \in ClusterOf(X, r)
    PROVE  \E c \in 0 .. FANOUT_PASS1 - 1 : \E d \in 0 .. FANOUT_PASS2 - 1 : r = RadixOf(c, d)
<1>1. x \in DOMAIN in[X] /\ in[X] \in Seq(Nat)
  BY RadixParts
<1>2. PICK key \in Nat : key = in[X][x]
  BY <1>1
<1>3. PICK c \in 0 .. FANOUT_PASS1 - 1, d \in 0 .. FANOUT_PASS2 - 1 :
        /\ HASH_BIT_MODULO(key, 1, FANOUT_PASS1) = c
        /\ HASH_BIT_MODULO(key, FANOUT_PASS1, FANOUT_PASS2) = d
  <2>1. PICK c \in 0 .. FANOUT_PASS1 - 1 : HASH_BIT_MODULO(key, 1, FANOUT_PASS1) = c
    BY Sizes, RadixTyped
  <2>2. PICK d \in 0 .. FANOUT_PASS2 - 1 : HASH_BIT_MODULO(key, FANOUT_PASS1, FANOUT_PASS2) = d
    BY Sizes, RadixTyped
  <2> QED
    BY <2>1, <2>2
<1>4. x \in ClusterOf(X, RadixOf(c, d))
  BY <1>1, <1>2, <1>3, RadixBits
<1>5. r = RadixOf(c, d)
  BY <1>4 DEF ClusterOf, At
<1> QED
  BY <1>5

(* In only one. *)
LEMMA SplitOnce ==
    ASSUME in \in Inputs, NEW X \in Rels,
           NEW c \in 0 .. FANOUT_PASS1 - 1, NEW d \in 0 .. FANOUT_PASS2 - 1,
           NEW e \in 0 .. FANOUT_PASS1 - 1, NEW f \in 0 .. FANOUT_PASS2 - 1,
           RadixOf(c, d) = RadixOf(e, f), ClusterOf(X, RadixOf(c, d)) # {}
    PROVE  c = e /\ d = f
<1>1. PICK x \in ClusterOf(X, RadixOf(c, d)) : x \in ClusterOf(X, RadixOf(e, f))
  OBVIOUS
<1>2. x \in DOMAIN in[X]
  BY RadixParts
<1> QED
  BY <1>1, <1>2, RadixBits

(* A cluster's tuples are tuples of the partition. *)
LEMMA ClusterInPart ==
    ASSUME in \in Inputs, NEW X \in Rels,
           NEW c \in 0 .. FANOUT_PASS1 - 1, NEW d \in 0 .. FANOUT_PASS2 - 1
    PROVE  ClusterOf(X, RadixOf(c, d)) \subseteq PartOf(X, c)
<1> SUFFICES ASSUME NEW x \in ClusterOf(X, RadixOf(c, d)) PROVE x \in PartOf(X, c)
  OBVIOUS
<1>1. x \in DOMAIN in[X] /\ in[X] \in Seq(Nat)
  BY RadixParts
<1>2. HASH_BIT_MODULO(in[X][x], 1, FANOUT_PASS1) = c
  BY <1>1, RadixBits
<1> QED
  BY <1>1, <1>2 DEF PartOf, At

(* What is to be found is in a cluster of R and one of S. *)
LEMMA ItemsInClusters ==
    ASSUME in \in Inputs, NEW p \in Items
    PROVE  ClusterOf("R", ItemRadix(p)) # {} /\ ClusterOf("S", ItemRadix(p)) # {}
<1> DEFINE r == ItemRadix(p)
<1>1. /\ in["R"] \in Seq(Nat) /\ in["S"] \in Seq(Nat)
      /\ ClusterOf("R", r) = {y \in DOMAIN in["R"] : Parallel!Radix(in["R"][y]) = r}
      /\ ClusterOf("S", r) = {x \in DOMAIN in["S"] : Parallel!Radix(in["S"][x]) = r}
      /\ RadixTuples("R", r) = Parallel!TuplesAt(in["R"], ClusterOf("R", r))
  BY RadixParts DEF RadixTuples, Rels
<1>2. CASE p \in EqualPairs(in["R"], in["S"])
  <2>1. PICK y \in DOMAIN in["R"], x \in DOMAIN in["S"] : p = <<y, x>> /\ in["R"][y] = in["S"][x]
    BY <1>2 DEF EqualPairs
  <2>2. y \in ClusterOf("R", r) /\ x \in ClusterOf("S", r)
    BY <1>1, <2>1 DEF ItemRadix
  <2> QED
    BY <2>2
<1>3. CASE p \in SentinelPairs
  <2>1. PICK x \in ZeroKeys : p = <<0, x>> /\ SentinelFound
    BY <1>3 DEF SentinelPairs
  <2>2. x \in DOMAIN in["S"] /\ in["S"][x] = 0
    BY <2>1 DEF ZeroKeys
  <2>3. r = 0
    BY <2>1, <2>2, RadixOfZero DEF ItemRadix
  <2>4. x \in ClusterOf("S", r)
    BY <1>1, <2>1, <2>2 DEF ItemRadix
  <2>5. ClusterOf("R", r) # {}
    <3> SUFFICES ASSUME ClusterOf("R", r) = {} PROVE FALSE
      OBVIOUS
    <3>1. PICK T : T = RadixTuples("R", r)
      OBVIOUS
    <3>2. T \in Seq(Nat) /\ Len(T) = Cardinality({})
      <4>1. {} \subseteq DOMAIN in["R"]
        OBVIOUS
      <4> QED
        BY <1>1, <3>1, <4>1, TuplesByPlace
    <3>3. T = <<>>
      BY <3>2, FS_EmptySet
    <3> QED
      BY <2>1, <2>3, <3>1, <3>3 DEF SentinelFound
  <2> QED
    BY <2>4, <2>5
<1> QED
  BY <1>2, <1>3 DEF Items

(* The first of its keys tells which cluster memory holds. *)
LEMMA SameRadix ==
    ASSUME in \in Inputs, NEW memory, NEW first \in Nat, NEW r, NEW s,
           Holds(memory, first, in["R"], ClusterOf("R", r)), ClusterOf("R", r) # {},
           Holds(memory, first, in["R"], ClusterOf("R", s)), ClusterOf("R", s) # {}
    PROVE  r = s
<1>1. ASSUME NEW q, Holds(memory, first, in["R"], ClusterOf("R", q)), ClusterOf("R", q) # {}
      PROVE  Parallel!Radix(memory[first + 1]) = q
  <2>1. PICK at : at = ClusterOf("R", q)
    OBVIOUS
  <2>2. /\ in["R"] \in Seq(Nat) /\ at \subseteq DOMAIN in["R"]
        /\ at = {x \in DOMAIN in["R"] : Parallel!Radix(in["R"][x]) = q}
    BY <2>1, RadixParts DEF Rels
  <2>3. PICK n \in Nat : at \subseteq 1 .. n
    <3>1. PICK Y \in Seq(Nat), n \in Nat : Y = in["R"] /\ n = Len(Y) /\ DOMAIN Y = 1 .. n
      BY <2>2
    <3> QED
      BY <2>2, <3>1
  <2>4. PICK m \in Nat : m = Cardinality(at) /\ IsFiniteSet(at)
    BY <2>3, Ranks
  <2>5. m # 0
    BY <1>1, <2>1, <2>4, FS_EmptySet
  <2>6. PICK x \in at : RankIn(at, x) = 0
    <3>0. 1 \in 1 .. Cardinality(at)
      BY <2>4, <2>5
    <3>1. \E x \in at : RankIn(at, x) = 1 - 1
      BY <2>3, <3>0, Ranks
    <3> QED
      BY <3>1
  <2>7. memory[first + 0 + 1] = in["R"][x]
    BY <1>1, <2>1, <2>6 DEF Holds
  <2>8. first + 0 + 1 = first + 1
    OBVIOUS
  <2> QED
    BY <2>2, <2>7, <2>8
<1> QED
  BY <1>1

(* A cluster is one task's. *)
LEMMA ClusterIsOneTask ==
    ASSUME ParallelInv, NEW k \in JoinTasks, NEW l \in JoinTasks, NEW r, IsCluster(k, r), IsCluster(l, r)
    PROVE  k = l
<1>1. in \in Inputs /\ k \in TaskSet /\ l \in TaskSet /\ "R" \in Rels /\ "S" \in Rels
  BY DEF ParallelInv, Typed, Places, Rels
<1>2. PICK c \in 0 .. FANOUT_PASS1 - 1, d \in 0 .. FANOUT_PASS2 - 1 :
        r = RadixOf(c, d) /\ \A X \in Rels : k[X].first = ClusterFirst(X, c, d)
  BY DEF IsCluster, Planned
<1>3. PICK e \in 0 .. FANOUT_PASS1 - 1, f \in 0 .. FANOUT_PASS2 - 1 :
        r = RadixOf(e, f) /\ \A X \in Rels : l[X].first = ClusterFirst(X, e, f)
  BY DEF IsCluster, Planned
<1>4. ClusterOf("R", r) # {}
  <2>1. k["R"].n \in Nat \ {0}
    BY <1>1, WithinMemory DEF ParallelInv
  <2> QED
    BY <1>1, <2>1, FS_EmptySet DEF IsCluster
<1>5. c = e /\ d = f
  <2>1. RadixOf(c, d) = RadixOf(e, f) /\ ClusterOf("R", RadixOf(c, d)) # {}
    BY <1>2, <1>3, <1>4
  <2> QED
    BY <1>1, <2>1, SplitOnce
<1>6. \A X \in Rels : k[X].first = l[X].first /\ k[X].n = l[X].n
  BY <1>2, <1>3, <1>5 DEF IsCluster
<1> QED
  BY <1>1, <1>6 DEF TaskSet, Span

(* What is to be found depends on the input. *)
LEMMA ItemsKept ==
    ASSUME in' = in, join_function' = join_function
    PROVE  /\ Items' = Items /\ \A p : ItemRadix(p)' = ItemRadix(p)
           /\ \A r : ItemsOf(r)' = ItemsOf(r)
<1>1. SentinelFound' = SentinelFound /\ ZeroKeys' = ZeroKeys
  BY DEF SentinelFound, ZeroKeys, RadixTuples
<1>2. Items' = Items
  BY <1>1 DEF Items, SentinelPairs
<1>3. \A p : ItemRadix(p)' = ItemRadix(p)
  BY DEF ItemRadix
<1> QED
  BY <1>2, <1>3 DEF ItemsOf

(* A step that joins nothing leaves the results right. *)
LEMMA FoundKept ==
    ASSUME FoundRight, in' = in, join_function' = join_function, results' = results,
           \A p \in Items : \A r : r = ItemRadix(p) => (Waits(r)' <=> Waits(r))
    PROVE  FoundRight'
<1>1. Items' = Items /\ \A p : ItemRadix(p)' = ItemRadix(p)
  BY ItemsKept
<1>2. FoundItems' = FoundItems
  BY <1>1 DEF FoundItems
<1>3. Counts' = Counts
  BY DEF Counts
<1> QED
  BY <1>2, <1>3 DEF FoundRight

(* One more result is that many more. *)
LEMMA CountsGrow ==
    ASSUME results \in [Threads -> Nat], NEW t \in Threads, NEW m \in Nat,
           results' = [results EXCEPT ![t] = results[t] + m], IsFiniteSet(Counts)
    PROVE  /\ IsFiniteSet(Counts') /\ Cardinality(Counts) \in Nat
           /\ Cardinality(Counts') = Cardinality(Counts) + m
<1>1. PICK a \in Nat : a = results[t]
  OBVIOUS
<1> DEFINE More == a + 1 .. a + m
           New == {t} \X More
<1>2. results'[t] = a + m /\ \A u \in Threads \ {t} : results'[u] = results[u]
  BY <1>1
<1>3. 1 .. a + m = (1 .. a) \cup More /\ (1 .. a) \cap More = {}
  OBVIOUS
<1>4. IsFiniteSet(More) /\ Cardinality(More) = m
  <2>1. a + 1 \in Int /\ a + m \in Int
    OBVIOUS
  <2>2. IsFiniteSet(More) /\ Cardinality(More) = IF a + 1 > a + m THEN 0 ELSE (a + m) - (a + 1) + 1
    BY <2>1, FS_Interval
  <2>3. (IF a + 1 > a + m THEN 0 ELSE (a + m) - (a + 1) + 1) = m
    OBVIOUS
  <2> QED
    BY <2>2, <2>3
<1> HIDE DEF More
<1>5. IsFiniteSet(New) /\ Cardinality(New) = m
  <2>1. IsFiniteSet({t}) /\ Cardinality({t}) = 1
    BY FS_Singleton
  <2>2. IsFiniteSet(New) /\ Cardinality(New) = 1 * m
    BY <1>4, <2>1, FS_Product
  <2>3. 1 * m = m
    OBVIOUS
  <2> QED
    BY <2>2, <2>3
<1>6. Counts' = Counts \cup New
  <2>1. ASSUME NEW p \in Counts' PROVE p \in Counts \cup New
    <3>1. PICK u \in Threads : p \in {u} \X (1 .. results'[u])
      BY DEF Counts
    <3> QED
      BY <1>1, <1>2, <1>3, <3>1 DEF Counts
  <2>2. ASSUME NEW p \in Counts PROVE p \in Counts'
    <3>1. PICK u \in Threads : p \in {u} \X (1 .. results[u])
      BY DEF Counts
    <3>2. p \in {u} \X (1 .. results'[u])
      BY <1>1, <1>2, <1>3, <3>1
    <3> QED
      BY <3>2 DEF Counts
  <2>3. ASSUME NEW p \in New PROVE p \in Counts'
    <3>1. p \in {t} \X (1 .. results'[t])
      BY <1>2, <1>3, <2>3
    <3> QED
      BY <3>1 DEF Counts
  <2> QED
    BY <2>1, <2>2, <2>3
<1>7. Counts \cap New = {}
  <2> SUFFICES ASSUME NEW p \in Counts, p \in New PROVE FALSE
    OBVIOUS
  <2>1. PICK u \in Threads : p \in {u} \X (1 .. results[u])
    BY DEF Counts
  <2> QED
    BY <1>1, <1>3, <2>1
<1> HIDE DEF New
<1>8. /\ IsFiniteSet(Counts \cup New)
      /\ Cardinality(Counts \cup New) = Cardinality(Counts) + Cardinality(New) - Cardinality(Counts \cap New)
  BY <1>5, FS_Union
<1>9. Cardinality(Counts \cap New) = 0
  BY <1>7, FS_EmptySet
<1>10. PICK c \in Nat : c = Cardinality(Counts)
  BY FS_CardinalityType
<1>11. c + m - 0 = c + m
  OBVIOUS
<1> QED
  BY <1>5, <1>6, <1>8, <1>9, <1>10, <1>11

(* A join task that has been joined counts what is to be found in it. *)
LEMMA JoinedFound ==
    ASSUME ParallelInv, FoundRight, in' = in, join_function' = join_function,
           NEW t \in InJoin, NEW r, IsCluster(task[t], r),
           results' = [results EXCEPT ![t] = results[t] + Cardinality(ItemsOf(r))],
           WaitingParts = {}, WaitingParts' = {}, JoinTasks' = JoinTasks \ {task[t]},
           \A k, s : IsCluster(k, s)' <=> IsCluster(k, s)
    PROVE  FoundRight'
<1>1. in \in Inputs /\ t \in Threads /\ results \in [Threads -> Nat] /\ task[t] \in JoinTasks
  BY DEF ParallelInv, Typed, JoinTasks, InJoin
<1>2. \A s : ~ PartWaits(s) /\ ~ PartWaits(s)'
  BY DEF PartWaits
<1>3. TaskWaits(r)
  BY <1>1 DEF TaskWaits
<1>4. ASSUME NEW s PROVE TaskWaits(s)' <=> TaskWaits(s) /\ s # r
  <2>1. ASSUME TaskWaits(s)' PROVE TaskWaits(s) /\ s # r
    <3>1. PICK k \in JoinTasks \ {task[t]} : IsCluster(k, s)
      BY <2>1 DEF TaskWaits
    <3>2. s # r
      BY <1>1, <3>1, ClusterIsOneTask
    <3> QED
      BY <3>1, <3>2 DEF TaskWaits
  <2>2. ASSUME TaskWaits(s), s # r PROVE TaskWaits(s)'
    <3>1. PICK k \in JoinTasks : IsCluster(k, s)
      BY <2>2 DEF TaskWaits
    <3>2. k # task[t]
      <4> SUFFICES ASSUME k = task[t] PROVE FALSE
        OBVIOUS
      <4> QED
        BY <2>2, <3>1, TaskRadix
    <3>3. k \in JoinTasks' /\ IsCluster(k, s)'
      BY <3>1, <3>2
    <3> QED
      BY <3>3 DEF TaskWaits
  <2> QED
    BY <2>1, <2>2
<1>5. \A s : Waits(s)' <=> Waits(s) /\ s # r
  BY <1>2, <1>4 DEF Waits
<1>6. Waits(r)
  BY <1>3 DEF Waits
<1>7. Items' = Items /\ \A p : ItemRadix(p)' = ItemRadix(p)
  BY ItemsKept
<1>8. FoundItems' = FoundItems \cup ItemsOf(r) /\ FoundItems \cap ItemsOf(r) = {}
  BY <1>5, <1>6, <1>7 DEF FoundItems, ItemsOf
<1>9. IsFiniteSet(ItemsOf(r)) /\ Cardinality(ItemsOf(r)) \in Nat
  BY <1>1, ItemsOfCluster
<1>10. IsFiniteSet(Items)
  BY <1>1, AllItems
<1>11. IsFiniteSet(FoundItems)
  <2>1. FoundItems \subseteq Items
    BY DEF FoundItems
  <2> QED
    BY <1>10, <2>1, FS_Subset
<1>12. PICK m \in Nat : m = Cardinality(ItemsOf(r))
  BY <1>9
<1>13. /\ IsFiniteSet(Counts') /\ Cardinality(Counts) \in Nat
       /\ Cardinality(Counts') = Cardinality(Counts) + m
  BY <1>1, <1>12, CountsGrow DEF FoundRight
<1>14. Cardinality(FoundItems \cup ItemsOf(r)) =
         Cardinality(FoundItems) + Cardinality(ItemsOf(r)) - Cardinality(FoundItems \cap ItemsOf(r))
  BY <1>9, <1>11, FS_Union
<1>15. Cardinality(FoundItems \cap ItemsOf(r)) = 0
  BY <1>8, FS_EmptySet
<1>16. PICK c \in Nat : c = Cardinality(Counts) /\ c = Cardinality(FoundItems)
  BY <1>13 DEF FoundRight
<1>17. c + m - 0 = c + m
  OBVIOUS
<1>18. Cardinality(FoundItems') = c + m
  BY <1>8, <1>12, <1>14, <1>15, <1>16, <1>17
<1> QED
  BY <1>13, <1>16, <1>18 DEF FoundRight

(* What the parts of the invariant depend on. *)
LEMMA ClustersKept ==
    ASSUME in' = in, \A X \in Rels : mem'[X].rel = mem[X].rel
    PROVE  \A k, r : IsCluster(k, r)' <=> IsCluster(k, r)
<1>1. \A Y, c, d :
        /\ ClusterOf(Y, c)' = ClusterOf(Y, c) /\ ClusterFirst(Y, c, d)' = ClusterFirst(Y, c, d)
        /\ RadixOf(c, d)' = RadixOf(c, d)
  BY DEF PartOf, ClusterOf, PartTuples, PartFirst, ClusterFirst, RadixOf
<1>2. \A k, r : Planned(k, r)' <=> Planned(k, r)
  BY <1>1 DEF Planned
<1> QED
  BY <1>1, <1>2 DEF IsCluster

(* What waits depends on the tasks and the memory of the relations. *)
LEMMA WaitsKept ==
    ASSUME in' = in, \A X \in Rels : mem'[X].rel = mem[X].rel,
           WaitingParts' = WaitingParts, JoinTasks' = JoinTasks
    PROVE  \A r : Waits(r)' <=> Waits(r)
<1>1. \A k, r : IsCluster(k, r)' <=> IsCluster(k, r)
  BY ClustersKept
<1>2. \A c : FirstTask(in, c)' = FirstTask(in, c)
  OBVIOUS
<1>3. \A r : PartWaits(r)' <=> PartWaits(r)
  BY <1>2 DEF PartWaits, RadixOf
<1>4. \A r : TaskWaits(r)' <=> TaskWaits(r)
  BY <1>1 DEF TaskWaits
<1> QED
  BY <1>3, <1>4 DEF Waits

(* Who owns what when no thread takes a task. *)
LEMMA OneOwnerKept ==
    ASSUME OneOwner, InJoin' \subseteq InJoin, \A u \in InJoin' : task'[u] = task[u],
           join_queue' \subseteq join_queue
    PROVE  OneOwner'
<1>1. \A u \in InJoin' : u \in InJoin /\ task'[u] = task[u]
  OBVIOUS
<1>2. \A u \in InJoin' : task'[u] \notin join_queue'
  BY <1>1 DEF OneOwner
<1>3. \A u, v \in InJoin' : u # v => task'[u] # task'[v]
  BY <1>1 DEF OneOwner
<1> QED
  BY <1>2, <1>3 DEF OneOwner

(* What has been copied when nothing is copied. *)
LEMMA PreparedKept ==
    ASSUME Prepared, UNCHANGED <<join_function, mem>>,
           \A u \in Threads : pc'[u] = "probe" =>
               pc[u] = "probe" /\ hist'[u] = hist[u] /\ task'[u] = task[u]
    PROVE  Prepared'
<1> SUFFICES ASSUME NEW u \in Threads, pc'[u] = "probe"
             PROVE  PreparedFor(u, Parallel!Tuples(u, "R", "rel"))'
  BY DEF Prepared
<1>1. pc[u] = "probe" /\ hist'[u] = hist[u] /\ task'[u] = task[u]
  OBVIOUS
<1>2. PreparedFor(u, Parallel!Tuples(u, "R", "rel"))
  BY <1>1 DEF Prepared
<1>3. Parallel!Tuples(u, "R", "rel")' = Parallel!Tuples(u, "R", "rel")
  BY <1>1 DEF Parallel!Tuples
<1> QED
  BY <1>1, <1>2, <1>3 DEF PreparedFor

(* Who has left a loop when nothing is added to the queues. *)
LEMMA QueuesKept ==
    ASSUME QueuesEmptied, part_queue' \subseteq part_queue, join_queue' \subseteq join_queue,
           \A u \in Threads :
            /\ pc'[u] \in {"barrier", "join", "build", "probe", "done"} =>
                pc[u] \in {"barrier", "join", "build", "probe", "done"} \/ part_queue' = {}
            /\ pc'[u] = "done" => pc[u] = "done" \/ join_queue' = {}
    PROVE  QueuesEmptied'
BY DEF QueuesEmptied

(* The steps that take a task or leave a loop. *)
LEMMA MoveKeeps ==
    ASSUME FoundInv, UNCHANGED <<in, join_function, mem, results, hist>>,
           WaitingParts' = WaitingParts, JoinTasks' = JoinTasks,
           OneOwner', QueuesEmptied',
           \A u \in Threads : pc'[u] = "probe" => pc[u] = "probe" /\ task'[u] = task[u]
    PROVE  FoundInv'
<1>1. \A r : Waits(r)' <=> Waits(r)
  BY WaitsKept
<1>2. FoundRight'
  BY <1>1, FoundKept DEF FoundInv
<1>3. Prepared'
  BY PreparedKept DEF FoundInv
<1> QED
  BY <1>2, <1>3 DEF FoundInv

(* A thread takes a partition. *)
LEMMA GetPartitionTaskFound ==
    ASSUME ParallelInv, FoundInv, NEW t \in Threads, Parallel!GetPartitionTask(t)
    PROVE  FoundInv'
<1>1. PICK k \in part_queue :
        part_queue' = part_queue \ {k} /\ task' = [task EXCEPT ![t] = k]
  BY DEF Parallel!GetPartitionTask
<1>2. /\ pc[t] = "partition" /\ pc' = [pc EXCEPT ![t] = "clusterR"]
      /\ UNCHANGED <<in, join_function, mem, join_queue, output, hist, results>>
  BY DEF Parallel!GetPartitionTask
<1>3. pc \in [Threads -> Parallel!Steps] /\ task \in [Threads -> TaskSet]
  BY DEF ParallelInv, Typed
<1>4. /\ pc'[t] = "clusterR" /\ task'[t] = k
      /\ \A u \in Threads \ {t} : pc'[u] = pc[u] /\ task'[u] = task[u]
  BY <1>1, <1>2, <1>3
<1>5. /\ InSecondPass' = InSecondPass \cup {t} /\ t \notin InSecondPass
      /\ InJoin' = InJoin /\ t \notin InJoin
  BY <1>2, <1>4 DEF InSecondPass, InJoin
<1>6. WaitingParts' = WaitingParts
  <2>1. {task[u] : u \in InSecondPass}' = {task[u] : u \in InSecondPass} \cup {k}
    <3>1. \A u \in InSecondPass : task'[u] = task[u]
      BY <1>4, <1>5 DEF InSecondPass
    <3> QED
      BY <1>4, <1>5, <3>1
  <2> QED
    BY <1>1, <2>1 DEF WaitingParts
<1>7. \A u \in InJoin : task'[u] = task[u]
  BY <1>4, <1>5 DEF InJoin
<1>8. JoinTasks' = JoinTasks
  BY <1>2, <1>5, <1>7 DEF JoinTasks
<1>9. OneOwner'
  BY <1>2, <1>5, <1>7, OneOwnerKept DEF FoundInv
<1>10. QueuesEmptied'
  BY <1>1, <1>2, <1>4, QueuesKept DEF FoundInv
<1>11. \A u \in Threads : pc'[u] = "probe" => pc[u] = "probe" /\ task'[u] = task[u]
  BY <1>4
<1> QED
  BY <1>2, <1>6, <1>8, <1>9, <1>10, <1>11, MoveKeeps

(* Threads only move on between loops, none to work on a task. *)
LEMMA PcFound ==
    ASSUME ParallelInv, FoundInv,
           UNCHANGED <<in, join_function, mem, part_queue, join_queue, task, hist, results>>,
           QueuesEmptied',
           \A u \in Threads : pc'[u] = pc[u] \/ (pc[u] \in {"partition", "barrier", "join"}
                                                /\ pc'[u] \in {"barrier", "join", "done"})
    PROVE  FoundInv'
<1>1. InSecondPass' = InSecondPass /\ InJoin' = InJoin
  BY DEF InSecondPass, InJoin
<1>2. WaitingParts' = WaitingParts /\ JoinTasks' = JoinTasks
  BY <1>1 DEF WaitingParts, JoinTasks
<1>3. OneOwner'
  BY <1>1, OneOwnerKept DEF FoundInv
<1>4. \A u \in Threads : pc'[u] = "probe" => pc[u] = "probe" /\ task'[u] = task[u]
  OBVIOUS
<1> QED
  BY <1>2, <1>3, <1>4, MoveKeeps

(* A thread that finds no partition waits at the barrier. *)
LEMMA EndPartitioningFound ==
    ASSUME ParallelInv, FoundInv, NEW t \in Threads, Parallel!EndPartitioning(t)
    PROVE  FoundInv'
<1>1. /\ pc[t] = "partition" /\ pc' = [pc EXCEPT ![t] = "barrier"] /\ part_queue = {}
      /\ UNCHANGED <<in, join_function, mem, part_queue, join_queue, task, hist, results>>
  BY DEF Parallel!EndPartitioning
<1>2. pc \in [Threads -> Parallel!Steps]
  BY DEF ParallelInv, Typed
<1>3. pc'[t] = "barrier" /\ \A u \in Threads \ {t} : pc'[u] = pc[u]
  BY <1>1, <1>2
<1>4. QueuesEmptied'
  BY <1>1, <1>3, QueuesKept DEF FoundInv
<1> QED
  BY <1>1, <1>3, <1>4, PcFound

(* The barrier lets the threads on. *)
LEMMA ReleaseFound ==
    ASSUME ParallelInv, FoundInv, Parallel!ReleaseBarrier
    PROVE  FoundInv'
<1>1. /\ \A u \in Threads : pc[u] = "barrier"
      /\ pc' = [u \in Threads |-> IF pc[u] = "barrier" THEN "join" ELSE pc[u]]
      /\ UNCHANGED <<in, join_function, mem, part_queue, join_queue, task, hist, results>>
  BY DEF Parallel!ReleaseBarrier, Parallel!AllArrived
<1>2. \A u \in Threads : pc'[u] = "join"
  BY <1>1
<1>3. QueuesEmptied'
  BY <1>1, <1>2, QueuesKept DEF FoundInv
<1> QED
  BY <1>1, <1>2, <1>3, PcFound

(* A thread takes a cluster. *)
LEMMA GetJoinTaskFound ==
    ASSUME ParallelInv, FoundInv, NEW t \in Threads, Parallel!GetJoinTask(t)
    PROVE  FoundInv'
<1>1. PICK k \in join_queue :
        join_queue' = join_queue \ {k} /\ task' = [task EXCEPT ![t] = k]
  BY DEF Parallel!GetJoinTask
<1>2. /\ pc[t] = "join" /\ pc' = [pc EXCEPT ![t] = "build"]
      /\ UNCHANGED <<in, join_function, mem, part_queue, output, hist, results>>
  BY DEF Parallel!GetJoinTask
<1>3. pc \in [Threads -> Parallel!Steps] /\ task \in [Threads -> TaskSet]
  BY DEF ParallelInv, Typed
<1>4. /\ pc'[t] = "build" /\ task'[t] = k
      /\ \A u \in Threads \ {t} : pc'[u] = pc[u] /\ task'[u] = task[u]
  BY <1>1, <1>2, <1>3
<1>5. /\ InSecondPass' = InSecondPass /\ t \notin InSecondPass
      /\ InJoin' = InJoin \cup {t} /\ t \notin InJoin
  BY <1>2, <1>4 DEF InSecondPass, InJoin
<1>6. \A u \in InSecondPass \cup InJoin : u \in Threads /\ u # t /\ task'[u] = task[u]
  BY <1>4, <1>5 DEF InSecondPass, InJoin
<1>7. WaitingParts' = WaitingParts
  BY <1>2, <1>5, <1>6 DEF WaitingParts
<1>8. JoinTasks' = JoinTasks
  <2>1. {task[u] : u \in InJoin}' = {task[u] : u \in InJoin} \cup {k}
    BY <1>4, <1>5, <1>6
  <2> QED
    BY <1>1, <2>1 DEF JoinTasks
<1>9. OneOwner'
  <2>1. OneOwner
    BY DEF FoundInv
  <2>2. \A u \in InJoin : task'[u] \notin join_queue /\ task'[u] # k
    BY <1>1, <1>6, <2>1 DEF OneOwner
  <2>3. \A u \in InJoin' : task'[u] \notin join_queue'
    BY <1>1, <1>4, <1>5, <2>2
  <2>4. \A u, v \in InJoin' : u # v => task'[u] # task'[v]
    <3>1. \A u, v \in InJoin : u # v => task'[u] # task'[v]
      BY <1>6, <2>1 DEF OneOwner
    <3> QED
      BY <1>4, <1>5, <2>2, <3>1
  <2> QED
    BY <2>3, <2>4 DEF OneOwner
<1>10. QueuesEmptied'
  BY <1>1, <1>2, <1>4, QueuesKept DEF FoundInv
<1>11. \A u \in Threads : pc'[u] = "probe" => pc[u] = "probe" /\ task'[u] = task[u]
  BY <1>4
<1> QED
  BY <1>2, <1>7, <1>8, <1>9, <1>10, <1>11, MoveKeeps

(* A thread that finds no cluster is done. *)
LEMMA EndJoiningFound ==
    ASSUME ParallelInv, FoundInv, NEW t \in Threads, Parallel!EndJoining(t)
    PROVE  FoundInv'
<1>1. /\ pc[t] = "join" /\ pc' = [pc EXCEPT ![t] = "done"] /\ join_queue = {}
      /\ UNCHANGED <<in, join_function, mem, part_queue, join_queue, task, hist, results>>
  BY DEF Parallel!EndJoining
<1>2. pc \in [Threads -> Parallel!Steps]
  BY DEF ParallelInv, Typed
<1>3. pc'[t] = "done" /\ \A u \in Threads \ {t} : pc'[u] = pc[u]
  BY <1>1, <1>2
<1>4. QueuesEmptied'
  BY <1>1, <1>3, QueuesKept DEF FoundInv
<1> QED
  BY <1>1, <1>3, <1>4, PcFound

(* While a thread is in the second pass nobody joins. *)
LEMMA NobodyJoins ==
    ASSUME ContentInv, NEW t \in InSecondPass
    PROVE  \A u \in Threads : pc[u] \in {"partition", "clusterR", "clusterS", "add", "barrier"}
BY DEF ContentInv, OnePhase, JoinPhase, InSecondPass

(* Clustering leaves what waits. *)
LEMMA ClusterFound ==
    ASSUME ParallelInv, ContentInv, FoundInv, NEW t \in InSecondPass, NEW X \in Rels,
           Parallel!radix_cluster(t, X), NEW after \in {"clusterS", "add"},
           pc' = [pc EXCEPT ![t] = after],
           UNCHANGED <<in, join_function, part_queue, join_queue, task, hist, results>>
    PROVE  FoundInv'
<1>1. /\ in \in Inputs /\ pc \in [Threads -> Parallel!Steps] /\ t \in Threads
      /\ pc[t] \in {"clusterR", "clusterS", "add"}
  BY DEF ParallelInv, Typed, InSecondPass
<1>2. pc'[t] = after /\ \A u \in Threads \ {t} : pc'[u] = pc[u]
  BY <1>1
<1>3. \A u \in Threads : pc[u] \in {"partition", "clusterR", "clusterS", "add", "barrier"}
  BY NobodyJoins
<1>4. InSecondPass' = InSecondPass /\ InJoin' = {} /\ InJoin = {}
  BY <1>1, <1>2, <1>3 DEF InSecondPass, InJoin
<1>5. WaitingParts' = WaitingParts /\ JoinTasks' = JoinTasks
  BY <1>4 DEF WaitingParts, JoinTasks
<1>6. \A c : ClusterOf("R", c)' = ClusterOf("R", c)
  BY DEF ClusterOf
<1>7. ASSUME NEW p \in Items, NEW r, r = ItemRadix(p) PROVE TaskWaits(r)' <=> TaskWaits(r)
  <2>1. ASSUME TaskWaits(r) PROVE TaskWaits(r)'
    <3>1. PICK k \in JoinTasks : IsCluster(k, r)
      BY <2>1 DEF TaskWaits
    <3>2. IsCluster(k, r)'
      BY <3>1, ClusterStays
    <3> QED
      BY <1>5, <3>1, <3>2 DEF TaskWaits
  <2>2. ASSUME TaskWaits(r)' PROVE TaskWaits(r)
    <3>1. PICK k \in JoinTasks : IsCluster(k, r)'
      BY <1>5, <2>2 DEF TaskWaits
    <3>2. PICK s \in 0 .. NUM_RADIX - 1 : IsCluster(k, s)
      BY DEF ContentInv, JoinTasksRight
    <3>3. IsCluster(k, s)'
      BY <3>2, ClusterStays
    <3>4. k["R"].first \in Nat /\ k["R"].n \in Nat \ {0}
      <4>1. "R" \in Rels
        BY DEF Rels
      <4> QED
        BY <4>1, WithinMemory DEF ParallelInv
    <3>5. PICK memory : memory = mem'["R"].rel
      OBVIOUS
    <3>6. /\ Holds(memory, k["R"].first, in["R"], ClusterOf("R", r))
          /\ Holds(memory, k["R"].first, in["R"], ClusterOf("R", s))
      <4>1. "R" \in Rels
        BY DEF Rels
      <4> QED
        BY <1>6, <3>1, <3>3, <3>5, <4>1 DEF IsCluster
    <3>7. ClusterOf("R", r) # {}
      BY <1>1, <1>7, ItemsInClusters
    <3>8. ClusterOf("R", s) # {}
      <4>1. k["R"].n = Cardinality(ClusterOf("R", s))
        BY <3>2 DEF IsCluster, Rels
      <4> QED
        BY <3>4, <4>1, FS_EmptySet
    <3>9. PICK first \in Nat : first = k["R"].first
      BY <3>4
    <3>10. r = s
      BY <1>1, <3>6, <3>7, <3>8, <3>9, SameRadix
    <3> QED
      BY <3>2, <3>10 DEF TaskWaits
  <2> QED
    BY <2>1, <2>2
<1>8. \A r : PartWaits(r)' <=> PartWaits(r)
  <2>1. \A c : FirstTask(in, c)' = FirstTask(in, c)
    OBVIOUS
  <2> QED
    BY <1>5, <2>1 DEF PartWaits, RadixOf
<1>9. \A p \in Items : \A r : r = ItemRadix(p) => (Waits(r)' <=> Waits(r))
  BY <1>7, <1>8 DEF Waits
<1>10. FoundRight'
  BY <1>9, FoundKept DEF FoundInv
<1>11. OneOwner'
  BY <1>4 DEF OneOwner
<1>12. QueuesEmptied'
  BY <1>2, <1>3, QueuesKept DEF FoundInv
<1>13. Prepared'
  BY <1>2, <1>3 DEF Prepared
<1> QED
  BY <1>10, <1>11, <1>12, <1>13 DEF FoundInv

(* A partition's clusters wait as join tasks in its place. *)
LEMMA AddFound ==
    ASSUME ParallelInv, ContentInv, FoundInv, NEW t \in Threads, Parallel!AddJoinTasks(t)
    PROVE  FoundInv'
<1> DEFINE Present == {d \in 0 .. FANOUT_PASS2 - 1 : Parallel!BothPresent(t, d)}
           New == {Parallel!JoinTask(t, d) : d \in Present}
<1>1. /\ pc[t] = "add" /\ join_queue' = join_queue \cup New
      /\ pc' = [pc EXCEPT ![t] = "partition"] /\ task' = [task EXCEPT ![t] = Parallel!NoTask]
      /\ UNCHANGED <<in, join_function, mem, part_queue, output, hist, results>>
  BY SizesSame DEF Parallel!AddJoinTasks
<1>2. /\ in \in Inputs /\ pc \in [Threads -> Parallel!Steps] /\ task \in [Threads -> TaskSet]
      /\ t \in InSecondPass /\ task[t] \in Parallel!FirstPassTasks(in) \ part_queue
      /\ \A u \in InSecondPass \ {t} : task[u] # task[t]
  BY <1>1 DEF ParallelInv, Typed, PartitionTasks, InSecondPass
<1>3. /\ pc'[t] = "partition"
      /\ \A u \in Threads \ {t} : pc'[u] = pc[u] /\ task'[u] = task[u]
  BY <1>1, <1>2
<1>4. \A u \in Threads : pc[u] \in {"partition", "clusterR", "clusterS", "add", "barrier"}
  BY <1>2, NobodyJoins
<1>5. InSecondPass' = InSecondPass \ {t} /\ InJoin' = {} /\ InJoin = {}
  BY <1>1, <1>3, <1>4 DEF InSecondPass, InJoin
<1>6. WaitingParts' = WaitingParts \ {task[t]}
  <2>1. {task[u] : u \in InSecondPass}' = {task[u] : u \in InSecondPass} \ {task[t]}
    <3>1. \A u \in InSecondPass \ {t} : task'[u] = task[u]
      BY <1>3 DEF InSecondPass
    <3> QED
      BY <1>2, <1>5, <3>1
  <2> QED
    BY <1>1, <1>2, <2>1 DEF WaitingParts
<1>7. JoinTasks' = JoinTasks \cup New
  BY <1>1, <1>5 DEF JoinTasks
<1>8. \A k, r : IsCluster(k, r)' <=> IsCluster(k, r)
  BY <1>1, ClustersKept
<1>9. \A c : FirstTask(in, c)' = FirstTask(in, c)
  BY <1>1
<1>10. task[t] \in WaitingParts
  BY <1>2 DEF WaitingParts
<1>11. ASSUME NEW c \in 0 .. FANOUT_PASS1 - 1, task[t] = FirstTask(in, c),
              NEW d \in 0 .. FANOUT_PASS2 - 1
       PROVE  /\ IsCluster(Parallel!JoinTask(t, d), RadixOf(c, d))
              /\ d \in Present <=> ClusterOf("R", RadixOf(c, d)) # {} /\ ClusterOf("S", RadixOf(c, d)) # {}
  <2>1. IsCluster(Parallel!JoinTask(t, d), RadixOf(c, d))
    BY <1>1, <1>2, <1>11, AddedAreClusters
  <2>2. ASSUME NEW X \in Rels
        PROVE  output[t][X][d] > 0 <=> ClusterOf(X, RadixOf(c, d)) # {}
    <3>1. output[t][X][d] = Cardinality(ClusterOf(X, RadixOf(c, d)))
      BY <1>1, <1>2, <1>11, AddedAreClusters
    <3>2. PICK B : B = ClusterOf(X, RadixOf(c, d))
      OBVIOUS
    <3>3. IsFiniteSet(B) /\ Cardinality(B) \in Nat
      <4>1. PICK Y \in Seq(Nat) : Y = in[X] /\ B \subseteq DOMAIN Y
        BY <1>2, <3>2, RadixParts
      <4>2. PICK n \in Nat : n = Len(Y) /\ B \subseteq 1 .. n
        BY <4>1
      <4> QED
        BY <4>2, Ranks
    <3>4. B = {} <=> Cardinality(B) = 0
      BY <3>3, FS_EmptySet
    <3> QED
      BY <3>1, <3>2, <3>3, <3>4
  <2>3. d \in Present <=> output[t]["R"][d] > 0 /\ output[t]["S"][d] > 0
    BY DEF Parallel!BothPresent
  <2>4. /\ output[t]["R"][d] > 0 <=> ClusterOf("R", RadixOf(c, d)) # {}
        /\ output[t]["S"][d] > 0 <=> ClusterOf("S", RadixOf(c, d)) # {}
    BY <2>2 DEF Rels
  <2> QED
    BY <2>1, <2>3, <2>4
<1>12. \A d \in Present : d \in 0 .. FANOUT_PASS2 - 1
  OBVIOUS
<1> HIDE DEF Present
<1>13. ASSUME NEW p \in Items, NEW r, r = ItemRadix(p) PROVE Waits(r)' <=> Waits(r)
  <2>1. ClusterOf("R", r) # {} /\ ClusterOf("S", r) # {}
    BY <1>2, <1>13, ItemsInClusters
  <2>2. ASSUME PartWaits(r)' PROVE Waits(r)
    BY <1>6, <1>9, <2>2 DEF PartWaits, Waits, RadixOf
  <2>3. ASSUME TaskWaits(r)' PROVE Waits(r)
    <3>1. PICK k \in JoinTasks \cup New : IsCluster(k, r)
      BY <1>7, <1>8, <2>3 DEF TaskWaits
    <3>2. CASE k \in JoinTasks
      BY <3>1, <3>2 DEF TaskWaits, Waits
    <3>3. CASE k \in New
      <4>1. PICK d \in Present : k = Parallel!JoinTask(t, d)
        BY <3>3
      <4>2. PICK c \in 0 .. FANOUT_PASS1 - 1 : task[t] = FirstTask(in, c)
        BY <1>2, FirstTasksAre
      <4>3. PICK s : s = RadixOf(c, d)
        OBVIOUS
      <4>4. IsCluster(k, s) /\ ClusterOf("R", s) # {}
        BY <1>11, <1>12, <4>1, <4>2, <4>3
      <4>5. /\ Holds(mem["R"].rel, k["R"].first, in["R"], ClusterOf("R", r))
            /\ Holds(mem["R"].rel, k["R"].first, in["R"], ClusterOf("R", s))
        BY <3>1, <4>4 DEF IsCluster, Rels
      <4>6. k["R"].first \in Nat
        <5>1. "R" \in Rels
          BY DEF Rels
        <5> QED
          BY <1>1, <1>12, <4>1, <5>1, ClusterPlaces
      <4>7. PICK memory : memory = mem["R"].rel
        OBVIOUS
      <4>8. PICK f \in Nat : f = k["R"].first
        BY <4>6
      <4>9. r = s
        BY <1>2, <2>1, <4>4, <4>5, <4>7, <4>8, SameRadix
      <4> QED
        BY <1>10, <1>12, <4>2, <4>3, <4>9 DEF PartWaits, Waits
    <3> QED
      BY <3>1, <3>2, <3>3
  <2>4. ASSUME PartWaits(r) PROVE Waits(r)'
    <3>1. PICK c \in 0 .. FANOUT_PASS1 - 1 : \E d \in 0 .. FANOUT_PASS2 - 1 :
            r = RadixOf(c, d) /\ FirstTask(in, c) \in WaitingParts
      BY <2>4 DEF PartWaits
    <3>2. PICK d \in 0 .. FANOUT_PASS2 - 1 : r = RadixOf(c, d) /\ FirstTask(in, c) \in WaitingParts
      BY <3>1
    <3>3. CASE FirstTask(in, c) # task[t]
      <4>1. FirstTask(in, c)' \in WaitingParts'
        BY <1>6, <1>9, <3>2, <3>3
      <4>2. PartWaits(r)'
        BY <3>2, <4>1 DEF PartWaits, RadixOf
      <4> QED
        BY <4>2 DEF Waits
    <3>4. CASE FirstTask(in, c) = task[t]
      <4>1. IsCluster(Parallel!JoinTask(t, d), r) /\ d \in Present
        BY <1>11, <2>1, <3>2, <3>4
      <4>2. Parallel!JoinTask(t, d) \in JoinTasks'
        BY <1>7, <4>1
      <4>3. PICK k : k = Parallel!JoinTask(t, d)
        OBVIOUS
      <4>4. TaskWaits(r)'
        BY <1>8, <4>1, <4>2, <4>3 DEF TaskWaits
      <4> QED
        BY <4>4 DEF Waits
    <3> QED
      BY <3>3, <3>4
  <2>5. ASSUME TaskWaits(r) PROVE Waits(r)'
    BY <1>7, <1>8, <2>5 DEF TaskWaits, Waits
  <2> QED
    BY <2>2, <2>3, <2>4, <2>5 DEF Waits
<1>14. FoundRight'
  BY <1>1, <1>13, FoundKept DEF FoundInv
<1>15. OneOwner'
  BY <1>5 DEF OneOwner
<1>16. QueuesEmptied'
  BY <1>1, <1>3, <1>4 DEF FoundInv, QueuesEmptied
<1>17. Prepared'
  BY <1>3, <1>4 DEF Prepared
<1> QED
  BY <1>14, <1>15, <1>16, <1>17 DEF FoundInv

(* A join task's tuples are a cluster's. *)
LEMMA JoinReads ==
    ASSUME ParallelInv, ContentInv, NEW t \in InJoin
    PROVE  \E r : IsCluster(task[t], r)
                  /\ \A X \in Rels : Parallel!Tuples(t, X, "rel") = RadixTuples(X, r)
<1>1. task[t] \in JoinTasks
  BY DEF JoinTasks
<1>2. PICK r \in 0 .. NUM_RADIX - 1 : IsCluster(task[t], r)
  BY <1>1 DEF ContentInv, JoinTasksRight
<1>3. ASSUME NEW X \in Rels PROVE Parallel!Tuples(t, X, "rel") = RadixTuples(X, r)
  <2>1. Parallel!Slice(mem[X].rel, task[t][X].first, task[t][X].n) = Parallel!RadixPart(in[X], r)
    BY <1>1, <1>2, TaskIsRead
  <2> QED
    BY <2>1 DEF Parallel!Tuples, RadixTuples
<1> QED
  BY <1>2, <1>3

(* A join that finds what there is to find in its cluster. *)
LEMMA JoinFound ==
    ASSUME ParallelInv, ContentInv, FoundInv, NEW t \in InJoin, NEW r, IsCluster(task[t], r),
           Parallel!Joined(t, Cardinality(ItemsOf(r))),
           UNCHANGED <<in, join_function, mem, part_queue, join_queue, output, hist>>
    PROVE  FoundInv'
<1>1. /\ t \in Threads /\ pc[t] \in {"build", "probe"} /\ pc \in [Threads -> Parallel!Steps]
      /\ task \in [Threads -> TaskSet]
  BY DEF ParallelInv, Typed, InJoin
<1>2. /\ results' = [results EXCEPT ![t] = results[t] + Cardinality(ItemsOf(r))]
      /\ task' = [task EXCEPT ![t] = Parallel!NoTask] /\ pc' = [pc EXCEPT ![t] = "join"]
  BY DEF Parallel!Joined
<1>3. pc'[t] = "join" /\ \A u \in Threads \ {t} : pc'[u] = pc[u] /\ task'[u] = task[u]
  BY <1>1, <1>2
<1>4. JoinPhase
  BY <1>1 DEF ContentInv, OnePhase
<1>5. InSecondPass = {} /\ InSecondPass' = {} /\ InJoin' = InJoin \ {t}
  BY <1>1, <1>3, <1>4 DEF JoinPhase, InSecondPass, InJoin
<1>6. part_queue = {}
  BY <1>1 DEF FoundInv, QueuesEmptied
<1>7. WaitingParts = {} /\ WaitingParts' = {}
  BY <1>5, <1>6 DEF WaitingParts
<1>8. \A u \in InJoin \ {t} : task'[u] = task[u] /\ task[u] # task[t]
  BY <1>3 DEF InJoin, FoundInv, OneOwner
<1>9. task[t] \notin join_queue
  BY DEF FoundInv, OneOwner
<1>10. JoinTasks' = JoinTasks \ {task[t]}
  <2>1. {task[u] : u \in InJoin}' = {task[u] : u \in InJoin} \ {task[t]}
    BY <1>5, <1>8
  <2> QED
    BY <1>9, <2>1 DEF JoinTasks
<1>11. \A k, s : IsCluster(k, s)' <=> IsCluster(k, s)
  BY ClustersKept
<1>12. FoundRight'
  BY <1>2, <1>7, <1>10, <1>11, JoinedFound DEF FoundInv
<1>13. OneOwner'
  BY <1>5, <1>8, OneOwnerKept DEF FoundInv
<1>14. QueuesEmptied'
  BY <1>1, <1>3, QueuesKept DEF FoundInv
<1>15. Prepared'
  BY <1>3, PreparedKept DEF FoundInv
<1> QED
  BY <1>12, <1>13, <1>14, <1>15 DEF FoundInv

(* bucket_chaining_join of a cluster. *)
LEMMA JoinBucketsFound ==
    ASSUME ParallelInv, ContentInv, FoundInv, NEW t \in Threads, Parallel!JoinBuckets(t)
    PROVE  FoundInv'
<1>1. /\ pc[t] = "build" /\ join_function = "bucket_chaining"
      /\ Parallel!Joined(t, Parallel!bucket_chaining_join(Parallel!Tuples(t, "R", "rel"),
                                                          Parallel!Tuples(t, "S", "rel")))
      /\ UNCHANGED <<in, join_function, mem, part_queue, join_queue, output, hist>>
  BY DEF Parallel!JoinBuckets
<1>2. in \in Inputs /\ t \in InJoin /\ "R" \in Rels /\ "S" \in Rels
  BY <1>1 DEF ParallelInv, Typed, InJoin, Rels
<1>3. PICK r : IsCluster(task[t], r)
               /\ \A X \in Rels : Parallel!Tuples(t, X, "rel") = RadixTuples(X, r)
  BY <1>2, JoinReads
<1>4. PICK R \in Seq(Nat), S \in Seq(Nat) :
        /\ R = Parallel!Tuples(t, "R", "rel") /\ S = Parallel!Tuples(t, "S", "rel")
        /\ Len(R) # 0 /\ R = RadixTuples("R", r) /\ S = RadixTuples("S", r)
  BY <1>2, <1>3, JoinTuples
<1>5. Parallel!bucket_chaining_join(R, S) = Parallel!Matches(R, S) /\ Parallel!Matches(R, S) \in Nat
  BY <1>4, BucketsFind, EqualPairsFinite
<1>6. Cardinality(ItemsOf(r)) = Parallel!Matches(R, S) + 0
  <2>1. Cardinality(ItemsOf(r)) = Parallel!Matches(R, S)
          + (IF join_function = "optimized" /\ R # <<>> THEN Parallel!SentinelMatches(R, S) ELSE 0)
    BY <1>2, <1>4, ItemsOfCluster
  <2>2. join_function # "optimized"
    BY <1>1
  <2> QED
    BY <2>1, <2>2
<1>7. Parallel!Joined(t, Cardinality(ItemsOf(r)))
  BY <1>1, <1>4, <1>5, <1>6
<1> QED
  BY <1>1, <1>2, <1>3, <1>7, JoinFound

(* The second half of a histogram join of a cluster. *)
LEMMA ProbeFound ==
    ASSUME ParallelInv, ContentInv, FoundInv, NEW t \in Threads, Parallel!Probe(t)
    PROVE  FoundInv'
<1> DEFINE first == task[t]["R"].first
           numR == task[t]["R"].n
           Probed(S) == IF join_function = "optimized"
                        THEN Parallel!ProbeBuffered(S, mem["R"].tmp, first, hist[t], numR)
                        ELSE Parallel!ProbeScalar(S, mem["R"].tmp, first, hist[t], numR)
<1>1. /\ pc[t] = "probe"
      /\ Parallel!Joined(t, Probed(Parallel!Tuples(t, "S", "rel")))
      /\ UNCHANGED <<in, join_function, mem, part_queue, join_queue, output, hist>>
  BY DEF Parallel!Probe
<1>2. in \in Inputs /\ t \in InJoin /\ "R" \in Rels /\ "S" \in Rels /\ task \in [Threads -> TaskSet]
  BY <1>1 DEF ParallelInv, Typed, InJoin, Rels
<1>3. PICK r : IsCluster(task[t], r)
               /\ \A X \in Rels : Parallel!Tuples(t, X, "rel") = RadixTuples(X, r)
  BY <1>2, JoinReads
<1>4. PICK R \in Seq(Nat), S \in Seq(Nat) :
        /\ R = Parallel!Tuples(t, "R", "rel") /\ S = Parallel!Tuples(t, "S", "rel")
        /\ Len(R) # 0 /\ R = RadixTuples("R", r) /\ S = RadixTuples("S", r) /\ Len(R) = numR
  BY <1>2, <1>3, JoinTuples
<1>5. PICK N \in Nat \ {0} : N = Parallel!get_hist_size(Len(R))
  BY <1>4, HistSize
<1>6. PreparedFor(t, R)
  BY <1>1, <1>4 DEF FoundInv, Prepared
<1>7. PICK base \in Nat, memory \in Memory("R") : base = first /\ memory = mem["R"].tmp
  <2>1. mem["R"].tmp \in Memory("R")
    BY <1>2 DEF ParallelInv, Typed
  <2> QED
    BY <1>2, <2>1, TaskTyped
<1>8. /\ hist[t] = Parallel!HistAfterReorder(R)
      /\ Sorted(memory, base, R, N)
      /\ join_function = "optimized" => SentinelAt(memory, base, Len(R))
  BY <1>5, <1>6, <1>7 DEF PreparedFor, HistSizeOf
<1>9. Cardinality(ItemsOf(r)) = Parallel!Matches(R, S)
          + (IF join_function = "optimized" /\ R # <<>> THEN Parallel!SentinelMatches(R, S) ELSE 0)
  BY <1>2, <1>4, ItemsOfCluster
<1>10. Probed(S) = Cardinality(ItemsOf(r))
  <2>1. CASE join_function = "optimized"
    <3>1. Parallel!ProbeBuffered(S, memory, base, Parallel!HistAfterReorder(R), Len(R))
            = Parallel!Matches(R, S) + Parallel!SentinelMatches(R, S)
      BY <1>4, <1>5, <1>8, <2>1, BufferedFinds
    <3>2. Probed(S) = Parallel!ProbeBuffered(S, memory, base, Parallel!HistAfterReorder(R), Len(R))
      BY <1>4, <1>7, <1>8, <2>1
    <3>3. R # <<>>
      BY <1>4
    <3> QED
      BY <1>9, <2>1, <3>1, <3>2, <3>3
  <2>2. CASE join_function # "optimized"
    <3>1. Parallel!ProbeScalar(S, memory, base, Parallel!HistAfterReorder(R), Len(R))
            = Parallel!Matches(R, S)
      BY <1>4, <1>5, <1>8, ScalarFinds
    <3>2. Probed(S) = Parallel!ProbeScalar(S, memory, base, Parallel!HistAfterReorder(R), Len(R))
      BY <1>4, <1>7, <1>8, <2>2
    <3>3. Parallel!Matches(R, S) \in Nat
      BY <1>4, EqualPairsFinite
    <3>4. Cardinality(ItemsOf(r)) = Parallel!Matches(R, S) + 0
      BY <1>9, <2>2
    <3> QED
      BY <3>1, <3>2, <3>3, <3>4
  <2> QED
    BY <2>1, <2>2
<1>11. Parallel!Joined(t, Cardinality(ItemsOf(r)))
  BY <1>1, <1>4, <1>10
<1> QED
  BY <1>1, <1>2, <1>3, <1>11, JoinFound

(* What is written elsewhere leaves R in order. *)
LEMMA SortedStays ==
    ASSUME NEW R \in Seq(Nat), NEW N \in Nat \ {0}, NEW first \in Nat,
           NEW memory, NEW later, Sorted(memory, first, R, N),
           \A s \in first .. first + Len(R) - 1 : later[s + 1] = memory[s + 1]
    PROVE  Sorted(later, first, R, N)
<1> SUFFICES ASSUME NEW h \in 0 .. N - 1
             PROVE  Holds(later, first + HashStart(R, N, h), R, HashAt(R, N, h))
  BY DEF Sorted
<1>1. PICK n \in Nat : n = Len(R)
  OBVIOUS
<1>2. PICK begin \in Nat, size \in Nat :
        /\ begin = HashStart(R, N, h) /\ size = Cardinality(HashAt(R, N, h))
        /\ HashAt(R, N, h) \subseteq 1 .. n /\ begin + size <= n
  BY <1>1, HashPlaces
<1>3. PICK place \in Nat : place = first + begin
  OBVIOUS
<1>4. Holds(memory, place, R, HashAt(R, N, h))
  BY <1>2, <1>3 DEF Sorted
<1>5. \A s \in place .. place + size - 1 : s \in first .. first + n - 1
  <2>1. begin + size <= n
    BY <1>2
  <2> QED
    BY ONLY <1>3, <2>1, first \in Nat, begin \in Nat, size \in Nat, n \in Nat
<1>6. \A s \in place .. place + Cardinality(HashAt(R, N, h)) - 1 : later[s + 1] = memory[s + 1]
  BY <1>1, <1>2, <1>5
<1>7. Holds(later, place, R, HashAt(R, N, h))
  BY <1>2, <1>4, <1>6, StillHeld
<1> QED
  BY <1>2, <1>3, <1>7

(* They are what the copy and the sentinel leave in memory. *)
LEMMA CopyWrites ==
    ASSUME NEW R \in Seq(Nat), NEW N \in Nat \ {0}, N = Parallel!get_hist_size(Len(R)),
           NEW first \in Nat, NEW m \in Nat, Fits(first, Len(R) + 1, m),
           NEW memory, DOMAIN memory = 1 .. m,
           NEW once, once = Parallel!Written(memory, Parallel!Reordered(R, first)),
           NEW twice, twice = Parallel!Written(once, Parallel!SentinelCleared(Len(R), first))
    PROVE  Copied(memory, m, first, R, N, once, twice)
<1>1. PICK n \in Nat : n = Len(R) /\ first + n + 1 <= m
  BY DEF Fits
<1>2. Sorted(once, first, R, N)
  <2>1. first + n <= m
    BY <1>1
  <2>2. Fits(first, Len(R), m)
    BY <1>1, <2>1 DEF Fits
  <2> QED
    BY <2>2, SortedAfter
<1>3. ASSUME NEW s \in 0 .. m - 1, s \notin first .. first + n
      PROVE  once[s + 1] = memory[s + 1]
  <2>1. PICK slot \in 1 .. m : slot = s + 1
    BY <1>3
  <2>2. (N - 1) * 0 = 0
    OBVIOUS
  <2>3. slot - 1 \notin first .. first + n + 0 - 1
    BY <1>3, <2>1
  <2>4. Outside(slot, R, first, N, 0)
    BY <1>1, <2>2, <2>3 DEF Outside
  <2>5. Parallel!Written(memory, Parallel!Scattered(R, first, NUM_RADIX, N, 0))[slot] = memory[slot]
    BY <2>1, <2>4, NotScattered, Sizes
  <2> QED
    BY <2>1, <2>5, ReorderedIs
<1>4. DOMAIN once = 1 .. m
  BY DEF Parallel!Written
<1>5. Parallel!SentinelCleared(Len(R), first) = {<<first + n, 0>>}
  BY <1>1 DEF Parallel!SentinelCleared
<1>6. ASSUME NEW s \in 0 .. m - 1
      PROVE  twice[s + 1] = IF s = first + n THEN 0 ELSE once[s + 1]
  <2>1. s + 1 \in DOMAIN once /\ (s + 1) - 1 = s
    BY <1>4
  <2>2. twice[s + 1] =
          IF \E w \in {<<first + n, 0>>} : w[1] = s
          THEN (CHOOSE w \in {<<first + n, 0>>} : w[1] = s)[2] ELSE once[s + 1]
    BY <1>5, <2>1 DEF Parallel!Written
  <2>3. CASE s = first + n
    <3>1. (CHOOSE w \in {<<first + n, 0>>} : w[1] = s) = <<first + n, 0>>
      BY <2>3
    <3> QED
      BY <2>2, <2>3, <3>1
  <2>4. CASE s # first + n
    BY <2>2, <2>4
  <2> QED
    BY <2>3, <2>4
<1>7. SentinelAt(twice, first, Len(R))
  <2>1. first + n \in 0 .. m - 1
    BY <1>1
  <2>2. twice[first + n + 1] = 0
    BY <1>6, <2>1
  <2> QED
    BY <1>1, <2>2 DEF SentinelAt
<1>8. \A s \in first .. first + n - 1 : twice[s + 1] = once[s + 1]
  <2> TAKE s \in first .. first + n - 1
  <2>1. s \in 0 .. m - 1 /\ s # first + n
    BY <1>1
  <2> QED
    BY <1>6, <2>1
<1>9. Sorted(twice, first, R, N)
  <2>1. PICK memory1, later : memory1 = once /\ later = twice
    OBVIOUS
  <2>2. \A s \in first .. first + Len(R) - 1 : later[s + 1] = memory1[s + 1]
    BY <1>1, <1>8, <2>1
  <2>3. Sorted(memory1, first, R, N)
    BY <1>2, <2>1
  <2>4. Sorted(later, first, R, N)
    BY ONLY <2>2, <2>3, SortedStays, R \in Seq(Nat), N \in Nat \ {0}, first \in Nat
  <2> QED
    BY <2>1, <2>4
<1>10. ASSUME NEW s \in 0 .. m - 1, s \notin first .. first + n
       PROVE  once[s + 1] = memory[s + 1] /\ twice[s + 1] = memory[s + 1]
  <2>1. s # first + n
    BY <1>10
  <2> QED
    BY <1>3, <1>6, <1>10, <2>1
<1> QED
  BY <1>1, <1>2, <1>7, <1>9, <1>10 DEF Copied

(* The first half of a histogram join of a cluster: what it writes is not  *)
(* where other threads have copied theirs.                                 *)
LEMMA ReorderFound ==
    ASSUME ParallelInv, ContentInv, FoundInv, NEW t \in Threads, Parallel!Reorder(t)
    PROVE  FoundInv'
<1> DEFINE R == Parallel!Tuples(t, "R", "rel")
           first == task[t].R.first
           once == Parallel!Written(mem.R.tmp, Parallel!Reordered(R, first))
           twice == Parallel!Written(once, Parallel!SentinelCleared(Len(R), first))
           written == IF join_function = "optimized" THEN twice ELSE once
<1>1. /\ pc[t] = "build" /\ pc' = [pc EXCEPT ![t] = "probe"]
      /\ join_function # "bucket_chaining"
      /\ mem' = [mem EXCEPT !.R.tmp = written]
      /\ hist' = [hist EXCEPT ![t] = Parallel!HistAfterReorder(R)]
      /\ UNCHANGED <<in, join_function, part_queue, join_queue, task, output, results>>
  BY DEF Parallel!Reorder
<1>2. /\ in \in Inputs /\ pc \in [Threads -> Parallel!Steps] /\ task \in [Threads -> TaskSet]
      /\ mem = [X \in Rels |-> [tmp |-> mem[X].tmp, rel |-> mem[X].rel]]
      /\ mem["R"].tmp \in Memory("R") /\ hist = [u \in Threads |-> hist[u]]
      /\ t \in InJoin /\ "R" \in Rels
  BY <1>1 DEF ParallelInv, Typed, InJoin, Rels
<1>3. R \in Seq(Nat) /\ Len(R) = task[t]["R"].n /\ Len(R) # 0
  BY <1>2, JoinTuples
<1>4. PICK N \in Nat \ {0} : N = Parallel!get_hist_size(Len(R))
  BY <1>3, HistSize
<1>5. PICK m \in Nat : m = Len(in["R"]) + RELATION_PADDING
  <2>1. Len(in["R"]) \in Nat /\ RELATION_PADDING \in Nat
    BY <1>2, InputTypes, Sizes
  <2> QED
    BY <2>1
<1>6. PICK n \in Nat, base \in Nat :
        n = Len(R) /\ base = first /\ base + n + 1 <= m /\ task[t]["R"].n = n
  <2>1. task[t] \in JoinTasks
    BY <1>2 DEF JoinTasks
  <2>2. /\ task[t]["R"].first \in Nat /\ task[t]["R"].n \in Nat
        /\ task[t]["R"].first + task[t]["R"].n + 1 <= Len(in["R"]) + RELATION_PADDING
    BY <1>2, <2>1, WithinMemory DEF ParallelInv
  <2> QED
    BY <1>3, <1>5, <2>2
<1>7. PICK memory : memory = mem["R"].tmp /\ DOMAIN memory = 1 .. m
  BY <1>2, <1>5 DEF Memory
<1>8. /\ Sorted(once, base, R, N) /\ Sorted(twice, base, R, N)
      /\ SentinelAt(twice, base, n)
      /\ \A s \in 0 .. m - 1 : s \notin base .. base + n =>
            once[s + 1] = memory[s + 1] /\ twice[s + 1] = memory[s + 1]
  <2>1. base + (n + 1) <= m
    BY <1>6
  <2>2. Fits(base, Len(R) + 1, m)
    BY <1>6, <2>1 DEF Fits
  <2>3. PICK Y \in Seq(Nat) : Y = R
    BY <1>3
  <2>4. PICK o : o = Parallel!Written(memory, Parallel!Reordered(Y, base)) /\ o = once
    BY <1>6, <1>7, <2>3
  <2>5. PICK w : w = Parallel!Written(o, Parallel!SentinelCleared(Len(Y), base)) /\ w = twice
    BY <1>6, <2>3, <2>4
  <2> HIDE DEF R, once, twice
  <2>6. Fits(base, Len(Y) + 1, m) /\ N = Parallel!get_hist_size(Len(Y))
    BY <1>4, <2>2, <2>3
  <2>7. Copied(memory, m, base, Y, N, o, w)
    BY <1>7, <2>4, <2>5, <2>6, CopyWrites
  <2> QED
    BY <1>6, <2>3, <2>4, <2>5, <2>7 DEF Copied
<1> HIDE DEF once, twice
<1>9. /\ Sorted(written, base, R, N)
      /\ join_function = "optimized" => SentinelAt(written, base, n)
      /\ \A s \in 0 .. m - 1 : s \notin base .. base + n => written[s + 1] = memory[s + 1]
  BY <1>8
<1> HIDE DEF written
<1>10. mem' = [X \in Rels |-> [tmp |-> IF X = "R" THEN written ELSE mem[X].tmp, rel |-> mem[X].rel]]
  BY <1>1, <1>2
<1>11. mem'["R"].tmp = written /\ \A X \in Rels : mem'[X].rel = mem[X].rel
  BY <1>2, <1>10
<1>12. /\ pc'[t] = "probe" /\ hist'[t] = Parallel!HistAfterReorder(R)
       /\ \A u \in Threads \ {t} : pc'[u] = pc[u] /\ hist'[u] = hist[u]
  BY <1>1, <1>2
<1>13. InSecondPass' = InSecondPass /\ InJoin' = InJoin
  BY <1>1, <1>2, <1>12 DEF InSecondPass, InJoin
<1>14. WaitingParts' = WaitingParts /\ JoinTasks' = JoinTasks
  BY <1>1, <1>13 DEF WaitingParts, JoinTasks
<1>15. \A r : Waits(r)' <=> Waits(r)
  BY <1>1, <1>11, <1>14, WaitsKept
<1>16. FoundRight'
  BY <1>1, <1>15, FoundKept DEF FoundInv
<1>17. OneOwner'
  BY <1>1, <1>13, OneOwnerKept DEF FoundInv
<1>18. QueuesEmptied'
  BY <1>1, <1>12, QueuesKept DEF FoundInv
<1>19. \A u \in Threads : Parallel!Tuples(u, "R", "rel")' = Parallel!Tuples(u, "R", "rel")
  BY <1>1, <1>2, <1>11 DEF Parallel!Tuples
<1>20. Prepared'
  <2> SUFFICES ASSUME NEW u \in Threads, pc'[u] = "probe"
               PROVE  PreparedFor(u, Parallel!Tuples(u, "R", "rel"))'
    BY DEF Prepared
  <2>1. CASE u = t
    <3>1. /\ hist'[t] = Parallel!HistAfterReorder(R) /\ join_function' # "bucket_chaining"
          /\ Sorted(mem'["R"].tmp, task'[t]["R"].first, R, HistSizeOf(R))
          /\ join_function' = "optimized" =>
                SentinelAt(mem'["R"].tmp, task'[t]["R"].first, Len(R))
      BY <1>1, <1>4, <1>6, <1>9, <1>11, <1>12 DEF HistSizeOf
    <3>2. Parallel!Tuples(t, "R", "rel")' = R
      BY <1>19
    <3> QED
      BY <2>1, <3>1, <3>2 DEF PreparedFor, HistSizeOf
  <2>2. CASE u # t
    <3>1. pc[u] = "probe" /\ hist'[u] = hist[u]
      BY <1>12, <2>2
    <3>2. u \in InJoin
      BY <3>1 DEF InJoin
    <3>3. PICK Q \in Seq(Nat) : Q = Parallel!Tuples(u, "R", "rel")
                               /\ Len(Q) = task[u]["R"].n /\ Len(Q) # 0
      BY <1>2, <3>2, JoinTuples
    <3>4. PreparedFor(u, Q)
      BY <3>1, <3>3 DEF FoundInv, Prepared
    <3>5. PICK M \in Nat \ {0} : M = HistSizeOf(Q)
      BY <3>3, HistSize DEF HistSizeOf
    <3>6. /\ task[u] \in JoinTasks /\ task[t] \in JoinTasks /\ task[u] # task[t]
      BY <1>2, <2>2, <3>2 DEF JoinTasks, FoundInv, OneOwner
    <3>7. PICK place \in Nat, k \in Nat :
            place = task[u]["R"].first /\ k = task[u]["R"].n /\ k = Len(Q)
      BY <1>2, <3>3, TaskTyped
    <3>8. /\ Parallel!Reach(task[u], "R", 1) = place .. place + k + 1 - 1
          /\ Parallel!Reach(task[t], "R", 1) = base .. base + n + 1 - 1
      BY <1>6, <3>7 DEF Parallel!Reach
    <3>9. place .. place + k + 1 - 1 \subseteq 0 .. m - 1
      <4>1. Parallel!Reach(task[u], "R", 1) \subseteq 0 .. Len(in["R"]) + RELATION_PADDING - 1
        BY <1>2, <3>6, WithinMemory DEF ParallelInv
      <4>2. Len(in["R"]) + RELATION_PADDING - 1 = m - 1
        <5>1. Len(in["R"]) \in Nat /\ RELATION_PADDING \in Nat
          BY <1>2, InputTypes, Sizes
        <5> QED
          BY <1>5, <5>1
      <4>3. Parallel!Reach(task[u], "R", 1) \subseteq 0 .. m - 1
        BY ONLY <4>1, <4>2
      <4> QED
        BY ONLY <3>8, <4>3
    <3>10. Parallel!Reach(task[u], "R", 1) \cap Parallel!Reach(task[t], "R", 1) = {}
      BY <1>2, <3>6 DEF ParallelInv, Places
    <3>11. \A s \in place .. place + k : written[s + 1] = memory[s + 1]
      <4> TAKE s \in place .. place + k
      <4>1. s \in place .. place + k + 1 - 1
        OBVIOUS
      <4>2. s \in 0 .. m - 1 /\ s \notin base .. base + n + 1 - 1
        BY <3>8, <3>9, <3>10, <4>1
      <4>3. s \notin base .. base + n
        BY <4>2
      <4> QED
        BY <1>9, <4>2, <4>3
    <3>12. Sorted(written, place, Q, M)
      <4>1. PICK later : later = written
        OBVIOUS
      <4>2. Sorted(memory, place, Q, M)
        BY <1>7, <3>4, <3>5, <3>7 DEF PreparedFor
      <4>3. \A s \in place .. place + Len(Q) - 1 : later[s + 1] = memory[s + 1]
        <5>1. \A s \in place .. place + k - 1 : s \in place .. place + k
          OBVIOUS
        <5> QED
          BY <3>7, <3>11, <4>1, <5>1
      <4>4. Sorted(later, place, Q, M)
        BY ONLY <4>2, <4>3, SortedStays, Q \in Seq(Nat), M \in Nat \ {0}, place \in Nat
      <4> QED
        BY <4>1, <4>4
    <3>13. join_function = "optimized" => SentinelAt(written, place, Len(Q))
      <4>1. join_function = "optimized" => SentinelAt(memory, place, Len(Q))
        BY <1>7, <3>4, <3>7 DEF PreparedFor
      <4>2. place + k \in place .. place + k
        OBVIOUS
      <4>3. written[place + k + 1] = memory[place + k + 1]
        BY <3>11, <4>2
      <4> QED
        BY <3>7, <4>1, <4>3 DEF SentinelAt
    <3>14. /\ hist'[u] = Parallel!HistAfterReorder(Q) /\ join_function' # "bucket_chaining"
           /\ Sorted(mem'["R"].tmp, task'[u]["R"].first, Q, HistSizeOf(Q))
           /\ join_function' = "optimized" =>
                SentinelAt(mem'["R"].tmp, task'[u]["R"].first, Len(Q))
      <4>1. hist[u] = Parallel!HistAfterReorder(Q)
        BY <3>4 DEF PreparedFor
      <4> QED
        BY <1>1, <1>11, <3>1, <3>5, <3>7, <3>12, <3>13, <4>1
    <3>15. Parallel!Tuples(u, "R", "rel")' = Q
      BY <1>19, <3>3
    <3> QED
      BY <3>14, <3>15 DEF PreparedFor, HistSizeOf
  <2> QED
    BY <2>1, <2>2
<1> QED
  BY <1>16, <1>17, <1>18, <1>20 DEF FoundInv

(* Every step of a thread keeps the results right. *)
LEMMA ThreadStepFound ==
    ASSUME ParallelInv, ContentInv, FoundInv, NEW t \in Threads, Parallel!ThreadStep(t)
    PROVE  FoundInv'
<1>1. CASE Parallel!ClusterR(t)
  <2>1. t \in InSecondPass /\ "R" \in Rels
    BY <1>1 DEF Parallel!ClusterR, InSecondPass, Rels
  <2>2. /\ Parallel!radix_cluster(t, "R") /\ pc' = [pc EXCEPT ![t] = "clusterS"]
        /\ UNCHANGED <<in, join_function, part_queue, join_queue, task, hist, results>>
    BY <1>1 DEF Parallel!ClusterR
  <2> QED
    BY <2>1, <2>2, ClusterFound
<1>2. CASE Parallel!ClusterS(t)
  <2>1. t \in InSecondPass /\ "S" \in Rels
    BY <1>2 DEF Parallel!ClusterS, InSecondPass, Rels
  <2>2. /\ Parallel!radix_cluster(t, "S") /\ pc' = [pc EXCEPT ![t] = "add"]
        /\ UNCHANGED <<in, join_function, part_queue, join_queue, task, hist, results>>
    BY <1>2 DEF Parallel!ClusterS
  <2> QED
    BY <2>1, <2>2, ClusterFound
<1>3. CASE Parallel!GetPartitionTask(t)
  BY <1>3, GetPartitionTaskFound
<1>4. CASE Parallel!AddJoinTasks(t)
  BY <1>4, AddFound
<1>5. CASE Parallel!EndPartitioning(t)
  BY <1>5, EndPartitioningFound
<1>6. CASE Parallel!GetJoinTask(t)
  BY <1>6, GetJoinTaskFound
<1>7. CASE Parallel!JoinBuckets(t)
  BY <1>7, JoinBucketsFound
<1>8. CASE Parallel!Reorder(t)
  BY <1>8, ReorderFound
<1>9. CASE Parallel!Probe(t)
  BY <1>9, ProbeFound
<1>10. CASE Parallel!EndJoining(t)
  BY <1>10, EndJoiningFound
<1> QED
  BY <1>1, <1>2, <1>3, <1>4, <1>5, <1>6, <1>7, <1>8, <1>9, <1>10 DEF Parallel!ThreadStep

(* A partition of which both relations have tuples is a task. *)
LEMMA FirstTaskIn ==
    ASSUME NEW input, NEW c \in 0 .. FANOUT_PASS1 - 1,
           SizeOf(input["R"], 1, FANOUT_PASS1, c) > 0, SizeOf(input["S"], 1, FANOUT_PASS1, c) > 0
    PROVE  FirstTask(input, c) \in Parallel!FirstPassTasks(input)
<1> DEFINE histogram == [X \in Rels |-> Histogram(input[X], 1, FANOUT_PASS1)]
           First(X, d) == SumBelow(histogram[X], d) + d * PADDING_TUPLES
<1>1. Parallel!FirstPassTasks(input) =
        {Parallel!Task(First("R", d), histogram.R[d], First("S", d), histogram.S[d]) :
            d \in {d \in 0 .. FANOUT_PASS1 - 1 : histogram.R[d] > 0 /\ histogram.S[d] > 0}}
  BY HistogramIs, SumSame, SizesSame DEF Parallel!FirstPassTasks, Parallel!Rels, Rels
<1>2. histogram.R = Histogram(input.R, 1, FANOUT_PASS1)
      /\ histogram.S = Histogram(input.S, 1, FANOUT_PASS1)
  BY DEF Rels
<1>3. FirstTask(input, c) =
        Parallel!Task(First("R", c), histogram.R[c], First("S", c), histogram.S[c])
  BY <1>2 DEF FirstTask, StartOf, SizeOf
<1>4. histogram.R[c] > 0 /\ histogram.S[c] > 0
  BY <1>2 DEF SizeOf
<1> QED
  BY <1>1, <1>3, <1>4

(* In the beginning everything waits. *)
LEMMA InitFound == Parallel!Init => FoundInv
<1> SUFFICES ASSUME Parallel!Init PROVE FoundInv
  OBVIOUS
<1>1. PICK input \in Inputs : Parallel!InitWith(input)
  BY DEF Parallel!Init
<1>2. /\ in \in Inputs /\ part_queue = Parallel!FirstPassTasks(in) /\ join_queue = {}
      /\ pc = [t \in Threads |-> "partition"] /\ results = [t \in Threads |-> 0]
  BY <1>1 DEF Parallel!InitWith
<1>3. InJoin = {} /\ WaitingParts = Parallel!FirstPassTasks(in)
  BY <1>2 DEF InJoin, InSecondPass, WaitingParts
<1>4. ASSUME NEW p \in Items PROVE \E r : r = ItemRadix(p) /\ Waits(r)
  <2>1. PICK r : r = ItemRadix(p)
    OBVIOUS
  <2>2. ClusterOf("R", r) # {} /\ ClusterOf("S", r) # {}
    BY <1>2, <2>1, ItemsInClusters
  <2>3. PICK x : x \in ClusterOf("R", r)
    BY <2>2
  <2>4. PICK c \in 0 .. FANOUT_PASS1 - 1 : \E d \in 0 .. FANOUT_PASS2 - 1 : r = RadixOf(c, d)
    BY <1>2, <2>3, RadixSplits DEF Rels
  <2>5. PICK d \in 0 .. FANOUT_PASS2 - 1 : r = RadixOf(c, d)
    BY <2>4
  <2>6. ASSUME NEW X \in Rels, ClusterOf(X, r) # {} PROVE SizeOf(in[X], 1, FANOUT_PASS1, c) > 0
    <3>1. PartOf(X, c) # {}
      BY <1>2, <2>5, <2>6, ClusterInPart
    <3>2. in[X] \in Seq(Nat) /\ Cardinality(PartOf(X, c)) \in Nat /\ PartOf(X, c) \subseteq DOMAIN in[X]
      BY <1>2, PartPlaces
    <3>3. PICK n \in Nat : n = Len(in[X]) /\ DOMAIN in[X] = 1 .. n
      BY <3>2
    <3>4. IsFiniteSet(PartOf(X, c))
      BY <3>2, <3>3, Ranks
    <3>5. Cardinality(PartOf(X, c)) # 0
      BY <3>1, <3>4, FS_EmptySet
    <3>6. SizeOf(in[X], 1, FANOUT_PASS1, c) = Cardinality(PartOf(X, c))
      BY SizeIs DEF PartOf
    <3> QED
      BY <3>2, <3>5, <3>6
  <2>7. FirstTask(in, c) \in Parallel!FirstPassTasks(in)
    BY <2>2, <2>6, FirstTaskIn DEF Rels
  <2>8. PartWaits(r)
    BY <1>3, <2>5, <2>7 DEF PartWaits
  <2> QED
    BY <2>1, <2>8 DEF Waits
<1>5. FoundItems = {}
  BY <1>4 DEF FoundItems
<1>6. Counts = {}
  <2>1. \A t \in Threads : 1 .. results[t] = {}
    BY <1>2
  <2> QED
    BY <2>1 DEF Counts
<1>7. FoundRight
  BY <1>5, <1>6, FS_EmptySet DEF FoundRight
<1>8. OneOwner /\ QueuesEmptied /\ Prepared
  BY <1>2, <1>3 DEF OneOwner, QueuesEmptied, Prepared
<1> QED
  BY <1>7, <1>8 DEF FoundInv

(* When all threads are done nothing waits. *)
LEMMA ResultFollows ==
    ASSUME ParallelInv, ContentInv, FoundInv
    PROVE  Parallel!ResultRight
<1> SUFFICES ASSUME \A t \in Threads : pc[t] = "done", ~Parallel!SentinelMet
             PROVE  Parallel!TotalResult = Parallel!Matches(in.R, in.S)
  BY DEF Parallel!ResultRight, Parallel!ResultIsCount
<1>1. PICK t \in Threads : TRUE
  BY ThreadsAssumption
<1>2. part_queue = {} /\ join_queue = {} /\ InSecondPass = {} /\ InJoin = {}
  BY <1>1 DEF FoundInv, QueuesEmptied, InSecondPass, InJoin
<1>3. WaitingParts = {} /\ JoinTasks = {}
  BY <1>2 DEF WaitingParts, JoinTasks
<1>4. \A r : ~ Waits(r)
  BY <1>3 DEF Waits, PartWaits, TaskWaits
<1>5. FoundItems = Items
  BY <1>4 DEF FoundItems
<1>6. Cardinality(Counts) = Cardinality(Items)
  BY <1>5 DEF FoundInv, FoundRight
<1>7. in \in Inputs
  BY DEF ParallelInv, Typed
<1>8. Parallel!TotalResult = Cardinality(Counts)
  BY CardinalitySame DEF Parallel!TotalResult, Counts
<1> DEFINE extra == IF join_function = "optimized" /\ RadixTuples("R", 0) # <<>>
                    THEN Parallel!SentinelMatches(RadixTuples("R", 0), RadixTuples("S", 0))
                    ELSE 0
<1>9. /\ Cardinality(Items) = Parallel!Matches(in["R"], in["S"]) + extra
      /\ Parallel!Matches(in["R"], in["S"]) \in Nat /\ extra \in Nat
  BY <1>7, AllItems
<1>10. ~ (extra > 0)
  <2>1. join_function = "optimized" =>
           ~ (Parallel!SentinelMatches(RadixTuples("R", 0), RadixTuples("S", 0)) > 0)
    BY DEF Parallel!SentinelMet, RadixTuples
  <2> QED
    BY <2>1
<1> HIDE DEF extra
<1>11. Cardinality(Items) = Parallel!Matches(in["R"], in["S"])
  BY <1>9, <1>10
<1> QED
  BY <1>6, <1>8, <1>11

(* Tuples that are picked and moved around twice. *)
LEMMA ArrangedTwice ==
    ASSUME NEW X, NEW V, NEW Y, NEW W, NEW Z, Arranged(X, V, Y), Arranged(Y, W, Z)
    PROVE  Arranged(X, V \cap W, Z)
<1>1. PICK f : Arranges(f, X, V, Y)
  BY DEF Arranged
<1>2. PICK g : Arranges(g, Y, W, Z)
  BY DEF Arranged
<1> DEFINE A == WithKeys(X, V)
           B == WithKeys(Y, W)
           C == WithKeys(X, V \cap W)
           h == [x \in C |-> g[f[x]]]
<1>3. /\ f \in [A -> DOMAIN Y] /\ \A x \in A : Y[f[x]] = X[x]
      /\ \A x, y \in A : f[x] = f[y] => x = y
      /\ \A k \in DOMAIN Y : \E x \in A : f[x] = k
  BY <1>1 DEF Arranges
<1>4. /\ g \in [B -> DOMAIN Z] /\ \A x \in B : Z[g[x]] = Y[x]
      /\ \A x, y \in B : g[x] = g[y] => x = y
      /\ \A k \in DOMAIN Z : \E x \in B : g[x] = k
  BY <1>2 DEF Arranges
<1>5. \A x : x \in C <=> x \in A /\ f[x] \in B
  <2>1. \A x : x \in C <=> x \in A /\ X[x] \in W
    BY DEF WithKeys
  <2>2. \A x \in A : f[x] \in B <=> X[x] \in W
    <3> TAKE x \in A
    <3>1. f[x] \in DOMAIN Y /\ Y[f[x]] = X[x]
      BY <1>3
    <3> QED
      BY <3>1 DEF WithKeys
  <2> QED
    BY <2>1, <2>2
<1> HIDE DEF A, B, C
<1>6. h \in [C -> DOMAIN Z] /\ \A x \in C : h[x] = g[f[x]]
  BY <1>4, <1>5
<1> HIDE DEF h
<1>7. \A x \in C : Z[h[x]] = X[x]
  BY <1>3, <1>4, <1>5, <1>6
<1>8. \A x, y \in C : h[x] = h[y] => x = y
  BY <1>3, <1>4, <1>5, <1>6
<1>9. \A k \in DOMAIN Z : \E x \in C : h[x] = k
  <2> TAKE k \in DOMAIN Z
  <2>1. PICK y \in B : g[y] = k
    BY <1>4
  <2>2. y \in DOMAIN Y
    BY DEF B, WithKeys
  <2>3. PICK x \in A : f[x] = y
    BY <1>3, <2>2
  <2> QED
    BY <1>5, <1>6, <2>1, <2>3
<1>10. Arranges(h, X, V \cap W, Z)
  BY <1>6, <1>7, <1>8, <1>9 DEF Arranges, C
<1> QED
  BY <1>10 DEF Arranged

(* A relation is made up of all its tuples. *)
LEMMA ArrangedSame ==
    ASSUME NEW Y \in Seq(Nat)
    PROVE  Arranged(Y, Nat, Y)
<1> DEFINE f == [x \in DOMAIN Y |-> x]
<1>1. WithKeys(Y, Nat) = DOMAIN Y
  <2>1. \A x \in DOMAIN Y : Y[x] \in Nat
    OBVIOUS
  <2> QED
    BY <2>1 DEF WithKeys
<1>2. Arranges(f, Y, Nat, Y)
  BY <1>1 DEF Arranges
<1> QED
  BY <1>2 DEF Arranged

(* What is kept of a relation is made up of the tuples that are kept. *)
LEMMA ArrangedKept ==
    ASSUME NEW Y \in Seq(Nat), NEW V, NEW T, T = Parallel!TuplesAt(Y, WithKeys(Y, V))
    PROVE  T \in Seq(Nat) /\ Arranged(Y, V, T)
<1>1. PICK at : at = WithKeys(Y, V) /\ at \subseteq DOMAIN Y
  BY DEF WithKeys
<1>2. /\ T \in Seq(Nat)
      /\ \A x \in at : PlaceIn(at, x) \in DOMAIN T /\ T[PlaceIn(at, x)] = Y[x]
      /\ \A x, y \in at : PlaceIn(at, x) = PlaceIn(at, y) => x = y
      /\ \A k \in DOMAIN T : \E x \in at : PlaceIn(at, x) = k
  BY <1>1, TuplesByPlace
<1> DEFINE f == [x \in at |-> PlaceIn(at, x)]
<1>3. Arranges(f, Y, V, T)
  BY <1>1, <1>2 DEF Arranges
<1> QED
  BY <1>2, <1>3 DEF Arranged

(* They are what is found where relations are made up of these tuples. *)
LEMMA ArrangedMatches ==
    ASSUME NEW R \in Seq(Nat), NEW S \in Seq(Nat), NEW V, NEW W,
           NEW Y \in Seq(Nat), NEW Z \in Seq(Nat), Arranged(R, V, Y), Arranged(S, W, Z)
    PROVE  Parallel!Matches(Y, Z) = Cardinality(PairsWithKeys(R, S, V, W))
<1>1. PICK f : Arranges(f, R, V, Y)
  BY DEF Arranged
<1>2. PICK g : Arranges(g, S, W, Z)
  BY DEF Arranged
<1> DEFINE A == WithKeys(R, V)
           B == WithKeys(S, W)
           P == PairsWithKeys(R, S, V, W)
           E == EqualPairs(Y, Z)
           h == [p \in P |-> <<f[p[1]], g[p[2]]>>]
<1>3. /\ f \in [A -> DOMAIN Y] /\ \A x \in A : Y[f[x]] = R[x]
      /\ \A x, y \in A : f[x] = f[y] => x = y
      /\ \A k \in DOMAIN Y : \E x \in A : f[x] = k
  BY <1>1 DEF Arranges
<1>4. /\ g \in [B -> DOMAIN Z] /\ \A x \in B : Z[g[x]] = S[x]
      /\ \A x, y \in B : g[x] = g[y] => x = y
      /\ \A k \in DOMAIN Z : \E x \in B : g[x] = k
  BY <1>2 DEF Arranges
<1>5. IsFiniteSet(P)
  <2>1. P \subseteq EqualPairs(R, S)
    BY DEF PairsWithKeys
  <2> HIDE DEF P
  <2> QED
    BY <2>1, EqualPairsFinite, FS_Subset
<1>6. \A p : p \in P <=> \E x \in A, y \in B : p = <<x, y>> /\ R[x] = S[y]
  <2>1. \A p : p \in P <=> \E x \in DOMAIN R, y \in DOMAIN S :
                              p = <<x, y>> /\ R[x] = S[y] /\ R[x] \in V /\ S[y] \in W
    BY DEF PairsWithKeys, EqualPairs
  <2> HIDE DEF P
  <2> QED
    BY <2>1 DEF WithKeys
<1>7. \A p : p \in E <=> \E k \in DOMAIN Y, l \in DOMAIN Z : p = <<k, l>> /\ Y[k] = Z[l]
  BY DEF EqualPairs
<1> HIDE DEF P, E, A, B
<1>8. h \in [P -> E]
  <2> SUFFICES ASSUME NEW p \in P PROVE <<f[p[1]], g[p[2]]>> \in E
    OBVIOUS
  <2>1. PICK x \in A, y \in B : p = <<x, y>> /\ R[x] = S[y]
    BY <1>6
  <2> QED
    BY <1>3, <1>4, <1>7, <2>1
<1>9. \A p, q \in P : h[p] = h[q] => p = q
  <2> SUFFICES ASSUME NEW p \in P, NEW q \in P, h[p] = h[q] PROVE p = q
    OBVIOUS
  <2>1. PICK x \in A, y \in B : p = <<x, y>>
    BY <1>6
  <2>2. PICK z \in A, v \in B : q = <<z, v>>
    BY <1>6
  <2>3. f[x] = f[z] /\ g[y] = g[v]
    BY <2>1, <2>2
  <2> QED
    BY <1>3, <1>4, <2>1, <2>2, <2>3
<1>10. \A e \in E : \E p \in P : h[p] = e
  <2> TAKE e \in E
  <2>1. PICK k \in DOMAIN Y, l \in DOMAIN Z : e = <<k, l>> /\ Y[k] = Z[l]
    BY <1>7
  <2>2. PICK x \in A, y \in B : f[x] = k /\ g[y] = l
    BY <1>3, <1>4, <2>1
  <2>3. R[x] = S[y]
    BY <1>3, <1>4, <2>1, <2>2
  <2>4. <<x, y>> \in P
    BY <1>6, <2>3
  <2> QED
    BY <2>1, <2>2, <2>4
<1>11. Cardinality(E) = Cardinality(P)
  <2> HIDE DEF h
  <2> QED
    BY <1>5, <1>8, <1>9, <1>10, PairedOff
<1> QED
  BY <1>11, EqualPairsFinite DEF P, E

(* A function that pairs off the numbers from 1 to n with some of them     *)
(* pairs them off with all.                                                *)
LEMMA PairedWithAll ==
    ASSUME NEW n \in Nat, NEW f \in [1 .. n -> 1 .. n],
           \A x, y \in 1 .. n : f[x] = f[y] => x = y
    PROVE  \A k \in 1 .. n : \E x \in 1 .. n : f[x] = k
<1> DEFINE A == 1 .. n
           T == {f[x] : x \in A}
<1>1. IsFiniteSet(A) /\ Cardinality(A) = n
  BY Interval
<1> HIDE DEF A
<1>2. f \in [A -> T] /\ \A y \in T : \E x \in A : f[x] = y
  BY DEF A
<1>3. \A x, y \in A : f[x] = f[y] => x = y
  BY DEF A
<1>4. T \subseteq A
  BY DEF A
<1> HIDE DEF T
<1>5. Cardinality(T) = Cardinality(A)
  BY ONLY <1>1, <1>2, <1>3, PairedOff
<1>6. T = A
  BY <1>1, <1>4, <1>5, FS_Subset
<1> QED
  BY <1>2, <1>6 DEF A

(* One of two tuples goes before the other. *)
LEMMA OneGoesBefore ==
    ASSUME NEW Y \in Seq(Nat), NEW shift \in Nat \ {0}, NEW fanOut \in Nat \ {0},
           NEW x \in DOMAIN Y, NEW y \in DOMAIN Y, x # y
    PROVE  GoesBefore(Y, shift, fanOut, x, y) \/ GoesBefore(Y, shift, fanOut, y, x)
<1>1. x \in Nat /\ y \in Nat /\ Y[x] \in Nat /\ Y[y] \in Nat
  OBVIOUS
<1>2. PICK a \in Nat, b \in Nat :
        a = HASH_BIT_MODULO(Y[x], shift, fanOut) /\ b = HASH_BIT_MODULO(Y[y], shift, fanOut)
  <2>1. /\ HASH_BIT_MODULO(Y[x], shift, fanOut) \in 0 .. fanOut - 1
        /\ HASH_BIT_MODULO(Y[y], shift, fanOut) \in 0 .. fanOut - 1
    BY <1>1, RadixTyped
  <2> QED
    BY <2>1
<1>3. a < b \/ b < a \/ (a = b /\ (x < y \/ y < x))
  BY <1>1, <1>2
<1> QED
  BY <1>2, <1>3 DEF GoesBefore

(* The slot of a tuple without padding is one of as many as there are      *)
(* tuples, and behind those of the tuples that go before it.               *)
LEMMA SlotsInOrder ==
    ASSUME NEW Y \in Seq(Nat), NEW shift \in Nat \ {0}, NEW fanOut \in Nat \ {0},
           NEW x \in DOMAIN Y
    PROVE  /\ SlotOf(Y, 0, shift, fanOut, 0, x) \in 0 .. Len(Y) - 1
           /\ \A y \in DOMAIN Y : GoesBefore(Y, shift, fanOut, x, y) =>
                SlotOf(Y, 0, shift, fanOut, 0, x) < SlotOf(Y, 0, shift, fanOut, 0, y)
<1>1. PICK n \in Nat : n = Len(Y) /\ DOMAIN Y = 1 .. n
  OBVIOUS
<1>2. PICK first \in Nat, padding \in Nat : first = 0 /\ padding = 0
  OBVIOUS
<1> DEFINE Radix(y) == HASH_BIT_MODULO(Y[y], shift, fanOut)
           Start(c) == StartOf(Y, shift, fanOut, padding, c)
           Size(c) == SizeOf(Y, shift, fanOut, c)
           Slot(y) == SlotOf(Y, first, shift, fanOut, padding, y)
<1>3. ASSUME NEW y \in DOMAIN Y
      PROVE  /\ Radix(y) \in 0 .. fanOut - 1 /\ Slot(y) \in Nat
             /\ first + Start(Radix(y)) <= Slot(y)
             /\ Slot(y) < first + Start(Radix(y)) + Size(Radix(y))
  BY SlotsOfClusters
<1>4. ASSUME NEW c \in 0 .. fanOut - 1
      PROVE  /\ Size(c) \in Nat /\ Start(c) \in Nat
             /\ Start(c) + Size(c) <= n
             /\ \A d \in c + 1 .. fanOut - 1 : Start(c) + Size(c) <= Start(d)
  <2>1. /\ Size(c) \in Nat /\ Start(c) \in Nat
        /\ Start(c) + Size(c) <= n + (fanOut - 1) * padding
        /\ \A d \in c + 1 .. fanOut - 1 : Start(c) + Size(c) + padding <= Start(d)
    BY <1>1, Layout
  <2>2. (fanOut - 1) * padding = 0
    BY <1>2
  <2>3. PICK s \in Nat, k \in Nat : s = Start(c) /\ k = Size(c)
    BY <2>1
  <2>4. s + k <= n
    <3>1. s + k <= n + (fanOut - 1) * padding
      BY <2>1, <2>3
    <3> QED
      BY ONLY <2>2, <3>1, n \in Nat
  <2>5. \A d \in c + 1 .. fanOut - 1 : s + k <= Start(d)
    <3>1. s + k + padding = s + k
      BY <1>2
    <3> QED
      BY <2>1, <2>3, <3>1
  <2> QED
    BY <2>1, <2>3, <2>4, <2>5
<1> HIDE DEF Start, Size
<1>5. Slot(x) \in 0 .. n - 1
  <2>1. PICK c \in 0 .. fanOut - 1 : c = Radix(x)
    BY <1>3
  <2>2. PICK s \in Nat, k \in Nat : s = Start(c) /\ k = Size(c) /\ s + k <= n
    BY <1>4
  <2>3. Slot(x) \in Nat /\ Slot(x) < first + s + k
    BY <1>3, <2>1, <2>2
  <2> HIDE DEF Slot
  <2> QED
    BY <1>2, <2>2, <2>3
<1>6. ASSUME NEW y \in DOMAIN Y, GoesBefore(Y, shift, fanOut, x, y) PROVE Slot(x) < Slot(y)
  <2>1. CASE Radix(x) < Radix(y)
    <3>1. PICK c \in 0 .. fanOut - 1, d \in 0 .. fanOut - 1 :
            c = Radix(x) /\ d = Radix(y) /\ d \in c + 1 .. fanOut - 1
      <4>1. Radix(x) \in 0 .. fanOut - 1 /\ Radix(y) \in 0 .. fanOut - 1
        BY <1>3
      <4> HIDE DEF Radix
      <4> QED
        BY <2>1, <4>1
    <3>2. PICK s \in Nat, k \in Nat : s = Start(c) /\ k = Size(c) /\ s + k <= Start(d)
      BY <1>4, <3>1
    <3>3. PICK t \in Nat : t = Start(d)
      BY <1>4
    <3>4. PICK a \in Nat, b \in Nat : a = Slot(x) /\ b = Slot(y) /\ a < first + s + k /\ first + t <= b
      BY <1>3, <3>1, <3>2, <3>3
    <3>5. a < b
      <4>1. a < first + s + k /\ s + k <= t /\ first + t <= b
        BY <3>2, <3>3, <3>4
      <4> QED
        BY ONLY <4>1, a \in Nat, b \in Nat, first \in Nat, s \in Nat, k \in Nat, t \in Nat
    <3> QED
      BY <3>4, <3>5
  <2>2. CASE Radix(x) = Radix(y) /\ x < y
    <3> DEFINE at == At(Y, shift, fanOut, Radix(x))
    <3>1. x \in at /\ y \in at /\ at \subseteq 1 .. n
      BY <1>1, <2>2 DEF At
    <3> HIDE DEF at
    <3>2. PICK a \in Nat, b \in Nat : a = RankIn(at, x) /\ b = RankIn(at, y)
      <4>1. /\ RankIn(at, x) \in 0 .. Cardinality(at) - 1 /\ RankIn(at, y) \in 0 .. Cardinality(at) - 1
            /\ Cardinality(at) \in Nat
        BY <3>1, Ranks
      <4> QED
        BY <4>1
    <3>3. a < b
      BY <2>2, <3>1, <3>2, RanksInOrder
    <3>4. PICK s \in Nat : s = Start(Radix(x))
      BY <1>3, <1>4
    <3>5. Slot(x) = first + s + a /\ Slot(y) = first + s + b
      BY <2>2, <3>2, <3>4 DEF SlotOf, Start, at
    <3> QED
      BY <3>3, <3>5
  <2> QED
    BY <1>6, <2>1, <2>2 DEF GoesBefore
<1>7. \A y : Slot(y) = SlotOf(Y, 0, shift, fanOut, 0, y)
  BY <1>2
<1> QED
  BY <1>1, <1>5, <1>6, <1>7

(* What is read from memory, slot by slot. *)
LEMMA SliceIs ==
    ASSUME NEW m \in Nat, NEW memory \in [1 .. m -> Nat], NEW first \in Nat, NEW n \in Nat,
           Fits(first, n, m), NEW Z, Z = Parallel!Slice(memory, first, n)
    PROVE  IsPiece(Z, memory, first, n)
<1>1. first + n <= m
  BY DEF Fits
<1>2. \A k \in 1 .. n : k + first \in 1 .. m /\ first + k = k + first
  BY <1>1
<1>3. Z = SubSeq(memory, first + 1, first + n)
  BY DEF Parallel!Slice
<1>4. (first + n) - (first + 1) + 1 = n
  OBVIOUS
<1>5. Z = [k \in 1 .. n |-> memory[k + (first + 1) - 1]]
  BY <1>3, <1>4
<1>6. \A k \in 1 .. n : k + (first + 1) - 1 = first + k
  OBVIOUS
<1>7. Z = [k \in 1 .. n |-> memory[first + k]]
  BY <1>5, <1>6
<1>8. Z \in [1 .. n -> Nat]
  BY <1>2, <1>7
<1> QED
  BY <1>7, <1>8 DEF IsPiece

(* Without padding, radix_cluster sorts by the radix bits. *)
LEMMA CallSorts ==
    ASSUME NEW Y, NEW n, NEW m, NEW memory, NEW shift, NEW fanOut, NEW new, NEW Z,
           IsCall(Y, n, m, memory, shift, fanOut, new, Z)
    PROVE  Z \in Seq(Nat) /\ Len(Z) = n /\ \E g : Sorts(g, Y, Z, shift, fanOut)
<1> Y \in Seq(Nat) /\ m \in Nat /\ n \in Nat /\ n = Len(Y) /\ n <= m
  BY DEF IsCall
<1> memory \in [1 .. m -> Nat] /\ shift \in Nat \ {0} /\ fanOut \in Nat \ {0}
  BY DEF IsCall
<1> /\ new = Parallel!Scattered(Y, 0, shift, fanOut, 0)
    /\ Z = Parallel!Slice(Parallel!Written(memory, new), 0, n)
  BY DEF IsCall
<1>1. DOMAIN Y = 1 .. n /\ n \in Nat /\ n <= m
  OBVIOUS
<1>2. PICK first \in Nat, padding \in Nat : first = 0 /\ padding = 0
  OBVIOUS
<1>3. PICK later \in [1 .. m -> Nat] : later = Parallel!Written(memory, new)
  <2>1. \A w \in Parallel!Scattered(Y, 0, shift, fanOut, 0) : w[2] \in Nat
    BY ScatteredTyped
  <2>2. Parallel!Written(memory, new) \in [1 .. m -> Nat]
    BY <2>1, WrittenTyped
  <2> QED
    BY <2>2
<1>4. Z \in Seq(Nat) /\ Len(Z) = n /\ DOMAIN Z = 1 .. n /\ \A k \in 1 .. n : Z[k] = later[k]
  <2>1. Z = Parallel!Slice(later, first, n) /\ Fits(first, n, m)
    BY <1>1, <1>2, <1>3 DEF Fits
  <2>2. IsPiece(Z, later, first, n)
    BY <2>1, SliceIs
  <2>3. \A k \in 1 .. n : first + k = k
    BY <1>2
  <2> QED
    BY <2>2, <2>3 DEF IsPiece
<1>5. \A x \in 1 .. n :
        /\ SlotOf(Y, 0, shift, fanOut, 0, x) \in 0 .. n - 1
        /\ \A y \in 1 .. n : GoesBefore(Y, shift, fanOut, x, y) =>
             SlotOf(Y, 0, shift, fanOut, 0, x) < SlotOf(Y, 0, shift, fanOut, 0, y)
  BY <1>1, SlotsInOrder
<1> DEFINE g == [x \in 1 .. n |-> SlotOf(Y, 0, shift, fanOut, 0, x) + 1]
<1>6. \A x \in 1 .. n : g[x] \in 1 .. n
  <2> TAKE x \in 1 .. n
  <2>1. PICK a \in 0 .. n - 1 : a = SlotOf(Y, 0, shift, fanOut, 0, x)
    BY <1>5
  <2>2. a + 1 \in 1 .. n
    BY <1>1
  <2> QED
    BY <2>1, <2>2
<1>7. g \in [1 .. n -> 1 .. n]
  BY <1>6
<1>8. ASSUME NEW x \in 1 .. n, NEW y \in 1 .. n, GoesBefore(Y, shift, fanOut, x, y)
      PROVE  g[x] < g[y]
  <2>1. PICK a \in 0 .. n - 1, b \in 0 .. n - 1 :
          a = SlotOf(Y, 0, shift, fanOut, 0, x) /\ b = SlotOf(Y, 0, shift, fanOut, 0, y)
    BY <1>5
  <2>2. a < b
    BY <1>5, <1>8, <2>1
  <2>3. a + 1 < b + 1
    BY <2>2
  <2> QED
    BY <2>1, <2>3
<1>9. ASSUME NEW x \in 1 .. n PROVE later[g[x]] = Y[x]
  <2> DEFINE c == HASH_BIT_MODULO(Y[x], shift, fanOut)
  <2>1. PICK slot \in DOMAIN later : slot = g[x]
    <3>1. DOMAIN later = 1 .. m /\ g[x] \in 1 .. n
      BY <1>3, <1>6
    <3> HIDE DEF g
    <3>2. g[x] \in 1 .. m
      BY ONLY <1>1, <3>1, m \in Nat, n \in Nat
    <3> QED
      BY ONLY <3>1, <3>2
  <2>2. c \in 0 .. fanOut - 1 /\ x \in At(Y, shift, fanOut, c)
    <3>1. Y[x] \in Nat
      BY <1>1
    <3> QED
      BY <1>1, <3>1, RadixTyped DEF At
  <2>3. slot = 0 + StartOf(Y, shift, fanOut, 0, c) + RankIn(At(Y, shift, fanOut, c), x) + 1
    BY <2>1 DEF SlotOf
  <2> HIDE DEF c, g
  <2>4. DOMAIN later = DOMAIN memory
    BY <1>3
  <2>5. Lands(memory, slot, Y, 0, shift, fanOut, 0, c, x)
    BY <2>1, <2>2, <2>3, <2>4 DEF Lands, IsSlot
  <2>6. Parallel!Written(memory, Parallel!Scattered(Y, 0, shift, fanOut, 0))[slot] = Y[x]
    BY ONLY <2>5, ScatterLands
  <2> QED
    BY <1>3, <2>1, <2>6
<1>10. \A x, y \in 1 .. n : g[x] = g[y] => x = y
  <2> SUFFICES ASSUME NEW x \in 1 .. n, NEW y \in 1 .. n, g[x] = g[y], x # y PROVE FALSE
    OBVIOUS
  <2>1. GoesBefore(Y, shift, fanOut, x, y) \/ GoesBefore(Y, shift, fanOut, y, x)
    BY <1>1, OneGoesBefore
  <2>2. PICK a \in 1 .. n : a = g[x] /\ a = g[y]
    BY <1>6
  <2> HIDE DEF g
  <2>3. a < a
    BY <1>8, <2>1, <2>2
  <2> QED
    BY <2>3
<1> HIDE DEF g
<1>11. \A k \in 1 .. n : \E x \in 1 .. n : g[x] = k
  <2>1. n \in Nat
    OBVIOUS
  <2> QED
    BY ONLY <1>7, <1>10, <2>1, PairedWithAll
<1>12. \A x \in 1 .. n : Z[g[x]] = Y[x]
  BY <1>4, <1>6, <1>9
<1>13. Sorts(g, Y, Z, shift, fanOut)
  BY <1>1, <1>4, <1>7, <1>8, <1>10, <1>11, <1>12 DEF Sorts
<1> QED
  BY <1>4, <1>13

(* Sorting keeps all tuples. *)
LEMMA SortedIsArranged ==
    ASSUME NEW Y \in Seq(Nat), NEW Z, NEW shift, NEW fanOut, NEW g, Sorts(g, Y, Z, shift, fanOut)
    PROVE  Arranged(Y, Nat, Z)
<1>1. WithKeys(Y, Nat) = DOMAIN Y
  <2>1. \A x \in DOMAIN Y : Y[x] \in Nat
    OBVIOUS
  <2> QED
    BY <2>1 DEF WithKeys
<1>2. Arranges(g, Y, Nat, Z)
  BY <1>1 DEF Arranges, Sorts
<1> QED
  BY <1>2 DEF Arranged

(* Where two tuples come from that have been sorted. *)
LEMMA SortedFrom ==
    ASSUME NEW Y \in Seq(Nat), NEW Z \in Seq(Nat), NEW shift \in Nat \ {0},
           NEW fanOut \in Nat \ {0}, NEW g, Sorts(g, Y, Z, shift, fanOut),
           NEW k \in DOMAIN Z, NEW l \in DOMAIN Z, k < l
    PROVE  \E x, y \in DOMAIN Y :
              Z[k] = Y[x] /\ Z[l] = Y[y] /\ GoesBefore(Y, shift, fanOut, x, y)
<1>1. PICK x \in DOMAIN Y, y \in DOMAIN Y : g[x] = k /\ g[y] = l
  BY DEF Sorts
<1>2. Z[k] = Y[x] /\ Z[l] = Y[y]
  BY <1>1 DEF Sorts
<1>3. k \in Nat /\ l \in Nat /\ ~ (l < k) /\ k # l
  BY ONLY Z \in Seq(Nat), k \in DOMAIN Z, l \in DOMAIN Z, k < l
<1>4. x # y /\ ~ GoesBefore(Y, shift, fanOut, y, x)
  BY <1>1, <1>3 DEF Sorts
<1> QED
  BY <1>1, <1>2, <1>4, OneGoesBefore

(* One pass sorts by its bits. *)
LEMMA OnePassSorts ==
    ASSUME NEW Y \in Seq(Nat), NEW Z \in Seq(Nat), NEW shift \in Nat \ {0},
           NEW fanOut \in Nat \ {0}, NEW g, Sorts(g, Y, Z, shift, fanOut)
    PROVE  InOrderOf(Z, shift, fanOut)
<1> SUFFICES ASSUME NEW k \in DOMAIN Z, NEW l \in DOMAIN Z, k < l
             PROVE  HASH_BIT_MODULO(Z[k], shift, fanOut) <= HASH_BIT_MODULO(Z[l], shift, fanOut)
  BY DEF InOrderOf
<1>1. PICK x \in DOMAIN Y, y \in DOMAIN Y :
        Z[k] = Y[x] /\ Z[l] = Y[y] /\ GoesBefore(Y, shift, fanOut, x, y)
  BY SortedFrom
<1>2. Z[k] \in Nat /\ Z[l] \in Nat
  BY ONLY Z \in Seq(Nat), k \in DOMAIN Z, l \in DOMAIN Z
<1>3. PICK a \in Nat, b \in Nat :
        a = HASH_BIT_MODULO(Z[k], shift, fanOut) /\ b = HASH_BIT_MODULO(Z[l], shift, fanOut)
  <2>1. /\ HASH_BIT_MODULO(Z[k], shift, fanOut) \in 0 .. fanOut - 1
        /\ HASH_BIT_MODULO(Z[l], shift, fanOut) \in 0 .. fanOut - 1
    BY <1>2, RadixTyped
  <2> QED
    BY <2>1
<1>4. a < b \/ a = b
  BY <1>1, <1>3 DEF GoesBefore
<1>5. a <= b
  BY ONLY <1>4, a \in Nat, b \in Nat
<1> QED
  BY ONLY <1>3, <1>5

(* All radix bits of a key are the first pass's below the second's. *)
LEMMA RadixIsBoth ==
    ASSUME NEW f \in Nat \ {0}, NEW g \in Nat \ {0}, NEW N, N = f * g, NEW key \in Nat
    PROVE  MadeOfBoth(key, f, g, N)
<1>1. 1 \in Nat \ {0}
  OBVIOUS
<1>2. PICK c \in 0 .. f - 1, d \in 0 .. g - 1 :
        c = HASH_BIT_MODULO(key, 1, f) /\ d = HASH_BIT_MODULO(key, f, g)
  BY <1>1, RadixTyped
<1>3. PICK v : v = c + f * d
  OBVIOUS
<1>4. AreBoth(N, v, f, c, g, d)
  BY <1>3 DEF AreBoth
<1>5. HASH_BIT_MODULO(key, 1, N) = v
  BY <1>2, <1>4, RadixOfBoth
<1> QED
  BY <1>2, <1>3, <1>5 DEF MadeOfBoth

(* The upper bits decide. *)
LEMMA UpperBitsDecide ==
    ASSUME NEW f \in Nat \ {0}, NEW c \in 0 .. f - 1, NEW e \in 0 .. f - 1,
           NEW d \in Nat, NEW k \in Nat, d < k \/ (d = k /\ c <= e)
    PROVE  c + f * d <= e + f * k
<1>1. CASE d = k /\ c <= e
  <2>1. PICK p \in Nat : p = f * d
    BY ProductNat
  <2>2. c + p <= e + p
    BY <1>1, <2>1
  <2> QED
    BY <1>1, <2>1, <2>2
<1>2. CASE d < k
  <2>1. PICK p \in Nat, q \in Nat : p = f * d /\ q = f * k
    BY ProductNat
  <2>2. (d + 1) * f <= k * f
    BY <1>2, ProductMonotone
  <2>3. (d + 1) * f = p + f
    BY <2>1
  <2>4. k * f = q
    BY <2>1
  <2>5. p + f <= q
    BY <2>2, <2>3, <2>4
  <2>6. c + p <= e + q
    BY <2>5
  <2> QED
    BY <2>1, <2>6
<1> QED
  BY <1>1, <1>2

(* A second pass over what the first has sorted sorts by all bits. *)
LEMMA TwoPassesSort ==
    ASSUME NEW Y \in Seq(Nat), NEW Z \in Seq(Nat), NEW f \in Nat \ {0}, NEW g \in Nat \ {0},
           NEW N, N = f * g, InOrderOf(Y, 1, f), NEW s, Sorts(s, Y, Z, f, g)
    PROVE  InOrderOf(Z, 1, N)
<1> SUFFICES ASSUME NEW k \in DOMAIN Z, NEW l \in DOMAIN Z, k < l
             PROVE  HASH_BIT_MODULO(Z[k], 1, N) <= HASH_BIT_MODULO(Z[l], 1, N)
  BY DEF InOrderOf
<1>1. PICK x \in DOMAIN Y, y \in DOMAIN Y :
        Z[k] = Y[x] /\ Z[l] = Y[y] /\ GoesBefore(Y, f, g, x, y)
  BY SortedFrom
<1>2. PICK p \in Nat, q \in Nat : p = Y[x] /\ q = Y[y]
  OBVIOUS
<1>3. PICK c \in 0 .. f - 1, d \in 0 .. g - 1 :
        /\ c = HASH_BIT_MODULO(p, 1, f) /\ d = HASH_BIT_MODULO(p, f, g)
        /\ HASH_BIT_MODULO(p, 1, N) = c + f * d
  <2>1. MadeOfBoth(p, f, g, N)
    BY RadixIsBoth
  <2> QED
    BY ONLY <2>1 DEF MadeOfBoth
<1>4. PICK e \in 0 .. f - 1, h \in 0 .. g - 1 :
        /\ e = HASH_BIT_MODULO(q, 1, f) /\ h = HASH_BIT_MODULO(q, f, g)
        /\ HASH_BIT_MODULO(q, 1, N) = e + f * h
  <2>1. MadeOfBoth(q, f, g, N)
    BY RadixIsBoth
  <2> QED
    BY ONLY <2>1 DEF MadeOfBoth
<1>5. d < h \/ (d = h /\ x < y)
  BY <1>1, <1>2, <1>3, <1>4 DEF GoesBefore
<1>6. x < y => c <= e
  BY <1>2, <1>3, <1>4 DEF InOrderOf
<1>7. d \in Nat /\ h \in Nat
  OBVIOUS
<1>8. c + f * d <= e + f * h
  BY <1>5, <1>6, <1>7, UpperBitsDecide
<1> QED
  BY <1>1, <1>2, <1>3, <1>4, <1>8

(* Some of the numbers from 1 to n, none of which is missing before        *)
(* another, are those up to how many they are.                             *)
LEMMA FirstOnes ==
    ASSUME NEW n \in Nat, NEW A, A \subseteq 1 .. n,
           \A x \in A : \A y \in 1 .. n : y < x => y \in A
    PROVE  A = 1 .. Cardinality(A) /\ Cardinality(A) \in Nat /\ Cardinality(A) <= n
<1>1. PICK z : z = Parallel!LastOrNone(A)
  OBVIOUS
<1>2. (z = 0 /\ A = {}) \/ (z \in A /\ \A y \in A : y <= z)
  BY <1>1, LastOf
<1>3. z \in Nat /\ z <= n /\ A = 1 .. z
  <2>1. CASE z = 0 /\ A = {}
    BY <2>1
  <2>2. CASE z \in A /\ \A y \in A : y <= z
    <3>1. z \in 1 .. n
      BY <2>2
    <3>2. \A y \in 1 .. z : y \in A
      <4> TAKE y \in 1 .. z
      <4>1. y \in 1 .. n /\ (y < z \/ y = z)
        BY <3>1
      <4> QED
        BY <2>2, <4>1
    <3>3. \A y \in A : y \in 1 .. z
      <4> TAKE y \in A
      <4>1. y \in 1 .. n /\ y <= z
        BY <2>2
      <4> QED
        BY <3>1, <4>1
    <3>4. A = 1 .. z
      BY ONLY <3>2, <3>3
    <3> QED
      BY <3>1, <3>4
  <2> QED
    BY <1>2, <2>1, <2>2
<1>4. Cardinality(1 .. z) = z
  BY <1>3, Interval
<1> QED
  BY <1>3, <1>4

(* How many numbers there are from one to another. *)
LEMMA Between ==
    ASSUME NEW a \in Nat, NEW b \in Nat, a <= b
    PROVE  Cardinality(a + 1 .. b) = b - a
<1>1. PICK c \in Int : c = a + 1
  OBVIOUS
<1>2. b \in Int
  OBVIOUS
<1>3. Cardinality(c .. b) = IF c > b THEN 0 ELSE b - c + 1
  BY <1>2, FS_Interval
<1>4. (IF c > b THEN 0 ELSE b - c + 1) = b - a
  BY <1>1
<1> QED
  BY <1>1, <1>3, <1>4

(* In sorted tuples the clusters lie one behind the other. *)
LEMMA ClustersInOrder ==
    ASSUME NEW Y \in Seq(Nat), NEW N \in Nat \ {0}, InOrderOf(Y, 1, N), NEW r \in 0 .. N - 1,
           NEW h, h = Histogram(Y, 1, N)
    PROVE  /\ SumBelow(h, r) \in Nat /\ h[r] \in Nat
           /\ SumBelow(h, r) + h[r] <= Len(Y) /\ SumBelow(h, r + 1) = SumBelow(h, r) + h[r]
           /\ At(Y, 1, N, r) = SumBelow(h, r) + 1 .. SumBelow(h, r) + h[r]
<1>1. PICK n \in Nat : n = Len(Y) /\ DOMAIN Y = 1 .. n
  OBVIOUS
<1> DEFINE g == [x \in 1 .. n |-> HASH_BIT_MODULO(Y[x], 1, N)]
<1>2. \A x \in 1 .. n : g[x] = HASH_BIT_MODULO(Y[x], 1, N) /\ g[x] \in 0 .. N - 1
  <2> TAKE x \in 1 .. n
  <2>1. Y[x] \in Nat /\ 1 \in Nat \ {0}
    BY <1>1
  <2>2. HASH_BIT_MODULO(Y[x], 1, N) \in 0 .. N - 1
    BY <2>1, RadixTyped
  <2> QED
    BY <2>2
<1>3. \A x, y \in 1 .. n : x < y => g[x] <= g[y]
  BY <1>1, <1>2 DEF InOrderOf
<1> HIDE DEF g
<1>4. ASSUME NEW d \in 0 .. N - 1 PROVE h[d] = Cardinality(With(g, n, d))
  <2>1. h[d] = Cardinality({x \in 1 .. Len(Y) : HASH_BIT_MODULO(Y[x], 1, N) = d})
    BY HistogramIs
  <2>2. {x \in 1 .. Len(Y) : HASH_BIT_MODULO(Y[x], 1, N) = d} = With(g, n, d)
    BY <1>1, <1>2 DEF With
  <2> QED
    BY <2>1, <2>2
<1>5. ASSUME NEW c \in 0 .. N
      PROVE  /\ SumBelow(h, c) = Cardinality(WithBelow(g, n, c))
             /\ WithBelow(g, n, c) = 1 .. SumBelow(h, c)
             /\ SumBelow(h, c) \in Nat /\ SumBelow(h, c) <= n
  <2>1. c \in Nat /\ \A d \in 0 .. c - 1 : d \in 0 .. N - 1
    OBVIOUS
  <2>2. SumBelow(h, c) = Cardinality(WithBelow(g, n, c))
    BY <1>4, <2>1, ClustersBefore
  <2>3. PICK A : A = WithBelow(g, n, c) /\ A \subseteq 1 .. n
    BY DEF WithBelow
  <2>4. \A x \in A : \A y \in 1 .. n : y < x => y \in A
    <3> SUFFICES ASSUME NEW x \in A, NEW y \in 1 .. n, y < x PROVE y \in A
      OBVIOUS
    <3>1. x \in 1 .. n /\ g[x] \in 0 .. c - 1
      BY <2>3 DEF WithBelow
    <3>2. PICK a \in Nat, b \in Nat : a = g[x] /\ b = g[y] /\ b <= a
      BY <1>2, <1>3, <3>1
    <3>3. g[y] \in 0 .. c - 1
      BY <2>1, <3>1, <3>2
    <3> QED
      BY <2>3, <3>3 DEF WithBelow
  <2>5. A = 1 .. Cardinality(A) /\ Cardinality(A) \in Nat /\ Cardinality(A) <= n
    BY <2>3, <2>4, FirstOnes
  <2> QED
    BY <2>2, <2>3, <2>5
<1>6. r \in 0 .. N /\ r + 1 \in 0 .. N /\ r \in Nat
  OBVIOUS
<1>7. PICK a \in Nat : a = SumBelow(h, r) /\ WithBelow(g, n, r) = 1 .. a
  BY <1>5, <1>6
<1>8. PICK b \in Nat : b = SumBelow(h, r + 1) /\ WithBelow(g, n, r + 1) = 1 .. b /\ b <= n
  BY <1>5, <1>6
<1>9. \A x \in 1 .. n : /\ x \in 1 .. a <=> g[x] < r
                        /\ x \in 1 .. b <=> g[x] < r + 1
  <2> TAKE x \in 1 .. n
  <2>1. x \in 1 .. a <=> g[x] \in 0 .. r - 1
    BY <1>7 DEF WithBelow
  <2>2. x \in 1 .. b <=> g[x] \in 0 .. (r + 1) - 1
    BY <1>8 DEF WithBelow
  <2>3. PICK v \in 0 .. N - 1 : v = g[x]
    BY <1>2
  <2> QED
    BY <1>6, <2>1, <2>2, <2>3
<1>10. a <= b
  <2>1. CASE a = 0
    BY <2>1
  <2>2. CASE a # 0
    <3>1. a \in 1 .. a /\ a \in WithBelow(g, n, r)
      BY <1>7, <2>2
    <3>2. a \in 1 .. n
      BY <3>1 DEF WithBelow
    <3>3. g[a] < r /\ g[a] \in 0 .. N - 1
      BY <1>2, <1>9, <3>1, <3>2
    <3>4. g[a] < r + 1
      BY <1>6, <3>3
    <3>5. a \in 1 .. b
      BY <1>9, <3>2, <3>4
    <3> QED
      BY <3>5
  <2> QED
    BY <2>1, <2>2
<1>11. At(Y, 1, N, r) = a + 1 .. b
  <2>1. \A x \in 1 .. n : x \in At(Y, 1, N, r) <=> g[x] = r
    BY <1>1, <1>2 DEF At
  <2>2. \A x \in 1 .. n : g[x] = r <=> x \in a + 1 .. b
    <3> TAKE x \in 1 .. n
    <3>1. PICK v \in 0 .. N - 1 : v = g[x]
      BY <1>2
    <3>2. v = r <=> ~ (v < r) /\ v < r + 1
      BY <1>6
    <3>3. x \in 1 .. n /\ (x \in 1 .. a <=> v < r) /\ (x \in 1 .. b <=> v < r + 1)
      BY <1>9, <3>1
    <3> QED
      BY <3>1, <3>2, <3>3
  <2>3. At(Y, 1, N, r) \subseteq 1 .. n
    BY <1>1 DEF At
  <2>4. a + 1 .. b \subseteq 1 .. n
    BY <1>8
  <2> QED
    BY <2>1, <2>2, <2>3, <2>4
<1>12. h[r] = b - a
  <2>1. With(g, n, r) = At(Y, 1, N, r)
    BY <1>1, <1>2 DEF With, At
  <2>2. h[r] = Cardinality(a + 1 .. b)
    BY <1>4, <1>11, <2>1
  <2> QED
    BY <1>10, <2>2, Between
<1>13. b - a \in Nat /\ a + (b - a) = b
  BY <1>10
<1> QED
  BY <1>1, <1>7, <1>8, <1>11, <1>12, <1>13

(* What is read of sorted tuples where a cluster is are the tuples of the  *)
(* cluster.                                                                *)
LEMMA ClusterIsRead ==
    ASSUME NEW m \in Nat, NEW memory \in [1 .. m -> Nat], NEW len \in Nat, len <= m,
           NEW Y, Y = Parallel!Slice(memory, 0, len),
           NEW N \in Nat \ {0}, InOrderOf(Y, 1, N), NEW r \in 0 .. N - 1,
           NEW h, h = Histogram(Y, 1, N),
           NEW Z, Z = Parallel!Slice(memory, SumBelow(h, r), h[r])
    PROVE  Y \in Seq(Nat) /\ Z \in Seq(Nat) /\ Len(Z) = h[r] /\ Arranged(Y, KeysOf(N, r), Z)
<1>1. PICK first \in Nat : first = 0
  OBVIOUS
<1>2. IsPiece(Y, memory, first, len)
  <2>1. Fits(first, len, m) /\ Y = Parallel!Slice(memory, first, len)
    BY <1>1 DEF Fits
  <2> QED
    BY <2>1, SliceIs
<1>3. Y \in Seq(Nat) /\ Len(Y) = len /\ DOMAIN Y = 1 .. len /\ \A k \in 1 .. len : Y[k] = memory[k]
  <2>1. \A k \in 1 .. len : first + k = k
    BY <1>1
  <2> QED
    BY <1>2, <2>1 DEF IsPiece
<1>4. /\ SumBelow(h, r) \in Nat /\ h[r] \in Nat /\ SumBelow(h, r) + h[r] <= len
      /\ At(Y, 1, N, r) = SumBelow(h, r) + 1 .. SumBelow(h, r) + h[r]
  BY <1>3, ClustersInOrder
<1>5. PICK b \in Nat, size \in Nat :
        /\ b = SumBelow(h, r) /\ size = h[r] /\ b + size <= len
        /\ At(Y, 1, N, r) = b + 1 .. b + size
  BY <1>4
<1>6. IsPiece(Z, memory, b, size)
  <2>1. Fits(b, size, m) /\ Z = Parallel!Slice(memory, b, size)
    BY <1>5 DEF Fits
  <2> QED
    BY <2>1, SliceIs
<1>7. /\ Z \in Seq(Nat) /\ Len(Z) = size /\ DOMAIN Z = 1 .. size
      /\ \A k \in 1 .. size : Z[k] = memory[b + k]
  BY <1>6 DEF IsPiece
<1>8. WithKeys(Y, KeysOf(N, r)) = b + 1 .. b + size
  <2>1. \A x \in 1 .. len : Y[x] \in Nat
    BY <1>3
  <2>2. WithKeys(Y, KeysOf(N, r)) = At(Y, 1, N, r)
    BY <1>3, <2>1 DEF WithKeys, KeysOf, At
  <2> QED
    BY <1>5, <2>2
<1> DEFINE f == [x \in b + 1 .. b + size |-> x - b]
<1>9. f \in [b + 1 .. b + size -> 1 .. size]
  OBVIOUS
<1>10. \A x \in b + 1 .. b + size : Z[f[x]] = Y[x]
  <2> TAKE x \in b + 1 .. b + size
  <2>1. x - b \in 1 .. size /\ b + (x - b) = x
    OBVIOUS
  <2>3. x \in 1 .. len
    BY <1>5
  <2>2. Z[x - b] = memory[b + (x - b)]
    BY <1>7, <2>1
  <2> QED
    BY <1>3, <2>1, <2>2, <2>3
<1>11. \A x, y \in b + 1 .. b + size : f[x] = f[y] => x = y
  OBVIOUS
<1>12. \A k \in 1 .. size : \E x \in b + 1 .. b + size : f[x] = k
  <2> TAKE k \in 1 .. size
  <2>1. b + k \in b + 1 .. b + size /\ (b + k) - b = k
    OBVIOUS
  <2>2. f[b + k] = k
    BY <2>1
  <2> QED
    BY <2>1, <2>2
<1> HIDE DEF f
<1>13. Arranges(f, Y, KeysOf(N, r), Z)
  <2>1. DOMAIN Z = 1 .. size
    BY <1>7
  <2> QED
    BY ONLY <1>8, <1>9, <1>10, <1>11, <1>12, <2>1 DEF Arranges
<1> QED
  BY <1>3, <1>5, <1>7, <1>13 DEF Arranged

(* What the single-threaded joins write is what the parallel ones write. *)
LEMMA SerialScatteredSame ==
    ASSUME NEW X, NEW first, NEW shift, NEW fanOut, NEW padding
    PROVE  Serial!Scattered(X, first, shift, fanOut, padding)
              = Parallel!Scattered(X, first, shift, fanOut, padding)
  BY DEF Serial!Scattered, Parallel!Scattered, Serial!Histogram, Parallel!Histogram,
     Serial!ClusterStart, Parallel!ClusterStart, Serial!SumBelow, Parallel!SumBelow,
     Serial!RankInCluster, Parallel!RankInCluster, Serial!CountIf, Parallel!CountIf,
     Serial!Cardinality, Parallel!Cardinality, Serial!HASH_BIT_MODULO, Parallel!HASH_BIT_MODULO

(* What is kept are the tuples with these keys. *)
LEMMA KeptIs ==
    ASSUME NEW Y \in Seq(Nat), NEW usage, NEW T, T = Serial!Kept(Y, usage)
    PROVE  T \in Seq(Nat) /\ Arranged(Y, KeptKeys(usage), T) /\ (usage # "CHECK" => T = Y)
<1>1. CASE usage = "CHECK"
  <2>1. PICK at : at = {x \in DOMAIN Y : Bits[Y[x]] \subseteq bitmap}
    OBVIOUS
  <2>2. PICK V : V = {key \in Nat : Bits[key] \subseteq bitmap}
    OBVIOUS
  <2>3. at = WithKeys(Y, V)
    <3>1. \A x \in DOMAIN Y : Y[x] \in Nat
      OBVIOUS
    <3> QED
      BY <2>1, <2>2, <3>1 DEF WithKeys
  <2>4. T = Parallel!TuplesAt(Y, WithKeys(Y, V))
    BY <1>1, <2>1, <2>3, SerialTuplesAtSame DEF Serial!Kept
  <2>5. KeptKeys(usage) = V
    BY <1>1, <2>2 DEF KeptKeys
  <2>6. T \in Seq(Nat) /\ Arranged(Y, V, T)
    BY ONLY <2>4, Y \in Seq(Nat), ArrangedKept
  <2> QED
    BY <1>1, <2>5, <2>6
<1>2. CASE usage # "CHECK"
  <2>1. T = Y /\ KeptKeys(usage) = Nat
    BY <1>2 DEF Serial!Kept, KeptKeys
  <2> QED
    BY <2>1, ArrangedSame
<1> QED
  BY <1>1, <1>2

(* A call leaves what it keeps, sorted by its bits. *)
LEMMA CallGives ==
    ASSUME NEW Y \in Seq(Nat), NEW usage, NEW T, NEW n, NEW m, NEW memory, NEW shift,
           NEW fanOut, NEW new, NEW Z,
           IsSerialCall(Y, usage, T, n, m, memory, shift, fanOut, new, Z)
    PROVE  /\ Z \in Seq(Nat) /\ Arranged(Y, KeptKeys(usage), Z) /\ InOrderOf(Z, shift, fanOut)
           /\ usage # "CHECK" => \E g : Sorts(g, Y, Z, shift, fanOut)
<1>1. T \in Seq(Nat) /\ Arranged(Y, KeptKeys(usage), T) /\ (usage # "CHECK" => T = Y)
  BY KeptIs DEF IsSerialCall
<1>2. new = Parallel!Scattered(T, 0, shift, fanOut, 0)
  BY SerialScatteredSame DEF IsSerialCall
<1>3. Z = Parallel!Slice(Parallel!Written(memory, new), 0, n)
  <2>1. PICK W : W = Parallel!Written(memory, new)
    OBVIOUS
  <2>2. Serial!Written(memory, new) = W
    BY <2>1, MemorySame
  <2>3. Z = Serial!Slice(W, 0, n)
    BY <2>2 DEF IsSerialCall
  <2>4. Z = Parallel!Slice(W, 0, n)
    BY <2>3, MemorySame
  <2> QED
    BY <2>1, <2>4
<1>4. Z \in Seq(Nat) /\ \E g : Sorts(g, T, Z, shift, fanOut)
  <2>1. IsCall(T, n, m, memory, shift, fanOut, new, Z)
    BY <1>1, <1>2, <1>3 DEF IsCall, IsSerialCall
  <2> QED
    BY <2>1, CallSorts
<1>5. PICK g : Sorts(g, T, Z, shift, fanOut)
  BY <1>4
<1>6. Arranged(T, Nat, Z)
  BY <1>1, <1>5, SortedIsArranged
<1>7. Arranged(Y, KeptKeys(usage) \cap Nat, Z)
  BY <1>1, <1>6, ArrangedTwice
<1>8. KeptKeys(usage) \cap Nat = KeptKeys(usage)
  BY DEF KeptKeys
<1>9. InOrderOf(Z, shift, fanOut)
  BY <1>1, <1>4, <1>5, OnePassSorts DEF IsSerialCall
<1> QED
  BY <1>1, <1>4, <1>5, <1>7, <1>8, <1>9

(* Every call is like that. *)
LEMMA CallIs ==
    ASSUME SerialInv, Serial!radix_cluster_nopadding
    PROVE  \E c, X, from, to, Y, T, n, Z : Called(c, X, from, to, Y, T, n, Z)
<1>1. SerialTyped
  BY DEF SerialInv
<1>2. /\ step < Len(Serial!Calls) /\ step \in 0 .. 4 /\ step' = step + 1
      /\ UNCHANGED <<in, alg, count, i, start, result>>
  BY <1>1 DEF Serial!radix_cluster_nopadding, SerialTyped
<1>3. PICK c : c = Serial!Calls[step + 1]
  OBVIOUS
<1>4. CallInOrder(c)
  BY <1>1, <1>2, <1>3, CallsInOrder DEF SerialTyped
<1>5. PICK X \in Rels, from \in {"rel", "out"}, to \in {"rel", "out"} :
        X = c.X /\ from = c.from /\ to = c.to
  BY <1>4 DEF CallInOrder, FirstCall, SecondCall
<1>6. PICK Y \in Seq(Nat) : Y = Copy(X, from) /\ Len(Y) <= Len(in[X])
  BY <1>1, CopyTuples DEF Copy
<1>7. PICK T \in Seq(Nat) : T = Serial!Kept(Y, c.usage) /\ Len(T) <= Len(Y)
  BY KeptTyped
<1>8. PICK len \in Nat, m \in Nat :
        len = Len(in[X]) /\ m = Len(in[X]) + RELATION_PADDING /\ len <= m
  <2>1. Len(in[X]) \in Nat /\ RELATION_PADDING \in Nat
    BY <1>1, InputTypes, Sizes DEF SerialTyped
  <2> QED
    BY <2>1
<1>9. PICK n \in Nat : n = Len(T) /\ n <= m
  <2>1. Len(T) \in Nat /\ Len(Y) \in Nat /\ Len(T) <= Len(Y) /\ Len(Y) <= len
    BY <1>6, <1>7, <1>8
  <2> QED
    BY <2>1, <1>8
<1>10. PICK new : new = Serial!Scattered(T, 0, c.shift, c.fanOut, 0)
  OBVIOUS
<1>11. PICK memory \in [1 .. m -> Nat] : memory = smem[X][to]
  BY <1>1, <1>8 DEF SerialTyped, Memory
<1>12. /\ bitmap' = IF c.usage = "INSERT" THEN bitmap \union Serial!BitsOf(Y) ELSE bitmap
       /\ smem' = [smem EXCEPT ![X][to] = Serial!Written(memory, new)]
       /\ num' = [num EXCEPT ![X][to] = n]
  BY <1>3, <1>5, <1>6, <1>7, <1>9, <1>10, <1>11 DEF Serial!radix_cluster_nopadding, Copy
<1>13. PICK written : written = Serial!Written(memory, new)
  OBVIOUS
<1>14. /\ smem'[X][to] = written /\ num'[X][to] = n
       /\ \A W \in Rels : W # X => smem'[W] = smem[W] /\ num'[W] = num[W]
  <2>1. /\ smem = [W \in Rels |-> [rel |-> smem[W].rel, out |-> smem[W].out]]
        /\ num = [W \in Rels |-> [rel |-> num[W].rel, out |-> num[W].out]]
    BY <1>1 DEF SerialTyped
  <2>2. smem' = [smem EXCEPT ![X][to] = written] /\ num' = [num EXCEPT ![X][to] = n]
    BY <1>12, <1>13
  <2>3. CASE to = "rel"
    <3>1. smem' = [smem EXCEPT ![X].rel = written] /\ num' = [num EXCEPT ![X].rel = n]
      BY <2>2, <2>3
    <3> QED
      BY <2>1, <2>3, <3>1
  <2>4. CASE to = "out"
    <3>1. smem' = [smem EXCEPT ![X].out = written] /\ num' = [num EXCEPT ![X].out = n]
      BY <2>2, <2>4
    <3> QED
      BY <2>1, <2>4, <3>1
  <2> QED
    BY <2>3, <2>4
<1>15. PICK Z : Z = Serial!Slice(written, 0, n)
  OBVIOUS
<1>16. Z = Copy(X, to)'
  BY <1>14, <1>15 DEF Copy, Serial!Slice
<1>17. c.shift \in Nat \ {0} /\ c.fanOut \in Nat \ {0}
  <2>1. /\ FANOUT_PASS1 \in Nat \ {0} /\ FANOUT_PASS2 \in Nat \ {0} /\ NUM_RADIX \in Nat \ {0}
        /\ 1 \in Nat \ {0}
    BY Sizes
  <2>2. alg.passes = 1 \/ alg.passes = 2
    BY <1>1 DEF SerialTyped
  <2>3. /\ c.shift = 1 \/ c.shift = FANOUT_PASS1
        /\ c.fanOut = FANOUT_PASS1 \/ c.fanOut = FANOUT_PASS2 \/ c.fanOut = NUM_RADIX
    BY <1>4, <2>2 DEF CallInOrder, FirstCall, SecondCall
  <2> QED
    BY ONLY <2>1, <2>3
<1>18. PICK shift \in Nat \ {0}, fanOut \in Nat \ {0} : shift = c.shift /\ fanOut = c.fanOut
  BY <1>17
<1>19. PICK usage : usage = c.usage
  OBVIOUS
<1>20. /\ Z \in Seq(Nat) /\ Arranged(Y, KeptKeys(usage), Z) /\ InOrderOf(Z, shift, fanOut)
       /\ usage # "CHECK" => \E g : Sorts(g, Y, Z, shift, fanOut)
  <2>1. IsSerialCall(Y, usage, T, n, m, memory, shift, fanOut, new, Z)
    BY <1>7, <1>9, <1>10, <1>13, <1>15, <1>18, <1>19 DEF IsSerialCall
  <2> QED
    BY <2>1, CallGives
<1>21. Called(c, X, from, to, Y, T, n, Z)
  BY <1>2, <1>3, <1>4, <1>5, <1>6, <1>7, <1>12, <1>14, <1>16, <1>18, <1>19, <1>20 DEF Called
<1> QED
  BY <1>21

(* The next stage of a relation is its stage after the call. *)
LEMMA StageAfter ==
    ASSUME alg' = alg, step \in 0 .. 4, step' = step + 1, NEW X \in Rels
    PROVE  Stage(X)' = NextStage(X)
<1>1. StagesOf(X)' = StagesOf(X)
  BY DEF StagesOf
<1>2. step' + 1 = step + 2
  OBVIOUS
<1> QED
  BY <1>1, <1>2 DEF Stage, NextStage

(* The other relation stays as it is. *)
LEMMA OtherCopies ==
    ASSUME CopiesRight, NEW c, NEW X, NEW from, NEW to, NEW Y, NEW T, NEW n, NEW Z,
           Called(c, X, from, to, Y, T, n, Z), NEW W \in Rels, W # X
    PROVE  CopyRight(W)'
<1>1. CopyRight(W)
  BY DEF CopiesRight
<1>2. /\ smem'[W] = smem[W] /\ num'[W] = num[W] /\ in' = in /\ alg' = alg
      /\ step \in 0 .. 4 /\ step' = step + 1 /\ X = c.X /\ CallInOrder(c)
      /\ bitmap' = IF c.usage = "INSERT" THEN bitmap \union Serial!BitsOf(Y) ELSE bitmap
  BY DEF Called
<1>3. Copy(W, "rel")' = Copy(W, "rel") /\ Copy(W, "out")' = Copy(W, "out")
  BY <1>2 DEF Copy, Serial!Slice
<1>4. Serial!last' = Serial!last /\ Serial!last \in {"rel", "out"}
  BY <1>2 DEF Serial!last
<1>5. Copy(W, Serial!last)' = Copy(W, Serial!last)
  BY <1>2, <1>4 DEF Copy, Serial!Slice
<1>6. Stage(W)' = Stage(W)
  <2>1. NextStage(W) = Stage(W)
    BY <1>2 DEF CallInOrder
  <2> QED
    BY <1>2, <2>1, StageAfter
<1>7. Stage(W) # 0 => KeysOfCopy(W)' = KeysOfCopy(W)
  <2> SUFFICES ASSUME Stage(W) # 0 PROVE KeysOfCopy(W)' = KeysOfCopy(W)
    OBVIOUS
  <2>1. CASE W = "S" /\ alg.filter
    <3>1. c.usage # "INSERT"
      BY <1>2, <2>1 DEF CallInOrder
    <3>2. bitmap' = bitmap
      BY <1>2, <3>1
    <3> QED
      BY <1>2, <3>2 DEF KeysOfCopy
  <2>2. CASE ~ (W = "S" /\ alg.filter)
    BY <1>2, <2>2 DEF KeysOfCopy
  <2> QED
    BY <2>1, <2>2
<1> QED
  BY <1>1, <1>2, <1>3, <1>5, <1>6, <1>7 DEF CopyRight

(* The keys that the first call keeps are those of the copy it makes. *)
LEMMA FirstCallKeys ==
    ASSUME NEW c, NEW X, NEW from, NEW to, NEW Y, NEW T, NEW n, NEW Z,
           Called(c, X, from, to, Y, T, n, Z), FirstCall(c)
    PROVE  KeysOfCopy(X)' = KeptKeys(c.usage)
<1>1. /\ alg' = alg /\ X = c.X /\ CallInOrder(c)
      /\ bitmap' = IF c.usage = "INSERT" THEN bitmap \union Serial!BitsOf(Y) ELSE bitmap
  BY DEF Called
<1>2. CASE X = "S" /\ alg.filter
  <2>1. c.usage = "CHECK"
    BY <1>1, <1>2 DEF CallInOrder
  <2>2. bitmap' = bitmap
    BY <1>1, <2>1
  <2> QED
    BY <1>1, <1>2, <2>1, <2>2 DEF KeysOfCopy, KeptKeys
<1>3. CASE ~ (X = "S" /\ alg.filter)
  <2>1. c.usage # "CHECK"
    BY <1>1, <1>3 DEF CallInOrder
  <2> QED
    BY <1>1, <1>3, <2>1 DEF KeysOfCopy, KeptKeys
<1> QED
  BY <1>2, <1>3

(* The first call of a relation. *)
LEMMA FirstCallCopies ==
    ASSUME SerialInv, CopiesRight, NEW c, NEW X, NEW from, NEW to, NEW Y, NEW T, NEW n, NEW Z,
           Called(c, X, from, to, Y, T, n, Z), FirstCall(c)
    PROVE  CopyRight(X)'
<1>1. /\ X \in Rels /\ X = c.X /\ from = "rel" /\ to = "out" /\ c.shift = 1 /\ Stage(X) = 0
      /\ Y = Copy(X, "rel") /\ Z = Copy(X, "out")'
      /\ Arranged(Y, KeptKeys(c.usage), Z) /\ InOrderOf(Z, 1, c.fanOut)
      /\ in' = in /\ alg' = alg /\ step \in 0 .. 4 /\ step' = step + 1
  BY DEF Called, FirstCall
<1>2. Y = in[X]
  BY <1>1 DEF CopiesRight, CopyRight
<1>3. KeysOfCopy(X)' = KeptKeys(c.usage)
  BY FirstCallKeys
<1>4. Stage(X)' = NextStage(X)
  BY <1>1, StageAfter
<1>5. Arranged(in[X], KeptKeys(c.usage), Z)
  BY <1>1, <1>2
<1>6. alg.passes = 1 \/ alg.passes = 2
  BY DEF SerialInv, SerialTyped
<1>7. CASE alg.passes = 1
  <2>1. c.fanOut = NUM_RADIX /\ Stage(X)' = 2
    BY <1>1, <1>4, <1>7 DEF FirstCall
  <2>2. Serial!last' = "out"
    BY <1>1, <1>7 DEF Serial!last
  <2>3. Copy(X, Serial!last)' = Z
    BY <1>1, <2>2 DEF Copy
  <2>4. Arranged(in[X], KeptKeys(c.usage), Z) /\ InOrderOf(Z, 1, NUM_RADIX)
    BY <1>1, <1>5, <2>1
  <2> QED
    BY <1>1, <1>3, <2>1, <2>3, <2>4 DEF CopyRight
<1>8. CASE alg.passes = 2
  <2>1. c.fanOut = FANOUT_PASS1 /\ Stage(X)' = 1
    BY <1>1, <1>4, <1>8 DEF FirstCall
  <2>4. Arranged(in[X], KeptKeys(c.usage), Z) /\ InOrderOf(Z, 1, FANOUT_PASS1)
    BY <1>1, <1>5, <2>1
  <2> QED
    BY <1>1, <1>3, <2>1, <2>4 DEF CopyRight
<1> QED
  BY <1>6, <1>7, <1>8

(* The second. *)
LEMMA SecondCallCopies ==
    ASSUME SerialInv, CopiesRight, NEW c, NEW X, NEW from, NEW to, NEW Y, NEW T, NEW n, NEW Z,
           Called(c, X, from, to, Y, T, n, Z), SecondCall(c)
    PROVE  CopyRight(X)'
<1>1. /\ X \in Rels /\ X = c.X /\ from = "out" /\ to = "rel"
      /\ c.shift = FANOUT_PASS1 /\ c.fanOut = FANOUT_PASS2
      /\ alg.passes = 2 /\ Stage(X) = 1 /\ NextStage(X) = 2
      /\ Y = Copy(X, "out") /\ Y \in Seq(Nat) /\ Z = Copy(X, "rel")' /\ Z \in Seq(Nat)
      /\ Arranged(Y, KeptKeys(c.usage), Z)
      /\ in' = in /\ alg' = alg /\ step \in 0 .. 4 /\ step' = step + 1 /\ CallInOrder(c)
      /\ bitmap' = IF c.usage = "INSERT" THEN bitmap \union Serial!BitsOf(Y) ELSE bitmap
  BY DEF Called, SecondCall
<1>2. Arranged(in[X], KeysOfCopy(X), Y) /\ InOrderOf(Y, 1, FANOUT_PASS1)
  BY <1>1 DEF CopiesRight, CopyRight
<1>3. c.usage # "CHECK"
  <2>1. ~ FirstCall(c)
    BY <1>1 DEF FirstCall, Called
  <2> QED
    BY <1>1, <2>1 DEF CallInOrder
<1>4. PICK g : Sorts(g, Y, Z, FANOUT_PASS1, FANOUT_PASS2)
  BY <1>1, <1>3 DEF Called
<1>5. InOrderOf(Z, 1, NUM_RADIX)
  <2>1. FANOUT_PASS1 \in Nat \ {0} /\ FANOUT_PASS2 \in Nat \ {0}
    BY Sizes
  <2>2. NUM_RADIX = FANOUT_PASS1 * FANOUT_PASS2
    BY DEF NUM_RADIX
  <2>3. PICK f \in Nat \ {0}, e \in Nat \ {0} : f = FANOUT_PASS1 /\ e = FANOUT_PASS2
    BY <2>1
  <2>6. PICK N : N = f * e
    OBVIOUS
  <2>4. InOrderOf(Y, 1, f) /\ Sorts(g, Y, Z, f, e)
    BY <1>2, <1>4, <2>3
  <2>5. InOrderOf(Z, 1, N)
    BY ONLY <1>1, <2>3, <2>4, <2>6, TwoPassesSort
  <2> QED
    BY <2>2, <2>3, <2>5, <2>6
<1>6. KeysOfCopy(X)' = KeysOfCopy(X) /\ KeysOfCopy(X) \cap Nat = KeysOfCopy(X)
  <2>1. CASE X = "S" /\ alg.filter
    <3>1. c.usage # "INSERT"
      BY <1>1, <2>1 DEF CallInOrder
    <3>2. bitmap' = bitmap
      BY <1>1, <3>1
    <3> QED
      BY <1>1, <2>1, <3>2 DEF KeysOfCopy
  <2>2. CASE ~ (X = "S" /\ alg.filter)
    BY <1>1, <2>2 DEF KeysOfCopy
  <2> QED
    BY <2>1, <2>2
<1>7. Arranged(in[X], KeysOfCopy(X), Z)
  <2>1. KeptKeys(c.usage) = Nat
    BY <1>3 DEF KeptKeys
  <2>2. Arranged(Y, Nat, Z)
    BY <1>1, <2>1
  <2>3. Arranged(in[X], KeysOfCopy(X) \cap Nat, Z)
    BY <1>2, <2>2, ArrangedTwice
  <2> QED
    BY <1>6, <2>3
<1>8. Stage(X)' = 2
  BY <1>1, StageAfter
<1>9. Copy(X, Serial!last)' = Z
  <2>1. Serial!last' = "rel"
    BY <1>1 DEF Serial!last
  <2> QED
    BY <1>1, <2>1 DEF Copy
<1> QED
  BY <1>1, <1>5, <1>6, <1>7, <1>8, <1>9 DEF CopyRight

(* The copies that come from all of R's tuples have all their bits. *)
LEMMA AllBits ==
    ASSUME NEW X, \A x \in DOMAIN X : X[x] \in Nat, NEW Y, Arranged(X, Nat, Y)
    PROVE  \A x \in DOMAIN X : Bits[X[x]] \subseteq Serial!BitsOf(Y)
<1>1. PICK f : Arranges(f, X, Nat, Y)
  BY DEF Arranged
<1> TAKE x \in DOMAIN X
<1>2. x \in WithKeys(X, Nat)
  BY DEF WithKeys
<1>3. f[x] \in DOMAIN Y /\ Y[f[x]] = X[x]
  BY <1>1, <1>2 DEF Arranges
<1> QED
  BY <1>3 DEF Serial!BitsOf

(* When R's last call is over all of R is in the filter. *)
LEMMA CallFilter ==
    ASSUME SerialInv, CopiesRight, FilterRight,
           NEW c, NEW X, NEW from, NEW to, NEW Y, NEW T, NEW n, NEW Z,
           Called(c, X, from, to, Y, T, n, Z)
    PROVE  FilterRight'
<1>1. /\ X \in Rels /\ X = c.X /\ in' = in /\ alg' = alg /\ CallInOrder(c)
      /\ step \in 0 .. 4 /\ step' = step + 1 /\ from = c.from /\ Y = Copy(X, from)
      /\ bitmap' = IF c.usage = "INSERT" THEN bitmap \union Serial!BitsOf(Y) ELSE bitmap
  BY DEF Called
<1>2. "R" \in Rels
  BY DEF Rels
<1>3. Stage("R")' = NextStage("R")
  BY <1>1, <1>2, StageAfter
<1> SUFFICES ASSUME alg.filter, NextStage("R") = 2
             PROVE  \A x \in DOMAIN in["R"] : Bits[in["R"][x]] \subseteq bitmap'
  BY <1>1, <1>3 DEF FilterRight
<1>4. CASE Stage("R") = 2
  <2>1. \A x \in DOMAIN in["R"] : Bits[in["R"][x]] \subseteq bitmap
    BY <1>4 DEF FilterRight
  <2>2. bitmap \subseteq bitmap'
    BY <1>1
  <2> QED
    BY <2>1, <2>2
<1>5. CASE Stage("R") # 2
  <2>1. X = "R"
    BY <1>1, <1>2, <1>5 DEF CallInOrder
  <2>2. c.usage = "INSERT"
    BY <1>1, <2>1 DEF CallInOrder
  <2>3. CopyRight("R") /\ KeysOfCopy("R") = Nat
    BY <1>2 DEF CopiesRight, KeysOfCopy
  <2>4. in["R"] \in Seq(Nat)
    BY <1>2, InputTypes DEF SerialInv, SerialTyped
  <2>5. Arranged(in["R"], Nat, Y)
    <3>1. CASE FirstCall(c)
      <4>1. Stage("R") = 0 /\ Y = Copy("R", "rel")
        BY <1>1, <2>1, <3>1 DEF FirstCall
      <4>2. Y = in["R"]
        BY <2>3, <4>1 DEF CopyRight
      <4> QED
        BY <2>4, <4>2, ArrangedSame
    <3>2. CASE SecondCall(c)
      <4>1. Stage("R") = 1 /\ Y = Copy("R", "out")
        BY <1>1, <2>1, <3>2 DEF SecondCall
      <4> QED
        BY <2>3, <4>1 DEF CopyRight
    <3> QED
      BY <1>1, <3>1, <3>2 DEF CallInOrder
  <2>6. \A x \in DOMAIN in["R"] : in["R"][x] \in Nat
    BY <2>4
  <2>7. \A x \in DOMAIN in["R"] : Bits[in["R"][x]] \subseteq Serial!BitsOf(Y)
    BY <2>5, <2>6, AllBits
  <2>8. Serial!BitsOf(Y) \subseteq bitmap'
    BY <1>1, <2>2
  <2> QED
    BY <2>7, <2>8
<1> QED
  BY <1>4, <1>5

(* Every call leaves sorted what it is to. *)
LEMMA CallStep ==
    ASSUME SerialInv, SortedInv, Serial!radix_cluster_nopadding
    PROVE  SortedInv'
<1>1. CopiesRight /\ FilterRight /\ JoinedRight
  BY DEF SortedInv
<1>2. PICK c, X, from, to, Y, T, n, Z : Called(c, X, from, to, Y, T, n, Z)
  BY CallIs
<1>3. /\ X \in Rels /\ X = c.X /\ CallInOrder(c) /\ c = Serial!Calls[step + 1]
      /\ step < Len(Serial!Calls) /\ step \in 0 .. 4 /\ step' = step + 1
      /\ UNCHANGED <<in, alg, count, i, start, result>>
  BY <1>2 DEF Called
<1>4. CopiesRight'
  <2>1. CopyRight(X)'
    <3>1. FirstCall(c) => CopyRight(X)'
      BY <1>1, <1>2, FirstCallCopies
    <3>2. SecondCall(c) => CopyRight(X)'
      BY <1>1, <1>2, SecondCallCopies
    <3> QED
      BY <1>3, <3>1, <3>2 DEF CallInOrder
  <2>2. ASSUME NEW W \in Rels, W # X PROVE CopyRight(W)'
    BY <1>1, <1>2, <2>2, OtherCopies
  <2>3. step' <= Len(Serial!Calls)'
    <3>1. Serial!Calls' = Serial!Calls
      BY <1>3 DEF Serial!Calls, Serial!CallsOfBRJ, Serial!CallsOfRJ, Serial!Call
    <3>2. step + 1 <= Len(Serial!Calls)
      BY <1>3, CallsInOrder DEF SerialInv, SerialTyped
    <3> QED
      BY <1>3, <3>1, <3>2
  <2>4. \A W \in Rels : CopyRight(W)'
    BY <2>1, <2>2
  <2> QED
    BY <2>3, <2>4 DEF CopiesRight
<1>5. FilterRight'
  BY <1>1, <1>2, CallFilter
<1>6. JoinedRight'
  <2>1. count = Serial!NotCounted
    BY <1>1, <1>3 DEF JoinedRight
  <2>2. count' = Serial!NotCounted'
    BY <1>3, <2>1 DEF Serial!NotCounted, Serial!Rels
  <2>3. PairsJoined' = PairsJoined
    BY <1>3 DEF PairsJoined, PairRadix, EqualPairs
  <2> QED
    BY <1>1, <1>3, <2>1, <2>2, <2>3 DEF JoinedRight
<1> QED
  BY <1>4, <1>5, <1>6 DEF SortedInv

(* What is sorted depends on these variables. *)
LEMMA CopiesKept ==
    ASSUME UNCHANGED <<in, alg, smem, num, bitmap, step>>
    PROVE  (CopiesRight => CopiesRight') /\ (FilterRight => FilterRight')
<1>1. \A X : Stage(X)' = Stage(X) /\ KeysOfCopy(X)' = KeysOfCopy(X)
  BY DEF Stage, StagesOf, KeysOfCopy
<1>2. Serial!last' = Serial!last
  BY DEF Serial!last
<1>3. \A X : /\ Copy(X, "rel")' = Copy(X, "rel") /\ Copy(X, "out")' = Copy(X, "out")
             /\ Copy(X, Serial!last)' = Copy(X, Serial!last)
  BY <1>2 DEF Copy, Serial!Slice
<1>4. \A X : CopyRight(X)' = CopyRight(X)
  BY <1>1, <1>3 DEF CopyRight
<1>5. Serial!Calls' = Serial!Calls
  BY DEF Serial!Calls, Serial!CallsOfBRJ, Serial!CallsOfRJ, Serial!Call
<1>6. CopiesRight => CopiesRight'
  BY <1>4, <1>5 DEF CopiesRight
<1>7. FilterRight => FilterRight'
  BY <1>1 DEF FilterRight
<1> QED
  BY <1>6, <1>7

(* The radix of a pair of tuples. *)
LEMMA PairRadixTyped ==
    ASSUME in \in Inputs, NEW p \in EqualPairs(in["R"], in["S"])
    PROVE  /\ PairRadix(p) \in 0 .. NUM_RADIX - 1
           /\ p[1] \in DOMAIN in["R"] /\ p[2] \in DOMAIN in["S"]
           /\ in["R"][p[1]] \in Nat /\ in["R"][p[1]] = in["S"][p[2]]
<1>1. in["R"] \in Seq(Nat)
  BY InputTypes DEF Rels
<1>2. p[1] \in DOMAIN in["R"] /\ p[2] \in DOMAIN in["S"] /\ in["R"][p[1]] = in["S"][p[2]]
  BY DEF EqualPairs
<1>3. PICK key \in Nat : key = in["R"][p[1]]
  BY <1>1, <1>2
<1>4. HASH_BIT_MODULO(key, 1, NUM_RADIX) \in 0 .. NUM_RADIX - 1
  BY Sizes, RadixTyped
<1> QED
  BY <1>2, <1>3, <1>4 DEF PairRadix

(* In the beginning nothing is sorted, and nothing joined. *)
LEMMA InitSorted == Serial!Init => SortedInv
<1> SUFFICES ASSUME Serial!Init PROVE SortedInv
  OBVIOUS
<1>1. PICK input \in Inputs : Serial!InitWith(input)
  BY DEF Serial!Init
<1>2. /\ in \in Inputs /\ alg \in [filter : BOOLEAN, passes : {1, 2}]
      /\ step = 0 /\ i = 0 /\ result = 0 /\ count = Serial!NotCounted
      /\ num = [X \in Rels |-> [rel |-> Len(in[X]), out |-> Len(in[X])]]
  BY <1>1 DEF Serial!InitWith, Serial!Rels, Rels
<1>3. smem = [X \in Rels |->
                [rel |-> in[X] \o [s \in 1 .. RELATION_PADDING |-> 0],
                 out |-> [s \in DOMAIN in[X] |-> 0] \o [s \in 1 .. RELATION_PADDING |-> 0]]]
  BY <1>1, SerialSizesSame DEF Serial!InitWith, Serial!Rels, Rels
<1>4. \A X \in Rels : Stage(X) = 0
  BY <1>2 DEF Stage, StagesOf
<1>5. ASSUME NEW X \in Rels PROVE Copy(X, "rel") = in[X]
  <2>1. PICK Y \in Seq(Nat) : Y = in[X]
    BY <1>2, InputTypes
  <2>2. PICK n \in Nat, padding \in Nat : n = Len(Y) /\ padding = RELATION_PADDING
    BY Sizes
  <2>3. PICK m \in Nat : m = n + padding
    OBVIOUS
  <2>4. PICK memory : memory = Y \o [s \in 1 .. padding |-> 0]
    OBVIOUS
  <2>5. memory \in [1 .. m -> Nat]
    BY <2>2, <2>3, <2>4, Padded
  <2>6. PICK Z : Z = Parallel!Slice(memory, 0, n)
    OBVIOUS
  <2>7. IsPiece(Z, memory, 0, n)
    <3>1. Fits(0, n, m) /\ 0 \in Nat
      BY <2>3 DEF Fits
    <3> QED
      BY <2>5, <2>6, <3>1, SliceIs
  <2>8. \A k \in 1 .. n : memory[k] = Y[k]
    <3> TAKE k \in 1 .. n
    <3>1. [s \in 1 .. padding |-> 0] \in Seq(Nat)
      OBVIOUS
    <3> QED
      BY <2>2, <2>4, <3>1
  <2>9. Z = Y
    <3>1. Z \in Seq(Nat) /\ Len(Z) = n /\ \A k \in 1 .. n : Z[k] = memory[0 + k]
      BY <2>7 DEF IsPiece
    <3>2. \A k \in 1 .. n : Z[k] = Y[k]
      BY <3>1, <2>8
    <3> QED
      BY <3>1, <3>2, <2>2
  <2>10. smem[X]["rel"] = memory /\ num[X]["rel"] = n
    BY <1>2, <1>3, <2>1, <2>2, <2>4
  <2>11. Copy(X, "rel") = Z
    BY <2>6, <2>10, MemorySame DEF Copy
  <2> QED
    BY <2>1, <2>9, <2>11
<1>6. CopiesRight
  <2>1. \A X \in Rels : CopyRight(X)
    BY <1>4, <1>5 DEF CopyRight
  <2>2. step <= Len(Serial!Calls)
    BY <1>2 DEF Serial!Calls, Serial!CallsOfBRJ, Serial!CallsOfRJ
  <2> QED
    BY <2>1, <2>2 DEF CopiesRight
<1>7. FilterRight
  BY <1>4 DEF FilterRight, Rels
<1>8. PairsJoined = {}
  BY <1>2, PairRadixTyped DEF PairsJoined
<1>9. JoinedRight
  <2>1. Cardinality({}) = 0
    BY FS_EmptySet
  <2> QED
    BY <1>2, <1>8, <2>1 DEF JoinedRight
<1> QED
  BY <1>6, <1>7, <1>9 DEF SortedInv

(* When the clusters have been counted, r and s are where the first starts. *)
LEMMA CountStep ==
    ASSUME SerialInv, SortedInv, Serial!CountClusters
    PROVE  SortedInv'
<1>1. /\ CopiesRight /\ FilterRight /\ JoinedRight /\ SerialTyped /\ SerialCounted
      /\ count = Serial!NotCounted /\ step = Len(Serial!Calls)
      /\ UNCHANGED <<in, alg, smem, num, bitmap, step, i, start, result>>
  BY DEF SerialInv, SortedInv, Serial!CountClusters
<1>2. i = 0 /\ \A X \in Rels : start[X] = 0
  BY <1>1 DEF SerialCounted
<1>3. count' = [X \in Rels |-> Histogram(Copy(X, Serial!last), 1, NUM_RADIX)]
  BY SerialHistogramSame, SerialSizesSame
     DEF Serial!CountClusters, Serial!Rels, Rels, Serial!Clustered, Copy
<1>4. CopiesRight' /\ FilterRight'
  BY <1>1, CopiesKept
<1>5. \A h : SumBelow(h, 0) = 0
  <2> TAKE h
  <2>1. UNION {{d} \X (1 .. h[d]) : d \in 0 .. 0 - 1} = {}
    OBVIOUS
  <2> QED
    BY <2>1, FS_EmptySet DEF SumBelow
<1>6. JoinedRight'
  <2>1. Serial!last' = Serial!last
    BY <1>1 DEF Serial!last
  <2>2. \A X \in Rels : Copy(X, Serial!last)' = Copy(X, Serial!last)
    BY <1>1, <2>1 DEF Copy, Serial!Slice
  <2>3. \A X \in Rels : count'[X] = Histogram(Copy(X, Serial!last)', 1, NUM_RADIX)
    BY <1>3, <2>2
  <2>4. \A X \in Rels : start'[X] = SumBelow(count'[X], i')
    BY <1>1, <1>2, <1>5
  <2>5. PairsJoined' = PairsJoined
    BY <1>1 DEF PairsJoined, PairRadix, EqualPairs
  <2>6. Serial!Calls' = Serial!Calls
    BY <1>1 DEF Serial!Calls, Serial!CallsOfBRJ, Serial!CallsOfRJ, Serial!Call
  <2> QED
    BY <1>1, <1>2, <2>3, <2>4, <2>5, <2>6 DEF JoinedRight
<1> QED
  BY <1>4, <1>6 DEF SortedInv

(* They are the tuples of a relation with the next value of the radix bits *)
(* that have been kept.                                                    *)
LEMMA ClusterRead ==
    ASSUME SerialInv, SortedInv, count # Serial!NotCounted, i < NUM_RADIX, NEW X \in Rels
    PROVE  ReadRight(X, Serial!Cluster(X))
<1>1. SerialTyped /\ CopiesRight /\ JoinedRight
  BY DEF SerialInv, SortedInv
<1>2. /\ step = Len(Serial!Calls)
      /\ count[X] = Histogram(Copy(X, Serial!last), 1, NUM_RADIX)
      /\ start[X] = SumBelow(count[X], i)
  BY <1>1 DEF JoinedRight
<1>3. Stage(X) = 2
  BY <1>1, <1>2, CallsSort DEF SerialTyped, Rels
<1>4. PICK Y : Y = Copy(X, Serial!last)
  OBVIOUS
<1>5. Arranged(in[X], KeysOfCopy(X), Y) /\ InOrderOf(Y, 1, NUM_RADIX)
  BY <1>1, <1>3, <1>4 DEF CopiesRight, CopyRight
<1>6. PICK m \in Nat, len \in Nat :
        m = Len(in[X]) + RELATION_PADDING /\ len = num[X][Serial!last] /\ len <= m
  <2>1. Len(in[X]) \in Nat /\ RELATION_PADDING \in Nat
    BY <1>1, InputTypes, Sizes DEF SerialTyped
  <2>2. Serial!last = "rel" \/ Serial!last = "out"
    BY DEF Serial!last
  <2>3. num[X][Serial!last] \in 0 .. Len(in[X])
    BY <1>1, <2>2 DEF SerialTyped
  <2> QED
    BY <2>1, <2>3
<1>7. PICK memory \in [1 .. m -> Nat] : memory = smem[X][Serial!last]
  <2>1. Serial!last = "rel" \/ Serial!last = "out"
    BY DEF Serial!last
  <2> QED
    BY <1>1, <1>6, <2>1 DEF SerialTyped, Memory
<1>8. Y = Parallel!Slice(memory, 0, len)
  BY <1>4, <1>6, <1>7, MemorySame DEF Copy
<1>9. PICK N \in Nat \ {0}, r \in Nat : N = NUM_RADIX /\ r = i /\ r \in 0 .. N - 1
  <2>1. NUM_RADIX \in Nat \ {0} /\ i \in 0 .. NUM_RADIX
    BY <1>1, Sizes DEF SerialTyped
  <2> QED
    BY <2>1
<1>10. PICK h : h = Histogram(Y, 1, N)
  OBVIOUS
<1>11. PICK Z : Z = Parallel!Slice(memory, SumBelow(h, r), h[r])
  OBVIOUS
<1>12. InOrderOf(Y, 1, N)
  BY <1>5, <1>9
<1>13. Y \in Seq(Nat) /\ Z \in Seq(Nat) /\ Len(Z) = h[r] /\ Arranged(Y, KeysOf(N, r), Z)
  BY ONLY <1>6, <1>8, <1>9, <1>10, <1>11, <1>12, memory \in [1 .. m -> Nat], ClusterIsRead
<1>14. /\ SumBelow(h, r) \in Nat /\ h[r] \in Nat
       /\ SumBelow(h, r + 1) = SumBelow(h, r) + h[r]
  BY ONLY <1>9, <1>10, <1>12, <1>13, ClustersInOrder
<1>15. count[X] = h /\ start[X] = SumBelow(h, r)
  BY <1>2, <1>4, <1>9, <1>10
<1>16. Serial!Cluster(X) = Z
  BY <1>7, <1>9, <1>11, <1>15, MemorySame DEF Serial!Cluster
<1>17. Arranged(in[X], KeysOfCopy(X) \cap KeysOf(N, r), Z)
  BY <1>5, <1>13, ArrangedTwice
<1>18. Z \in Seq(Nat) /\ count[X][i] \in Nat /\ Len(Z) = count[X][i]
  BY <1>9, <1>13, <1>14, <1>15
<1>19. Arranged(in[X], KeysOfCopy(X) \cap KeysOf(NUM_RADIX, i), Z)
  BY <1>9, <1>17
<1>20. start[X] + count[X][i] = SumBelow(count[X], i + 1)
  BY <1>9, <1>14, <1>15
<1> QED
  BY <1>16, <1>18, <1>19, <1>20 DEF ReadRight

(* No pair has been dropped by the filter. *)
LEMMA PairsAreKept ==
    ASSUME SerialInv, SortedInv, count # Serial!NotCounted, i < NUM_RADIX
    PROVE  PairsWithKeys(in["R"], in["S"], KeysOfCopy("R") \cap KeysOf(NUM_RADIX, i),
                         KeysOfCopy("S") \cap KeysOf(NUM_RADIX, i)) = PairsToJoin
<1>1. SerialTyped /\ FilterRight /\ JoinedRight
  BY DEF SerialInv, SortedInv
<1>2. Stage("R") = 2
  BY <1>1, CallsSort DEF SerialTyped, JoinedRight
<1>3. in \in Inputs
  BY <1>1 DEF SerialTyped
<1>4. \A key \in Nat : key \in KeysOf(NUM_RADIX, i) <=> HASH_BIT_MODULO(key, 1, NUM_RADIX) = i
  BY DEF KeysOf
<1>5. KeysOfCopy("R") = Nat
  BY DEF KeysOfCopy
<1>6. \A x \in DOMAIN in["R"] : in["R"][x] \in Nat => in["R"][x] \in KeysOfCopy("S")
  <2>1. CASE alg.filter
    <3>1. \A x \in DOMAIN in["R"] : Bits[in["R"][x]] \subseteq bitmap
      BY <1>1, <1>2, <2>1 DEF FilterRight
    <3>2. KeysOfCopy("S") = {key \in Nat : Bits[key] \subseteq bitmap}
      BY <2>1 DEF KeysOfCopy
    <3> QED
      BY <3>1, <3>2
  <2>2. CASE ~ alg.filter
    BY <2>2 DEF KeysOfCopy
  <2> QED
    BY <2>1, <2>2
<1>7. ASSUME NEW p \in EqualPairs(in["R"], in["S"])
      PROVE  /\ in["R"][p[1]] \in KeysOfCopy("R") \cap KeysOf(NUM_RADIX, i) <=> PairRadix(p) = i
             /\ in["S"][p[2]] \in KeysOfCopy("S") \cap KeysOf(NUM_RADIX, i) <=> PairRadix(p) = i
  <2>1. p[1] \in DOMAIN in["R"] /\ in["R"][p[1]] \in Nat /\ in["R"][p[1]] = in["S"][p[2]]
    BY <1>3, PairRadixTyped
  <2>2. PairRadix(p) = HASH_BIT_MODULO(in["R"][p[1]], 1, NUM_RADIX)
    BY DEF PairRadix
  <2> QED
    BY <1>4, <1>5, <1>6, <2>1, <2>2
<1> QED
  BY <1>7 DEF PairsWithKeys, PairsToJoin

(* Joining them finds these pairs. *)
LEMMA ClustersJoin ==
    ASSUME SerialInv, SortedInv, Serial!JoinCluster
    PROVE  result' = result + Cardinality(PairsToJoin)
<1>1. SerialTyped /\ count # Serial!NotCounted /\ i < NUM_RADIX
  BY SerialSizesSame DEF SerialInv, Serial!JoinCluster
<1>2. PICK Y : Y = Serial!Cluster("R")
  OBVIOUS
<1>3. PICK Z : Z = Serial!Cluster("S")
  OBVIOUS
<1>4. PICK a, b : a = count["R"][i] /\ b = count["S"][i]
  OBVIOUS
<1>5. /\ Y \in Seq(Nat) /\ Z \in Seq(Nat) /\ Len(Y) = a /\ Len(Z) = b /\ a \in Nat /\ b \in Nat
      /\ Arranged(in["R"], KeysOfCopy("R") \cap KeysOf(NUM_RADIX, i), Y)
      /\ Arranged(in["S"], KeysOfCopy("S") \cap KeysOf(NUM_RADIX, i), Z)
  <2>1. ReadRight("R", Y) /\ ReadRight("S", Z)
    BY <1>1, <1>2, <1>3, ClusterRead DEF Rels
  <2> QED
    BY <1>4, <2>1 DEF ReadRight
<1>6. in["R"] \in Seq(Nat) /\ in["S"] \in Seq(Nat)
  BY <1>1, InputTypes DEF SerialTyped, Rels
<1>7. Parallel!Matches(Y, Z) = Cardinality(PairsToJoin)
  <2>1. PICK V, W : /\ V = KeysOfCopy("R") \cap KeysOf(NUM_RADIX, i)
                    /\ W = KeysOfCopy("S") \cap KeysOf(NUM_RADIX, i)
    OBVIOUS
  <2>2. Arranged(in["R"], V, Y) /\ Arranged(in["S"], W, Z)
    BY <1>5, <2>1
  <2>3. Parallel!Matches(Y, Z) = Cardinality(PairsWithKeys(in["R"], in["S"], V, W))
    BY <1>5, <1>6, <2>2, ArrangedMatches
  <2>4. PairsWithKeys(in["R"], in["S"], V, W) = PairsToJoin
    BY <1>1, <2>1, PairsAreKept
  <2> QED
    BY <2>3, <2>4
<1>8. result' = result + IF a > 0 /\ b > 0 THEN Serial!bucket_chaining_join(Y, Z) ELSE 0
  BY <1>2, <1>3, <1>4 DEF Serial!JoinCluster
<1>9. CASE a > 0 /\ b > 0
  <2>1. Len(Y) # 0
    BY <1>5, <1>9
  <2>2. Serial!bucket_chaining_join(Y, Z) = Parallel!Matches(Y, Z)
    BY <1>5, <2>1, BucketsFind, SerialBucketsSame
  <2> QED
    BY <1>7, <1>8, <1>9, <2>2
<1>10. CASE ~ (a > 0 /\ b > 0)
  <2>1. DOMAIN Y = {} \/ DOMAIN Z = {}
    <3>1. DOMAIN Y = 1 .. a /\ DOMAIN Z = 1 .. b
      BY <1>5
    <3> QED
      BY <1>5, <1>10, <3>1
  <2>2. EqualPairs(Y, Z) = {}
    BY <2>1 DEF EqualPairs
  <2>3. Parallel!Matches(Y, Z) = 0
    BY <1>5, <2>2, EqualPairsFinite, FS_EmptySet
  <2> QED
    BY <1>7, <1>8, <1>10, <2>3
<1> QED
  BY <1>9, <1>10

(* Joining the next clusters adds their pairs to those that have been      *)
(* found, and r and s move to the clusters behind them.                    *)
LEMMA JoinStep ==
    ASSUME SerialInv, SortedInv, Serial!JoinCluster
    PROVE  SortedInv'
<1>1. /\ CopiesRight /\ FilterRight /\ JoinedRight /\ SerialTyped
      /\ count # Serial!NotCounted /\ i < NUM_RADIX /\ i' = i + 1
      /\ start' = [X \in Rels |-> start[X] + count[X][i]]
      /\ UNCHANGED <<in, alg, smem, num, bitmap, step, count>>
  BY SerialSizesSame DEF SerialInv, SortedInv, Serial!JoinCluster, Serial!Rels, Rels
<1>2. CopiesRight' /\ FilterRight'
  BY <1>1, CopiesKept
<1>3. PairsJoined' = PairsJoined \cup PairsToJoin /\ PairsJoined \cap PairsToJoin = {}
  <2>1. in \in Inputs /\ i \in Nat
    BY <1>1, Sizes DEF SerialTyped
  <2>2. EqualPairs(in["R"], in["S"])' = EqualPairs(in["R"], in["S"])
    BY <1>1 DEF EqualPairs
  <2>3. \A p \in EqualPairs(in["R"], in["S"]) :
          /\ PairRadix(p)' = PairRadix(p)
          /\ PairRadix(p) < i' <=> PairRadix(p) < i \/ PairRadix(p) = i
          /\ ~ (PairRadix(p) < i /\ PairRadix(p) = i)
    <3> TAKE p \in EqualPairs(in["R"], in["S"])
    <3>1. PairRadix(p)' = PairRadix(p)
      BY <1>1 DEF PairRadix
    <3>2. PairRadix(p) \in Nat
      BY <2>1, PairRadixTyped, Sizes
    <3>3. PairRadix(p) < i' <=> PairRadix(p) < i \/ PairRadix(p) = i
      BY <1>1, <2>1, <3>2
    <3> QED
      BY <2>1, <3>1, <3>2, <3>3
  <2> QED
    BY <2>2, <2>3 DEF PairsJoined, PairsToJoin
<1>4. result' = Cardinality(PairsJoined')
  <2>1. IsFiniteSet(EqualPairs(in["R"], in["S"]))
    <3>1. in["R"] \in Seq(Nat) /\ in["S"] \in Seq(Nat)
      BY <1>1, InputTypes DEF SerialTyped, Rels
    <3> QED
      BY <3>1, EqualPairsFinite
  <2>2. PICK A, B : A = PairsJoined /\ B = PairsToJoin
    OBVIOUS
  <2>3. IsFiniteSet(A) /\ IsFiniteSet(B)
    <3>1. A \subseteq EqualPairs(in["R"], in["S"]) /\ B \subseteq EqualPairs(in["R"], in["S"])
      BY <2>2 DEF PairsJoined, PairsToJoin
    <3> QED
      BY <2>1, <3>1, FS_Subset
  <2>4. Cardinality(A \cup B) = Cardinality(A) + Cardinality(B)
    <3>1. A \cap B = {} /\ Cardinality({}) = 0
      BY <1>3, <2>2, FS_EmptySet
    <3>2. Cardinality(A \cup B) = Cardinality(A) + Cardinality(B) - Cardinality(A \cap B)
      BY <2>3, FS_Union
    <3>3. PICK a \in Nat, b \in Nat : a = Cardinality(A) /\ b = Cardinality(B)
      BY <2>3, FS_CardinalityType
    <3>4. Cardinality(A \cup B) = a + b - 0
      BY <3>1, <3>2, <3>3
    <3>5. a + b - 0 = a + b
      OBVIOUS
    <3> QED
      BY <3>3, <3>4, <3>5
  <2>5. result = Cardinality(A)
    BY <1>1, <2>2 DEF JoinedRight
  <2>6. result' = result + Cardinality(B)
    BY <2>2, ClustersJoin
  <2> QED
    BY <1>3, <2>2, <2>4, <2>5, <2>6
<1>5. \A X \in Rels : start'[X] = SumBelow(count'[X], i')
  <2> TAKE X \in Rels
  <2>1. start[X] + count[X][i] = SumBelow(count[X], i + 1)
    BY <1>1, ClusterRead DEF ReadRight
  <2> QED
    BY <1>1, <2>1
<1>6. JoinedRight'
  <2>1. Serial!last' = Serial!last
    BY <1>1 DEF Serial!last
  <2>2. \A X \in Rels : Copy(X, Serial!last)' = Copy(X, Serial!last)
    BY <1>1, <2>1 DEF Copy, Serial!Slice
  <2>3. Serial!Calls' = Serial!Calls /\ Serial!NotCounted' = Serial!NotCounted
    BY <1>1 DEF Serial!Calls, Serial!CallsOfBRJ, Serial!CallsOfRJ, Serial!Call,
       Serial!NotCounted, Serial!Rels
  <2>4. /\ step = Len(Serial!Calls)
        /\ \A X \in Rels : count[X] = Histogram(Copy(X, Serial!last), 1, NUM_RADIX)
    BY <1>1 DEF JoinedRight
  <2>5. \A X \in Rels : count'[X] = Histogram(Copy(X, Serial!last)', 1, NUM_RADIX)
    BY <1>1, <2>2, <2>4
  <2>6. count' # Serial!NotCounted' /\ step' = Len(Serial!Calls')
    BY <1>1, <2>3, <2>4
  <2> QED
    BY <1>4, <1>5, <2>5, <2>6 DEF JoinedRight
<1> QED
  BY <1>2, <1>6 DEF SortedInv

(* What the joins promise is the same for all of them. *)
LEMMA SerialMatchesSame ==
    ASSUME NEW R, NEW S
    PROVE  Serial!Matches(R, S) = Parallel!Matches(R, S)
  BY DEF Serial!Matches, Parallel!Matches, Serial!Cardinality, Parallel!Cardinality

(* When all clusters have been joined, all pairs have been found. *)
LEMMA SerialResultFollows == SerialInv /\ SortedInv => Serial!ResultRight
<1> SUFFICES ASSUME SerialInv, SortedInv, i = NUM_RADIX
             PROVE  result = Parallel!Matches(in["R"], in["S"])
  BY SerialSizesSame, SerialMatchesSame DEF Serial!ResultRight
<1>1. in \in Inputs /\ result = Cardinality(PairsJoined)
  BY DEF SerialInv, SerialTyped, SortedInv, JoinedRight
<1>2. PairsJoined = EqualPairs(in["R"], in["S"])
  <2>1. NUM_RADIX \in Nat
    BY Sizes
  <2>2. \A p \in EqualPairs(in["R"], in["S"]) : PairRadix(p) < i
    BY <1>1, <2>1, PairRadixTyped
  <2> QED
    BY <2>2 DEF PairsJoined
<1>3. in["R"] \in Seq(Nat) /\ in["S"] \in Seq(Nat)
  BY <1>1, InputTypes DEF Rels
<1> QED
  BY <1>1, <1>2, <1>3, EqualPairsFinite

(* Every step of the single-threaded joins keeps what is sorted right. *)
LEMMA SortedSteps ==
    ASSUME SerialInv, SortedInv, Serial!Next \/ UNCHANGED <<in, serialVars>>
    PROVE  SortedInv'
<1>1. CASE UNCHANGED <<in, serialVars>>
  <2>1. UNCHANGED <<in, alg, smem, num, bitmap, step, count, i, start, result>>
    BY <1>1 DEF serialVars
  <2>2. CopiesRight /\ FilterRight /\ JoinedRight
    BY DEF SortedInv
  <2>3. CopiesRight' /\ FilterRight'
    BY <2>1, <2>2, CopiesKept
  <2>4. Serial!last' = Serial!last
    BY <2>1 DEF Serial!last
  <2>5. \A X : Copy(X, Serial!last)' = Copy(X, Serial!last)
    BY <2>1, <2>4 DEF Copy, Serial!Slice
  <2>6. Serial!Calls' = Serial!Calls /\ Serial!NotCounted' = Serial!NotCounted
    BY <2>1 DEF Serial!Calls, Serial!CallsOfBRJ, Serial!CallsOfRJ, Serial!Call,
       Serial!NotCounted, Serial!Rels
  <2>7. PairsJoined' = PairsJoined
    BY <2>1 DEF PairsJoined, PairRadix, EqualPairs
  <2>8. JoinedRight'
    BY <2>1, <2>2, <2>5, <2>6, <2>7 DEF JoinedRight
  <2> QED
    BY <2>3, <2>8 DEF SortedInv
<1> QED
  BY <1>1, CallStep, CountStep, JoinStep DEF Serial!Next

(* It is so at first. *)
LEMMA InitResults == Init => ResultsInv
  BY InitFound, InitSorted DEF Init, ResultsInv

(* Every step keeps it so. *)
LEMMA NextResults == JoinsInv /\ MemoryRight /\ ResultsInv /\ [Next]_vars => ResultsInv'
<1> SUFFICES ASSUME JoinsInv, MemoryRight, ResultsInv, [Next]_vars PROVE ResultsInv'
  OBVIOUS
<1>1. CASE SerialStep
  BY <1>1, SortedSteps DEF SerialStep, JoinsInv, ResultsInv
<1>2. CASE ParallelRelease
  BY <1>2, ReleaseFound DEF ParallelRelease, JoinsInv, ResultsInv
<1>3. ASSUME NEW t \in Threads, ParallelStep(t) PROVE ResultsInv'
  BY <1>3, ThreadStepFound DEF ParallelStep, JoinsInv, MemoryRight, ResultsInv
<1>4. CASE UNCHANGED vars
  <2>1. UNCHANGED <<algo, in, join_function, mem, part_queue, join_queue, pc, task, hist, results>>
    BY <1>4 DEF vars, parallelVars
  <2>2. ASSUME ParallelInv, FoundInv PROVE FoundInv'
    <3>1. QueuesEmptied'
      BY <2>1, <2>2 DEF FoundInv, QueuesEmptied
    <3> QED
      BY <2>1, <2>2, <3>1, PcFound
  <2>3. ASSUME SerialInv, SortedInv PROVE SortedInv'
    BY <1>4, <2>3, SortedSteps DEF vars
  <2> QED
    BY <2>1, <2>2, <2>3 DEF JoinsInv, ResultsInv
<1> QED
  BY <1>1, <1>2, <1>3, <1>4 DEF Next

(* Every radix join ends with the number of pairs of a tuple of R and one of *)
(* S with the same key.  RJ and BRJ sort both relations, drop no tuple of S *)
(* that has a partner, and meet every pair in the one cluster of its bits. *)
(* The parallel joins join every cluster once: one that is not yet joined is *)
(* the work of one task that is queued or that a thread has, one that is   *)
(* joined never becomes work again, and the queues are empty at the end.   *)
THEOREM ResultsAreRight == Spec => []ResultRight
<1>1. JoinsInv /\ MemoryRight /\ ResultsInv => ResultRight
  BY SerialResultFollows, ResultFollows DEF JoinsInv, MemoryRight, ResultsInv, ResultRight
<1> QED
  BY <1>1, InitJoins, NextJoins, InitMemory, NextMemory, InitResults, NextResults, PTL DEF Spec
=============================================================================
