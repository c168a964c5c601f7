------------------------ MODULE BloomFilterUseProofs ------------------------
(***************************************************************************)
(* Proofs about BloomFilterUse: a Bloom filter has no false negatives, for *)
(* any number of threads that add keys at the same time, any keys, either  *)
(* variant, any hash functions and any sizes that assert_args lets through *)
(* and that leave the bitmap a byte; and all its bits then lie in its      *)
(* bitmap and in the key's block.                                          *)
(***************************************************************************)
EXTENDS BloomFilterUse, WellFoundedInduction, TLAPS

(* A set of natural numbers has a least element.                           *)
LEMMA LeastNatural ==
    ASSUME NEW T, T \subseteq Nat, T # {}
    PROVE  \E x \in T : \A y \in T : x <= y
<1> DEFINE R == {d \in Nat \X Nat : d[1] < d[2]}
<1>1. IsWellFoundedOn(R, Nat)
  BY NatLessThanWellFounded DEF OpToRel
<1>2. \A x, y \in Nat : <<x, y>> \in R <=> x < y
  OBVIOUS
<1> HIDE DEF R
<1>3. PICK x \in T : \A y \in T : ~ (<<y, x>> \in R)
  BY <1>1, WFMin
<1>4. ASSUME NEW y \in T PROVE x <= y
  <2>1. x \in Nat /\ y \in Nat
    OBVIOUS
  <2>2. ~ (y < x)
    BY <1>2, <1>3, <2>1
  <2> QED
    BY <2>1, <2>2
<1> QED
  BY <1>4

(* A set that holds 0 and the successors of its elements holds them all.   *)
LEMMA Induction ==
    ASSUME NEW T, 0 \in T, \A n \in Nat : n \in T => n + 1 \in T
    PROVE  Nat \subseteq T
<1> DEFINE U == Nat \ T
<1> SUFFICES ASSUME U # {} PROVE FALSE
  OBVIOUS
<1>1. PICK x \in U : \A y \in U : x <= y
  BY LeastNatural
<1>2. x # 0 /\ x - 1 \in Nat
  BY <1>1
<1>3. x - 1 \in T
  BY <1>1, <1>2
<1> QED
  BY <1>2, <1>3

(* f begins with first, and each value follows from the one before.        *)
Follows(f, n, first, step) ==
    f[0] = first /\ \A k \in 1 .. n : f[k] = step[<<k, f[k - 1]>>]

(* The values of a recursive function up to n, one after the other.        *)
LEMMA Recursion ==
    ASSUME NEW V, NEW first \in V, NEW step \in [Nat \X V -> V], NEW n \in Nat
    PROVE  \E f \in [0 .. n -> V] : Follows(f, n, first, step)
<1> DEFINE T == {m \in Nat : \E f \in [0 .. m -> V] : Follows(f, m, first, step)}
<1>1. 0 \in T
  <2>1. [k \in 0 .. 0 |-> first] \in [0 .. 0 -> V] /\ Follows([k \in 0 .. 0 |-> first], 0, first, step)
    BY DEF Follows
  <2> QED
    BY <2>1
<1>2. ASSUME NEW m \in Nat, m \in T PROVE m + 1 \in T
  <2>1. PICK f \in [0 .. m -> V] : Follows(f, m, first, step)
    BY <1>2
  <2> DEFINE g == [k \in 0 .. m + 1 |-> IF k = m + 1 THEN step[<<k, f[m]>>] ELSE f[k]]
  <2>2. step[<<m + 1, f[m]>>] \in V
    OBVIOUS
  <2>3. g \in [0 .. m + 1 -> V]
    BY <2>2
  <2>4. g[0] = first
    BY <2>1 DEF Follows
  <2>5. ASSUME NEW k \in 1 .. m + 1 PROVE g[k] = step[<<k, g[k - 1]>>]
    <3>1. CASE k = m + 1
      <4>1. g[k] = step[<<k, f[m]>>] /\ g[k - 1] = f[m]
        BY <3>1
      <4> QED
        BY <4>1
    <3>2. CASE k # m + 1
      <4>1. k \in 1 .. m /\ k - 1 \in 0 .. m
        BY <3>2
      <4>2. g[k] = f[k] /\ g[k - 1] = f[k - 1]
        BY <3>2, <4>1
      <4>3. f[k] = step[<<k, f[k - 1]>>]
        BY <2>1, <4>1 DEF Follows
      <4> QED
        BY <4>2, <4>3
    <3> QED
      BY <3>1, <3>2
  <2> HIDE DEF g
  <2>6. Follows(g, m + 1, first, step)
    BY <2>4, <2>5 DEF Follows
  <2> QED
    BY <2>3, <2>6
<1>3. n \in T
  <2> HIDE DEF T
  <2> QED
    BY <1>1, <1>2, Induction
<1> QED
  BY <1>3
-----------------------------------------------------------------------------

(* The variables of the calls keep their types.                            *)
TypeInv ==
    /\ adding \in [Adders -> Keys \cup {NoKey}]
    /\ i \in [Adders -> Nat]

(* What a call in progress has done: its first i[a] positions are set.     *)
BitsSoFar ==
    \A a \in Adders : adding[a] # NoKey =>
        \A n \in 0 .. i[a] - 1 : Probe(filter, adding[a])[n] \in bitmap

(* NoFalseNegative is not inductive: that all bits of a key are there when *)
(* its call returns is what BitsSoFar says.  Of the sets of positions it   *)
(* holds for a bitmap without a byte, too, where it says nothing about the *)
(* program.                                                                *)
Inv == TypeInv /\ BitsSoFar /\ \A key \in added : contains(filter, bitmap, key)

(* What has been set stays set: bits are or-ed in, whoever does it, so a   *)
(* key that is contained stays contained (add_generic).                    *)
LEMMA OnlySets ==
    ASSUME NEW f, NEW before, NEW after, before \subseteq after,
           NEW key, contains(f, before, key)
    PROVE  contains(f, after, key)
  BY DEF contains

(* A call that has set its k bits has set all that contains looks at.      *)
LEMMA CallComplete ==
    ASSUME Inv, NEW a \in Adders, AddReturns(a)
    PROVE  contains(filter, bitmap, adding[a])
<1>1. adding[a] # NoKey /\ i[a] = filter.k
  BY DEF AddReturns
<1>2. \A n \in 0 .. filter.k - 1 : Probe(filter, adding[a])[n] \in bitmap
  BY <1>1 DEF Inv, BitsSoFar
<1> QED
  BY <1>2 DEF contains, Bits

(* The invariant is preserved by every step of every adder.                *)
LEMMA InvStep == Inv /\ [FilterNext]_filterVars => Inv'
<1> SUFFICES ASSUME Inv, [FilterNext]_filterVars PROVE Inv'
  OBVIOUS
<1>1. CASE UNCHANGED filterVars
  BY <1>1 DEF filterVars, Inv, TypeInv, BitsSoFar
<1>2. CASE \E a \in Adders : CallAddKey(a)
  <2>1. PICK a \in Adders : CallAddKey(a)
    BY <1>2
  <2>2. TypeInv'
    BY <2>1 DEF CallAddKey, Inv, TypeInv
  <2>3. BitsSoFar'
    BY <2>1 DEF CallAddKey, Inv, TypeInv, BitsSoFar
  <2>4. \A key \in added' : contains(filter', bitmap', key)
    BY <2>1 DEF CallAddKey, Inv
  <2> QED
    BY <2>2, <2>3, <2>4 DEF Inv
<1>3. CASE \E a \in Adders : AddBit(a)
  <2>1. PICK a \in Adders : AddBit(a)
    BY <1>3
  <2>2. filter' = filter /\ adding' = adding /\ added' = added
        /\ i' = [i EXCEPT ![a] = i[a] + 1]
        /\ bitmap' = bitmap \cup {Probe(filter, adding[a])[i[a]]}
    BY <2>1 DEF AddBit
  <2>3. TypeInv'
    BY <2>2 DEF Inv, TypeInv
  <2>4. ASSUME NEW c \in Adders, adding[c] # NoKey, NEW n \in 0 .. i'[c] - 1
        PROVE  Probe(filter, adding[c])[n] \in bitmap'
    <3>1. CASE c = a /\ n = i[a]
      BY <2>2, <3>1
    <3>2. CASE ~(c = a /\ n = i[a])
      <4>1. n \in 0 .. i[c] - 1
        BY <2>2, <2>4, <3>2 DEF Inv, TypeInv
      <4> QED
        BY <2>2, <2>4, <4>1 DEF Inv, BitsSoFar
    <3> QED
      BY <3>1, <3>2
  <2>5. BitsSoFar'
    BY <2>2, <2>4 DEF BitsSoFar
  <2>6. \A key \in added' : contains(filter', bitmap', key)
    BY <2>2, OnlySets DEF Inv
  <2> QED
    BY <2>3, <2>5, <2>6 DEF Inv
<1>4. CASE \E a \in Adders : AddReturns(a)
  <2>1. PICK a \in Adders : AddReturns(a)
    BY <1>4
  <2>2. TypeInv' /\ BitsSoFar'
    BY <2>1 DEF AddReturns, Inv, TypeInv, BitsSoFar
  <2>3. \A key \in added' : contains(filter', bitmap', key)
    BY <2>1, CallComplete DEF AddReturns, Inv
  <2> QED
    BY <2>2, <2>3 DEF Inv
<1> QED
  BY <1>1, <1>2, <1>3, <1>4 DEF FilterNext

(* A key whose add call has returned is found from then on, whatever the   *)
(* other adders are doing: the relaxed atomic_fetch_or of add_generic      *)
(* loses no bit, and add and contains visit the same positions.            *)
THEOREM AddedKeysAreFound == FilterSpec => []NoFalseNegative
<1>1. FilterInit => Inv
  BY DEF FilterInit, Filters, Inv, TypeInv, BitsSoFar
<1>2. Inv => NoFalseNegative
  BY DEF Inv, NoFalseNegative
<1> QED
  BY <1>1, <1>2, InvStep, PTL DEF FilterSpec
-----------------------------------------------------------------------------
(* A power of two is a multiple of 8 or less than 8: it is even, its half  *)
(* is, and its quarter.                                                    *)
LEMMA WholeBytes ==
    ASSUME NEW v \in Nat, PowerOfTwoOrZero(v), v >= 8
    PROVE  v % 8 = 0
<1>1. ASSUME NEW d \in 1 .. v, v % d = 0, d # 1 PROVE \E e \in Nat : d = 2 * e
  <2>1. d % 2 = 0
    BY <1>1 DEF PowerOfTwoOrZero
  <2> QED
    BY <2>1
<1>2. PICK a \in Nat : v = 2 * a
  <2>1. v \in 1 .. v /\ v % v = 0 /\ v # 1
    OBVIOUS
  <2> QED
    BY <1>1, <2>1
<1>3. PICK b \in Nat : a = 2 * b
  <2>1. a \in 1 .. v /\ v % a = 0 /\ a # 1
    BY <1>2
  <2> QED
    BY <1>1, <2>1
<1>4. PICK c \in Nat : b = 2 * c
  <2>1. v = 4 * b
    BY <1>2, <1>3
  <2>2. b \in 1 .. v /\ v % b = 0 /\ b # 1
    BY <2>1
  <2> QED
    BY <1>1, <2>2
<1>5. v = 8 * c
  BY <1>2, <1>3, <1>4
<1> QED
  BY <1>5

(* A filter as bloom_filter_create makes it, if its bitmap has a byte.     *)
Created(f) ==
    /\ f.m \in Nat \ {0} /\ f.m % 8 = 0 /\ f.bytes = f.m \div 8 /\ f.m < LongWord
    /\ f.k \in Nat /\ f.seed \in Nat
    /\ f.variant # "BASIC" =>
          /\ f.B \in Nat \ {0} /\ (f.B >= 8 => f.B % 8 = 0)
          /\ f.m % f.B = 0 /\ f.nblocks = f.m \div f.B
    /\ f.crapwow \in [Keys -> 0 .. Word - 1] /\ f.crc \in [Keys -> 0 .. Word - 1]

(* The values that mod_m leaves: a size truncated to 0 leaves a whole word. *)
Span(size) == IF size = 0 THEN Word ELSE size

(* Masking with size - 1 leaves a value below the size, or as it was.      *)
LEMMA Masked ==
    ASSUME NEW val \in 0 .. Word - 1, NEW size \in Nat
    PROVE  mod_m(val, size) \in 0 .. Span(size) - 1
  BY WordAssumption DEF mod_m, Span

(* The hash and the increment of a round of add_generic.                   *)
Start(f, key, size) ==
    [h |-> mod_m(f.crapwow[key], size), y |-> mod_m((key + f.seed) % Word, size)]
Round(n, p, size) ==
    [h |-> mod_m((p.h + p.y) % Word, size), y |-> mod_m((p.y + n) % Word, size)]

(* Every round of enhanced double hashing yields a position below the size *)
(* (or any word, where the size was truncated to 0).                       *)
LEMMA PositionsInSpan ==
    ASSUME NEW f, Created(f), NEW key \in Keys, NEW size \in Nat, NEW n \in 0 .. f.k - 1
    PROVE  ProbeGeneric(f, key, size)[n] \in 0 .. Span(size) - 1
<1> DEFINE hy[m \in 0 .. f.k] ==
               IF m = 0 THEN Start(f, key, size) ELSE Round(m, hy[m - 1], size)
           V == [h : 0 .. Span(size) - 1, y : 0 .. Span(size) - 1]
           step == [d \in Nat \X V |-> Round(d[1], d[2], size)]
<1>1. Start(f, key, size) \in V
  <2>1. (key + f.seed) % Word \in 0 .. Word - 1 /\ f.crapwow[key] \in 0 .. Word - 1
    BY WordAssumption, KeysAssumption DEF Created
  <2> QED
    BY <2>1, Masked DEF Start
<1>2. ASSUME NEW m \in Nat, NEW p \in V PROVE Round(m, p, size) \in V
  <2>1. Span(size) - 1 \in Int
    BY WordAssumption DEF Span
  <2>2. (p.h + p.y) % Word \in 0 .. Word - 1 /\ (p.y + m) % Word \in 0 .. Word - 1
    BY WordAssumption, <2>1
  <2> QED
    BY <2>2, Masked DEF Round
<1> HIDE DEF V
<1>3. step \in [Nat \X V -> V]
  BY <1>2
<1>4. PICK g \in [0 .. f.k -> V] : Follows(g, f.k, Start(f, key, size), step)
  <2> HIDE DEF step
  <2> QED
    BY <1>1, <1>3, Recursion DEF Created
<1>5. ASSUME NEW m \in 0 .. f.k
      PROVE  g[m] = IF m = 0 THEN Start(f, key, size) ELSE Round(m, g[m - 1], size)
  <2>1. CASE m = 0
    BY <1>4, <2>1 DEF Follows
  <2>2. CASE m # 0
    <3>1. m \in 1 .. f.k /\ m \in Nat /\ g[m - 1] \in V
      BY <2>2 DEF Created
    <3>2. step[<<m, g[m - 1]>>] = Round(m, g[m - 1], size)
      BY <3>1
    <3>3. g[m] = step[<<m, g[m - 1]>>]
      BY <1>4, <3>1 DEF Follows
    <3> QED
      BY <2>2, <3>2, <3>3
  <2> QED
    BY <2>1, <2>2
<1>6. g = [m \in 0 .. f.k |-> IF m = 0 THEN Start(f, key, size)
                              ELSE Round(m, g[m - 1], size)]
  BY <1>5
<1>7. hy = [m \in 0 .. f.k |-> IF m = 0 THEN Start(f, key, size)
                               ELSE Round(m, hy[m - 1], size)]
  BY <1>6
<1>8. ProbeGeneric(f, key, size)[n] = hy[n].h
  BY DEF ProbeGeneric, Start, Round
<1> HIDE DEF hy
<1>9. f.k \in Nat /\ n \in Nat /\ n <= f.k
  BY DEF Created
<1> DEFINE T == {m \in Nat : m <= f.k => hy[m] \in V}
<1>10. 0 \in T
  BY <1>1, <1>7, <1>9
<1>11. ASSUME NEW m \in Nat, m \in T PROVE m + 1 \in T
  <2>1. CASE m + 1 <= f.k
    <3>1. hy[m + 1] = Round(m + 1, hy[m], size) /\ hy[m] \in V
      <4>1. m + 1 \in 0 .. f.k /\ m + 1 # 0 /\ (m + 1) - 1 = m
        BY <1>9, <2>1
      <4>2. hy[m] \in V
        BY <1>9, <1>11, <2>1
      <4> QED
        BY <1>7, <4>1, <4>2
    <3> QED
      BY <1>2, <3>1
  <2>2. CASE ~(m + 1 <= f.k)
    BY <2>2
  <2> QED
    BY <2>1, <2>2
<1>12. n \in T
  <2> HIDE DEF T
  <2> QED
    BY <1>9, <1>10, <1>11, Induction
<1>13. hy[n] \in V
  BY <1>9, <1>12
<1> QED
  BY <1>8, <1>13 DEF V

(* A quotient and a remainder.                                             *)
LEMMA Division ==
    ASSUME NEW a \in Nat, NEW b \in Nat \ {0}
    PROVE  /\ a \div b \in Nat /\ a % b \in 0 .. b - 1
           /\ a = (a \div b) * b + (a % b)
  OBVIOUS

(* Multiples of b are at least b apart.                                    *)
LEMMA NextMultiple ==
    ASSUME NEW b \in Nat, NEW p \in Nat, NEW q \in Nat, p < q
    PROVE  p * b \in Nat /\ p * b + b <= q * b
<1>1. PICK d \in Nat : q = p + 1 + d
  <2>1. q - p - 1 \in Nat /\ q = p + 1 + (q - p - 1)
    OBVIOUS
  <2> QED
    BY <2>1
<1>2. (p + 1 + d) * b = p * b + b + d * b /\ d * b \in Nat /\ p * b \in Nat
  OBVIOUS
<1> QED
  BY <1>1, <1>2

(* The quotient of a position by the size of a block is the block.         *)
LEMMA WithinMultiple ==
    ASSUME NEW p \in Nat, NEW b \in Nat \ {0}, NEW h \in 0 .. b - 1
    PROVE  (p * b + h) \div b = p
<1> DEFINE a == p * b + h
           q == a \div b
<1>1. p * b \in Nat /\ a \in Nat
  BY NextMultiple
<1>2. q \in Nat /\ a % b \in 0 .. b - 1 /\ a = q * b + (a % b)
  BY <1>1, Division
<1>3. q * b <= p * b + h /\ p * b + h < q * b + b
  <2>1. q * b \in Nat
    BY <1>2, NextMultiple
  <2> HIDE DEF q
  <2> QED
    BY <1>1, <1>2, <2>1
<1> HIDE DEF q
<1>4. ~ (q < p) /\ ~ (p < q)
  BY <1>1, <1>2, <1>3, NextMultiple
<1> QED
  BY <1>2, <1>4 DEF q

(* The block of a key, by its number.                                      *)
Block(f, key) == mod_m(f.crc[key], f.nblocks)

(* The positions of a key lie in the bitmap, and those of a blocked filter *)
(* in the B bits of its block, if a block has a byte.                      *)
LEMMA PositionsInBitmap ==
    ASSUME NEW f, Created(f), NEW key \in Keys, NEW n \in 0 .. f.k - 1
    PROVE  /\ Probe(f, key)[n] \in 0 .. f.m - 1
           /\ f.variant # "BASIC" /\ f.B >= 8 =>
                 Probe(f, key)[n] \div f.B = Block(f, key)
<1> USE WordAssumption
<1>1. ASSUME NEW size \in Nat \ {0}
      PROVE  ProbeGeneric(f, key, size % Word)[n] \in 0 .. size - 1
  <2>1. /\ size = (size \div Word) * Word + (size % Word)
        /\ size \div Word \in Nat /\ size % Word \in 0 .. Word - 1
    BY Division
  <2>2. (size \div Word) * Word \in Nat
    BY <2>1, NextMultiple
  <2>3. Span(size % Word) <= size
    <3>1. CASE size % Word # 0
      BY <2>1, <2>2, <3>1 DEF Span
    <3>2. CASE size % Word = 0
      <4>1. size \div Word > 0
        BY <2>1, <3>2
      <4>2. 0 * Word + Word <= (size \div Word) * Word
        BY <2>1, <4>1, NextMultiple
      <4> QED
        BY <2>1, <2>2, <3>2, <4>2 DEF Span
    <3> QED
      BY <3>1, <3>2
  <2>4. ProbeGeneric(f, key, size % Word)[n] \in 0 .. Span(size % Word) - 1
    BY <2>1, PositionsInSpan
  <2>5. Span(size % Word) \in Nat
    BY <2>1 DEF Span
  <2> QED
    BY <2>3, <2>4, <2>5
<1>2. CASE f.variant = "BASIC"
  BY <1>1, <1>2 DEF Probe, ProbeBasic, Created
<1>3. CASE f.variant # "BASIC"
  <2>1. PICK m \in Nat \ {0}, c \in Nat \ {0} : m = f.m /\ c = f.B
    BY <1>3 DEF Created
  <2> DEFINE nblocks == m \div c
             b == Block(f, key)
             h == ProbeGeneric(f, key, f.B % Word)[n]
  <2>2. m % c = 0 /\ m < LongWord /\ f.nblocks = nblocks /\ f.crc[key] \in Nat
    BY <1>3, <2>1 DEF Created
  <2>3. h \in 0 .. c - 1
    BY <1>1, <2>1
  <2>4. nblocks \in Nat /\ m = nblocks * c
    <3>1. nblocks \in Nat /\ m = nblocks * c + (m % c)
      BY Division
    <3>2. nblocks * c \in Nat
      BY <3>1, NextMultiple
    <3> HIDE DEF nblocks
    <3> QED
      BY <2>2, <3>1, <3>2
  <2>5. nblocks # 0
    BY <2>4
  <2>6. b \in 0 .. nblocks - 1
    <3>1. b = f.crc[key] % nblocks
      BY <2>2, <2>5 DEF Block, mod_m
    <3> HIDE DEF nblocks, b
    <3> QED
      BY <2>2, <2>4, <2>5, <3>1, Division
  <2>7. Probe(f, key)[n] = 8 * ((b * (c \div 8)) % LongWord) + h
    <3>1. n \in DOMAIN ProbeGeneric(f, key, f.B % Word)
      BY DEF ProbeGeneric
    <3>2. Probe(f, key)[n] = BlockStart(f, key) + h
      BY <1>3, <3>1 DEF Probe, ProbeBlocked
    <3>3. BlockStart(f, key) = 8 * ((b * (c \div 8)) % LongWord)
      BY <2>1 DEF BlockStart, Block
    <3> QED
      BY <3>2, <3>3
  <2> HIDE DEF b, h, nblocks
  <2>8. b * c \in Nat /\ b * c + c <= nblocks * c
    BY <2>4, <2>6, NextMultiple
  <2>9. LongWord \in Nat
    BY DEF LongWord
  <2>10. CASE c >= 8
    <3>1. PICK e \in Nat : e = c \div 8 /\ c = 8 * e
      <4>1. c % 8 = 0
        BY <1>3, <2>1, <2>10 DEF Created
      <4>2. c \div 8 \in Nat /\ c = 8 * (c \div 8)
        BY <4>1
      <4> QED
        BY <4>2
    <3>2. PICK w \in Nat : w = b * e
      <4>1. b * e \in Nat
        BY <2>4, <2>6, <3>1, NextMultiple
      <4> QED
        BY <4>1
    <3>3. b * c = 8 * w
      <4>1. b * (8 * e) = 8 * (b * e)
        BY <2>4, <2>6
      <4> QED
        BY <3>1, <3>2, <4>1
    <3>4. w % LongWord = w
      <4>1. w < LongWord
        BY <2>2, <2>4, <2>8, <2>9, <3>3
      <4> QED
        BY <2>9, <4>1
    <3>5. Probe(f, key)[n] = b * c + h
      BY <2>7, <3>1, <3>2, <3>3, <3>4
    <3>6. b * c + h \in 0 .. m - 1
      BY <2>3, <2>4, <2>8
    <3>7. (b * c + h) \div c = b
      BY <2>3, <2>4, <2>6, WithinMultiple
    <3> QED
      BY <2>1, <3>5, <3>6, <3>7 DEF b
  <2>11. CASE ~(c >= 8)
    <3>1. c \div 8 = 0
      BY <2>11
    <3>2. b * 0 = 0
      BY <2>4, <2>6
    <3>3. 0 % LongWord = 0
      BY <2>2, <2>9
    <3>4. Probe(f, key)[n] = h
      <4>1. Probe(f, key)[n] = 8 * 0 + h
        BY <2>7, <3>1, <3>2, <3>3
      <4> QED
        BY <2>3, <4>1
    <3>5. c <= m
      BY <2>4, <2>8
    <3> QED
      BY <2>1, <2>3, <2>11, <3>4, <3>5
  <2> QED
    BY <2>10, <2>11
<1> QED
  BY <1>2, <1>3
-----------------------------------------------------------------------------
(* Every bit that is set is a position of a key somebody has started on,   *)
(* of a filter as it was created.                                          *)
Located ==
    /\ TypeInv
    /\ HasBytes => Created(filter)
    /\ filter.k \in Nat /\ added \subseteq Keys
    /\ \A p \in bitmap : \E key \in InUse \cap Keys : \E n \in 0 .. filter.k - 1 :
          p = Probe(filter, key)[n]

(* A bitmap with a byte has at least 8 bits, and whole bytes of them.      *)
LEMMA LocatedInit == FilterInit => Located
<1> SUFFICES ASSUME FilterInit PROVE Located
  OBVIOUS
<1>1. filter.k \in Nat /\ (HasBytes => Created(filter))
  <2>1. PICK args \in ArgSet, s \in Seeds, crapwow \in Hashes, crc \in Hashes :
            /\ assert_args(args) /\ args.B # 0
            /\ filter = bloom_filter_create(args, s, crapwow, crc)
    BY DEF FilterInit, Filters
  <2>2. /\ filter.variant = args.variant /\ filter.m = args.m /\ filter.k = args.k
        /\ filter.B = args.B /\ filter.nblocks = args.m \div args.B
        /\ filter.bytes = args.m \div 8 /\ filter.seed = s
        /\ filter.crapwow = crapwow /\ filter.crc = crc
    BY <2>1 DEF bloom_filter_create
  <2>3. LongWord \in Nat
    BY WordAssumption DEF LongWord
  <2>4. /\ args.m \in Nat /\ args.B \in Nat \ {0} /\ args.m < LongWord
        /\ args.k \in Nat /\ s \in Nat
    BY <2>1, <2>3, ArgsAssumption, HashAssumption, WordAssumption
  <2>5. ASSUME HasBytes PROVE Created(filter)
    <3>1. args.m >= 8
      BY <2>2, <2>4, <2>5 DEF HasBytes
    <3>2. args.m % 8 = 0
      BY <2>1, <2>4, <3>1, WholeBytes DEF assert_args
    <3>3. ASSUME args.variant # "BASIC"
          PROVE  args.m % args.B = 0 /\ (args.B >= 8 => args.B % 8 = 0)
      BY <2>1, <2>4, <3>3, WholeBytes DEF assert_args
    <3>4. crapwow \in [Keys -> 0 .. Word - 1] /\ crc \in [Keys -> 0 .. Word - 1]
      BY HashAssumption
    <3> QED
      BY <2>2, <2>4, <3>1, <3>2, <3>3, <3>4 DEF Created
  <2> QED
    BY <2>2, <2>4, <2>5
<1> QED
  BY <1>1 DEF FilterInit, Located, TypeInv

(* A key in use stays in use, and only bits of such keys are set.          *)
LEMMA LocatedStep == Located /\ [FilterNext]_filterVars => Located'
<1> SUFFICES ASSUME Located, [FilterNext]_filterVars PROVE Located'
  OBVIOUS
<1> USE DEF Located, TypeInv, HasBytes
<1>1. CASE UNCHANGED filterVars
  BY <1>1 DEF filterVars, InUse
<1>2. CASE \E a \in Adders : CallAddKey(a)
  <2>1. PICK a \in Adders : CallAddKey(a)
    BY <1>2
  <2>2. InUse \subseteq InUse'
    BY <2>1 DEF CallAddKey, InUse
  <2> QED
    BY <2>1, <2>2 DEF CallAddKey
<1>3. CASE \E a \in Adders : AddBit(a)
  <2>1. PICK a \in Adders : AddBit(a)
    BY <1>3
  <2>2. /\ adding[a] \in InUse \cap Keys /\ i[a] \in 0 .. filter.k - 1
        /\ bitmap' = bitmap \cup {Probe(filter, adding[a])[i[a]]}
        /\ filter' = filter /\ adding' = adding /\ added' = added
        /\ i' = [i EXCEPT ![a] = i[a] + 1]
    BY <2>1 DEF AddBit, InUse
  <2>3. InUse' = InUse
    BY <2>2 DEF InUse
  <2>4. i' \in [Adders -> Nat]
    BY <2>2
  <2> QED
    BY <2>2, <2>3, <2>4
<1>4. CASE \E a \in Adders : AddReturns(a)
  <2>1. PICK a \in Adders : AddReturns(a)
    BY <1>4
  <2>2. InUse \subseteq InUse' /\ adding[a] \in Keys
    BY <2>1 DEF AddReturns, InUse
  <2> QED
    BY <2>1, <2>2 DEF AddReturns
<1> QED
  BY <1>1, <1>2, <1>3, <1>4 DEF FilterNext

(* Every bit is a position of some key, whatever assert_args lets through. *)
LEMMA AlwaysLocated == FilterSpec => []Located
<1>1. FilterInit => Located
  BY LocatedInit
<1> QED
  BY <1>1, LocatedStep, PTL DEF FilterSpec

(* No adder sets a bit beyond the m / 8 bytes of the bitmap, for any size  *)
(* that assert_args lets through and that gives the bitmap a byte, sizes   *)
(* that uint32_t truncates included, and either variant                    *)
(* (bloom_filter_create, add_basic, add_blocked).                          *)
THEOREM BitsLieInTheBitmap == FilterSpec => []WithinBitmap
<1>1. Located => WithinBitmap
  <2> SUFFICES ASSUME Located, HasBytes, NEW p \in bitmap
               PROVE  p \in 0 .. 8 * filter.bytes - 1
    BY DEF WithinBitmap, BitsInBitmap
  <2>1. p \in 0 .. filter.m - 1
    BY PositionsInBitmap DEF Located
  <2>2. 8 * filter.bytes = filter.m
    BY DEF Located, Created
  <2> QED
    BY <2>1, <2>2
<1> QED
  BY <1>1, AlwaysLocated, PTL

(* All bits of a key lie in the one block that hash_crc selects, so that a *)
(* lookup reads one cache line, for any sizes that assert_args lets        *)
(* through and that give the bitmap and a block a byte (add_blocked,       *)
(* contains_blocked).                                                      *)
THEOREM KeysStayInTheirBlock == FilterSpec => []OneBlockPerKey
<1>1. Located => OneBlockPerKey
  <2> SUFFICES ASSUME Located, HasBytes, filter.variant = "BLOCKED", filter.B >= 8,
                      NEW p \in bitmap
               PROVE  \E key \in InUse : p \div filter.B = Block(filter, key)
    BY DEF OneBlockPerKey, Block
  <2>1. PICK key \in InUse \cap Keys : \E n \in 0 .. filter.k - 1 : p = Probe(filter, key)[n]
    BY DEF Located
  <2> QED
    BY <2>1, PositionsInBitmap DEF Located
<1> QED
  BY <1>1, AlwaysLocated, PTL
=============================================================================
