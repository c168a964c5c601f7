---------------------------- MODULE MCFirstPass ----------------------------
(***************************************************************************)
(* Bounded instances of FirstPass.  The filter is an 8-bit BloomFilter     *)
(* with two hash functions, in which key 4 is a false positive of keys 2   *)
(* and 3: tuples are filtered out, rightly kept, and kept for nothing.     *)
(* A cache line holds two tuples.                                          *)
(***************************************************************************)
EXTENDS FirstPass, SequencesExt

MCKeys == 1 .. 4

B == INSTANCE BloomFilter WITH Keys <- MCKeys, Word <- 256

MCFilter ==
    B!bloom_filter_create([variant |-> "BASIC", m |-> 8, k |-> K, B |-> 8], 2,
                          [key \in MCKeys |-> (5 * key) % 8],
                          [key \in MCKeys |-> 0])

MCPositions == [key \in MCKeys |-> B!Probe(MCFilter, key)]

AllPrograms == [filter : BOOLEAN, swwc : BOOLEAN]

FilterSwwc == {[filter |-> TRUE, swwc |-> TRUE]}

(* One tuple for each of three threads, more for the last one, nothing at  *)
(* all; duplicates, tuples without a partner; a thread's tuples of a       *)
(* partition start within a line, end within one, fill one, do all three.  *)
FewInputs == {<<>>, <<4, 1, 3>>, <<2, 3, 2, 4>>, <<3, 1, 3, 2, 3>>}

(* For two threads, a tuple each: the second thread's follows the first's  *)
(* within a line.                                                          *)
SeamInputs == {<<2, 3>>}
=============================================================================
