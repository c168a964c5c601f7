------------------------- MODULE MCSharedStructures -------------------------
(***************************************************************************)
(* The filter: powers of two around the byte and the 4-bit word (16 and 32 *)
(* show the truncation of a size of 2^w to 0), sizes that are none, which  *)
(* assert_args refuses, both variants, 0 to 3 hash functions, and a family *)
(* of hash functions large enough for keys to collide in a block, in a     *)
(* bit, or not at all.  SmallArgs has the sizes without a byte.            *)
(*                                                                         *)
(* The queue: one task more than fit into two blocks less a slot, so that  *)
(* a block is used up, a second begun, and taken from again.  Its threads  *)
(* are interchangeable: no definition of TaskQueue or TaskPool names one,  *)
(* and the filter knows none of them.                                      *)
(***************************************************************************)
EXTENDS SharedStructures, TLC

Symmetry == Permutations(Threads)

MCKeys == 1 .. 2

MCHashes == [MCKeys -> {0, 7, 13}]

ManyArgs ==
    [variant : {"BASIC"}, m : {8, 12, 16, 32}, k : {1, 3}, B : {0, 8}]
        \cup [variant : {"BLOCKED"}, m : {8, 12, 16, 32}, k : {0, 3},
              B : {0, 4, 8, 12, 16}]

(* Sizes without a byte that assert_args lets through: 4, which the header *)
(* forbids, and 0, a multiple of 8 that is no power of two.                *)
SmallArgs == [variant : {"BASIC", "BLOCKED"}, m : {0, 4}, k : {1}, B : {1, 8}]
=============================================================================
