---------------------------- MODULE MCRadixJoins ----------------------------
(***************************************************************************)
(* Two bits of radix, one in each pass.  Keys 0, 4, 8, 16 and 32 have the  *)
(* same radix bits; of them 0 and 16 have the same hash value in the       *)
(* histogram joins as well.  Clusters without a partner, duplicates,       *)
(* groups of four tuples of S and rests, odd numbers of tuples with one    *)
(* hash value; the last input has a histogram of more than four counters.  *)
(* In the filter key 5 is a false positive of keys 1 and 4.                *)
(***************************************************************************)
EXTENDS RadixJoins

MCInputs ==
    [R : {<<1, 4, 2, 7>>, <<4, 0, 8>>, <<0, 1, 3, 0, 16>>, <<>>},
     S : {<<4, 5, 1, 1, 4, 7>>, <<16, 3, 0, 8, 3>>, <<2>>}]
    \union {[R |-> [x \in 1 .. 17 |-> 4 * ((x * 5) % 9)], S |-> <<0, 16, 12, 32, 20, 4>>]}

MCBits == [key \in Nat |-> CASE key = 1 -> {0, 1} [] key = 4 -> {2, 3} [] key = 5 -> {1, 2}
                             [] OTHER -> {key % 4, 4 + (key % 3)}]
=============================================================================
