---------------------------- MODULE MCNpoProgram ----------------------------
(***************************************************************************)
(* The generator: chunks of whole pages and, with more threads than pages, *)
(* of tuples; last chunks shorter and longer than the others; primary      *)
(* keys, with a last chunk that starts at 0, too; foreign keys that go     *)
(* round several times and cross chunks; unmatched tuples, whose keys go   *)
(* round, too, or start at threshold.                                      *)
(*                                                                         *)
(* The join: relations that fill a bucket and two overflow buckets, of one *)
(* buffer or two, by both threads; keys that share a bucket without being  *)
(* equal; S tuples without a partner; chunks with a remainder.             *)
(***************************************************************************)
EXTENDS NpoProgram

in(T, n, max, thr, p, q) ==
    [nthreads |-> T, num_tuples |-> n, maxid |-> max, threshold |-> thr, above |-> <<p, q>>]

MCInputs == {
    in(3, 6, 6, 6, 0, 1), in(3, 5, 5, 5, 0, 1), in(4, 5, 5, 5, 0, 1),
    in(2, 6, 8, 3, 1, 3), in(2, 5, 8, 2, 1, 2), in(2, 6, 8, 6, 1, 3), in(2, 7, 8, 3, 0, 1),
    in(1, 6, 8, 5, 2, 3), in(3, 5, 8, 1, 0, 1)}

MCRelations ==
    [R : {<<2, 2, 2, 2, 2>>, <<0, 2, 1, 4, 2, 6, 2>>, <<1, 3>>, <<1, 1, 0, 1, 3, 1>>},
     S : {<<2, 1>>, <<2, 0, 3>>, <<>>}]

OneInput == {[R |-> <<2, 2, 2>>, S |-> <<2, 2>>]}
=============================================================================
