---------------------------- MODULE MCPrjThread -----------------------------
(***************************************************************************)
(* Inputs of two partitions with two subpartitions each.  Pair 0 is large  *)
(* or not, and has a large and a small subpartition, or one without R or S *)
(* tuples; pair 1 may be empty on one side.  In EmptyRInputs a large       *)
(* subpartition of S has no tuple of R: without skew handling no task is   *)
(* made of it, with it a large one.                                        *)
(***************************************************************************)
EXTENDS PrjThread, TLC

Sub(a, b) == (0 :> a) @@ (1 :> b)

Halves == {Sub(a, b) : a \in {0, 2}, b \in {1, 4}}

EmptyRInputs ==
    {[R |-> Sub(Sub(0, 1), Sub(1, 2)), S |-> Sub(Sub(4, 1), Sub(s, 0))] : s \in {1, 4}}

MCInputs ==
    EmptyRInputs \cup
    {[R |-> Sub(r, q), S |-> Sub(s, p)] :
        r \in Halves, s \in Halves,
        q \in {Sub(0, 0), Sub(1, 2)}, p \in {Sub(1, 1), Sub(3, 0)}}

(* Threads 0 and 2 on node 0, thread 1 on node 1; a partition on each. *)
ThreeThreads == (0 :> 0) @@ (1 :> 1) @@ (2 :> 0)
TwoNodes == Sub(1, 0)
=============================================================================
