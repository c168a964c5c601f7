-------------------------- MODULE SerialRadixJoin ---------------------------
(***************************************************************************)
(* The single-threaded radix joins RJ and BRJ: R and S are clustered by    *)
(* all their radix bits, in one pass or in two, from the relation to a     *)
(* temporary one and back, and the clusters with equal bits are joined.    *)
(* BRJ adds R's keys to a Bloom filter in R's last pass and drops, in S's  *)
(* first, the tuples that the filter does not contain.                     *)
(*                                                                         *)
(* One action is one call of radix_cluster_nopadding, or one cluster.      *)
(***************************************************************************)
EXTENDS JoinFunctions

CONSTANT Bits       \* Bits[key]: the bits of the filter for a key

VARIABLES
    in,         \* what relR and relS are at first; never changes
    alg,        \* alg.filter: BRJ; alg.passes: NUM_PASSES
    mem,        \* mem.R.rel, mem.R.out: the tuples of relR and outRelR; S
    num,        \* num.R.rel, num.R.out: their num_tuples; S
    bitmap,     \* the bits set in the filter
    step,       \* how many calls of radix_cluster_nopadding have returned
    count,      \* R_count_per_cluster and S_count_per_cluster, or NotCounted
    i, start,   \* the next cluster, and r and s
    result

vars == <<in, alg, mem, num, bitmap, step, count, i, start, result>>

Rels == {"R", "S"}
NotCounted == [X \in Rels |-> <<>>]

InitWith(input) ==
    /\ in = input
    /\ alg \in [filter : BOOLEAN, passes : {1, 2}]
    /\ mem = [X \in Rels |->
                LET padding == [s \in 1 .. RELATION_PADDING |-> 0]
                IN  [rel |-> in[X] \o padding, out |-> [s \in DOMAIN in[X] |-> 0] \o padding]]
    /\ num = [X \in Rels |-> [rel |-> Len(in[X]), out |-> Len(in[X])]]
    /\ bitmap = {}
    /\ step = 0
    /\ count = NotCounted
    /\ i = 0
    /\ start = [X \in Rels |-> 0]
    /\ result = 0

Init == \E input \in Inputs : InitWith(input)
-----------------------------------------------------------------------------
Call(X, from, to, pass, usage) ==
    [X |-> X, from |-> from, to |-> to, usage |-> usage,
     shift |-> IF pass = 2 THEN FANOUT_PASS1 ELSE 1,
     fanOut |-> CASE pass = 1 -> FANOUT_PASS1 [] pass = 2 -> FANOUT_PASS2
                  [] OTHER -> NUM_RADIX]

(* The calls of BRJ and of RJ, in order.  Pass 0 is over all bits.         *)
CallsOfBRJ ==
    IF alg.passes = 1
    THEN <<Call("R", "rel", "out", 0, "INSERT"), Call("S", "rel", "out", 0, "CHECK")>>
    ELSE <<Call("R", "rel", "out", 1, "IGNORE"), Call("R", "out", "rel", 2, "INSERT"),
           Call("S", "rel", "out", 1, "CHECK"), Call("S", "out", "rel", 2, "IGNORE")>>

CallsOfRJ ==
    IF alg.passes = 1
    THEN <<Call("R", "rel", "out", 0, "IGNORE"), Call("S", "rel", "out", 0, "IGNORE")>>
    ELSE <<Call("R", "rel", "out", 1, "IGNORE"), Call("S", "rel", "out", 1, "IGNORE"),
           Call("R", "out", "rel", 2, "IGNORE"), Call("S", "out", "rel", 2, "IGNORE")>>

Calls == IF alg.filter THEN CallsOfBRJ ELSE CallsOfRJ

BitsOf(X) == UNION {Bits[X[x]] : x \in DOMAIN X}

(* What is copied: what contains_cache remembers, with usage CHECK.        *)
Kept(X, usage) ==
    IF usage = "CHECK" THEN TuplesAt(X, {x \in DOMAIN X : Bits[X[x]] \subseteq bitmap}) ELSE X

radix_cluster_nopadding ==
    /\ step < Len(Calls)
    /\ LET c == Calls[step + 1]
           X == Slice(mem[c.X][c.from], 0, num[c.X][c.from])
           kept == Kept(X, c.usage)
       IN  /\ bitmap' = IF c.usage = "INSERT" THEN bitmap \union BitsOf(X) ELSE bitmap
           /\ mem' = [mem EXCEPT ![c.X][c.to] =
                        Written(@, Scattered(kept, 0, c.shift, c.fanOut, 0))]
           /\ num' = [num EXCEPT ![c.X][c.to] = Len(kept)]
    /\ step' = step + 1
    /\ UNCHANGED <<in, alg, count, i, start, result>>

(* relR and relS after the passes: with one, they are outRelR and outRelS. *)
last == IF alg.passes = 1 THEN "out" ELSE "rel"
Clustered(X) == Slice(mem[X][last], 0, num[X][last])

CountClusters ==
    /\ step = Len(Calls) /\ count = NotCounted
    /\ count' = [X \in Rels |-> Histogram(Clustered(X), 1, NUM_RADIX)]
    /\ UNCHANGED <<in, alg, mem, num, bitmap, step, i, start, result>>

Cluster(X) == Slice(mem[X][last], start[X], count[X][i])

JoinCluster ==
    /\ count # NotCounted /\ i < NUM_RADIX
    /\ result' = result + IF count.R[i] > 0 /\ count.S[i] > 0
                          THEN bucket_chaining_join(Cluster("R"), Cluster("S")) ELSE 0
    /\ start' = [X \in Rels |-> start[X] + count[X][i]]
    /\ i' = i + 1
    /\ UNCHANGED <<in, alg, mem, num, bitmap, step, count>>

Next == radix_cluster_nopadding \/ CountClusters \/ JoinCluster

Spec == Init /\ [][Next]_vars
FairSpec == Spec /\ WF_vars(Next)
-----------------------------------------------------------------------------
(* Properties                                                              *)

(* The two copies of a relation stay within their allocation and counters  *)
(* within their loops.                                                     *)
TypeOK ==
    /\ in \in Inputs /\ alg \in [filter : BOOLEAN, passes : {1, 2}]
    /\ \A X \in Rels :
        /\ \A m \in {"rel", "out"} :
            /\ mem[X][m] \in [1 .. Len(in[X]) + RELATION_PADDING -> Nat]
            /\ num[X][m] \in 0 .. Len(in[X])
        /\ start[X] \in 0 .. Len(in[X])
    /\ step \in 0 .. 4 /\ i \in 0 .. NUM_RADIX /\ result \in Nat

(* RJ and BRJ find every pair of tuples with equal keys, once: BRJ's       *)
(* filter drops no tuple with a partner, as S is checked only when all of  *)
(* R is in it, and r and s are where cluster i starts in relations that    *)
(* two passes, over some of the bits each, have sorted by all of them.     *)
ResultRight == i = NUM_RADIX => result = Matches(in.R, in.S)

(* Every call returns, and the loop over the clusters ends.                *)
Termination == <>(i = NUM_RADIX)
=============================================================================
