------------------------- MODULE PartitionContract -------------------------
(***************************************************************************)
(* What the first pass of the radix join promises thread 0, which cuts the *)
(* outcome into tasks (prj_thread, lines 1181 to 1243): relation R is      *)
(* partitioned, whole; then relation S, of which tuples may be missing,    *)
(* but none that has a partner in R.  Each partition is the tuples of one  *)
(* radix, all of them and each once, ntup in number.                       *)
(***************************************************************************)
EXTENDS Integers, Sequences, FiniteSets

CONSTANTS
    FanOut,         \* the number of partitions
    Shift,          \* the weight of the lowest radix bit
    Inputs          \* the relations joined: sequences of keys

VARIABLES
    rel,            \* rel[0] is R, rel[1] is S
    part            \* part[r][c]: partition c of relation r, once it exists

Clusters == 0 .. FanOut - 1
Unpartitioned == <<>>

Radix(key) == (key \div Shift) % FanOut

(* The partitions of the tuples of relation r at the given positions. *)
PartitionsOf(r, positions) ==
    [c \in Clusters |->
        LET mine == {p \in positions : Radix(rel[r][p]) = c}
        IN  [ntup |-> Cardinality(mine), tuples |-> mine]]

HasPartner(p) == \E q \in DOMAIN rel[0] : rel[0][q] = rel[1][p]

Init ==
    /\ rel \in [{0, 1} -> Inputs]
    /\ part = [r \in {0, 1} |-> Unpartitioned]

PartitionR ==
    /\ part[0] = Unpartitioned
    /\ part' = [part EXCEPT ![0] = PartitionsOf(0, DOMAIN rel[0])]
    /\ UNCHANGED rel

PartitionS ==
    /\ part[0] # Unpartitioned /\ part[1] = Unpartitioned
    /\ \E kept \in SUBSET (DOMAIN rel[1]) :
          /\ \A p \in DOMAIN rel[1] : HasPartner(p) => p \in kept
          /\ part' = [part EXCEPT ![1] = PartitionsOf(1, kept)]
    /\ UNCHANGED rel

Next == PartitionR \/ PartitionS

Spec == Init /\ [][Next]_<<rel, part>>
=============================================================================
