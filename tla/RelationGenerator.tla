------------------------- MODULE RelationGenerator --------------------------
(***************************************************************************)
(* parallel_create_relation and random_unique_gen_thread of generator.c:   *)
(* the relation is cut into chunks, every thread fills its own chunk with  *)
(* consecutive keys, and behind a barrier each swaps the keys of its chunk *)
(* with keys of any earlier index, under one lock for each of the two.     *)
(*                                                                         *)
(* Payloads are left out: they stay where they are and nothing reads them. *)
(* The selectivity, a double, is the fraction above = <<p, q>> of tuples   *)
(* without a partner.  Thread t's working variables are w[t].              *)
(***************************************************************************)
EXTENDS Integers, FiniteSets

CONSTANTS
    PageTuples,     \* pagesize / sizeof(tuple_t)
    INT_MAX,
    Inputs          \* [nthreads, num_tuples, maxid, threshold, above]

(* What the code needs and does not test: a tuple for every thread (from a *)
(* chunk of none the shuffle counts down from -1: the last thread swaps    *)
(* its way down to index 0 and waits there for the lock it holds, any      *)
(* other leaves the relation), and no more unmatched tuples in the last    *)
(* chunk than the chunk has.                                               *)
Fits(in) ==
    LET perthr == ((in.num_tuples \div PageTuples + 1) \div in.nthreads) * PageTuples
        each == IF perthr = 0 THEN in.num_tuples \div in.nthreads ELSE perthr
        last == in.num_tuples - each * (in.nthreads - 1)
        Above(n) == (n * in.above[1]) \div in.above[2]
    IN  /\ each > 0 /\ last > 0
        /\ Above(in.num_tuples) - (in.nthreads - 1) * Above(each) <= last

ASSUME SizesAssumption == PageTuples \in Nat \ {0} /\ INT_MAX \in Nat
ASSUME InputsAssumption ==
    \A in \in Inputs :
        /\ in.nthreads \in Nat \ {0} /\ in.num_tuples \in Nat
        /\ in.maxid \in Nat /\ in.threshold \in 1 .. in.maxid
        /\ in.above[1] \in 0 .. in.above[2] /\ in.above[2] \in Nat \ {0}
        /\ Fits(in)

VARIABLES
    input,      \* the arguments; never change
    tuples,     \* tuples[x]: the key of tuple x
    locks,      \* locks[x]: whether the byte of tuple x is set
    gpc,        \* gpc[t]: what t does next
    w           \* w[t]: its i, firstkey, firstkey_above, j and tmp

genVars == <<input, tuples, locks, gpc, w>>

GenThreads == 0 .. input.nthreads - 1
Indexes == 0 .. input.num_tuples - 1
AllThreads == UNION {0 .. in.nthreads - 1 : in \in Inputs}
-----------------------------------------------------------------------------
(* parallel_create_relation: the chunks                                    *)

npages == input.num_tuples \div PageTuples + 1
npages_perthr == npages \div input.nthreads
ntuples_perthr ==
    IF npages_perthr = 0 THEN input.num_tuples \div input.nthreads
    ELSE npages_perthr * PageTuples
ntuples_lastthr == input.num_tuples - ntuples_perthr * (input.nthreads - 1)

AboveOf(n) == (n * input.above[1]) \div input.above[2]
ntuples_above_lastthr ==
    AboveOf(input.num_tuples) - (input.nthreads - 1) * AboveOf(ntuples_perthr)

LastThread(t) == t = input.nthreads - 1
ChunkStart(t) == t * ntuples_perthr             \* offset + offset_above
num_tuples(t) == IF LastThread(t) THEN ntuples_lastthr ELSE ntuples_perthr
numtuples_above(t) ==
    IF LastThread(t) THEN ntuples_above_lastthr ELSE AboveOf(ntuples_perthr)

firstkey_of_chunk(t) == (ChunkStart(t) + 1) % input.threshold
                                \* slip: counts the unmatched ones, too
firstkey(t) == (t * (ntuples_perthr - AboveOf(ntuples_perthr)) + 1) % input.threshold
MAX(x, y) == IF x > y THEN x ELSE y
firstkey_above(t) ==
    input.threshold
        + ((t * AboveOf(ntuples_perthr) + 1) % MAX(1, input.maxid - input.threshold))

GenInit ==
    /\ input \in Inputs
    /\ tuples = [x \in Indexes |-> 0]           \* malloc: written before it is read
    /\ locks = [x \in Indexes |-> FALSE]
    /\ gpc = [t \in GenThreads |-> "fill"]
    /\ w = [t \in GenThreads |-> [i |-> 0, key |-> firstkey(t),
                               key_above |-> firstkey_above(t), j |-> 0, tmp |-> 0]]
-----------------------------------------------------------------------------
(* random_unique_gen_thread: the keys                                      *)

k(t) == ChunkStart(t) + w[t].i                  \* the index of its tuple i
numtuples_below(t) == num_tuples(t) - numtuples_above(t)

FillBelow(t) ==
    /\ gpc[t] = "fill" /\ w[t].i < numtuples_below(t)
    /\ tuples' = [tuples EXCEPT ![k(t)] = w[t].key]
    /\ w' = [w EXCEPT ![t].i = @ + 1,
                      ![t].key = IF @ = input.threshold THEN 1 ELSE @ + 1]
    /\ UNCHANGED <<input, locks, gpc>>

FillAbove(t) ==
    /\ gpc[t] = "fill" /\ w[t].i \in numtuples_below(t) .. num_tuples(t) - 1
    /\ tuples' = [tuples EXCEPT ![k(t)] = w[t].key_above]
    /\ w' = [w EXCEPT ![t].i = @ + 1,
                      ![t].key_above = (IF @ = INT_MAX THEN input.threshold ELSE @) + 1]
    /\ UNCHANGED <<input, locks, gpc>>

ArriveAtBarrier(t) ==
    /\ gpc[t] = "fill" /\ w[t].i = num_tuples(t)
    /\ gpc' = [gpc EXCEPT ![t] = "barrier"]
    /\ UNCHANGED <<input, tuples, locks, w>>

AllArrived == \A u \in GenThreads : gpc[u] = "barrier"

(* The barrier opens, and every loop starts at its chunk's last tuple.     *)
ReleaseGenerators ==
    /\ AllArrived
    /\ gpc' = [t \in GenThreads |-> "shuffle"]
    /\ w' = [t \in GenThreads |-> [w[t] EXCEPT !.i = num_tuples(t) - 1]]
    /\ UNCHANGED <<input, tuples, locks>>
-----------------------------------------------------------------------------
(* random_unique_gen_thread: the shuffle                                   *)

(* RAND_RANGE48(k, state) is less than k: nrand48 never yields RAND_MAX+1. *)
RAND_RANGE48_inclusive(n) == 0 .. n             \* slip: the tuple itself, too
RAND_RANGE48(n) == 0 .. n - 1

DrawPartner(t) ==
    /\ gpc[t] = "shuffle" /\ w[t].i > 0
    /\ \E j \in RAND_RANGE48(k(t)) : w' = [w EXCEPT ![t].j = j]
    /\ gpc' = [gpc EXCEPT ![t] = "lock_k"]
    /\ UNCHANGED <<input, tuples, locks>>

LockUntested(t, x, next) ==                     \* slip: whether it was clear is not tested
    /\ locks' = [locks EXCEPT ![x] = TRUE]
    /\ gpc' = [gpc EXCEPT ![t] = next]
    /\ UNCHANGED <<input, tuples, w>>

(* lock: a thread spins until the byte it sets was clear.                  *)
Lock(t, x, next) ==
    /\ ~locks[x]
    /\ locks' = [locks EXCEPT ![x] = TRUE]
    /\ gpc' = [gpc EXCEPT ![t] = next]
    /\ UNCHANGED <<input, tuples, w>>

Unlock(t, x, next) ==
    /\ locks' = [locks EXCEPT ![x] = FALSE]
    /\ gpc' = [gpc EXCEPT ![t] = next]
    /\ UNCHANGED <<input, tuples, w>>

LockPartnerNot(t) ==                            \* slip: only its own tuple is locked
    /\ gpc[t] = "lock_j"
    /\ gpc' = [gpc EXCEPT ![t] = "read_k"]
    /\ UNCHANGED <<input, tuples, locks, w>>

LockOwn(t) == gpc[t] = "lock_k" /\ Lock(t, k(t), "lock_j")
LockPartner(t) == gpc[t] = "lock_j" /\ Lock(t, w[t].j, "read_k")

ReadOwn(t) ==
    /\ gpc[t] = "read_k"
    /\ w' = [w EXCEPT ![t].tmp = tuples[k(t)]]
    /\ gpc' = [gpc EXCEPT ![t] = "write_k"]
    /\ UNCHANGED <<input, tuples, locks>>

WriteOwn(t) ==
    /\ gpc[t] = "write_k"
    /\ tuples' = [tuples EXCEPT ![k(t)] = tuples[w[t].j]]
    /\ gpc' = [gpc EXCEPT ![t] = "write_j"]
    /\ UNCHANGED <<input, locks, w>>

WritePartner(t) ==
    /\ gpc[t] = "write_j"
    /\ tuples' = [tuples EXCEPT ![w[t].j] = w[t].tmp]
    /\ gpc' = [gpc EXCEPT ![t] = "unlock_j"]
    /\ UNCHANGED <<input, locks, w>>

UnlockPartner(t) == gpc[t] = "unlock_j" /\ Unlock(t, w[t].j, "unlock_k")

UnlockOwnNot(t) ==                              \* slip: unlock(locks + k) forgotten
    /\ gpc[t] = "unlock_k"
    /\ w' = [w EXCEPT ![t].i = @ - 1]
    /\ gpc' = [gpc EXCEPT ![t] = "shuffle"]
    /\ UNCHANGED <<input, tuples, locks>>

UnlockOwn(t) ==
    /\ gpc[t] = "unlock_k"
    /\ locks' = [locks EXCEPT ![k(t)] = FALSE]
    /\ w' = [w EXCEPT ![t].i = @ - 1]
    /\ gpc' = [gpc EXCEPT ![t] = "shuffle"]
    /\ UNCHANGED <<input, tuples>>

EndThread(t) ==
    /\ gpc[t] = "shuffle" /\ w[t].i = 0
    /\ gpc' = [gpc EXCEPT ![t] = "done"]
    /\ UNCHANGED <<input, tuples, locks, w>>

ThreadStep(t) ==
    \/ FillBelow(t) \/ FillAbove(t) \/ ArriveAtBarrier(t)
    \/ DrawPartner(t) \/ LockOwn(t) \/ LockPartner(t)
    \/ ReadOwn(t) \/ WriteOwn(t) \/ WritePartner(t)
    \/ UnlockPartner(t) \/ UnlockOwn(t) \/ EndThread(t)

GenNext == ReleaseGenerators \/ \E t \in GenThreads : ThreadStep(t)

GenSpec == GenInit /\ [][GenNext]_genVars

-----------------------------------------------------------------------------
(* Properties                                                              *)

Steps == {"fill", "barrier", "shuffle", "lock_k", "lock_j", "read_k",
          "write_k", "write_j", "unlock_j", "unlock_k", "done"}

(* Every variable keeps its type; indexes lie in the relation, a thread    *)
(* never leaves its chunk, and a partner lies before its tuple.            *)
TypeOK ==
    /\ input \in Inputs
    /\ tuples \in [Indexes -> Nat]
    /\ locks \in [Indexes -> BOOLEAN]
    /\ gpc \in [GenThreads -> Steps]
    /\ w \in [GenThreads -> [i : Nat, key : Nat, key_above : Nat, j : Nat, tmp : Nat]]
    /\ \A t \in GenThreads :
        /\ w[t].i <= num_tuples(t) /\ k(t) <= input.num_tuples
        /\ gpc[t] = "fill" \/ gpc[t] = "barrier" \/ k(t) \in Indexes
        /\ gpc[t] \in Steps \ {"fill", "barrier", "shuffle", "done"} => w[t].j < k(t)

Holds(t) ==
    (IF gpc[t] \in {"lock_j", "read_k", "write_k", "write_j", "unlock_j", "unlock_k"}
     THEN {k(t)} ELSE {})
    \union (IF gpc[t] \in {"read_k", "write_k", "write_j", "unlock_j"} THEN {w[t].j} ELSE {})

(* No two threads swap a tuple they share: the locks that the threads hold *)
(* are set, and no lock is held by two.                                    *)
SwapsExclusive ==
    \A t \in GenThreads :
        /\ \A x \in Holds(t) : locks[x]
        /\ \A u \in GenThreads \ {t} : Holds(t) \cap Holds(u) = {}

(* The relation as it would be if the swaps under way were finished.       *)
InSwap(t) == gpc[t] = "write_j"
Settled ==
    [x \in Indexes |->
        IF \E t \in GenThreads : InSwap(t) /\ w[t].j = x
        THEN w[CHOOSE t \in GenThreads : InSwap(t) /\ w[t].j = x].tmp
        ELSE tuples[x]]

(* A step of the shuffle leaves the settled keys, or exchanges two.        *)
SwapsAtMost ==
    (\A t \in GenThreads : gpc[t] \notin {"fill", "barrier"})
        => \/ Settled' = Settled
           \/ \E x, y \in Indexes :
                Settled' = [Settled EXCEPT ![x] = Settled[y], ![y] = Settled[x]]

(* Once filled, a relation only ever has two of its keys exchanged by a    *)
(* step: no key is lost or doubled, however the swaps of the threads       *)
(* overlap.                                                                *)
OnlySwaps == [][SwapsAtMost]_genVars

(* Where the count before a chunk is one less than a multiple, its keys    *)
(* start one too low: at 0 instead of threshold, or at threshold instead   *)
(* of a key without partner.                                               *)
StartsAtZero(t) == numtuples_below(t) > 0 /\ firstkey(t) = 0
StartsAtThreshold(t) == numtuples_above(t) > 0 /\ firstkey_above(t) = input.threshold

Filled == \A t \in GenThreads : gpc[t] # "fill"
Count(key) == Cardinality({x \in Indexes : Settled[x] = key})

StartsTooLow(t) == StartsAtZero(t) \/ StartsAtThreshold(t)

(* How many of the matched tuples get a key when one thread makes them     *)
(* all: 1, 2, ..., threshold, 1, 2, ...                                    *)
Matched == input.num_tuples - AboveOf(input.num_tuples)
InOrder(key) == Cardinality({o \in 0 .. Matched - 1 : o % input.threshold = key - 1})

(* So many tuples get it when several threads make them, and the rest keys *)
(* beyond threshold, so that as many tuples find no partner as selectivity *)
(* asks for, unless a chunk starts one too low.                            *)
KeysAsOrdered ==
    Filled /\ (\A t \in GenThreads : ~StartsTooLow(t)) =>
        /\ \A key \in 1 .. input.threshold : Count(key) = InOrder(key)
        /\ Count(0) = 0

(* "Create relation with only primary keys (i.e. keys are unique from 1 to *)
(* maxid)", says generator.h:89 of parallel_create_relation.               *)
PrimaryKeys == input.num_tuples = input.maxid /\ input.maxid = input.threshold
                   /\ AboveOf(input.num_tuples) = 0
KeysFromOne == Filled /\ PrimaryKeys => \A key \in 1 .. input.maxid : Count(key) = 1

(* Every thread has shuffled its chunk. *)
Complete == \A t \in GenThreads : gpc[t] = "done"
=============================================================================
