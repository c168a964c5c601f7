------------------------- MODULE NoPartitioningJoin -------------------------
(***************************************************************************)
(* The no-partitioning join (NPO): all threads insert their chunks of R    *)
(* into one hash table of latched buckets, wait for each other, and probe  *)
(* it with their chunks of S.  A bucket that is full gets an overflow      *)
(* bucket from the buffers of the thread that needs it, which frees them   *)
(* when it ends.  NPO_st is the same on one thread, without latches and    *)
(* with overflow buckets from the heap.  Probes write the matches to the   *)
(* thread's result buffer (JOIN_RESULT_MATERIALIZE), which main writes to  *)
(* a file in the end.                                                      *)
(*                                                                         *)
(* A bucket is <<index>> in the table, <<thread, buffer, place>> or, from  *)
(* the heap, <<0, place>>.  The critical section of build_hashtable_mt is  *)
(* cut where another thread, had it no latch, would see the difference; a  *)
(* probe looks at one bucket a step.  NPO_st's thread is thread 0.         *)
(***************************************************************************)
EXTENDS TupleBuffer, FiniteSets, SequencesExt

CONSTANTS
    NThreads,           \* nthreads
    BUCKET_SIZE, OVERFLOW_BUF_SIZE,
    Timing,             \* FALSE: compiled with NO_TIMING
    Algorithms,         \* of NPO and NPO_st
    Relations           \* the relations joined: [R |-> keys, S |-> keys]

ASSUME NThreadsAssumption == NThreads \in Nat \ {0}
ASSUME BucketsAssumption ==
    BUCKET_SIZE \in Nat \ {0} /\ OVERFLOW_BUF_SIZE \in Nat \ {0} /\ Timing \in BOOLEAN
ASSUME AlgorithmsAssumption == Algorithms \subseteq {"NPO", "NPO_st"}

(* nbuckets would be 0 for a smaller R, and the table have no bucket. *)
ASSUME RelationsAssumption ==
    \A input \in Relations :
        /\ input.R \in Seq(Nat) /\ input.S \in Seq(Nat)
        /\ Len(input.R) >= BUCKET_SIZE

Threads == 0 .. NThreads - 1
NULL == <<>>
NotWritten == <<NULL>>

VARIABLES
    alg,        \* the algorithm; never changes
    rel,        \* rel.R, rel.S: the relations; never change
    pc,         \* pc[t]: what t does next, or the barrier it waits at
    i,          \* i[t]: the index in its chunk
    latch,      \* latch[b]: whether bucket b of the table is latched
    mem,        \* mem[b]: the bucket b: count, next, tuples (positions in R)
    dest,       \* dest[t]: the bucket and place for t's tuple
    overflowbuf,\* overflowbuf[t]: number and count of t's newest buffer
    freed,      \* the threads that have freed their buffers
    b,          \* b[t]: the bucket t's probe looks at
    matches,    \* matches[t]
    chainedbuf, \* chainedbuf[t]: t's result buffer
    totalresults,
    joined,     \* how many threads the join has waited for
    out         \* the lines of Out.tbl, or NotWritten

buildVars == <<latch, mem, dest, overflowbuf>>
probeVars == <<b, matches, chainedbuf>>
mainVars == <<totalresults, joined, out>>
constVars == <<alg, rel>>
vars == <<constVars, pc, i, buildVars, freed, probeVars, mainVars>>

(* joinresult->nthreads.                                                   *)
nthreads == IF alg = "NPO" THEN NThreads ELSE 1
Running == 0 .. nthreads - 1

(* The chunk of X that NPO assigns to t, the last one with the remainder,  *)
(* and the position in X of the tuple that t is at.                        *)
Chunk(X, t) ==
    LET each == Len(X) \div nthreads
    IN  SubSeq(X, t * each + 1, IF t = nthreads - 1 THEN Len(X) ELSE (t + 1) * each)

Position(X, t) == t * (Len(X) \div nthreads) + i[t] + 1

(* NEXT_POW_2(nbuckets), and HASH with the mask num_buckets - 1. *)
NEXT_POW_2(v) ==
    LET Pow2[e \in 0 .. v] == IF e = 0 THEN 1 ELSE 2 * Pow2[e - 1]
        Powers == {Pow2[e] : e \in 0 .. v}
    IN  CHOOSE p \in Powers : p >= v /\ \A q \in Powers : q >= v => p <= q

num_buckets == NEXT_POW_2(Len(rel.R) \div BUCKET_SIZE)
Table == {<<n>> : n \in 0 .. num_buckets - 1}
HASH(key) == <<key % num_buckets>>

NoTuples == [n \in 0 .. BUCKET_SIZE - 1 |-> 0]

Init ==
    /\ rel \in Relations /\ alg \in Algorithms
    /\ pc = [t \in Threads |-> IF t \in Running THEN "build" ELSE "absent"]
    /\ i = [t \in Threads |-> 0]
    /\ latch = [x \in Table |-> FALSE]
    /\ mem = [x \in Table |-> [count |-> 0, next |-> NULL,
                               tuples |-> NoTuples]]
    /\ dest = [t \in Threads |-> [bucket |-> NULL, n |-> 0]]
    /\ overflowbuf = [t \in Threads |-> [buffer |-> 1, count |-> 0]]
    /\ freed = {}
    /\ b = [t \in Threads |-> NULL]
    /\ matches = [t \in Threads |-> 0]
    /\ chainedbuf = [t \in Threads |-> chainedtuplebuffer_init]
    /\ totalresults = 0
    /\ joined = 0
    /\ out = NotWritten

Goto(t, l) == pc' = [pc EXCEPT ![t] = l]

-----------------------------------------------------------------------------
(* build_hashtable_mt.  lock(&curr->latch) spins until it has the latch.   *)
Curr(t) == HASH(rel.R[Position(rel.R, t)])
Full(x) == mem[x].count = BUCKET_SIZE
HasRoom(x) == x # NULL /\ ~Full(x)

LatchUnlocked(t) ==                         \* slip: the latch is not tested
    /\ pc[t] = "build" /\ i[t] < Len(Chunk(rel.R, t))
    /\ latch' = [latch EXCEPT ![Curr(t)] = TRUE]
    /\ Goto(t, "choose")
    /\ UNCHANGED <<constVars, i, mem, dest, overflowbuf, freed, probeVars, mainVars>>

Latch(t) ==
    /\ alg = "NPO" /\ pc[t] = "build" /\ i[t] < Len(Chunk(rel.R, t))
    /\ ~latch[Curr(t)]
    /\ latch' = [latch EXCEPT ![Curr(t)] = TRUE]
    /\ Goto(t, "choose")
    /\ UNCHANGED <<constVars, i, mem, dest, overflowbuf, freed, probeVars, mainVars>>

(* Where the tuple goes: into the bucket, or the first overflow bucket.    *)
ChoosePlace(t) ==
    LET curr == Curr(t)
        x == IF Full(curr) THEN mem[curr].next ELSE curr
    IN  /\ pc[t] = "choose"
        /\ HasRoom(x)
        /\ dest' = [dest EXCEPT ![t] = [bucket |-> x, n |-> mem[x].count]]
        /\ Goto(t, "count")
        /\ UNCHANGED <<constVars, i, latch, mem, overflowbuf, freed, probeVars, mainVars>>

CountTuple(t) ==
    /\ pc[t] = "count"
    /\ mem' = [mem EXCEPT ![dest[t].bucket].count = @ + 1]
    /\ Goto(t, "store")
    /\ UNCHANGED <<constVars, i, latch, dest, overflowbuf, freed, probeVars, mainVars>>

(* get_new_bucket: the next one of t's newest buffer, or of a new buffer.  *)
get_new_bucket(t) ==
    IF overflowbuf[t].count < OVERFLOW_BUF_SIZE
    THEN [overflowbuf[t] EXCEPT !.count = @ + 1]
    ELSE [buffer |-> overflowbuf[t].buffer + 1, count |-> 1]

(* A new overflow bucket goes between the bucket and its old ones. *)
OverflowCutsChain(t) ==                    \* slip: b->next is not set
    LET curr == Curr(t)
        nxt == mem[curr].next
        taken == get_new_bucket(t)
        place == IF taken.buffer = overflowbuf[t].buffer THEN overflowbuf[t].count ELSE 0
        new == <<t, taken.buffer, place>>
    IN  /\ pc[t] = "choose"
        /\ Full(curr) /\ ~HasRoom(nxt)
        /\ overflowbuf' = [overflowbuf EXCEPT ![t] = taken]
        /\ mem' = [x \in DOMAIN mem \cup {new} |->
                      IF x = new THEN [mem[curr] EXCEPT !.count = 1, !.next = NULL]
                      ELSE IF x = curr THEN [mem[curr] EXCEPT !.next = new]
                      ELSE mem[x]]
        /\ dest' = [dest EXCEPT ![t] = [bucket |-> new, n |-> 0]]
        /\ Goto(t, "store")
        /\ UNCHANGED <<constVars, i, latch, freed, probeVars, mainVars>>

Overflow(t) ==
    LET curr == Curr(t)
        nxt == mem[curr].next
        taken == get_new_bucket(t)
        place == IF taken.buffer = overflowbuf[t].buffer THEN overflowbuf[t].count ELSE 0
        new == <<t, taken.buffer, place>>
    IN  /\ pc[t] = "choose"
        /\ Full(curr) /\ ~HasRoom(nxt)
        /\ overflowbuf' = [overflowbuf EXCEPT ![t] = taken]
        /\ mem' = [x \in DOMAIN mem \cup {new} |->
                      IF x = new THEN [mem[curr] EXCEPT !.count = 1, !.next = nxt]
                      ELSE IF x = curr THEN [mem[curr] EXCEPT !.next = new]
                      ELSE mem[x]]
        /\ dest' = [dest EXCEPT ![t] = [bucket |-> new, n |-> 0]]
        /\ Goto(t, "store")
        /\ UNCHANGED <<constVars, i, latch, freed, probeVars, mainVars>>

(* *dest = rel->tuples[i], and unlock(&curr->latch). *)
StoreTupleKeepsLatch(t) ==                  \* slip: no unlock
    /\ pc[t] = "store"
    /\ mem' = [mem EXCEPT ![dest[t].bucket].tuples[dest[t].n] = Position(rel.R, t)]
    /\ i' = [i EXCEPT ![t] = @ + 1]
    /\ Goto(t, "build")
    /\ UNCHANGED <<constVars, latch, dest, overflowbuf, freed, probeVars, mainVars>>

StoreTuple(t) ==
    /\ pc[t] = "store"
    /\ mem' = [mem EXCEPT ![dest[t].bucket].tuples[dest[t].n] = Position(rel.R, t)]
    /\ latch' = [latch EXCEPT ![Curr(t)] = FALSE]
    /\ i' = [i EXCEPT ![t] = @ + 1]
    /\ Goto(t, "build")
    /\ UNCHANGED <<constVars, dest, overflowbuf, freed, probeVars, mainVars>>

(* build_hashtable_st inserts a tuple; the overflow bucket is calloc'ed.   *)
InsertSerially(t) ==
    LET p == Position(rel.R, t)
        curr == Curr(t)
        nxt == mem[curr].next
        x == IF Full(curr) THEN nxt ELSE curr
        new == <<0, Cardinality(DOMAIN mem)>>
    IN  /\ alg = "NPO_st" /\ pc[t] = "build" /\ i[t] < Len(Chunk(rel.R, t))
        /\ mem' = IF HasRoom(x)
                  THEN [mem EXCEPT ![x].tuples[mem[x].count] = p, ![x].count = @ + 1]
                  ELSE [y \in DOMAIN mem \cup {new} |->
                           IF y = new THEN [count |-> 1, next |-> nxt,
                                            tuples |-> [NoTuples EXCEPT ![0] = p]]
                           ELSE IF y = curr THEN [mem[curr] EXCEPT !.next = new]
                           ELSE mem[y]]
        /\ i' = [i EXCEPT ![t] = @ + 1]
        /\ UNCHANGED <<constVars, pc, latch, dest, overflowbuf, freed, probeVars, mainVars>>

BuildDone(t) ==
    /\ pc[t] = "build" /\ i[t] = Len(Chunk(rel.R, t))
    /\ i' = [i EXCEPT ![t] = 0]
    /\ Goto(t, IF alg = "NPO" THEN "built" ELSE "probe")
    /\ UNCHANGED <<constVars, buildVars, freed, probeVars, mainVars>>

-----------------------------------------------------------------------------
(* probe_hashtable: the bucket of an S tuple, and then its overflow ones.  *)
ProbeKey(t) == Chunk(rel.S, t)[i[t] + 1]

ProbeTuple(t) ==
    /\ pc[t] = "probe" /\ i[t] < Len(Chunk(rel.S, t))
    /\ b' = [b EXCEPT ![t] = HASH(ProbeKey(t))]
    /\ Goto(t, "bucket")
    /\ UNCHANGED <<constVars, i, buildVars, freed, matches, chainedbuf, mainVars>>

(* Where bucket x has a tuple with the key.  Each such match is counted,   *)
(* and goes to the result buffer cb as the pair of the rids (payloads,     *)
(* that is, positions).                                                    *)
MatchingPlaces(x, key) == {n \in 0 .. mem[x].count - 1 : rel.R[mem[x].tuples[n]] = key}

WithMatches(cb, x, key, s) ==
    LET filled[n \in 0 .. mem[x].count] ==
            IF n = 0 THEN cb
            ELSE IF rel.R[mem[x].tuples[n - 1]] = key
                 THEN Written(filled[n - 1], <<mem[x].tuples[n - 1], s>>)
                 ELSE filled[n - 1]
    IN  filled[mem[x].count]

MatchBucket(t) ==
    /\ matches' = [matches EXCEPT ![t] = @ + Cardinality(MatchingPlaces(b[t], ProbeKey(t)))]
    /\ chainedbuf' = [chainedbuf EXCEPT ![t] =
            WithMatches(@, b[t], ProbeKey(t), Position(rel.S, t))]

ProbeBucketOnly(t) ==                       \* slip: overflow pointer not followed
    /\ pc[t] = "bucket"
    /\ MatchBucket(t)
    /\ b' = [b EXCEPT ![t] = NULL]
    /\ i' = [i EXCEPT ![t] = @ + 1]
    /\ Goto(t, "probe")
    /\ UNCHANGED <<constVars, buildVars, freed, mainVars>>

ProbeBucket(t) ==
    LET next == mem[b[t]].next
    IN  /\ pc[t] = "bucket"
        /\ MatchBucket(t)
        /\ b' = [b EXCEPT ![t] = next]
        /\ i' = [i EXCEPT ![t] = IF next = NULL THEN @ + 1 ELSE @]
        /\ Goto(t, IF next = NULL THEN "probe" ELSE "bucket")
        /\ UNCHANGED <<constVars, buildVars, freed, mainVars>>

(* With timing, a thread waits for the others before it frees its buffers. *)
ProbeDoneUntimed(t) ==                      \* slip: the barrier is left out
    /\ pc[t] = "probe" /\ i[t] = Len(Chunk(rel.S, t))
    /\ Goto(t, IF alg = "NPO_st" THEN "done" ELSE "free")
    /\ UNCHANGED <<constVars, i, buildVars, freed, probeVars, mainVars>>

ProbeDone(t) ==
    /\ pc[t] = "probe" /\ i[t] = Len(Chunk(rel.S, t))
    /\ Goto(t, IF alg = "NPO_st" THEN "done" ELSE IF Timing THEN "probed" ELSE "free")
    /\ UNCHANGED <<constVars, i, buildVars, freed, probeVars, mainVars>>

free_bucket_buffer(t) ==
    /\ pc[t] = "free"
    /\ freed' = freed \cup {t}
    /\ Goto(t, "done")
    /\ UNCHANGED <<constVars, i, buildVars, probeVars, mainVars>>

Waiting == {t \in Threads : pc[t] \in {"built", "probed"}}

Leave(T) ==
    /\ pc' = [t \in Threads |-> IF t \notin T THEN pc[t]
                                ELSE IF pc[t] = "built" THEN "probe" ELSE "free"]
    /\ UNCHANGED <<constVars, i, buildVars, freed, probeVars, mainVars>>

ReleaseBarrierEarly ==                      \* slip: initialised for one too few
    /\ Cardinality(Waiting) >= NThreads - 1
    /\ Leave(Waiting)

ReleaseBarrier ==
    /\ Waiting = Threads
    /\ Leave(Waiting)

(* NPO: pthread_join, and the sum of the results.  NPO_st has but one.     *)
CollectResult ==
    /\ joined < nthreads /\ pc[joined] = "done"
    /\ totalresults' = totalresults + matches[joined]
    /\ joined' = joined + 1
    /\ UNCHANGED <<constVars, pc, i, buildVars, freed, probeVars, out>>

(* main has the join's result written: the buffers of all its threads.     *)
write_result_relation ==
    LET lines[n \in 0 .. nthreads] ==
            IF n = 0 THEN <<>> ELSE lines[n - 1] \o ReadBack(chainedbuf[n - 1], matches[n - 1])
    IN  /\ joined = nthreads /\ out = NotWritten
        /\ out' = lines[nthreads]
        /\ UNCHANGED <<constVars, pc, i, buildVars, freed, probeVars, totalresults, joined>>

Thread(t) ==
    \/ Latch(t) \/ ChoosePlace(t) \/ CountTuple(t) \/ Overflow(t) \/ StoreTuple(t)
    \/ InsertSerially(t) \/ BuildDone(t) \/ ProbeTuple(t) \/ ProbeBucket(t) \/ ProbeDone(t)
    \/ free_bucket_buffer(t)

Next ==
    \/ ReleaseBarrier \/ CollectResult \/ write_result_relation
    \/ \E t \in Threads : Thread(t)

Spec == Init /\ [][Next]_vars

-----------------------------------------------------------------------------
Building(t) == pc[t] \in {"build", "choose", "count", "store", "built"}

(* The buckets of a chain, and the places in it that hold position p.      *)
Chain(x) ==
    LET From[n \in 0 .. Cardinality(DOMAIN mem)] ==
            IF n = 0 THEN {x} ELSE From[n - 1] \cup {mem[y].next : y \in From[n - 1] \ {NULL}}
    IN  From[Cardinality(DOMAIN mem)] \ {NULL}

PlacesOf(p) ==
    {d \in Chain(HASH(rel.R[p])) \X (0 .. BUCKET_SIZE - 1) :
        d[2] < mem[d[1]].count /\ mem[d[1]].tuples[d[2]] = p}

(* No bucket counts more tuples than it has room for, no pointer leads to  *)
(* memory that was not handed out, and no thread stores beyond a bucket.   *)
TableOK ==
    /\ rel \in Relations
    /\ i \in [Threads -> 0 .. Len(rel.R) + Len(rel.S)]
    /\ \A x \in DOMAIN mem :
          /\ mem[x].count \in 0 .. BUCKET_SIZE
          /\ mem[x].next \in DOMAIN mem \cup {NULL}
          /\ x \notin Table => mem[x].count > 0
    /\ \A t \in Threads :
          pc[t] \in {"count", "store"} => dest[t].n \in 0 .. BUCKET_SIZE - 1
    /\ totalresults \in Nat /\ matches \in [Threads -> Nat]

(* What is built is the whole of R: no tuple overwrote another's place or  *)
(* was cut off with its overflow bucket, whatever the threads' order.      *)
EveryTupleStored ==
    (\A t \in Threads : ~Building(t)) =>
        \A p \in DOMAIN rel.R : Cardinality(PlacesOf(p)) = 1

(* "wait at a barrier until each thread completes build phase": nobody     *)
(* reads the table, for which probes take no latch, while anyone writes.   *)
NoProbeWhileBuilding ==
    \A t, u \in Threads : pc[t] \in {"probe", "bucket"} => ~Building(u) \/ pc[u] = "built"

(* No probe looks at an overflow bucket whose thread has freed it. *)
NoUseAfterFree ==
    \A t \in Threads : pc[t] = "bucket" /\ b[t] \notin Table => b[t][1] \notin freed

(* The join returns the number of pairs with equal keys, and what main     *)
(* writes of the result buffers is each of these pairs once.               *)
EqualPairs == {d \in (DOMAIN rel.R) \X (DOMAIN rel.S) : rel.R[d[1]] = rel.S[d[2]]}

TotalRight == joined = nthreads => totalresults = Cardinality(EqualPairs)

ResultRight ==
    /\ TotalRight
    /\ out # NotWritten => Len(out) = totalresults /\ ToSet(out) = EqualPairs

(* The join has returned, and main has written the file. *)
Ended == joined = nthreads /\ out # NotWritten
=============================================================================
