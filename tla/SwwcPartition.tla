---------------------------- MODULE SwwcPartition ----------------------------
(***************************************************************************)
(* The first pass with USE_SWWC_OPTIMIZED_PART:                            *)
(* parallel_radix_partition_optimized.  Up to the offsets it is            *)
(* parallel_radix_partition, so those actions are RadixPartition's.  It    *)
(* then collects the tuples of each partition in a buffer of one cache     *)
(* line, writes a line that is full to its place in tmp, and writes what   *)
(* remains in the buffers at the end.                                      *)
(*                                                                         *)
(* A line of tmp belongs to whoever has slots in it, and threads follow    *)
(* each other within a partition with no padding in between: a whole line  *)
(* carries with it what the buffer holds in the places of other threads.   *)
(***************************************************************************)
EXTENDS RadixPartition

CONSTANT Line       \* TUPLESPERCACHELINE

ASSUME LineAssumption == Line \in Nat \ {0, 1}

(* PADDING_TUPLES are 3 * (FANOUT_PASS2 + 1) lines.                        *)
ASSUME PaddingCoversLine == Padding >= Line

VARIABLE buffer     \* buffer[t][c]: the cacheline_t of partition c

swwcVars == <<vars, buffer>>

(* An entry of a buffer, or of tmp, that was never given a tuple. *)
Garbage == 0

(* data.slot lies over the last tuple of the line. *)
SlotOf(line) == line[Line - 1]

Slot(t, c) == SlotOf(buffer[t][c])

(* The buffers are on the stack, where they are not initialised.           *)
NoBuffer == [c \in Clusters |-> [k \in 0 .. Line - 1 |-> Garbage]]

(* buffer[i].data.slot = off, for the offsets of thread t *)
SlotsSet(off) ==
    [c \in Clusters |-> [NoBuffer[c] EXCEPT ![Line - 1] = off[c]]]

(* off = output[i] + i * padding; output[i] = off; data.slot = off         *)
SetSlots(t) ==
    LET r == relidx[t]
        off == [c \in 0 .. FanOut |-> output[r][t][c] + c * Padding]
    IN  /\ pc[t] = "offsets" /\ i[t] = NThreads
        /\ output' = [output EXCEPT ![r][t] = off]
        /\ buffer' = [buffer EXCEPT ![t] = SlotsSet(off)]
        /\ pc' = [pc EXCEPT ![t] = "copy"]
        /\ i' = [i EXCEPT ![t] = 0]
        /\ UNCHANGED <<rel, relidx, bit, bitmap, hist, contains_cache, dst, tmp>>

-----------------------------------------------------------------------------
InCopy(t) == pc[t] = "copy" /\ i[t] < num_tuples(Rel(t), t) /\ Kept(t)

Cluster(t) == HASH_BIT_MODULO(Key(Rel(t), t, i[t]))

(* The buffer with the tuple in its place: tup[slotMod] = rel[i].          *)
Filled(t) ==
    [buffer[t][Cluster(t)] EXCEPT ![Slot(t, Cluster(t)) % Line] =
        Position(Rel(t), t, i[t])]

(* tmp with the given slots overwritten.                                   *)
Written(r, written) == [s \in DOMAIN tmp[r] \cup DOMAIN written |->
    IF s \in DOMAIN written THEN written[s] ELSE tmp[r][s]]

(* buffer[idx].data.slot = slot + 1, over the last tuple.                  *)
NextSlot(t) == [Filled(t) EXCEPT ![Line - 1] = Slot(t, Cluster(t)) + 1]

BufferTuple(t) ==
    /\ InCopy(t) /\ Slot(t, Cluster(t)) % Line # Line - 1
    /\ buffer' = [buffer EXCEPT ![t][Cluster(t)] = NextSlot(t)]
    /\ i' = [i EXCEPT ![t] = @ + 1]
    /\ UNCHANGED <<rel, pc, relidx, bit, bitmap, hist, contains_cache, output, dst, tmp>>

(* store_nontemp_64B writes the whole line, from its first slot on.        *)
FlushLineOnceSlotIsSet(t) ==                 \* slip: data.slot is set before the flush
    LET r == relidx[t]
        slot == Slot(t, Cluster(t))
    IN  /\ InCopy(t) /\ slot % Line = Line - 1
        /\ tmp' = [tmp EXCEPT ![r] = Written(r,
               [s \in slot - (Line - 1) .. slot |-> NextSlot(t)[s % Line]])]
        /\ buffer' = [buffer EXCEPT ![t][Cluster(t)] = NextSlot(t)]
        /\ i' = [i EXCEPT ![t] = @ + 1]
        /\ UNCHANGED <<rel, pc, relidx, bit, bitmap, hist, contains_cache, output, dst>>

FlushLine(t) ==
    LET r == relidx[t]
        slot == Slot(t, Cluster(t))
    IN  /\ InCopy(t) /\ slot % Line = Line - 1
        /\ tmp' = [tmp EXCEPT ![r] = Written(r,
               [s \in slot - (Line - 1) .. slot |-> Filled(t)[s % Line]])]
        /\ buffer' = [buffer EXCEPT ![t][Cluster(t)] = NextSlot(t)]
        /\ i' = [i EXCEPT ![t] = @ + 1]
        /\ UNCHANGED <<rel, pc, relidx, bit, bitmap, hist, contains_cache, output, dst>>

Skip(t) == SkipTuple(t) /\ UNCHANGED buffer

CopyDone(t) ==
    /\ pc[t] = "copy" /\ i[t] = num_tuples(Rel(t), t)
    /\ pc' = [pc EXCEPT ![t] = "remainder"]
    /\ i' = [i EXCEPT ![t] = 0]
    /\ UNCHANGED <<rel, relidx, bit, bitmap, hist, contains_cache, output, dst, tmp, buffer>>

RemainderOfLine(slot) ==                     \* slip: slot is not rounded down
    slot .. slot + (slot % Line) - 1

(* The remainder of partition i: the sz slots of its last line before      *)
(* data.slot, whether this thread filled them or not.                      *)
Remainder(slot) == slot - (slot % Line) .. slot - 1

WriteRemainder(t) ==
    LET r == relidx[t]
        line == buffer[t][i[t]]
    IN  /\ pc[t] = "remainder" /\ i[t] < FanOut
        /\ tmp' = [tmp EXCEPT ![r] =
               Written(r, [s \in Remainder(SlotOf(line)) |-> line[s % Line]])]
        /\ i' = [i EXCEPT ![t] = @ + 1]
        /\ UNCHANGED <<rel, pc, relidx, bit, bitmap, hist, contains_cache, output, dst, buffer>>

(* Return to prj_thread and its barrier; the stack is given up. *)
Return(t) ==
    /\ pc[t] = "remainder" /\ i[t] = FanOut
    /\ pc' = [pc EXCEPT ![t] = "sync2"]
    /\ i' = [i EXCEPT ![t] = 0]
    /\ contains_cache' = [contains_cache EXCEPT ![t] = {}]
    /\ buffer' = [buffer EXCEPT ![t] = NoBuffer]
    /\ UNCHANGED <<rel, relidx, bit, bitmap, hist, output, dst, tmp>>

-----------------------------------------------------------------------------
SwwcCopy(t) ==
    \/ SetSlots(t) \/ BufferTuple(t) \/ FlushLine(t) \/ Skip(t) \/ CopyDone(t)
    \/ WriteRemainder(t) \/ Return(t)

-----------------------------------------------------------------------------
(***************************************************************************)
(* What can be said of the slots, whatever the threads' order.             *)
(***************************************************************************)
(* The slots of thread t in partition c of relation r, and those it may    *)
(* write: from the start of its first line on, even if it has no tuple of  *)
(* the partition at all.  Both are known after the offsets.                *)
Count(r, t, c) == hist[r][t][c] - IF c = 0 THEN 0 ELSE hist[r][t][c - 1]

OwnSlots(r, t, c) == output[r][t][c] .. output[r][t][c] + Count(r, t, c) - 1

Reach(r, t, c) ==
    output[r][t][c] - (output[r][t][c] % Line) .. output[r][t][c] + Count(r, t, c) - 1

ReachedByAnother(r, t, s) == \E u \in Threads \ {t}, c \in Clusters : s \in Reach(r, u, c)

HoldsTupleOf(r, t, c, s) ==
    /\ s \in DOMAIN tmp[r]
    /\ \E n \in 0 .. num_tuples(rel[r], t) - 1 :
          tmp[r][s] = Position(rel[r], t, n) /\ HASH_BIT_MODULO(Key(rel[r], t, n)) = c

(* Once a relation is partitioned, a slot within no other thread's reach   *)
(* holds a tuple of its thread and partition, and these are in the order   *)
(* of the relation: tuples are lost where threads meet in a line, and only *)
(* the earlier thread's.                                                   *)
UnreachedSlotsRight ==
    \A r \in Rels : Partitioned(r) =>
        \A t \in Threads, c \in Clusters : \A s \in OwnSlots(r, t, c) :
            ~ReachedByAnother(r, t, s) =>
                /\ HoldsTupleOf(r, t, c, s)
                /\ \A u \in OwnSlots(r, t, c) :
                      u > s /\ ~ReachedByAnother(r, t, u) => tmp[r][u] > tmp[r][s]

(* Once a relation is partitioned, whatever is in a slot of its partitions *)
(* belongs there or is garbage: no tuple is in two slots, in the slots of  *)
(* another thread or of another partition, and no slot number is a tuple.  *)
NothingMisplaced ==
    \A r \in Rels : Partitioned(r) =>
        \A t \in Threads, c \in Clusters : \A s \in OwnSlots(r, t, c) :
            s \in DOMAIN tmp[r] /\ tmp[r][s] # Garbage =>
                /\ HoldsTupleOf(r, t, c, s)
                /\ \A u \in DOMAIN tmp[r] : u # s => tmp[r][u] # tmp[r][s]

=============================================================================
