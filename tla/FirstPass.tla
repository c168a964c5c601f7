----------------------------- MODULE FirstPass -----------------------------
(***************************************************************************)
(* The first pass as four programs run it: BPRO, BPRH and BPRHO with the   *)
(* Bloom filter (parallel_radix_join_bloom.c) and PRO, PRH and PRHO        *)
(* without (parallel_radix_join.c), each with or without                   *)
(* USE_SWWC_OPTIMIZED_PART.                                                *)
(*                                                                         *)
(* Without the filter a thread goes on to S when it has copied its part of *)
(* R, and waits for nobody: the barrier between the relations exists in    *)
(* the filtered program only.                                              *)
(***************************************************************************)
EXTENDS SwwcPartition, FiniteSets

CONSTANT Programs   \* the programs: whether they filter, whether they combine

ASSUME ProgramsAssumption == Programs \subseteq [filter : BOOLEAN, swwc : BOOLEAN]

VARIABLE program    \* which of them runs; never changes

passVars == <<swwcVars, program>>

FirstLoop == IF program.filter THEN "histogram" ELSE "count"

(* Without a filter there is no contains_cache: every tuple is kept.       *)
Unfiltered == UNION {0 .. num_tuples(rel[r], t) - 1 : r \in Rels, t \in Threads}

PassInit ==
    /\ program \in Programs
    /\ rel \in [Rels -> Inputs]
    /\ pc = [t \in Threads |-> FirstLoop]
    /\ relidx = [t \in Threads |-> 0]
    /\ i = [t \in Threads |-> 0]
    /\ bit = [t \in Threads |-> 0]
    /\ bitmap = {}
    /\ hist = [r \in Rels |-> [t \in Threads |-> [c \in Clusters |-> 0]]]
    /\ contains_cache = [t \in Threads |-> IF program.filter THEN {} ELSE Unfiltered]
    /\ output = [r \in Rels |-> [t \in Threads |-> [c \in 0 .. FanOut |-> 0]]]
    /\ dst = [t \in Threads |-> [c \in Clusters |-> 0]]
    /\ tmp = [r \in Rels |-> [s \in {} |-> 0]]
    /\ buffer = [t \in Threads |-> NoBuffer]

-----------------------------------------------------------------------------
(***************************************************************************)
(* The functions of parallel_radix_join.c where they differ.               *)
(***************************************************************************)
(* The histogram loop without the filter. *)
CountAll(t) ==
    LET r == relidx[t]
    IN  /\ pc[t] = "count" /\ i[t] < num_tuples(Rel(t), t)
        /\ hist' = [hist EXCEPT ![r][t][HASH_BIT_MODULO(Key(Rel(t), t, i[t]))] = @ + 1]
        /\ i' = [i EXCEPT ![t] = @ + 1]
        /\ UNCHANGED <<rel, pc, relidx, bit, bitmap, contains_cache, output, dst, tmp, buffer>>

CountAllDone(t) ==
    /\ pc[t] = "count" /\ i[t] = num_tuples(Rel(t), t)
    /\ pc' = [pc EXCEPT ![t] = "prefix"]
    /\ i' = [i EXCEPT ![t] = 0]
    /\ UNCHANGED <<rel, relidx, bit, bitmap, hist, contains_cache, output, dst, tmp, buffer>>

(* The padding; output[fanOut] is total_tuples and not a sum of rows.      *)
PaddedTotal(t) ==
    [c \in 0 .. FanOut |->
        IF c = FanOut THEN Len(Rel(t)) + FanOut * Padding
        ELSE output[relidx[t]][t][c] + c * Padding]

PadToTotal(t) ==
    /\ pc[t] = "offsets" /\ i[t] = NThreads
    /\ output' = [output EXCEPT ![relidx[t]][t] = PaddedTotal(t)]
    /\ \/ /\ program.swwc
          /\ buffer' = [buffer EXCEPT ![t] = SlotsSet(PaddedTotal(t))]
          /\ UNCHANGED dst
       \/ /\ ~program.swwc
          /\ dst' = [dst EXCEPT ![t] = [c \in Clusters |-> PaddedTotal(t)[c]]]
          /\ UNCHANGED buffer
    /\ pc' = [pc EXCEPT ![t] = "copy"]
    /\ i' = [i EXCEPT ![t] = 0]
    /\ UNCHANGED <<rel, relidx, bit, bitmap, hist, contains_cache, tmp>>

(* R is copied: straight on to S. *)
CopiedOut(t) ==
    \/ program.swwc /\ pc[t] = "remainder" /\ i[t] = FanOut
    \/ ~program.swwc /\ pc[t] = "copy" /\ i[t] = num_tuples(Rel(t), t)

NextRelation(t) ==
    /\ relidx[t] = 0 /\ CopiedOut(t)
    /\ relidx' = [relidx EXCEPT ![t] = 1]
    /\ pc' = [pc EXCEPT ![t] = "count"]
    /\ i' = [i EXCEPT ![t] = 0]
    /\ buffer' = [buffer EXCEPT ![t] = NoBuffer]
    /\ UNCHANGED <<rel, bit, bitmap, hist, contains_cache, output, dst, tmp>>

-----------------------------------------------------------------------------
(* The filter loop, then what all four programs share. *)
Scan(t) == AddBit(t) \/ TestBit(t) \/ FilterOut(t) \/ CountTuple(t) \/ HistogramDone(t)

Offsets(t) == PrefixSum(t) \/ ArriveAtSync1(t) \/ AddRow(t)

PlainCopy(t) == CopyTuple(t) \/ SkipTuple(t)

SwwcCopyLoop(t) ==
    BufferTuple(t) \/ FlushLine(t) \/ Skip(t) \/ CopyDone(t) \/ WriteRemainder(t)

Filtered(t) ==
    /\ program.filter
    /\ \/ (Scan(t) \/ Offsets(t)) /\ UNCHANGED buffer
       \/ /\ ~program.swwc
          /\ AddPadding(t) \/ PlainCopy(t) \/ ArriveAtSync2(t)
          /\ UNCHANGED buffer
       \/ program.swwc /\ SwwcCopy(t)

Filterless(t) ==
    /\ ~program.filter
    /\ \/ CountAll(t) \/ CountAllDone(t) \/ PadToTotal(t) \/ NextRelation(t)
       \/ Offsets(t) /\ UNCHANGED buffer
       \/ ~program.swwc /\ CopyTuple(t) /\ UNCHANGED buffer
       \/ program.swwc /\ SwwcCopyLoop(t)
       \/ relidx[t] = 1 /\ ~program.swwc /\ ArriveAtSync2(t) /\ UNCHANGED buffer
       \/ relidx[t] = 1 /\ program.swwc /\ Return(t)

PassThread(t) == (Filtered(t) \/ Filterless(t)) /\ UNCHANGED program

PassBarrier == ReleaseBarrier /\ UNCHANGED <<buffer, program>>

PassDone == Done /\ UNCHANGED <<buffer, program>>

PassNext == PassBarrier \/ PassDone \/ \E t \in Threads : PassThread(t)

PassSpec == PassInit /\ [][PassNext]_passVars

(* As in RadixPartition: the scheduler runs every thread, and the barrier  *)
(* opens once the last thread has arrived.                                 *)
PassFairSpec ==
    /\ PassSpec
    /\ \A t \in Threads : WF_passVars(PassThread(t))
    /\ WF_passVars(PassBarrier)

-----------------------------------------------------------------------------
(***************************************************************************)
(* Properties, besides those of RadixPartition and SwwcPartition.          *)
(***************************************************************************)
(* With plain stores both programs do what PartitionContract says, with    *)
(* the barrier between the relations and without it.                       *)
PlainContract == INSTANCE PartitionContract WITH
    part <- [r \in Rels |-> IF ~program.swwc /\ Partitioned(r)
                            THEN [c \in Clusters |-> PartitionSeen(r, c)]
                            ELSE <<>>]

PlainImplementsContract == PlainContract!Spec
=============================================================================
