-------------------------- MODULE SharedStructures --------------------------
(***************************************************************************)
(* The two data structures that the threads of a parallel radix join write *)
(* to at the same time: the Bloom filter of R's keys and the task queues.  *)
(* They share nothing, so that a behaviour is one of the filter or one of  *)
(* a queue (part), and the other stays in one of its initial states.  The  *)
(* properties are those of BloomFilterUse and TaskQueue.                   *)
(***************************************************************************)
EXTENDS TaskQueue, BloomFilterUse

CONSTANT Parts  \* of "filter" and "queue"

VARIABLE part

sharedVars == <<part, filterVars, vars>>

SharedInit ==
    /\ part \in Parts
    /\ Init /\ FilterInit
    /\ part # "filter" => filter = CHOOSE f \in Filters : TRUE

FilterStep(a) ==
    /\ part = "filter"
    /\ CallAddKey(a) \/ AddBit(a) \/ AddReturns(a)
    /\ UNCHANGED <<part, vars>>

(* Every key was added: the adders have nothing left to do.                *)
FilterFilled ==
    /\ part = "filter" /\ added = Keys
    /\ UNCHANGED sharedVars

QueueStep(t) ==
    /\ part = "queue"
    /\ Thread(t)
    /\ UNCHANGED <<part, filterVars>>

SharedNext ==
    \/ \E a \in Adders : FilterStep(a)
    \/ FilterFilled
    \/ \E t \in Threads : QueueStep(t)

SharedSpec == SharedInit /\ [][SharedNext]_sharedVars
=============================================================================
