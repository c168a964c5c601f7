----------------------------- MODULE TaskQueue ------------------------------
(***************************************************************************)
(* The task queue of task_queue.h: a linked list of task slots under one   *)
(* mutex (lock), and an allocator that hands out the slots of its front    *)
(* block, or of a new one, under another (alloc_lock).                     *)
(*                                                                         *)
(* Threads call task_queue_get_slot_atomic, fill the slot, and pass it to  *)
(* task_queue_add_atomic, or call task_queue_get_atomic.  One action is    *)
(* one statement of a critical section, so that the mutexes matter; slots  *)
(* are never reused, and a task a thread was given stays in its slot.      *)
(***************************************************************************)
EXTENDS Integers, Sequences, FiniteSets

CONSTANTS
    Threads,    \* the threads that share the queue
    AllocSize,  \* tq->alloc_size, the slots of a block
    Tasks,      \* bound: the tasks, each of which is added once
    NoTask, Asking, NoThread

ASSUME AllocSizeAssumption == AllocSize \in Nat \ {0}
ASSUME TasksAssumption ==
    IsFiniteSet(Tasks) /\ NoTask \notin Tasks /\ Asking \notin Tasks \cup {NoTask}
ASSUME NoThreadAssumption == NoThread \notin Threads

VARIABLES
    lock,       \* the holder of tq->lock
    alloc_lock, \* the holder of tq->alloc_lock
    head,       \* tq->head
    next,       \* next[s]: the next pointer in slot s
    count,      \* tq->count
    block,      \* tq->free_list: the number of the block at its front
    curr,       \* tq->free_list->curr
    content,    \* content[s]: the task description in slot s
    pc,         \* pc[t]: what t does next
    slot,       \* slot[t]: the slot t is adding
    task,       \* task[t]: the task t is adding
    ret         \* ret[t]: what task_queue_get_atomic last returned to t

queueVars == <<head, next, count>>
allocVars == <<block, curr>>
vars == <<lock, alloc_lock, queueVars, allocVars, content, pc, slot, task, ret>>

NULL == <<0, 0>>

(* The slots, by block and place in it, as many as the tasks can need. *)
Slots == (1 .. 1 + (Cardinality(Tasks) \div AllocSize)) \X (0 .. AllocSize - 1)

Begun == {task[t] : t \in Threads} \cup {content[s] : s \in Slots}

Init ==
    /\ lock = NoThread /\ alloc_lock = NoThread
    /\ head = NULL
    /\ next = [s \in Slots |-> NULL]
    /\ count = 0
    /\ block = 1 /\ curr = 0
    /\ content = [s \in Slots |-> NoTask]
    /\ pc = [t \in Threads |-> "idle"]
    /\ slot = [t \in Threads |-> NULL]
    /\ task = [t \in Threads |-> NoTask]
    /\ ret = [t \in Threads |-> NULL]

Goto(t, l) == pc' = [pc EXCEPT ![t] = l]

-----------------------------------------------------------------------------
(* task_queue_get_slot_atomic: for a task the caller has not added yet.    *)
CallGetSlotUnlocked(t) ==                       \* slip: no alloc_lock
    /\ pc[t] = "idle"
    /\ \E new \in Tasks \ Begun : task' = [task EXCEPT ![t] = new]
    /\ Goto(t, "take")
    /\ UNCHANGED <<lock, alloc_lock, queueVars, allocVars, content, slot, ret>>

CallGetSlot(t) ==
    /\ pc[t] = "idle"
    /\ \E new \in Tasks \ Begun : task' = [task EXCEPT ![t] = new]
    /\ alloc_lock = NoThread /\ alloc_lock' = t
    /\ Goto(t, "take")
    /\ UNCHANGED <<lock, queueVars, allocVars, content, slot, ret>>

TakeSlot(t) ==
    /\ pc[t] = "take" /\ curr < AllocSize
    /\ slot' = [slot EXCEPT ![t] = <<block, curr>>]
    /\ Goto(t, "bump")
    /\ UNCHANGED <<lock, alloc_lock, queueVars, allocVars, content, task, ret>>

BumpCurr(t) ==
    /\ pc[t] = "bump"
    /\ curr' = curr + 1
    /\ alloc_lock' = NoThread
    /\ Goto(t, "fill")
    /\ UNCHANGED <<lock, queueVars, block, content, slot, task, ret>>

NewBlockFromZero(t) ==                      \* slip: nl->curr = 0
    /\ pc[t] = "take" /\ curr >= AllocSize
    /\ block' = block + 1 /\ curr' = 0
    /\ slot' = [slot EXCEPT ![t] = <<block + 1, 0>>]
    /\ alloc_lock' = NoThread
    /\ Goto(t, "fill")
    /\ UNCHANGED <<lock, queueVars, content, task, ret>>

NewBlock(t) ==
    /\ pc[t] = "take" /\ curr >= AllocSize
    /\ block' = block + 1 /\ curr' = 1
    /\ slot' = [slot EXCEPT ![t] = <<block + 1, 0>>]
    /\ alloc_lock' = NoThread
    /\ Goto(t, "fill")
    /\ UNCHANGED <<lock, queueVars, content, task, ret>>

(* The caller fills its slot, and task_queue_add_atomic takes the lock.    *)
CallAdd(t) ==
    /\ pc[t] = "fill"
    /\ lock = NoThread /\ lock' = t
    /\ content' = [content EXCEPT ![slot[t]] = task[t]]
    /\ task' = [task EXCEPT ![t] = NoTask]
    /\ Goto(t, "link")
    /\ UNCHANGED <<alloc_lock, queueVars, allocVars, slot, ret>>

Link(t) ==
    /\ pc[t] = "link"
    /\ next' = [next EXCEPT ![slot[t]] = head]
    /\ Goto(t, "push")
    /\ UNCHANGED <<lock, alloc_lock, head, count, allocVars, content, slot, task, ret>>

Push(t) ==
    /\ pc[t] = "push"
    /\ head' = slot[t]
    /\ Goto(t, "count")
    /\ UNCHANGED <<lock, alloc_lock, next, count, allocVars, content, slot, task, ret>>

CountUp(t) ==
    /\ pc[t] = "count"
    /\ count' = count + 1
    /\ lock' = NoThread
    /\ slot' = [slot EXCEPT ![t] = NULL]
    /\ Goto(t, "idle")
    /\ UNCHANGED <<alloc_lock, head, next, allocVars, content, task, ret>>

-----------------------------------------------------------------------------
(* task_queue_get_atomic, which get_next_task repeats.                     *)
CallGet(t) ==
    /\ pc[t] = "idle"
    /\ lock = NoThread /\ lock' = t
    /\ ret' = [ret EXCEPT ![t] = NULL]
    /\ Goto(t, "test")
    /\ UNCHANGED <<alloc_lock, queueVars, allocVars, content, slot, task>>

GetHead(t) ==
    /\ pc[t] = "test" /\ count > 0
    /\ ret' = [ret EXCEPT ![t] = head]
    /\ Goto(t, "unlink")
    /\ UNCHANGED <<lock, alloc_lock, queueVars, allocVars, content, slot, task>>

GetNothing(t) ==
    /\ pc[t] = "test" /\ count <= 0
    /\ lock' = NoThread
    /\ Goto(t, "idle")
    /\ UNCHANGED <<alloc_lock, queueVars, allocVars, content, slot, task, ret>>

Unlink(t) ==
    /\ pc[t] = "unlink"
    /\ head' = next[ret[t]]
    /\ Goto(t, "uncount")
    /\ UNCHANGED <<lock, alloc_lock, next, count, allocVars, content, slot, task, ret>>

CountDown(t) ==
    /\ pc[t] = "uncount"
    /\ count' = count - 1
    /\ lock' = NoThread
    /\ Goto(t, "idle")
    /\ UNCHANGED <<alloc_lock, head, next, allocVars, content, slot, task, ret>>

Thread(t) ==
    \/ CallGetSlot(t) \/ TakeSlot(t) \/ BumpCurr(t) \/ NewBlock(t)
    \/ CallAdd(t) \/ Link(t) \/ Push(t) \/ CountUp(t)
    \/ CallGet(t) \/ GetHead(t) \/ GetNothing(t) \/ Unlink(t) \/ CountDown(t)

Next == \E t \in Threads : Thread(t)

Spec == Init /\ [][Next]_vars
-----------------------------------------------------------------------------
(* The list: the slots found from head on, up to the null pointer. *)
At[n \in 0 .. Cardinality(Slots)] ==
    IF n = 0 THEN head
    ELSE LET before == At[n - 1] IN IF before = NULL THEN NULL ELSE next[before]

OnList(s) == s # NULL /\ \E n \in DOMAIN At : At[n] = s

Length == Cardinality({n \in DOMAIN At : At[n] # NULL})

(* A slot has one owner: the thread filling it, the list, or the thread it *)
(* was handed to.  Nobody writes a task that another thread works on.      *)
Filling(t, s) == slot[t] = s /\ pc[t] \in {"bump", "fill", "link", "push"}
Holding(t, s) == ret[t] = s /\ pc[t] # "unlink"

OneOwner ==
    \A s \in Slots : \A t \in Threads :
        Filling(t, s) =>
            /\ ~OnList(s)
            /\ \A u \in Threads : ~Holding(u, s)
            /\ \A u \in Threads \ {t} : ~Filling(u, s)

Pool == INSTANCE TaskPool WITH
    pool <- [n \in 1 .. Length |-> content[At[n - 1]]],
    added <- {content[s] : s \in {x \in Slots : /\ content[x] # NoTask
                                              /\ \A t \in Threads : ~Filling(t, x)}},
    got <- [t \in Threads |-> IF pc[t] \in {"test", "unlink"} THEN Asking
                              ELSE IF ret[t] = NULL THEN NoTask
                              ELSE content[ret[t]]]

(* The list under its two mutexes is the pool prj_thread expects.          *)
ImplementsPool == Pool!Spec
=============================================================================
