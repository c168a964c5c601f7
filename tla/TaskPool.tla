------------------------------ MODULE TaskPool ------------------------------
(***************************************************************************)
(* What prj_thread expects of a task queue: every task that was added is   *)
(* handed out once, the last one added first, and a thread is told there   *)
(* is none only when there is none.                                        *)
(***************************************************************************)
EXTENDS Sequences

CONSTANTS
    Threads,
    Tasks,      \* the tasks, each of which is added at most once
    NoTask,     \* the null pointer
    Asking      \* a thread that waits for an answer

VARIABLES
    pool,       \* the tasks to be handed out, the next one first
    added,      \* the tasks ever added
    got         \* got[t]: the answer to t's last request

vars == <<pool, added, got>>

Init ==
    /\ pool = <<>>
    /\ added = {}
    /\ got = [t \in Threads |-> NoTask]

Add(task) ==
    /\ task \notin added
    /\ pool' = <<task>> \o pool
    /\ added' = added \cup {task}
    /\ UNCHANGED got

Ask(t) ==
    /\ got' = [got EXCEPT ![t] = Asking]
    /\ UNCHANGED <<pool, added>>

GetTask(t) ==
    /\ got[t] = Asking /\ pool # <<>>
    /\ got' = [got EXCEPT ![t] = Head(pool)]
    /\ pool' = Tail(pool)
    /\ UNCHANGED added

GetNothing(t) ==
    /\ got[t] = Asking /\ pool = <<>>
    /\ got' = [got EXCEPT ![t] = NoTask]
    /\ UNCHANGED <<pool, added>>

Next ==
    \/ \E task \in Tasks : Add(task)
    \/ \E t \in Threads : Ask(t) \/ GetTask(t) \/ GetNothing(t)

Spec == Init /\ [][Next]_vars
=============================================================================
