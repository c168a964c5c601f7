-------------------------- MODULE TaskQueueProofs ---------------------------
(***************************************************************************)
(* Proofs about TaskQueue, for any number of threads and tasks and blocks  *)
(* of any size: a slot has one owner at a time, and the queue implements   *)
(* the pool of tasks that prj_thread expects.                              *)
(***************************************************************************)
EXTENDS TaskQueue, WellFoundedInduction, FiniteSetTheorems, SequenceTheorems, TLAPS

(* A set of natural numbers has a least element.                           *)
LEMMA LeastNatural ==
    ASSUME NEW T, T \subseteq Nat, T # {}
    PROVE  \E x \in T : \A y \in T : x <= y
<1> DEFINE R == {d \in Nat \X Nat : d[1] < d[2]}
<1>1. IsWellFoundedOn(R, Nat)
  BY NatLessThanWellFounded DEF OpToRel
<1>2. \A x, y \in Nat : <<x, y>> \in R <=> x < y
  OBVIOUS
<1> HIDE DEF R
<1>3. PICK x \in T : \A y \in T : ~ (<<y, x>> \in R)
  BY <1>1, WFMin
<1>4. ASSUME NEW y \in T PROVE x <= y
  <2>1. x \in Nat /\ y \in Nat
    OBVIOUS
  <2>2. ~ (y < x)
    BY <1>2, <1>3, <2>1
  <2> QED
    BY <2>1, <2>2
<1> QED
  BY <1>4

(* A set that holds 0 and the successors of its elements holds them all.   *)
LEMMA Induction ==
    ASSUME NEW T, 0 \in T, \A n \in Nat : n \in T => n + 1 \in T
    PROVE  Nat \subseteq T
<1> DEFINE U == Nat \ T
<1> SUFFICES ASSUME U # {} PROVE FALSE
  OBVIOUS
<1>1. PICK x \in U : \A y \in U : x <= y
  BY LeastNatural
<1>2. x # 0 /\ x - 1 \in Nat
  BY <1>1
<1>3. x - 1 \in T
  BY <1>1, <1>2
<1> QED
  BY <1>2, <1>3

(* f begins with first, and each value follows from the one before.        *)
Follows(f, n, first, step) ==
    f[0] = first /\ \A k \in 1 .. n : f[k] = step[<<k, f[k - 1]>>]

(* The values of a recursive function up to n, one after the other.        *)
LEMMA Recursion ==
    ASSUME NEW V, NEW first \in V, NEW step \in [Nat \X V -> V], NEW n \in Nat
    PROVE  \E f \in [0 .. n -> V] : Follows(f, n, first, step)
<1> DEFINE T == {m \in Nat : \E f \in [0 .. m -> V] : Follows(f, m, first, step)}
<1>1. 0 \in T
  <2>1. [k \in 0 .. 0 |-> first] \in [0 .. 0 -> V] /\ Follows([k \in 0 .. 0 |-> first], 0, first, step)
    BY DEF Follows
  <2> QED
    BY <2>1
<1>2. ASSUME NEW m \in Nat, m \in T PROVE m + 1 \in T
  <2>1. PICK f \in [0 .. m -> V] : Follows(f, m, first, step)
    BY <1>2
  <2> DEFINE g == [k \in 0 .. m + 1 |-> IF k = m + 1 THEN step[<<k, f[m]>>] ELSE f[k]]
  <2>2. step[<<m + 1, f[m]>>] \in V
    OBVIOUS
  <2>3. g \in [0 .. m + 1 -> V]
    BY <2>2
  <2>4. g[0] = first
    BY <2>1 DEF Follows
  <2>5. ASSUME NEW k \in 1 .. m + 1 PROVE g[k] = step[<<k, g[k - 1]>>]
    <3>1. CASE k = m + 1
      <4>1. g[k] = step[<<k, f[m]>>] /\ g[k - 1] = f[m]
        BY <3>1
      <4> QED
        BY <4>1
    <3>2. CASE k # m + 1
      <4>1. k \in 1 .. m /\ k - 1 \in 0 .. m
        BY <3>2
      <4>2. g[k] = f[k] /\ g[k - 1] = f[k - 1]
        BY <3>2, <4>1
      <4>3. f[k] = step[<<k, f[k - 1]>>]
        BY <2>1, <4>1 DEF Follows
      <4> QED
        BY <4>2, <4>3
    <3> QED
      BY <3>1, <3>2
  <2> HIDE DEF g
  <2>6. Follows(g, m + 1, first, step)
    BY <2>4, <2>5 DEF Follows
  <2> QED
    BY <2>3, <2>6
<1>3. n \in T
  <2> HIDE DEF T
  <2> QED
    BY <1>1, <1>2, Induction
<1> QED
  BY <1>3
-----------------------------------------------------------------------------

Labels == {"idle", "take", "bump", "fill", "link", "push", "count",
           "test", "unlink", "uncount"}

NBlocks == 1 + (Cardinality(Tasks) \div AllocSize)

TypeInv ==
    /\ lock \in Threads \cup {NoThread}
    /\ alloc_lock \in Threads \cup {NoThread}
    /\ head \in Slots \cup {NULL}
    /\ next \in [Slots -> Slots \cup {NULL}]
    /\ count \in Int
    /\ block \in 1 .. NBlocks /\ curr \in 0 .. AllocSize
    /\ content \in [Slots -> Tasks \cup {NoTask}]
    /\ pc \in [Threads -> Labels]
    /\ slot \in [Threads -> Slots \cup {NULL}]
    /\ task \in [Threads -> Tasks \cup {NoTask}]
    /\ ret \in [Threads -> Slots \cup {NULL}]

(* The places under each of the mutexes, with a task in hand, with a slot  *)
(* in hand that is not linked yet, and of these, with the task in it.      *)
Allocating == {"take", "bump"}
Locking == {"link", "push", "count", "test", "unlink", "uncount"}
Adding == {"take", "bump", "fill"}
Filled == {"link", "push"}
Empty == {"bump", "fill"}

Mutexes ==
    \A t \in Threads :
        /\ pc[t] \in Allocating <=> alloc_lock = t
        /\ pc[t] \in Locking <=> lock = t

(* A task is in the hand of one thread, or in one slot.                    *)
OneCopy ==
    /\ \A t \in Threads : task[t] # NoTask <=> pc[t] \in Adding
    /\ \A t, u \in Threads : task[t] # NoTask /\ task[t] = task[u] => t = u
    /\ \A t \in Threads, s \in Slots : task[t] # NoTask => content[s] # task[t]
    /\ \A s, r \in Slots : content[s] # NoTask /\ content[s] = content[r] => s = r

(* As many slots have been given away as tasks have been begun, so that    *)
(* the blocks do.                                                          *)
BegunTasks == Begun \ {NoTask}

SlotsCounted ==
    Cardinality(BegunTasks) =
        (block - 1) * AllocSize + curr + (IF alloc_lock = NoThread THEN 0 ELSE 1)

Allocated(s) == s[1] < block \/ (s[1] = block /\ s[2] < curr)

(* A slot nobody was given is empty; threads are given different ones.     *)
SlotsApart ==
    /\ \A s \in Slots : ~Allocated(s) => content[s] = NoTask
    /\ \A t \in Threads :
          /\ pc[t] = "bump" => curr < AllocSize /\ slot[t] = <<block, curr>>
          /\ pc[t] \in {"fill"} \cup Filled => Allocated(slot[t])
          /\ pc[t] \in Empty => slot[t] \in Slots /\ content[slot[t]] = NoTask
          /\ pc[t] \in Filled \cup {"count"} => slot[t] \in Slots /\ content[slot[t]] # NoTask
    /\ \A t, u \in Threads :
          pc[t] \in Empty \cup Filled /\ pc[u] \in Empty \cup Filled /\ slot[t] = slot[u] => t = u

(* The slots that are or have been on the list.                            *)
Linked == {s \in Slots : /\ content[s] # NoTask
                         /\ \A t \in Threads : pc[t] \in Filled => slot[t] # s}

(* From a slot that was ever linked the pointers lead to such slots.       *)
ListClosed ==
    /\ head \in Linked \cup {NULL}
    /\ \A s \in Linked : next[s] \in Linked \cup {NULL}
    /\ \A t \in Threads :
          /\ ret[t] \in Linked \cup {NULL}
          /\ pc[t] = "push" => next[slot[t]] = head
          /\ pc[t] = "unlink" => ret[t] = head /\ head # NULL
          /\ pc[t] = "test" => ret[t] = NULL

(* count is the length of the list, but for a change that is under way;    *)
(* d[s] is the length of the list from s on.                               *)
Depths(d) ==
    /\ d \in [Linked \cup {NULL} -> Nat]
    /\ d[NULL] = 0
    /\ \A s \in Linked : d[s] = d[next[s]] + 1 /\ d[s] <= Cardinality(Linked)

LengthOfList ==
    IF lock = NoThread THEN count
    ELSE IF pc[lock] = "count" THEN count + 1
    ELSE IF pc[lock] = "uncount" THEN count - 1
    ELSE count

Counted == \E d : Depths(d) /\ d[head] = LengthOfList

Inv == TypeInv /\ Mutexes /\ OneCopy /\ SlotsCounted /\ SlotsApart /\ ListClosed /\ Counted

-----------------------------------------------------------------------------
(* The slots are pairs of natural numbers, finitely many; NULL is not one. *)
LEMMA SlotFacts ==
    /\ IsFiniteSet(Slots) /\ Cardinality(Slots) \in Nat
    /\ NULL \notin Slots
    /\ NBlocks \in Nat \ {0}
    /\ Slots = (1 .. NBlocks) \X (0 .. AllocSize - 1)
    /\ Cardinality(Tasks) \in Nat
<1>1. Cardinality(Tasks) \in Nat
  BY TasksAssumption, FS_CardinalityType
<1>2. NBlocks \in Nat \ {0}
  <2>1. Cardinality(Tasks) \div AllocSize \in Nat
    BY <1>1, AllocSizeAssumption
  <2> QED
    BY <2>1 DEF NBlocks
<1>3. Slots = (1 .. NBlocks) \X (0 .. AllocSize - 1)
  BY DEF Slots, NBlocks
<1>4. IsFiniteSet(1 .. NBlocks) /\ IsFiniteSet(0 .. AllocSize - 1)
  BY <1>2, AllocSizeAssumption, FS_Interval
<1>5. IsFiniteSet(Slots)
  BY <1>3, <1>4, FS_Product
<1> QED
  BY <1>1, <1>2, <1>3, <1>5, FS_CardinalityType DEF NULL

LEMMA SlotShape ==
    ASSUME NEW s \in Slots
    PROVE  s[1] \in Nat /\ s[2] \in 0 .. AllocSize - 1 /\ s = <<s[1], s[2]>>
  BY SlotFacts

(* The invariant holds at first: there is no slot in use.                  *)
LEMMA InvInit == Init => Inv
<1> SUFFICES ASSUME Init PROVE Inv
  OBVIOUS
<1> USE SlotFacts, AllocSizeAssumption, TasksAssumption, NoThreadAssumption DEF Init
<1>1. TypeInv
  BY DEF TypeInv, Labels
<1>2. Mutexes /\ OneCopy
  BY DEF Mutexes, OneCopy, Allocating, Locking, Adding
<1>3. SlotsCounted
  <2>1. BegunTasks = {}
    BY DEF BegunTasks, Begun
  <2> QED
    BY <2>1, FS_EmptySet DEF SlotsCounted
<1>4. SlotsApart
  BY DEF SlotsApart, Empty, Filled
<1>5. Linked = {}
  BY DEF Linked
<1>6. ListClosed
  BY <1>5 DEF ListClosed
<1>7. Counted
  <2> DEFINE d == [s \in Linked \cup {NULL} |-> 0]
  <2>1. Depths(d) /\ d[head] = LengthOfList
    BY <1>5 DEF Depths, LengthOfList
  <2> QED
    BY <2>1 DEF Counted
<1> QED
  BY <1>1, <1>2, <1>3, <1>4, <1>6, <1>7 DEF Inv

-----------------------------------------------------------------------------
(* A multiple of b that is not beyond a has at most the quotient's factor. *)
LEMMA Factor ==
    ASSUME NEW a \in Nat, NEW b \in Nat \ {0}, NEW n \in Nat, n * b <= a
    PROVE  a \div b \in Nat /\ n <= a \div b
<1> DEFINE q == a \div b
<1>1. q \in Nat /\ a < q * b + b
  OBVIOUS
<1> HIDE DEF q
<1>2. ASSUME n > q PROVE FALSE
  <2>1. PICK e \in Nat : n = q + 1 + e
    <3>1. n - q - 1 \in Nat /\ n = q + 1 + (n - q - 1)
      BY <1>1, <1>2
    <3> QED
      BY <3>1
  <2>2. (q + 1 + e) * b = q * b + b + e * b /\ e * b \in Nat /\ q * b \in Nat
    BY <1>1
  <2> QED
    BY <1>1, <2>1, <2>2
<1> QED
  BY <1>1, <1>2 DEF q

(* The tasks begun are tasks, so there are finitely many.                  *)
LEMMA BegunFacts ==
    ASSUME TypeInv
    PROVE  /\ BegunTasks \subseteq Tasks
           /\ IsFiniteSet(BegunTasks)
           /\ Cardinality(BegunTasks) <= Cardinality(Tasks)
<1>1. BegunTasks \subseteq Tasks
  BY DEF BegunTasks, Begun, TypeInv
<1> QED
  BY <1>1, TasksAssumption, FS_Subset

(* Whoever takes a slot finds one: the blocks are no more than the tasks   *)
(* can need, since a slot is taken for each task once.                     *)
LEMMA NextSlot ==
    ASSUME Inv, NEW t \in Threads, pc[t] = "take"
    PROVE  /\ curr < AllocSize => <<block, curr>> \in Slots
           /\ curr >= AllocSize => curr = AllocSize /\ block + 1 \in 1 .. NBlocks
                                   /\ <<block + 1, 0>> \in Slots
<1> USE DEF Inv, TypeInv
<1>1. AllocSize \in Nat \ {0} /\ block \in 1 .. NBlocks /\ curr \in 0 .. AllocSize
  BY AllocSizeAssumption
<1>2. curr < AllocSize => <<block, curr>> \in Slots
  BY <1>1, SlotFacts
<1>3. ASSUME curr >= AllocSize PROVE block + 1 \in 1 .. NBlocks
  <2>1. alloc_lock # NoThread
    BY NoThreadAssumption DEF Mutexes, Allocating
  <2>2. (block - 1) * AllocSize + AllocSize + 1 <= Cardinality(Tasks)
    <3>1. Cardinality(BegunTasks) = (block - 1) * AllocSize + curr + 1
      BY <2>1 DEF SlotsCounted
    <3>2. curr = AllocSize
      BY <1>1, <1>3
    <3> QED
      BY <3>1, <3>2, BegunFacts
  <2>3. (block - 1) * AllocSize + AllocSize = block * AllocSize
    BY <1>1, SlotFacts
  <2>4. block \in Nat /\ block * AllocSize \in Nat
    BY <1>1, SlotFacts
  <2>5. block * AllocSize <= Cardinality(Tasks)
    BY <2>2, <2>3, <2>4, SlotFacts
  <2>6. Cardinality(Tasks) \div AllocSize \in Nat /\ block <= Cardinality(Tasks) \div AllocSize
    <3>1. Cardinality(Tasks) \in Nat /\ AllocSize \in Nat \ {0}
      BY SlotFacts, AllocSizeAssumption
    <3> QED
      BY <2>4, <2>5, <3>1, Factor, Zenon
  <2>7. NBlocks = 1 + (Cardinality(Tasks) \div AllocSize)
    BY DEF NBlocks
  <2> QED
    BY <2>4, <2>6, <2>7
<1>4. curr >= AllocSize => <<block + 1, 0>> \in Slots
  BY <1>1, <1>3, SlotFacts
<1> QED
  BY <1>1, <1>2, <1>3, <1>4

(* The variables keep their types.                                         *)
LEMMA TypeStep ==
    ASSUME Inv, NEW t \in Threads, Thread(t)
    PROVE  TypeInv'
<1> USE DEF Inv, TypeInv, Goto, Labels, queueVars, allocVars
<1>1. CASE CallGetSlot(t)
  BY <1>1 DEF CallGetSlot
<1>2. CASE TakeSlot(t)
  BY <1>2, NextSlot DEF TakeSlot
<1>3. CASE BumpCurr(t)
  BY <1>3, AllocSizeAssumption DEF BumpCurr, SlotsApart
<1>4. CASE NewBlock(t)
  BY <1>4, NextSlot, AllocSizeAssumption DEF NewBlock
<1>5. CASE CallAdd(t)
  BY <1>5 DEF CallAdd
<1>6. CASE Link(t)
  BY <1>6 DEF Link
<1>7. CASE Push(t)
  BY <1>7 DEF Push
<1>8. CASE CountUp(t)
  BY <1>8 DEF CountUp
<1>9. CASE CallGet(t)
  BY <1>9 DEF CallGet
<1>10. CASE GetHead(t)
  BY <1>10 DEF GetHead
<1>11. CASE GetNothing(t)
  BY <1>11 DEF GetNothing
<1>12. CASE Unlink(t)
  <2>1. ret[t] \in Slots
    BY <1>12 DEF Unlink, ListClosed, Linked
  <2> QED
    BY <1>12, <2>1 DEF Unlink
<1>13. CASE CountDown(t)
  BY <1>13 DEF CountDown
<1> QED
  BY <1>1, <1>2, <1>3, <1>4, <1>5, <1>6, <1>7, <1>8, <1>9, <1>10, <1>11, <1>12, <1>13 DEF Thread

(* The mutexes are held in their critical sections, by one thread.         *)
LEMMA MutexesStep ==
    ASSUME Inv, NEW t \in Threads, Thread(t)
    PROVE  Mutexes'
<1> USE NoThreadAssumption DEF Inv, TypeInv, Goto, Mutexes, Allocating, Locking
<1>1. CASE CallGetSlot(t)
  BY <1>1 DEF CallGetSlot
<1>2. CASE TakeSlot(t)
  BY <1>2 DEF TakeSlot
<1>3. CASE BumpCurr(t)
  BY <1>3 DEF BumpCurr
<1>4. CASE NewBlock(t)
  BY <1>4 DEF NewBlock
<1>5. CASE CallAdd(t)
  BY <1>5 DEF CallAdd
<1>6. CASE Link(t)
  BY <1>6 DEF Link
<1>7. CASE Push(t)
  BY <1>7 DEF Push
<1>8. CASE CountUp(t)
  BY <1>8 DEF CountUp
<1>9. CASE CallGet(t)
  BY <1>9 DEF CallGet
<1>10. CASE GetHead(t)
  BY <1>10 DEF GetHead
<1>11. CASE GetNothing(t)
  BY <1>11 DEF GetNothing
<1>12. CASE Unlink(t)
  BY <1>12 DEF Unlink
<1>13. CASE CountDown(t)
  BY <1>13 DEF CountDown
<1> QED
  BY <1>1, <1>2, <1>3, <1>4, <1>5, <1>6, <1>7, <1>8, <1>9, <1>10, <1>11, <1>12, <1>13 DEF Thread

(* A thread that gets a slot does so for a task nobody has begun, and      *)
(* moves it into the slot, which is empty.                                 *)
LEMMA OneCopyStep ==
    ASSUME Inv, NEW t \in Threads, Thread(t)
    PROVE  OneCopy'
<1> USE TasksAssumption DEF Inv, TypeInv, Goto, Adding
<1>1. CASE CallGetSlot(t)
  <2>1. PICK new \in Tasks \ Begun : task' = [task EXCEPT ![t] = new]
    BY <1>1 DEF CallGetSlot
  <2>2. /\ new # NoTask /\ \A u \in Threads : task[u] # new
        /\ \A s \in Slots : content[s] # new
    BY <2>1 DEF Begun
  <2> QED
    BY <1>1, <2>1, <2>2 DEF CallGetSlot, OneCopy
<1>2. CASE CallAdd(t)
  <2>1. slot[t] \in Slots /\ content[slot[t]] = NoTask /\ task[t] # NoTask
    BY <1>2 DEF CallAdd, SlotsApart, Empty, OneCopy
  <2>2. /\ content' = [content EXCEPT ![slot[t]] = task[t]]
        /\ task' = [task EXCEPT ![t] = NoTask]
        /\ pc' = [pc EXCEPT ![t] = "link"]
    BY <1>2 DEF CallAdd
  <2>3. \A s \in Slots : content'[s] = IF s = slot[t] THEN task[t] ELSE content[s]
    BY <2>1, <2>2
  <2>4. \A u \in Threads : task'[u] = IF u = t THEN NoTask ELSE task[u]
    BY <2>2
  <2>5. \A u \in Threads : task'[u] # NoTask <=> pc'[u] \in Adding
    BY <2>2, <2>4 DEF OneCopy
  <2>6. \A u, v \in Threads : task'[u] # NoTask /\ task'[u] = task'[v] => u = v
    BY <2>4 DEF OneCopy
  <2>7. \A u \in Threads, s \in Slots : task'[u] # NoTask => content'[s] # task'[u]
    BY <2>1, <2>3, <2>4 DEF OneCopy
  <2>8. \A s, r \in Slots : content'[s] # NoTask /\ content'[s] = content'[r] => s = r
    BY <2>1, <2>3 DEF OneCopy
  <2> QED
    BY <2>5, <2>6, <2>7, <2>8 DEF OneCopy
<1>3. CASE TakeSlot(t)
  BY <1>3 DEF TakeSlot, OneCopy
<1>4. CASE BumpCurr(t)
  BY <1>4 DEF BumpCurr, OneCopy
<1>5. CASE NewBlock(t)
  BY <1>5 DEF NewBlock, OneCopy
<1>6. CASE Link(t) \/ Push(t) \/ CountUp(t)
  BY <1>6 DEF Link, Push, CountUp, OneCopy
<1>7. CASE CallGet(t) \/ GetHead(t) \/ GetNothing(t)
  BY <1>7 DEF CallGet, GetHead, GetNothing, OneCopy
<1>8. CASE Unlink(t) \/ CountDown(t)
  BY <1>8 DEF Unlink, CountDown, OneCopy
<1> QED
  BY <1>1, <1>2, <1>3, <1>4, <1>5, <1>6, <1>7, <1>8 DEF Thread

(* Slots are given away one for each task.                                 *)
LEMMA SlotsCountedStep ==
    ASSUME Inv, NEW t \in Threads, Thread(t)
    PROVE  SlotsCounted'
<1> USE NoThreadAssumption, TasksAssumption DEF Inv, TypeInv, Goto, allocVars
<1>1. CASE CallGetSlot(t)
  <2>1. PICK new \in Tasks \ Begun : task' = [task EXCEPT ![t] = new]
    BY <1>1 DEF CallGetSlot
  <2>2. task[t] = NoTask
    BY <1>1 DEF CallGetSlot, OneCopy, Adding
  <2>3. BegunTasks' = BegunTasks \cup {new} /\ new \notin BegunTasks
    BY <1>1, <2>1, <2>2 DEF CallGetSlot, BegunTasks, Begun
  <2>4. Cardinality(BegunTasks') = Cardinality(BegunTasks) + 1
    BY <2>3, BegunFacts, FS_AddElement
  <2>5. Cardinality(BegunTasks) = (block - 1) * AllocSize + curr
    <3>1. (block - 1) * AllocSize \in Int
      BY SlotFacts, AllocSizeAssumption
    <3> QED
      BY <1>1, <3>1 DEF CallGetSlot, SlotsCounted
  <2>6. block' = block /\ curr' = curr /\ alloc_lock' # NoThread
    BY <1>1 DEF CallGetSlot
  <2> QED
    BY <2>4, <2>5, <2>6 DEF SlotsCounted
<1>2. CASE CallAdd(t)
  <2>1. slot[t] \in Slots /\ content[slot[t]] = NoTask /\ task[t] # NoTask
    BY <1>2 DEF CallAdd, SlotsApart, Empty, OneCopy, Adding
  <2>2. BegunTasks' = BegunTasks
    BY <1>2, <2>1 DEF CallAdd, BegunTasks, Begun
  <2> QED
    BY <1>2, <2>2 DEF CallAdd, SlotsCounted
<1>3. CASE BumpCurr(t)
  <2>1. alloc_lock # NoThread
    BY <1>3 DEF BumpCurr, Mutexes, Allocating
  <2>2. BegunTasks' = BegunTasks /\ alloc_lock' = NoThread /\ curr' = curr + 1 /\ block' = block
    BY <1>3 DEF BumpCurr, BegunTasks, Begun
  <2>3. (block - 1) * AllocSize \in Int
    BY SlotFacts, AllocSizeAssumption
  <2> QED
    BY <2>1, <2>2, <2>3 DEF SlotsCounted
<1>4. CASE NewBlock(t)
  <2>1. alloc_lock # NoThread /\ curr = AllocSize
    BY <1>4, NextSlot DEF NewBlock, Mutexes, Allocating
  <2>2. BegunTasks' = BegunTasks /\ alloc_lock' = NoThread /\ curr' = 1 /\ block' = block + 1
    BY <1>4 DEF NewBlock, BegunTasks, Begun
  <2>3. (block - 1) * AllocSize + AllocSize = (block + 1 - 1) * AllocSize
    BY SlotFacts, AllocSizeAssumption
  <2>4. (block - 1) * AllocSize \in Int
    BY SlotFacts, AllocSizeAssumption
  <2> QED
    BY <2>1, <2>2, <2>3, <2>4 DEF SlotsCounted
<1>5. CASE TakeSlot(t) \/ Link(t) \/ Push(t) \/ CountUp(t) \/ CallGet(t) \/ GetHead(t)
           \/ GetNothing(t) \/ Unlink(t) \/ CountDown(t)
  <2>1. UNCHANGED <<content, task, alloc_lock, block, curr>>
    BY <1>5 DEF TakeSlot, Link, Push, CountUp, CallGet, GetHead, GetNothing, Unlink, CountDown
  <2>2. BegunTasks' = BegunTasks
    BY <2>1 DEF BegunTasks, Begun
  <2> QED
    BY <2>1, <2>2 DEF SlotsCounted
<1> QED
  BY <1>1, <1>2, <1>3, <1>4, <1>5 DEF Thread

(* A slot just taken is nobody else's and empty.                           *)
LEMMA SlotsApartStep ==
    ASSUME Inv, NEW t \in Threads, Thread(t)
    PROVE  SlotsApart'
<1> USE NoThreadAssumption, TasksAssumption DEF Inv, TypeInv, Goto, allocVars, Empty, Filled
<1>1. CASE CallGetSlot(t)
  BY <1>1 DEF CallGetSlot, SlotsApart, Allocated
<1>2. CASE TakeSlot(t)
  <2>1. <<block, curr>> \in Slots /\ ~Allocated(<<block, curr>>)
    BY <1>2, NextSlot DEF TakeSlot, Allocated
  <2>2. \A u \in Threads \ {t} : pc[u] \in Empty \cup Filled => slot[u] # <<block, curr>>
    BY <1>2, <2>1 DEF TakeSlot, Mutexes, Allocating, SlotsApart
  <2>3. \A u \in Threads \ {t} : pc'[u] = pc[u] /\ slot'[u] = slot[u]
    BY <1>2 DEF TakeSlot
  <2>4. pc'[t] = "bump" /\ slot'[t] = <<block, curr>> /\ curr < AllocSize
        /\ UNCHANGED <<block, curr, content>>
    BY <1>2 DEF TakeSlot
  <2>5. \A s : Allocated(s)' <=> Allocated(s)
    BY <2>4 DEF Allocated
  <2> QED
    BY <2>1, <2>2, <2>3, <2>4, <2>5 DEF SlotsApart
<1>3. CASE BumpCurr(t)
  <2>1. \A u \in Threads \ {t} : pc[u] # "bump"
    BY <1>3 DEF BumpCurr, Mutexes, Allocating
  <2>2. \A s \in Slots : Allocated(s)' <=> Allocated(s) \/ s = <<block, curr>>
    <3>1. block' = block /\ curr' = curr + 1 /\ curr \in Nat /\ block \in Nat
      BY <1>3, SlotFacts DEF BumpCurr
    <3>2. ASSUME NEW s \in Slots PROVE Allocated(s)' <=> Allocated(s) \/ s = <<block, curr>>
      <4>1. s[1] \in Nat /\ s[2] \in Nat /\ s = <<s[1], s[2]>>
        BY SlotShape, AllocSizeAssumption
      <4>2. s = <<block, curr>> <=> s[1] = block /\ s[2] = curr
        BY <4>1
      <4> QED
        BY <3>1, <4>1, <4>2 DEF Allocated
    <3> QED
      BY <3>2
  <2>3. slot[t] = <<block, curr>> /\ slot[t] \in Slots /\ content[slot[t]] = NoTask
    <3>1. slot[t] = <<block, curr>> /\ curr < AllocSize /\ content[slot[t]] = NoTask
      BY <1>3 DEF BumpCurr, SlotsApart
    <3>2. <<block, curr>> \in Slots
      BY <3>1, SlotFacts, AllocSizeAssumption
    <3> QED
      BY <3>1, <3>2
  <2>4. pc'[t] = "fill" /\ UNCHANGED <<slot, content>> /\ \A u \in Threads \ {t} : pc'[u] = pc[u]
    BY <1>3 DEF BumpCurr
  <2> QED
    BY <1>3, <2>1, <2>2, <2>3, <2>4 DEF BumpCurr, SlotsApart
<1>4. CASE NewBlock(t)
  <2>1. \A u \in Threads \ {t} : pc[u] # "bump" /\ pc[u] # "take"
    BY <1>4 DEF NewBlock, Mutexes, Allocating
  <2>2. <<block + 1, 0>> \in Slots /\ curr = AllocSize
    BY <1>4, NextSlot DEF NewBlock
  <2>3. ~Allocated(<<block + 1, 0>>)
    BY DEF Allocated
  <2>4. \A s \in Slots : Allocated(s)' <=> Allocated(s) \/ s = <<block + 1, 0>>
    <3>1. block' = block + 1 /\ curr' = 1 /\ curr = AllocSize /\ block \in Nat
      BY <1>4, <2>2, SlotFacts DEF NewBlock
    <3> QED
      BY <3>1, SlotShape, AllocSizeAssumption DEF Allocated
  <2>5. \A u \in Threads \ {t} : pc[u] \in Empty \cup Filled => slot[u] # <<block + 1, 0>>
    BY <2>1, <2>2, <2>3 DEF SlotsApart
  <2>6. pc'[t] = "fill" /\ slot'[t] = <<block + 1, 0>> /\ content' = content
        /\ \A u \in Threads \ {t} : pc'[u] = pc[u] /\ slot'[u] = slot[u]
    BY <1>4 DEF NewBlock
  <2>7. content[<<block + 1, 0>>] = NoTask
    BY <2>2, <2>3 DEF SlotsApart
  <2> QED
    BY <2>1, <2>2, <2>4, <2>5, <2>6, <2>7 DEF SlotsApart
<1>5. CASE CallAdd(t)
  <2>1. slot[t] \in Slots /\ Allocated(slot[t]) /\ task[t] # NoTask
    BY <1>5 DEF CallAdd, SlotsApart, OneCopy, Adding
  <2>2. \A s : Allocated(s)' <=> Allocated(s)
    BY <1>5 DEF CallAdd, Allocated
  <2>3. \A u \in Threads \ {t} : pc[u] \in Empty \cup Filled => slot[u] # slot[t]
    BY <1>5 DEF CallAdd, SlotsApart
  <2>4. pc'[t] = "link" /\ slot' = slot /\ UNCHANGED <<block, curr>>
        /\ \A u \in Threads \ {t} : pc'[u] = pc[u]
    BY <1>5 DEF CallAdd
  <2>5. \A s \in Slots : content'[s] = IF s = slot[t] THEN task[t] ELSE content[s]
    BY <1>5, <2>1 DEF CallAdd
  <2> QED
    BY <2>1, <2>2, <2>3, <2>4, <2>5 DEF SlotsApart
<1>6. CASE Link(t) \/ Push(t)
  <2>1. UNCHANGED <<block, curr, content, slot>> /\ pc[t] \in Filled
        /\ pc'[t] \in {"push", "count"} /\ \A u \in Threads \ {t} : pc'[u] = pc[u]
    BY <1>6 DEF Link, Push
  <2>2. \A s : Allocated(s)' <=> Allocated(s)
    BY <2>1 DEF Allocated
  <2> QED
    BY <2>1, <2>2 DEF SlotsApart
<1>7. CASE CountUp(t) \/ CallGet(t) \/ GetHead(t) \/ GetNothing(t) \/ Unlink(t) \/ CountDown(t)
  <2>1. UNCHANGED <<block, curr, content>> /\ pc'[t] \in {"idle", "test", "unlink", "uncount"}
        /\ \A u \in Threads \ {t} : pc'[u] = pc[u] /\ slot'[u] = slot[u]
    BY <1>7 DEF CountUp, CallGet, GetHead, GetNothing, Unlink, CountDown
  <2>2. \A s : Allocated(s)' <=> Allocated(s)
    BY <2>1 DEF Allocated
  <2> QED
    BY <2>1, <2>2 DEF SlotsApart
<1> QED
  BY <1>1, <1>2, <1>3, <1>4, <1>5, <1>6, <1>7 DEF Thread
-----------------------------------------------------------------------------
(* A slot joins those ever linked when head points to it, and stays.       *)
LEMMA LinkedStep ==
    ASSUME Inv, NEW t \in Threads, Thread(t)
    PROVE  /\ Push(t) => Linked' = Linked \cup {slot[t]} /\ slot[t] \in Slots \ Linked
           /\ ~Push(t) => Linked' = Linked
           /\ \A s \in Linked : next'[s] = next[s]
<1> USE DEF Inv, TypeInv, Goto, queueVars, Filled
<1>1. CASE Push(t)
  <2>1. slot[t] \in Slots \ Linked /\ content[slot[t]] # NoTask /\ pc'[t] = "count"
    BY <1>1 DEF Push, SlotsApart, Linked
  <2>2. \A u \in Threads \ {t} : pc'[u] = pc[u] /\ (pc[u] \in Filled => slot[u] # slot[t])
    BY <1>1 DEF Push, SlotsApart
  <2>3. content' = content /\ slot' = slot /\ next' = next
    BY <1>1 DEF Push
  <2>4. Linked' = Linked \cup {slot[t]}
    BY <1>1, <2>1, <2>2, <2>3 DEF Linked, Push
  <2> QED
    BY <1>1, <2>1, <2>3, <2>4
<1>2. CASE Link(t)
  <2>1. slot[t] \notin Linked /\ content' = content /\ slot' = slot
        /\ pc' = [pc EXCEPT ![t] = "push"] /\ pc[t] = "link"
    BY <1>2 DEF Link, Linked
  <2>2. Linked' = Linked
    BY <2>1 DEF Linked
  <2>3. \A s \in Linked : next'[s] = next[s]
    BY <1>2, <2>1 DEF Link, Linked
  <2> QED
    BY <1>2, <2>2, <2>3 DEF Link, Push
<1>3. CASE CallAdd(t)
  <2>1. slot[t] \in Slots /\ content[slot[t]] = NoTask
    BY <1>3 DEF CallAdd, SlotsApart, Empty
  <2>2. \A s \in Slots \ {slot[t]} : content'[s] = content[s]
    BY <1>3 DEF CallAdd
  <2>3. pc' = [pc EXCEPT ![t] = "link"] /\ slot' = slot /\ next' = next /\ pc[t] = "fill"
    BY <1>3 DEF CallAdd
  <2>4. Linked' = Linked
    BY <2>1, <2>2, <2>3 DEF Linked
  <2> QED
    BY <2>3, <2>4 DEF Push
<1>4. CASE CallGetSlot(t) \/ TakeSlot(t) \/ BumpCurr(t) \/ NewBlock(t)
  <2>1. /\ content' = content /\ next' = next /\ pc[t] \notin Filled /\ pc'[t] \notin Filled
        /\ \A u \in Threads \ {t} : pc'[u] = pc[u] /\ slot'[u] = slot[u]
        /\ ~Push(t)
    BY <1>4 DEF CallGetSlot, TakeSlot, BumpCurr, NewBlock, Push
  <2> QED
    BY <2>1 DEF Linked
<1>5. CASE CountUp(t) \/ CallGet(t) \/ GetHead(t) \/ GetNothing(t) \/ Unlink(t) \/ CountDown(t)
  <2>1. /\ content' = content /\ next' = next /\ pc[t] \notin Filled /\ pc'[t] \notin Filled
        /\ \A u \in Threads \ {t} : pc'[u] = pc[u] /\ slot'[u] = slot[u]
        /\ ~Push(t)
    BY <1>5 DEF CountUp, CallGet, GetHead, GetNothing, Unlink, CountDown, Push
  <2> QED
    BY <2>1 DEF Linked
<1> QED
  BY <1>1, <1>2, <1>3, <1>4, <1>5 DEF Thread

(* There is a first slot where the count says so.                          *)
LEMMA CountTells ==
    ASSUME Inv, NEW t \in Threads, pc[t] = "test"
    PROVE  count > 0 <=> head # NULL
<1>1. lock = t /\ lock # NoThread
  BY NoThreadAssumption DEF Inv, Mutexes, Locking
<1>2. PICK d : Depths(d) /\ d[head] = count
  BY <1>1 DEF Inv, Counted, LengthOfList
<1>3. head # NULL => head \in Linked /\ next[head] \in Linked \cup {NULL}
  BY DEF Inv, ListClosed
<1>4. head # NULL => d[head] = d[next[head]] + 1 /\ d[next[head]] \in Nat
  BY <1>2, <1>3 DEF Depths
<1> QED
  BY <1>2, <1>4 DEF Depths

(* No pointer leads off the slots that were ever linked.                   *)
LEMMA ListClosedStep ==
    ASSUME Inv, NEW t \in Threads, Thread(t)
    PROVE  ListClosed'
<1> USE NoThreadAssumption, LinkedStep DEF Inv, TypeInv, Goto, queueVars
<1>1. \A u \in Threads \ {t} : pc[t] \in Locking => pc[u] \notin Locking
  BY DEF Mutexes
<1>2. CASE Push(t)
  <2>1. \A u \in Threads \ {t} : pc[u] \notin Locking /\ pc'[u] = pc[u]
    BY <1>1, <1>2 DEF Push, Locking
  <2>2. next[slot[t]] = head
    BY <1>2 DEF Push, ListClosed
  <2>3. head' = slot[t] /\ next' = next /\ ret' = ret /\ slot' = slot /\ pc'[t] = "count"
    BY <1>2 DEF Push
  <2> QED
    BY <1>2, <2>1, <2>2, <2>3 DEF ListClosed, Locking
<1>3. CASE Link(t)
  <2>1. \A u \in Threads \ {t} : pc[u] \notin Locking /\ pc'[u] = pc[u]
    BY <1>1, <1>3 DEF Link, Locking
  <2>2. slot[t] \in Slots /\ ~Push(t)
    BY <1>3 DEF Link, Push, SlotsApart, Filled
  <2>3. next'[slot[t]] = head /\ head' = head /\ ret' = ret /\ slot' = slot /\ pc'[t] = "push"
    BY <1>3, <2>2 DEF Link
  <2> QED
    BY <2>1, <2>2, <2>3 DEF ListClosed, Locking
<1>4. CASE CallGetSlot(t) \/ TakeSlot(t) \/ BumpCurr(t) \/ NewBlock(t) \/ CallAdd(t) \/ CountUp(t)
           \/ GetNothing(t) \/ CountDown(t)
  <2>1. /\ UNCHANGED <<head, next, ret>> /\ pc'[t] \notin {"push", "unlink", "test"} /\ ~Push(t)
        /\ \A u \in Threads \ {t} : pc'[u] = pc[u] /\ slot'[u] = slot[u]
    BY <1>4 DEF CallGetSlot, TakeSlot, BumpCurr, NewBlock, CallAdd, CountUp, GetNothing,
               CountDown, Push
  <2> QED
    BY <2>1 DEF ListClosed
<1>5. CASE CallGet(t) \/ GetHead(t)
  <2>1. /\ UNCHANGED <<head, next, slot>> /\ ~Push(t)
        /\ \A u \in Threads \ {t} : pc'[u] = pc[u] /\ ret'[u] = ret[u]
        /\ \/ pc'[t] = "test" /\ ret'[t] = NULL
           \/ pc'[t] = "unlink" /\ ret'[t] = head /\ head # NULL
    BY <1>5, CountTells DEF CallGet, GetHead, Push
  <2> QED
    BY <2>1 DEF ListClosed
<1>6. CASE Unlink(t)
  <2>1. \A u \in Threads \ {t} : pc[u] \notin Locking /\ pc'[u] = pc[u]
    BY <1>1, <1>6 DEF Unlink, Locking
  <2>2. ret[t] \in Linked /\ ~Push(t)
    BY <1>6 DEF Unlink, ListClosed, Push
  <2>3. head' = next[ret[t]] /\ next' = next /\ ret' = ret /\ slot' = slot /\ pc'[t] = "uncount"
    BY <1>6 DEF Unlink
  <2> QED
    BY <2>1, <2>2, <2>3 DEF ListClosed, Locking
<1> QED
  BY <1>2, <1>3, <1>4, <1>5, <1>6 DEF Thread

(* The slots ever linked are finitely many.                                *)
LEMMA LinkedFinite ==
    /\ Linked \subseteq Slots /\ IsFiniteSet(Linked)
    /\ Cardinality(Linked) \in Nat /\ Cardinality(Linked) <= Cardinality(Slots)
<1>1. Linked \subseteq Slots
  BY DEF Linked
<1> QED
  BY <1>1, SlotFacts, FS_Subset, FS_CardinalityType

(* count follows the list: under the lock, one step behind.                *)
LEMMA CountedStep ==
    ASSUME Inv, NEW t \in Threads, Thread(t)
    PROVE  Counted'
<1> USE NoThreadAssumption DEF Inv, TypeInv, Goto, queueVars
<1>1. PICK d : Depths(d) /\ d[head] = LengthOfList
  BY DEF Counted
<1>2. ~Push(t) => Depths(d)'
  <2> SUFFICES ASSUME ~Push(t) PROVE Depths(d)'
    OBVIOUS
  <2>1. Linked' = Linked /\ \A s \in Linked : next'[s] = next[s]
    BY LinkedStep
  <2> QED
    BY <1>1, <2>1 DEF Depths
<1>3. CASE Push(t)
  <2>0. PICK e : e = [s \in Linked \cup {slot[t]} \cup {NULL} |->
                         IF s = slot[t] THEN d[head] + 1 ELSE d[s]]
    OBVIOUS
  <2>1. /\ Linked' = Linked \cup {slot[t]} /\ slot[t] \in Slots \ Linked
        /\ next' = next /\ next[slot[t]] = head /\ head' = slot[t]
        /\ lock = t /\ lock' = t /\ count' = count /\ pc[t] = "push" /\ pc'[t] = "count"
    BY <1>3, LinkedStep DEF Push, ListClosed, Mutexes, Locking
  <2>2. Cardinality(Linked') = Cardinality(Linked) + 1
    BY <2>1, LinkedFinite, FS_AddElement
  <2>3. slot[t] # NULL /\ NULL \notin Linked
    BY <2>1, SlotFacts DEF Linked
  <2>4. head \in Linked \cup {NULL} /\ \A s \in Linked : next[s] \in Linked \cup {NULL}
    BY DEF ListClosed
  <2>5. d[head] \in Nat /\ d[head] <= Cardinality(Linked)
    BY <1>1, <2>4, LinkedFinite DEF Depths
  <2>6. e[slot[t]] = d[head] + 1 /\ \A s \in Linked \cup {NULL} : e[s] = d[s]
    BY <2>0, <2>1, <2>3
  <2>7. e \in [Linked' \cup {NULL} -> Nat]
    BY <1>1, <2>0, <2>1, <2>5 DEF Depths
  <2>8. \A s \in Linked : e[s] = e[next[s]] + 1 /\ e[s] <= Cardinality(Linked')
    BY <1>1, <2>2, <2>4, <2>6, LinkedFinite DEF Depths
  <2>9. e[slot[t]] = e[next[slot[t]]] + 1 /\ e[slot[t]] <= Cardinality(Linked')
    BY <2>1, <2>2, <2>4, <2>5, <2>6, LinkedFinite
  <2>10. e[NULL] = 0
    BY <1>1, <2>6 DEF Depths
  <2>11. Depths(e)'
    BY <2>1, <2>7, <2>8, <2>9, <2>10 DEF Depths
  <2>12. e[head'] = LengthOfList'
    <3>1. LengthOfList = count /\ LengthOfList' = count + 1
      BY <2>1 DEF LengthOfList
    <3> QED
      BY <1>1, <2>1, <2>6, <3>1
  <2> QED
    BY <2>11, <2>12 DEF Counted
<1>4. CASE CallGetSlot(t) \/ TakeSlot(t) \/ BumpCurr(t) \/ NewBlock(t)
  <2>1. /\ UNCHANGED <<head, count, lock>> /\ pc[t] \notin Locking /\ ~Push(t)
        /\ \A u \in Threads \ {t} : pc'[u] = pc[u]
    BY <1>4 DEF CallGetSlot, TakeSlot, BumpCurr, NewBlock, Push, Locking
  <2>2. lock # t
    BY <2>1 DEF Mutexes
  <2>3. LengthOfList' = LengthOfList
    BY <2>1, <2>2 DEF LengthOfList
  <2> QED
    BY <1>1, <1>2, <2>1, <2>3 DEF Counted
<1>5. CASE CallAdd(t) \/ CallGet(t)
  <2>1. /\ UNCHANGED <<head, count>> /\ lock = NoThread /\ lock' = t /\ ~Push(t)
        /\ pc'[t] \in {"link", "test"}
    BY <1>5 DEF CallAdd, CallGet, Push
  <2>2. LengthOfList = count /\ LengthOfList' = count
    BY <2>1 DEF LengthOfList
  <2> QED
    BY <1>1, <1>2, <2>1, <2>2 DEF Counted
<1>6. CASE Link(t) \/ GetHead(t)
  <2>1. /\ UNCHANGED <<head, count, lock>> /\ lock = t /\ ~Push(t)
        /\ pc[t] \in {"link", "test"} /\ pc'[t] \in {"push", "unlink"}
    BY <1>6 DEF Link, GetHead, Push, Mutexes, Locking
  <2>2. LengthOfList = count /\ LengthOfList' = count
    BY <2>1 DEF LengthOfList
  <2> QED
    BY <1>1, <1>2, <2>1, <2>2 DEF Counted
<1>7. CASE CountUp(t) \/ GetNothing(t) \/ CountDown(t)
  <2>1. /\ head' = head /\ lock = t /\ lock' = NoThread /\ ~Push(t)
        /\ \/ pc[t] = "count" /\ count' = count + 1
           \/ pc[t] = "test" /\ count' = count
           \/ pc[t] = "uncount" /\ count' = count - 1
    BY <1>7 DEF CountUp, GetNothing, CountDown, Push, Mutexes, Locking
  <2>2. LengthOfList' = LengthOfList
    BY <2>1 DEF LengthOfList
  <2> QED
    BY <1>1, <1>2, <2>1, <2>2 DEF Counted
<1>8. CASE Unlink(t)
  <2>1. /\ lock = t /\ lock' = t /\ ~Push(t) /\ count' = count
        /\ pc[t] = "unlink" /\ pc'[t] = "uncount"
        /\ ret[t] = head /\ head # NULL /\ head' = next[head]
    BY <1>8 DEF Unlink, Push, Mutexes, Locking, ListClosed
  <2>2. head \in Linked /\ next[head] \in Linked \cup {NULL}
    BY <2>1 DEF ListClosed
  <2>3. LengthOfList = count /\ LengthOfList' = count - 1
    BY <2>1 DEF LengthOfList
  <2>4. d[head] = d[next[head]] + 1 /\ d[next[head]] \in Nat
    BY <1>1, <2>2 DEF Depths
  <2> QED
    BY <1>1, <1>2, <2>1, <2>3, <2>4 DEF Counted
<1> QED
  BY <1>3, <1>4, <1>5, <1>6, <1>7, <1>8 DEF Thread

(* The invariant of the queue.                                             *)
LEMMA InvStep == Inv /\ [Next]_vars => Inv'
<1> SUFFICES ASSUME Inv, [Next]_vars PROVE Inv'
  OBVIOUS
<1>1. CASE UNCHANGED vars
  <2>1. UNCHANGED <<lock, alloc_lock, head, next, count, block, curr, content, pc, slot, task, ret>>
    BY <1>1 DEF vars, queueVars, allocVars
  <2>2. TypeInv' /\ Mutexes' /\ OneCopy'
    BY <2>1 DEF Inv, TypeInv, Mutexes, OneCopy
  <2>3. SlotsCounted' /\ SlotsApart'
    BY <2>1 DEF Inv, SlotsCounted, SlotsApart, BegunTasks, Begun, Allocated
  <2>4. ListClosed' /\ Counted'
    <3>1. Linked' = Linked /\ LengthOfList' = LengthOfList
      BY <2>1 DEF Linked, LengthOfList
    <3> QED
      BY <2>1, <3>1 DEF Inv, ListClosed, Counted, Depths
  <2> QED
    BY <2>2, <2>3, <2>4 DEF Inv
<1>2. ASSUME NEW t \in Threads, Thread(t) PROVE Inv'
  BY <1>2, TypeStep, MutexesStep, OneCopyStep, SlotsCountedStep, SlotsApartStep,
     ListClosedStep, CountedStep DEF Inv
<1> QED
  BY <1>1, <1>2 DEF Next

LEMMA Invariant == Spec => []Inv
  BY InvInit, InvStep, PTL DEF Spec
-----------------------------------------------------------------------------
(* At, the walk along the list, is what its definition says: such a        *)
(* function exists.                                                        *)
Walks(f) ==
    /\ DOMAIN f = 0 .. Cardinality(Slots)
    /\ f[0] = head
    /\ \A n \in 1 .. Cardinality(Slots) :
          f[n] = IF f[n - 1] = NULL THEN NULL ELSE next[f[n - 1]]

LEMMA AtWalks == TypeInv => Walks(At)
<1> SUFFICES ASSUME TypeInv PROVE Walks(At)
  OBVIOUS
<1> DEFINE V == Slots \cup {NULL}
           N == Cardinality(Slots)
           step == [x \in Nat \X V |-> IF x[2] = NULL THEN NULL ELSE next[x[2]]]
<1>1. head \in V /\ step \in [Nat \X V -> V] /\ N \in Nat
  BY SlotFacts DEF TypeInv
<1>2. PICK f \in [0 .. N -> V] : Follows(f, N, head, step)
  <2> HIDE DEF step, V, N
  <2> QED
    BY <1>1, Recursion
<1>3. ASSUME NEW n \in 1 .. N
      PROVE  f[n] = IF f[n - 1] = NULL THEN NULL ELSE next[f[n - 1]]
  <2>1. n \in Nat /\ n - 1 \in 0 .. N
    BY <1>1
  <2>2. f[n - 1] \in V
    BY <2>1
  <2>3. f[n] = step[<<n, f[n - 1]>>]
    BY <1>2 DEF Follows
  <2> QED
    BY <2>1, <2>2, <2>3
<1>4. f[0] = head
  BY <1>2 DEF Follows
<1>5. f = [n \in 0 .. N |-> IF n = 0 THEN head
                            ELSE LET before == f[n - 1]
                                 IN  IF before = NULL THEN NULL ELSE next[before]]
  <2>1. \A n \in 0 .. N : n = 0 \/ n \in 1 .. N
    BY <1>1
  <2> HIDE DEF N
  <2> QED
    BY <1>3, <1>4, <2>1
<1>6. At = [n \in 0 .. N |-> IF n = 0 THEN head
                             ELSE LET before == At[n - 1]
                                  IN  IF before = NULL THEN NULL ELSE next[before]]
  BY <1>5 DEF At
<1>7. \A n \in 1 .. N : n \in 0 .. N /\ n # 0
  BY <1>1
<1>8. 0 \in 0 .. N
  BY <1>1
<1> HIDE DEF N
<1>9. DOMAIN At = 0 .. N /\ At[0] = head
      /\ \A n \in 1 .. N : At[n] = IF At[n - 1] = NULL THEN NULL ELSE next[At[n - 1]]
  BY <1>6, <1>7, <1>8
<1> QED
  BY <1>9 DEF Walks, N

(* The walk never leaves the slots that were ever linked.                  *)
LEMMA WalkOnLinked ==
    ASSUME Inv
    PROVE  \A n \in DOMAIN At : At[n] \in Linked \cup {NULL}
<1> DEFINE N == Cardinality(Slots)
           T == {n \in Nat : n <= N => At[n] \in Linked \cup {NULL}}
<1>1. Walks(At)
  BY AtWalks DEF Inv
<1>2. N \in Nat /\ NULL \notin Linked
  BY SlotFacts DEF Linked
<1>3. /\ head \in Linked \cup {NULL}
      /\ \A s \in Linked : next[s] \in Linked \cup {NULL}
  BY DEF Inv, ListClosed
<1>4. 0 \in T
  BY <1>1, <1>3 DEF Walks
<1>5. ASSUME NEW n \in Nat, n \in T PROVE n + 1 \in T
  <2> SUFFICES ASSUME n + 1 <= N PROVE At[n + 1] \in Linked \cup {NULL}
    OBVIOUS
  <2>1. n + 1 \in 1 .. N /\ n <= N /\ (n + 1) - 1 = n
    BY <1>2
  <2>2. At[n + 1] = IF At[n] = NULL THEN NULL ELSE next[At[n]]
    BY <1>1, <2>1 DEF Walks
  <2>3. At[n] \in Linked \cup {NULL}
    BY <1>5, <2>1
  <2> QED
    BY <1>3, <2>2, <2>3
<1>6. Nat \subseteq T
  <2> HIDE DEF T
  <2> QED
    BY <1>4, <1>5, Induction
<1>7. DOMAIN At = 0 .. N
  BY <1>1 DEF Walks
<1> QED
  BY <1>2, <1>6, <1>7

(* A slot has one owner: nobody writes a task description that is on the   *)
(* list, or that another thread was handed or is filling                   *)
(* (task_queue_get_slot_atomic, task_queue_add_atomic,                     *)
(* task_queue_get_atomic).                                                 *)
THEOREM SlotsHaveOneOwner == Spec => []OneOwner
<1>1. Inv => OneOwner
  <2> SUFFICES ASSUME Inv, NEW s \in Slots, NEW t \in Threads, Filling(t, s)
               PROVE  /\ ~OnList(s)
                      /\ \A u \in Threads : ~Holding(u, s)
                      /\ \A u \in Threads \ {t} : ~Filling(u, s)
    BY DEF OneOwner
  <2>1. slot[t] = s /\ pc[t] \in Empty \cup Filled
    BY DEF Filling, Empty, Filled
  <2>2. s \notin Linked
    BY <2>1 DEF Inv, SlotsApart, Linked
  <2>3. s # NULL
    BY SlotFacts
  <2>4. ~OnList(s)
    BY <2>2, <2>3, WalkOnLinked DEF OnList
  <2>5. \A u \in Threads : ~Holding(u, s)
    BY <2>2, <2>3 DEF Holding, Inv, ListClosed
  <2>6. \A u \in Threads \ {t} : ~Filling(u, s)
    BY <2>1 DEF Inv, SlotsApart, Filling, Empty, Filled
  <2> QED
    BY <2>4, <2>5, <2>6
<1> QED
  BY <1>1, Invariant, PTL

-----------------------------------------------------------------------------
(* Two walks along the same pointers that meet stay together.              *)
WalkAlong(f, p, N) ==
    \A n \in 1 .. N : f[n] = IF f[n - 1] = NULL THEN NULL ELSE p[f[n - 1]]

LEMMA ShiftedWalk ==
    ASSUME NEW N \in Nat, NEW f, NEW g, NEW p, NEW q,
           WalkAlong(f, p, N), WalkAlong(g, q, N), f[1] = g[0],
           \A n \in 0 .. N : g[n] # NULL => p[g[n]] = q[g[n]]
    PROVE  \A n \in Nat : n + 1 <= N => f[n + 1] = g[n]
<1> DEFINE T == {n \in Nat : n + 1 <= N => f[n + 1] = g[n]}
<1>1. 0 \in T
  OBVIOUS
<1>2. ASSUME NEW n \in Nat, n \in T PROVE n + 1 \in T
  <2> SUFFICES ASSUME (n + 1) + 1 <= N PROVE f[(n + 1) + 1] = g[n + 1]
    OBVIOUS
  <2>1. /\ (n + 1) + 1 \in 1 .. N /\ ((n + 1) + 1) - 1 = n + 1
        /\ n + 1 \in 1 .. N /\ (n + 1) - 1 = n
        /\ n + 1 <= N /\ n \in 0 .. N
    OBVIOUS
  <2>2. f[n + 1] = g[n]
    BY <1>2, <2>1
  <2>3. f[(n + 1) + 1] = IF f[n + 1] = NULL THEN NULL ELSE p[f[n + 1]]
    BY <2>1 DEF WalkAlong
  <2>4. g[n + 1] = IF g[n] = NULL THEN NULL ELSE q[g[n]]
    BY <2>1 DEF WalkAlong
  <2> QED
    BY <2>1, <2>2, <2>3, <2>4
<1>3. Nat \subseteq T
  <2> HIDE DEF T
  <2> QED
    BY <1>1, <1>2, Induction
<1> QED
  BY <1>3

LEMMA SameWalk ==
    ASSUME NEW N \in Nat, NEW f, NEW g, NEW p, NEW q,
           WalkAlong(f, p, N), WalkAlong(g, q, N), f[0] = g[0],
           \A n \in 0 .. N : g[n] # NULL => p[g[n]] = q[g[n]]
    PROVE  \A n \in Nat : n <= N => f[n] = g[n]
<1> DEFINE T == {n \in Nat : n <= N => f[n] = g[n]}
<1>1. 0 \in T
  OBVIOUS
<1>2. ASSUME NEW n \in Nat, n \in T PROVE n + 1 \in T
  <2> SUFFICES ASSUME n + 1 <= N PROVE f[n + 1] = g[n + 1]
    OBVIOUS
  <2>1. n + 1 \in 1 .. N /\ (n + 1) - 1 = n /\ n \in 0 .. N
    OBVIOUS
  <2> QED
    BY <1>2, <2>1 DEF WalkAlong
<1>3. Nat \subseteq T
  <2> HIDE DEF T
  <2> QED
    BY <1>1, <1>2, Induction
<1> QED
  BY <1>3

(* The list has as many slots as the count says, one step behind or ahead. *)
ListIs ==
    /\ LengthOfList \in 0 .. Cardinality(Slots)
    /\ Length = LengthOfList
    /\ At[0] = head
    /\ WalkAlong(At, next, Cardinality(Slots))
    /\ \A n \in 0 .. Cardinality(Slots) :
          At[n] \in IF n < LengthOfList THEN Linked ELSE {NULL}

LEMMA CountIsLength == Inv => ListIs
<1> SUFFICES ASSUME Inv PROVE ListIs
  OBVIOUS
<1> DEFINE N == Cardinality(Slots)
<1>1. PICK d : Depths(d) /\ d[head] = LengthOfList
  BY DEF Inv, Counted
<1>2. Walks(At) /\ N \in Nat
  BY AtWalks, SlotFacts DEF Inv
<1>3. At[0] = head /\ WalkAlong(At, next, N) /\ DOMAIN At = 0 .. N
  BY <1>2 DEF Walks, WalkAlong
<1>4. \A n \in 0 .. N : At[n] \in Linked \cup {NULL}
  BY <1>3, WalkOnLinked
<1>5. /\ head \in Linked \cup {NULL} /\ NULL \notin Linked
      /\ \A s \in Linked : next[s] \in Linked \cup {NULL}
  BY SlotFacts DEF Inv, ListClosed, Linked
<1>6. \A s \in Linked : d[s] \in 1 .. N /\ d[s] = d[next[s]] + 1
  <2> SUFFICES ASSUME NEW s \in Linked PROVE d[s] \in 1 .. N /\ d[s] = d[next[s]] + 1
    OBVIOUS
  <2>1. d[next[s]] \in Nat
    BY <1>1, <1>5 DEF Depths
  <2>2. d[s] = d[next[s]] + 1 /\ d[s] <= Cardinality(Linked)
    BY <1>1 DEF Depths
  <2> QED
    BY <1>2, <2>1, <2>2, LinkedFinite
<1>7. d[NULL] = 0
  BY <1>1 DEF Depths
<1> DEFINE L == d[head]
<1>8. L \in 0 .. N
  BY <1>2, <1>5, <1>6, <1>7
<1> DEFINE T == {n \in Nat : n <= N => d[At[n]] = IF n < L THEN L - n ELSE 0}
<1>9. 0 \in T
  BY <1>3, <1>8
<1>10. ASSUME NEW n \in Nat, n \in T PROVE n + 1 \in T
  <2> SUFFICES ASSUME n + 1 <= N
               PROVE  d[At[n + 1]] = IF n + 1 < L THEN L - (n + 1) ELSE 0
    OBVIOUS
  <2>1. n + 1 \in 1 .. N /\ n \in 0 .. N /\ (n + 1) - 1 = n
    BY <1>2
  <2>2. At[n + 1] = IF At[n] = NULL THEN NULL ELSE next[At[n]]
    BY <1>3, <2>1 DEF WalkAlong
  <2>3. d[At[n]] = IF n < L THEN L - n ELSE 0
    BY <1>10, <2>1
  <2>4. CASE At[n] = NULL
    BY <1>7, <1>8, <2>2, <2>3, <2>4
  <2>5. CASE At[n] # NULL
    <3>1. At[n] \in Linked
      BY <1>4, <2>1, <2>5
    <3>2. d[At[n]] \in 1 .. N /\ d[At[n]] = d[At[n + 1]] + 1
      BY <1>6, <2>2, <2>5, <3>1
    <3>3. d[At[n + 1]] \in Nat
      BY <1>1, <1>5, <2>2, <3>1 DEF Depths
    <3> QED
      BY <1>8, <2>3, <3>2, <3>3
  <2> QED
    BY <2>4, <2>5
<1>11. Nat \subseteq T
  <2> HIDE DEF T
  <2> QED
    BY <1>9, <1>10, Induction
<1>12. \A n \in 0 .. N : At[n] \in IF n < L THEN Linked ELSE {NULL}
  <2> SUFFICES ASSUME NEW n \in 0 .. N PROVE At[n] \in IF n < L THEN Linked ELSE {NULL}
    OBVIOUS
  <2>1. d[At[n]] = IF n < L THEN L - n ELSE 0
    BY <1>2, <1>11
  <2>2. At[n] \in Linked \cup {NULL}
    BY <1>4
  <2>3. At[n] \in Linked => d[At[n]] \in 1 .. N
    BY <1>6
  <2> QED
    BY <1>2, <1>7, <1>8, <2>1, <2>2, <2>3
<1>13. Length = L
  <2>1. {n \in DOMAIN At : At[n] # NULL} = 0 .. L - 1
    BY <1>2, <1>3, <1>5, <1>8, <1>12
  <2>2. Cardinality(0 .. L - 1) = L
    <3>1. 0 \in Int /\ L - 1 \in Int
      BY <1>8
    <3>2. Cardinality(0 .. L - 1) = IF 0 > L - 1 THEN 0 ELSE (L - 1) - 0 + 1
      BY <3>1, FS_Interval
    <3> QED
      BY <1>8, <3>2
  <2> QED
    BY <2>1, <2>2 DEF Length
<1> QED
  BY <1>1, <1>3, <1>8, <1>12, <1>13 DEF ListIs

LEMMA CountIsLengthNext == Inv' => ListIs'
  BY CountIsLength, PTL

-----------------------------------------------------------------------------
(* The pool that the queue stands for, as ImplementsPool names it.         *)
PoolBar == [n \in 1 .. Length |-> content[At[n - 1]]]
AddedBar == {content[s] : s \in {x \in Slots : /\ content[x] # NoTask
                                             /\ \A t \in Threads : ~Filling(t, x)}}
GotBar == [t \in Threads |-> IF pc[t] \in {"test", "unlink"} THEN Asking
                             ELSE IF ret[t] = NULL THEN NoTask
                             ELSE content[ret[t]]]

AddedIs == AddedBar = {content[s] : s \in Linked}

LEMMA AddedAreLinked == Inv => AddedIs
<1> SUFFICES ASSUME Inv PROVE AddedIs
  OBVIOUS
<1>1. ASSUME NEW x \in Slots, content[x] # NoTask
      PROVE  (\A t \in Threads : ~Filling(t, x)) <=> \A t \in Threads : pc[t] \in Filled => slot[t] # x
  BY <1>1 DEF Filling, Filled, Inv, SlotsApart, Empty
<1> QED
  BY <1>1 DEF AddedIs, AddedBar, Linked

LEMMA AddedAreLinkedNext == Inv' => AddedIs'
  BY AddedAreLinked, PTL

LEMMA WalkDomain == Inv => DOMAIN At = 0 .. Cardinality(Slots)
  BY AtWalks DEF Inv, Walks

LEMMA WalkDomainNext == Inv' => DOMAIN At' = 0 .. Cardinality(Slots)
<1>1. (Inv => DOMAIN At = 0 .. Cardinality(Slots))'
  BY WalkDomain, PTL
<1> QED
  BY <1>1 DEF Slots

(* While head stays, so do the walk and the pool.                          *)
LEMMA PoolStays ==
    ASSUME Inv, Inv', head' = head,
           \A s \in Linked : next'[s] = next[s] /\ content'[s] = content[s]
    PROVE  PoolBar' = PoolBar
<1> DEFINE N == Cardinality(Slots)
<1>1. ListIs /\ ListIs' /\ N \in Nat /\ Slots' = Slots
  BY CountIsLength, CountIsLengthNext, SlotFacts DEF Slots
<1>2. /\ WalkAlong(At', next', N) /\ WalkAlong(At, next, N)
      /\ At'[0] = head' /\ At[0] = head
      /\ DOMAIN At' = 0 .. N /\ DOMAIN At = 0 .. N
  BY <1>1, WalkDomain, WalkDomainNext DEF ListIs, WalkAlong
<1>3. \A n \in 0 .. N : At[n] # NULL => At[n] \in Linked
  BY <1>1 DEF ListIs
<1>4. \A n \in 0 .. N : At[n] # NULL => next'[At[n]] = next[At[n]]
  BY <1>3
<1>5. At'[0] = At[0]
  BY <1>2
<1>6. \A n \in Nat : n <= N => At'[n] = At[n]
  <2> HIDE DEF N
  <2> QED
    BY <1>1, <1>2, <1>4, <1>5, SameWalk
<1>7. \A n \in 0 .. N : At'[n] = At[n]
  BY <1>1, <1>6
<1>8. Length' = Length
  BY <1>2, <1>7 DEF Length
<1>9. \A n \in 1 .. Length : n - 1 \in 0 .. N /\ At[n - 1] \in Linked
  BY <1>1 DEF ListIs
<1> QED
  BY <1>7, <1>8, <1>9 DEF PoolBar

LEMMA TailIs ==
    ASSUME NEW S, NEW p \in Seq(S), p # <<>>
    PROVE  Tail(p) = [n \in 1 .. Len(p) - 1 |-> p[n + 1]]
<1> DEFINE q == Tail(p)
           r == [n \in 1 .. Len(p) - 1 |-> p[n + 1]]
<1>1. /\ q \in Seq(S) /\ Len(q) = Len(p) - 1
      /\ \A n \in 1 .. Len(q) : q[n] = p[n + 1]
  BY HeadTailProperties
<1>2. Len(p) - 1 \in Nat /\ \A n \in 1 .. Len(p) - 1 : p[n + 1] \in S
  OBVIOUS
<1>3. r \in Seq(S) /\ Len(r) = Len(p) - 1
  BY <1>2
<1>4. \A n \in 1 .. Len(p) - 1 : r[n] = p[n + 1]
  OBVIOUS
<1> HIDE DEF q, r
<1>5. q = r
  BY <1>1, <1>3, <1>4
<1> QED
  BY <1>5 DEF q, r

(* Push puts the new slot's task before the others.                        *)
LEMMA Prepended ==
    ASSUME NEW S, NEW p \in Seq(S), NEW a \in S, NEW q \in Seq(S),
           Len(q) = Len(p) + 1, q[1] = a, \A i \in 1 .. Len(p) : q[i + 1] = p[i]
    PROVE  q = <<a>> \o p
<1> DEFINE r == <<a>> \o p
<1>1. r \in Seq(S) /\ Len(r) = Len(p) + 1 /\ r[1] = a
  OBVIOUS
<1>2. \A i \in 2 .. Len(p) + 1 : r[i] = p[i - 1]
  OBVIOUS
<1>3. \A i \in 2 .. Len(p) + 1 : q[i] = p[i - 1]
  <2> SUFFICES ASSUME NEW i \in 2 .. Len(p) + 1 PROVE q[i] = p[i - 1]
    OBVIOUS
  <2>1. i - 1 \in 1 .. Len(p) /\ (i - 1) + 1 = i
    OBVIOUS
  <2> QED
    BY <2>1
<1> HIDE DEF r
<1>4. \A i \in 1 .. Len(p) + 1 : q[i] = r[i]
  BY <1>1, <1>2, <1>3
<1> QED
  BY <1>1, <1>4 DEF r

LEMMA PushAdds ==
    ASSUME Inv, Inv', NEW t \in Threads, Push(t)
    PROVE  PoolBar' = <<content[slot[t]]>> \o PoolBar
<1> USE NoThreadAssumption DEF Goto
<1> DEFINE N == Cardinality(Slots)
<1>1. ListIs /\ ListIs' /\ N \in Nat /\ Slots' = Slots
  BY CountIsLength, CountIsLengthNext, SlotFacts DEF Slots
<1>2. /\ slot[t] \in Slots /\ slot[t] # NULL /\ content' = content /\ next' = next
      /\ head' = slot[t] /\ next[slot[t]] = head /\ lock = t /\ lock' = t /\ count' = count
      /\ pc[t] = "push" /\ pc'[t] = "count"
  BY SlotFacts DEF Push, Inv, TypeInv, SlotsApart, Filled, ListClosed, Mutexes, Locking
<1>3. LengthOfList' = LengthOfList + 1
  BY <1>2 DEF LengthOfList
<1>4. /\ WalkAlong(At', next', N) /\ WalkAlong(At, next, N)
      /\ At'[0] = head' /\ At[0] = head /\ LengthOfList' <= N /\ LengthOfList \in Nat
      /\ Length = LengthOfList /\ Length' = LengthOfList'
  BY <1>1 DEF ListIs, WalkAlong
<1>5. At'[1] = At[0]
  <2>1. 1 \in 1 .. N /\ 1 - 1 = 0
    BY <1>1, <1>3, <1>4
  <2> QED
    BY <1>2, <1>4, <2>1 DEF WalkAlong
<1>6. \A n \in 0 .. N : At[n] # NULL => next'[At[n]] = next[At[n]]
  BY <1>2
<1>7. \A n \in Nat : n + 1 <= N => At'[n + 1] = At[n]
  <2> HIDE DEF N
  <2> QED
    BY <1>1, <1>4, <1>5, <1>6, ShiftedWalk
<1>8. \A n \in 0 .. Length - 1 : At'[n + 1] = At[n] /\ At[n] \in Slots
  <2>1. \A n \in 0 .. Length - 1 : n \in 0 .. N /\ n + 1 <= N /\ n \in Nat /\ n < LengthOfList
    BY <1>1, <1>3, <1>4
  <2>2. \A n \in 0 .. Length - 1 : At[n] \in Linked
    BY <1>1, <2>1 DEF ListIs
  <2> QED
    BY <1>7, <2>1, <2>2 DEF Linked
<1>9. content \in [Slots -> Tasks \cup {NoTask}]
  BY DEF Inv, TypeInv
<1>10. PoolBar \in Seq(Tasks \cup {NoTask}) /\ Len(PoolBar) = Length
  <2>1. \A n \in 1 .. Length : content[At[n - 1]] \in Tasks \cup {NoTask}
    <3>1. \A n \in 1 .. Length : n - 1 \in 0 .. Length - 1
      BY <1>4
    <3> QED
      BY <1>8, <1>9, <3>1
  <2> QED
    BY <1>4, <2>1 DEF PoolBar
<1>11. /\ Length' = Length + 1 /\ Length \in Nat
       /\ PoolBar' = [n \in 1 .. Length + 1 |-> content[At'[n - 1]]]
  BY <1>2, <1>3, <1>4 DEF PoolBar
<1>12. \A n \in 1 .. Length : PoolBar'[n + 1] = PoolBar[n]
  <2> SUFFICES ASSUME NEW n \in 1 .. Length PROVE PoolBar'[n + 1] = PoolBar[n]
    OBVIOUS
  <2>1. n - 1 \in 0 .. Length - 1 /\ (n - 1) + 1 = n /\ n + 1 \in 1 .. Length + 1 /\ (n + 1) - 1 = n
    BY <1>11
  <2>2. At'[n] = At[n - 1]
    BY <1>8, <2>1
  <2> QED
    BY <1>11, <2>1, <2>2 DEF PoolBar
<1>13. PoolBar'[1] = content[slot[t]]
  BY <1>2, <1>4, <1>11
<1>14. PoolBar' \in Seq(Tasks \cup {NoTask}) /\ Len(PoolBar') = Length + 1
  <2>1. \A n \in 1 .. Length + 1 : content[At'[n - 1]] \in Tasks \cup {NoTask}
    <3> SUFFICES ASSUME NEW n \in 1 .. Length + 1 PROVE content[At'[n - 1]] \in Tasks \cup {NoTask}
      OBVIOUS
    <3>1. CASE n = 1
      BY <1>2, <1>4, <1>9, <3>1
    <3>2. CASE n # 1
      <4>1. n - 2 \in 0 .. Length - 1 /\ (n - 2) + 1 = n - 1
        BY <1>11, <3>2
      <4> QED
        BY <1>8, <1>9, <4>1
    <3> QED
      BY <3>1, <3>2
  <2> QED
    BY <1>11, <2>1
<1>15. content[slot[t]] \in Tasks \cup {NoTask}
  BY <1>2, <1>9
<1> QED
  BY <1>10, <1>12, <1>13, <1>14, <1>15, Prepended

(* Unlink takes the first task away.                                       *)
LEMMA UnlinkTakes ==
    ASSUME Inv, Inv', NEW t \in Threads, Unlink(t)
    PROVE  /\ PoolBar # <<>> /\ Head(PoolBar) = content[ret[t]]
           /\ PoolBar' = Tail(PoolBar)
<1> USE NoThreadAssumption DEF Goto
<1> DEFINE N == Cardinality(Slots)
<1>1. ListIs /\ ListIs' /\ N \in Nat /\ Slots' = Slots
  BY CountIsLength, CountIsLengthNext, SlotFacts DEF Slots
<1>2. /\ content' = content /\ next' = next /\ ret[t] = head /\ head # NULL
      /\ head' = next[head] /\ lock = t /\ lock' = t /\ count' = count
      /\ pc[t] = "unlink" /\ pc'[t] = "uncount"
  BY DEF Unlink, Inv, TypeInv, ListClosed, Mutexes, Locking
<1>3. LengthOfList' = LengthOfList - 1
  BY <1>2 DEF LengthOfList, Inv, TypeInv
<1>4. /\ WalkAlong(At', next', N) /\ WalkAlong(At, next, N)
      /\ At'[0] = head' /\ At[0] = head /\ LengthOfList <= N /\ LengthOfList' \in Nat
      /\ Length = LengthOfList /\ Length' = LengthOfList' /\ LengthOfList \in Nat
  BY <1>1 DEF ListIs, WalkAlong
<1>5. At[1] = At'[0]
  <2>1. 1 \in 1 .. N /\ 1 - 1 = 0
    BY <1>1, <1>3, <1>4
  <2> QED
    BY <1>2, <1>4, <2>1 DEF WalkAlong
<1>6. \A n \in 0 .. N : At'[n] # NULL => next[At'[n]] = next'[At'[n]]
  BY <1>2
<1>7. \A n \in Nat : n + 1 <= N => At[n + 1] = At'[n]
  <2> HIDE DEF N
  <2> QED
    BY <1>1, <1>4, <1>5, <1>6, ShiftedWalk
<1>8. \A n \in 1 .. Length - 1 : At'[n - 1] = At[n]
  <2> SUFFICES ASSUME NEW n \in 1 .. Length - 1 PROVE At'[n - 1] = At[n]
    OBVIOUS
  <2>1. n - 1 \in Nat /\ (n - 1) + 1 = n /\ n <= N /\ n - 1 <= N
    BY <1>1, <1>4
  <2> HIDE DEF N
  <2> QED
    BY <1>7, <2>1
<1>9. content \in [Slots -> Tasks \cup {NoTask}]
  BY DEF Inv, TypeInv
<1>10. PoolBar \in Seq(Tasks \cup {NoTask}) /\ Len(PoolBar) = Length
  <2>1. \A n \in 1 .. Length : content[At[n - 1]] \in Tasks \cup {NoTask}
    <3> SUFFICES ASSUME NEW n \in 1 .. Length PROVE content[At[n - 1]] \in Tasks \cup {NoTask}
      OBVIOUS
    <3>1. n - 1 \in 0 .. N /\ n - 1 < LengthOfList
      BY <1>1, <1>4
    <3>2. At[n - 1] \in Linked
      BY <1>1, <3>1 DEF ListIs
    <3> QED
      BY <1>9, <3>2 DEF Linked
  <2> QED
    BY <1>4, <2>1 DEF PoolBar
<1>11. /\ Length' = Length - 1 /\ Length \in Nat \ {0}
       /\ PoolBar' = [n \in 1 .. Length - 1 |-> content[At'[n - 1]]]
  BY <1>2, <1>3, <1>4 DEF PoolBar
<1>12. PoolBar' = [n \in 1 .. Length - 1 |-> PoolBar[n + 1]]
  <2> SUFFICES ASSUME NEW n \in 1 .. Length - 1 PROVE content[At'[n - 1]] = PoolBar[n + 1]
    BY <1>11
  <2>1. n + 1 \in 1 .. Length /\ (n + 1) - 1 = n
    BY <1>11
  <2> QED
    BY <1>8, <2>1 DEF PoolBar
<1>13. Tail(PoolBar) = [n \in 1 .. Length - 1 |-> PoolBar[n + 1]]
  <2>1. PoolBar # <<>>
    <3>1. Len(PoolBar) # 0
      BY <1>10, <1>11
    <3> QED
      BY <3>1
  <2>2. Tail(PoolBar) = [n \in 1 .. Len(PoolBar) - 1 |-> PoolBar[n + 1]]
    BY <1>10, <2>1, TailIs
  <2> QED
    BY <1>10, <2>2
<1>14. PoolBar # <<>> /\ Head(PoolBar) = content[head]
  <2>1. PoolBar[1] = content[At[0]]
    BY <1>11 DEF PoolBar
  <2> QED
    BY <1>4, <1>10, <1>11, <2>1
<1> QED
  BY <1>2, <1>12, <1>13, <1>14

(* Where a thread is asking, and where an answer is another one.           *)
LEMMA GotStays ==
    ASSUME Inv, NEW t \in Threads, ret' = ret,
           \A s \in Linked : content'[s] = content[s],
           \A u \in Threads \ {t} : pc'[u] = pc[u],
           pc[t] \in {"test", "unlink"} <=> pc'[t] \in {"test", "unlink"}
    PROVE  GotBar' = GotBar
<1>1. \A u \in Threads : ret[u] \in Linked \cup {NULL}
  BY DEF Inv, ListClosed
<1>2. \A u \in Threads : pc[u] \in {"test", "unlink"} <=> pc'[u] \in {"test", "unlink"}
  OBVIOUS
<1> QED
  BY <1>1, <1>2 DEF GotBar

(* Each statement of the queue is an operation of the pool, or none that   *)
(* can be seen of it.                                                      *)
LEMMA QueueStep ==
    ASSUME Inv, Inv', NEW t \in Threads, Thread(t)
    PROVE  \/ \E x \in Tasks : Pool!Add(x)
           \/ Pool!Ask(t) \/ Pool!GetTask(t) \/ Pool!GetNothing(t)
           \/ UNCHANGED Pool!vars
<1> USE NoThreadAssumption DEF Goto
<1>1. AddedIs /\ AddedIs'
  BY AddedAreLinked, AddedAreLinkedNext
<1>2. \A s \in Linked : next'[s] = next[s] /\ content'[s] = content[s]
  <2>1. \A s \in Linked : next'[s] = next[s]
    BY LinkedStep
  <2>2. CASE CallAdd(t)
    BY <2>1, <2>2 DEF CallAdd, Inv, TypeInv, SlotsApart, Linked, Empty
  <2>3. CASE ~CallAdd(t)
    <3>1. content' = content
      BY <2>3 DEF Thread, CallGetSlot, TakeSlot, BumpCurr, NewBlock, Link, Push, CountUp,
                 CallGet, GetHead, GetNothing, Unlink, CountDown
    <3> QED
      BY <2>1, <3>1
  <2> QED
    BY <2>2, <2>3
<1>3. ASSUME ~Push(t) PROVE AddedBar' = AddedBar
  <2>1. Linked' = Linked
    BY <1>3, LinkedStep
  <2> QED
    BY <1>1, <1>2, <2>1 DEF AddedIs
<1>4. CASE Push(t)
  <2>0. PICK x : x = content[slot[t]]
    OBVIOUS
  <2>1. /\ slot[t] \in Slots /\ x # NoTask /\ x \in Tasks
        /\ Linked' = Linked \cup {slot[t]} /\ slot[t] \notin Linked /\ content' = content
    <3>1. Linked' = Linked \cup {slot[t]} /\ slot[t] \notin Linked
      BY <1>4, LinkedStep
    <3>2. pc[t] = "push" /\ content' = content
      BY <1>4 DEF Push
    <3>3. slot[t] \in Slots /\ content[slot[t]] # NoTask
      BY <3>2 DEF Inv, SlotsApart, Filled
    <3>4. content[slot[t]] \in Tasks \cup {NoTask}
      BY <3>3 DEF Inv, TypeInv
    <3> QED
      BY <2>0, <3>1, <3>2, <3>3, <3>4
  <2>2. x \notin AddedBar
    BY <1>1, <2>0, <2>1 DEF AddedIs, Inv, OneCopy, Linked
  <2>3. AddedBar' = AddedBar \cup {x}
    BY <1>1, <2>0, <2>1 DEF AddedIs
  <2>4. PoolBar' = <<x>> \o PoolBar
    BY <1>4, <2>0, PushAdds
  <2>5. GotBar' = GotBar
    BY <1>2, <1>4, GotStays DEF Push, Inv, TypeInv
  <2>6. Pool!Add(x)
    BY <2>2, <2>3, <2>4, <2>5 DEF Pool!Add, PoolBar, AddedBar, GotBar
  <2> QED
    BY <2>1, <2>6
<1>5. CASE CallGetSlot(t) \/ TakeSlot(t) \/ BumpCurr(t) \/ NewBlock(t) \/ CallAdd(t) \/ Link(t)
           \/ CountUp(t) \/ GetHead(t) \/ CountDown(t)
  <2>1. /\ head' = head /\ ~Push(t)
        /\ \A u \in Threads \ {t} : pc'[u] = pc[u] /\ ret'[u] = ret[u]
        /\ \/ /\ ret' = ret
              /\ pc[t] \notin {"test", "unlink"} /\ pc'[t] \notin {"test", "unlink"}
           \/ pc[t] = "test" /\ pc'[t] = "unlink"
    BY <1>5 DEF CallGetSlot, TakeSlot, BumpCurr, NewBlock, CallAdd, Link, Push, CountUp, GetHead,
               CountDown, queueVars, Inv, TypeInv
  <2>2. PoolBar' = PoolBar /\ AddedBar' = AddedBar
    BY <1>2, <1>3, <2>1, PoolStays
  <2>3. GotBar' = GotBar
    <3>1. \A u \in Threads : ret[u] \in Linked \cup {NULL}
      BY DEF Inv, ListClosed
    <3> QED
      BY <1>2, <2>1, <3>1 DEF GotBar
  <2> QED
    BY <2>2, <2>3 DEF Pool!vars, PoolBar, AddedBar, GotBar
<1>6. CASE CallGet(t)
  <2>1. /\ head' = head /\ ~Push(t) /\ pc'[t] = "test"
        /\ \A u \in Threads \ {t} : pc'[u] = pc[u] /\ ret'[u] = ret[u]
    BY <1>6 DEF CallGet, Push, queueVars, Inv, TypeInv
  <2>2. PoolBar' = PoolBar /\ AddedBar' = AddedBar
    BY <1>2, <1>3, <2>1, PoolStays
  <2>3. GotBar' = [GotBar EXCEPT ![t] = Asking]
    <3>1. \A u \in Threads : ret[u] \in Linked \cup {NULL}
      BY DEF Inv, ListClosed
    <3> QED
      BY <1>2, <2>1, <3>1 DEF GotBar
  <2> QED
    BY <2>2, <2>3 DEF Pool!Ask, PoolBar, AddedBar, GotBar
<1>7. CASE GetNothing(t)
  <2>1. /\ head' = head /\ ~Push(t) /\ ret' = ret /\ ret[t] = NULL /\ pc'[t] = "idle"
        /\ lock = t /\ pc[t] = "test" /\ count <= 0
        /\ \A u \in Threads \ {t} : pc'[u] = pc[u]
    BY <1>7 DEF GetNothing, Push, queueVars, Inv, TypeInv, Mutexes, Locking, ListClosed
  <2>2. PoolBar' = PoolBar /\ AddedBar' = AddedBar
    BY <1>2, <1>3, <2>1, PoolStays
  <2>3. PoolBar = <<>>
    <3>1. LengthOfList = count /\ ListIs
      BY <2>1, CountIsLength DEF LengthOfList
    <3>2. Length = 0
      BY <2>1, <3>1, SlotFacts DEF ListIs
    <3> QED
      BY <3>2 DEF PoolBar
  <2>4. GotBar' = [GotBar EXCEPT ![t] = NoTask] /\ GotBar[t] = Asking
    <3>1. \A u \in Threads : ret[u] \in Linked \cup {NULL}
      BY DEF Inv, ListClosed
    <3> QED
      BY <1>2, <2>1, <3>1 DEF GotBar
  <2> QED
    BY <2>2, <2>3, <2>4 DEF Pool!GetNothing, PoolBar, AddedBar, GotBar
<1>8. CASE Unlink(t)
  <2>1. /\ ~Push(t) /\ ret' = ret /\ ret[t] # NULL /\ pc[t] = "unlink" /\ pc'[t] = "uncount"
        /\ content' = content /\ \A u \in Threads \ {t} : pc'[u] = pc[u]
    BY <1>8 DEF Unlink, Push, Inv, TypeInv, ListClosed
  <2>2. PoolBar # <<>> /\ Head(PoolBar) = content[ret[t]] /\ PoolBar' = Tail(PoolBar)
    BY <1>8, UnlinkTakes
  <2>3. GotBar' = [GotBar EXCEPT ![t] = Head(PoolBar)] /\ GotBar[t] = Asking
    BY <2>1, <2>2 DEF GotBar
  <2>4. AddedBar' = AddedBar
    BY <1>3, <2>1
  <2> QED
    BY <2>2, <2>3, <2>4 DEF Pool!GetTask, PoolBar, AddedBar, GotBar
<1> QED
  BY <1>4, <1>5, <1>6, <1>7, <1>8 DEF Thread

(* The list with its count, its allocator and its two mutexes implements   *)
(* the pool: every task that was added is handed out once, the last one    *)
(* first, and nobody is told that there is none while there is one         *)
(* (task_queue_add_atomic, task_queue_get_atomic).                         *)
THEOREM QueueIsAPool == Spec => ImplementsPool
<1>1. Init => Pool!Init
  <2> SUFFICES ASSUME Init PROVE Pool!Init
    OBVIOUS
  <2>1. Inv
    BY InvInit
  <2>2. ListIs /\ AddedIs
    BY <2>1, CountIsLength, AddedAreLinked
  <2>3. LengthOfList = 0
    BY DEF Init, LengthOfList
  <2>4. PoolBar = <<>>
    BY <2>2, <2>3 DEF ListIs, PoolBar
  <2>5. AddedBar = {}
    BY <2>2 DEF AddedIs, Linked, Init
  <2>6. GotBar = [t \in Threads |-> NoTask]
    BY DEF GotBar, Init
  <2> QED
    BY <2>4, <2>5, <2>6 DEF Pool!Init, PoolBar, AddedBar, GotBar
<1>2. Inv /\ Inv' /\ [Next]_vars => [Pool!Next]_(Pool!vars)
  <2> SUFFICES ASSUME Inv, Inv', [Next]_vars PROVE [Pool!Next]_(Pool!vars)
    OBVIOUS
  <2>1. CASE UNCHANGED vars
    <3>1. UNCHANGED <<head, next, content, pc, slot, ret>>
      BY <2>1 DEF vars, queueVars
    <3>2. AddedBar' = AddedBar /\ GotBar' = GotBar
      BY <3>1 DEF AddedBar, GotBar, Filling
    <3>3. PoolBar' = PoolBar
      BY <3>1, PoolStays
    <3> QED
      BY <3>2, <3>3 DEF Pool!vars, PoolBar, AddedBar, GotBar
  <2>2. ASSUME NEW t \in Threads, Thread(t) PROVE [Pool!Next]_(Pool!vars)
    BY <2>2, QueueStep DEF Pool!Next
  <2> QED
    BY <2>1, <2>2 DEF Next
<1> QED
  BY <1>1, <1>2, Invariant, PTL DEF Spec, ImplementsPool, Pool!Spec
=============================================================================
