# Verification of the multi-core hash joins with Bloom filters

TLA+ models of the join algorithms in `src/src`, the TLC runs that check them on
small instances, and theorems about them that TLAPS checks for every value of
the constants. File names below are relative to `src/src`, and `bloom.c` stands
for `parallel_radix_join_bloom.c`.

## 1. The program and its parts

`mchashjoins` (main.c) generates two relations R and S of (key, payload) tuples
and joins them on the key with one of several algorithms. The interesting ones
are multi-threaded: `nthreads` POSIX threads share arrays, a Bloom filter, task
queues or a hash table, and synchronise with one barrier. There is no other
process, nothing is persisted and nothing is sent over a network. What is hard
is the interleaving of the threads, the use of the barrier, and index arithmetic.

| Part | State it keeps | Operations | Interacts with | What is hard, and what makes it correct |
|---|---|---|---|---|
| Bloom filter (bloom_filter.c) | bitmap, sizes m, k, B | create, add, contains | called by the partitioning, from all threads at once | sizes of 64 bits truncated to 32; bits within the allocation; an added key is found |
| First pass (bloom.c 759-852) | histograms, offsets, output array | `parallel_radix_partition` for R, then S | filter, barrier; its output is cut into tasks | all inserts before any lookup; rows complete before they are summed; no slot written twice; the partitions are those of the tuples kept |
| Second pass, skew, join loop (bloom.c 1059-1506) | queues, `skewtask`, results | `prj_thread` | task queues, barrier, join functions | thread 0 works on queues without locks; a barrier within a loop; large tasks cut into pieces; every tuple joined exactly once |
| `join_init_run` (bloom.c 1560-1760) | threads, chunks | create, join, sum up | everything above | chunk remainders; the sum of all results |
| Task queue (task_queue.h) | linked list, blocks of slots, two mutexes | get slot, add, get; each with and without lock | prj_thread | a slot has one owner, a task is handed out once |
| Barriers (barrier.h) | counter, condition variable | `barrier_wait` | all joins | reuse by threads that overtake others; spurious wakeups |
| NPO, NPO_st (no_partitioning_join.c, lock.h) | hash table, latches, overflow buffers | build, probe, free | barrier, latches | chains changed under one latch; lookups without latch; memory owned by other threads |
| Write-combining first pass (bloom.c 927-1046) | a cache line per partition | `parallel_radix_partition_optimized` | as the first pass | whole lines are written over neighbours' slots |
| Layout (bloom.c 573-748, prj_params.h) | none | `radix_cluster`, `serial_radix_partition` | tasks | padding within the allocation |
| Join functions (bloom.c 259-560) | local tables | bucket chaining, histogram, SIMD | tasks | empty R, masks, pairs at a bucket's end |
| Single-threaded joins (bloom.c 620-693, 1798-1975) | | RJ, BRJ | filter | which pass inserts, which checks |
| Join without filter (parallel_radix_join.c) | as above | as above | | as above |
| Generators (generator.c, genzipf.c) | relations, an array of locks | fill in parallel, shuffle; Zipf | main | pairs of locks; keys lost or doubled by swaps; keys of chunks; a search at its bounds |
| Result buffers (tuple_buffer.h) | chained buffers | write, read back | joins write, main reads | positions at a buffer's end |
| CPU and NUMA mapping, hashes, command line, timers | tables | | | nothing stateful |

`PROJECT.json` lists under `hazards` each line where one of these bites, with the
properties that would notice.

## 2. Modules

| Module | Models | Checked by |
|---|---|---|
| `BloomFilter` | the filter's arithmetic, as operators | |
| `BloomFilterUse` | concurrent inserts into one filter | through `SharedStructures` |
| `PartitionContract` | abstract: what the first pass promises thread 0 | |
| `RadixPartition` | the first pass of R and of S, with a filter and plain stores | through `FirstPass` |
| `SwwcPartition` | the first pass with write-combining buffers | through `FirstPass` |
| `FirstPass` | the four programs: with or without filter, with or without write-combining | `MCFirstPass` |
| `PthreadBarrier` | abstract: what the joins expect of a barrier | |
| `CondBarrier` | barrier.h's fallback | through `NpoProgram`, and itself |
| `TaskPool` | abstract: a pool of tasks, the newest first | |
| `TaskQueue` | task_queue.h, statement by statement | through `SharedStructures` |
| `SharedStructures` | the filter or a task queue: what the threads of a radix join write to at once | `MCSharedStructures` |
| `PrjThread` | prj_thread after the first pass, and join_init_run | `MCPrjThread` |
| `JoinFunctions` | radix_cluster, the three join functions, paddings, as operators | |
| `SecondPass` | the second pass and the join loop, in memory | through `RadixJoins` |
| `SerialRadixJoin` | RJ and BRJ | through `RadixJoins` |
| `RadixJoins` | main's choice between the two above | `MCRadixJoins` |
| `TupleBuffer` | the chained result buffers, as operators | |
| `NoPartitioningJoin` | NPO and NPO_st, and the file main writes of their results | through `NpoProgram` |
| `RelationGenerator` | parallel_create_relation and its threads | through `NpoProgram` |
| `NpoProgram` | what main runs for NPO: the generator, the join, or the fallback barrier of either | `MCNpoProgram` |
| `RadixJoinsInvariants` | the definitions of the invariants that `RadixJoinsProofs` is about | |
| `RadixJoinsProofs`, `FirstPassProofs`, `CondBarrierProofs`, `BloomFilterUseProofs`, `TaskQueueProofs`, `PrjThreadProofs`, `NoPartitioningJoinProofs`, `RelationGeneratorProofs` | theorems about the module of that name | TLAPS |

Modules compose through abstractions where one exists, and directly where it does not:

* `FirstPass` extends `SwwcPartition` extends `RadixPartition`: the write-combining pass is
  the plain one but for its copy loop, and the unfiltered programs differ in the
  histogram loop and in one barrier. The filter is given by positions, which `MCFirstPass`
  takes from `BloomFilter`.
* `PrjThread` starts from the outcome that `PartitionContract` describes and uses queues
  that are `TaskPool`s, which `TaskQueue` is shown to implement. Every join uses a barrier
  that is `PthreadBarrier`, which `CondBarrier` is shown to implement.
* `SecondPass` and `SerialRadixJoin` share `JoinFunctions`; `RadixJoins` instantiates both.
  `PrjThread` and `SecondPass` look at the same code from two sides: the first has the
  queues, barriers, NUMA nodes and skew, with a tuple as a number; the second has the
  memory, with offsets, paddings and keys, and two threads that drain the queues.
* `NoPartitioningJoin` extends `TupleBuffer`: what the threads write is what main reads.
* `SharedStructures` and `NpoProgram` put modules side by side that share no state in the
  program, as the filter and a queue, or generating a relation and joining: a behaviour is
  one of the parts (`part`), the others stay in an initial state, and the properties are
  those of the parts' modules. So one run checks several modules, with all of their inputs. No
  combination of the parts' states is left out that could matter, since no
  step of one reads or writes a variable of another.

### How state and actions correspond to the code

*BloomFilter.* A bitmap is the set of its 1 positions: byte `h >> 3` with mask
`1 << (h & 7)` is position `h`. `% Word` is the wrap-around of `uint32_t`, with a
4-bit word when checking, so that the truncation of a size of 2^w to 0 (and the mask
`0 - 1`) occurs. The hash functions are arbitrary functions. `AddBit` is one
`atomic_fetch_or`.

*RadixPartition.* `pc[t]` is the loop of `parallel_radix_partition`, or the barrier,
that thread t is in, `i[t]` the loop's counter. One action is one iteration, and in
the histogram loop one bit of the filter. `hist`, `output`, `dst` and
`contains_cache` are the C arrays; `tmp[r]` maps slots that were written to the
position of the tuple. `ReleaseBarrier` is `pthread_barrier_wait` for the last
thread to arrive, for both places of the one barrier. The offset loops, which run
over rows that no longer change, take a row a step.

*SwwcPartition.* `buffer[t][c]` is the cache line of partition c, with `data.slot` over
its last tuple, as the union in the code has it: storing the last tuple of a line
destroys the slot number, and the flush has to come between. A flush writes the whole
line; what the thread never put there is `Garbage`.

*FirstPass.* `program` is one of four and never changes. Without filter there is no
barrier between R and S: a thread goes on to S while others still copy R.

*PrjThread.* `pc[t]` names the phase or barrier. A relation is given by the number
of tuples in every subpartition, those of S after the filter. A task is the pair or
subpartition it describes, with the range of S; a queue is a sequence, newest
first. `probed` counts how often each S tuple was joined, which is what "no task
lost, none joined twice" is about. One action is one iteration of a loop over
partitions, one task taken, or one call of `parallel_radix_partition` up to its barrier.
`SKEW_HANDLING` is a variable that never changes: one run has both builds.
`part_queue` is used for join tasks in the skew loop, as in the code.

*TaskQueue.* A slot is a block number and an index. `next`, `head`, `count`, `curr`
are the C fields. One action is one statement of a critical section; `Begun` keeps
a task from being added a second time, which bounds the model.

*CondBarrier.* A section under the mutex is one step, except that
`pthread_cond_wait` gives the mutex up: `waiting` are the threads in it, `awake`
those that still have to return. `calls` and `returns` count and are not in the code.
`spurious` says whether the system has spurious wakeups; it never changes.

*SecondPass.* `mem.R.tmp` and `mem.R.rel` are `tmpRelR` and `relR`, as sequences of keys
with the padding that the code leaves between partitions; what nobody has written is
any key of `Junk`. A task is a range of slots in each array. One action is one loop
over one relation of a task (count, offsets, scatter), or a join's reordering or
probing: the loops of two threads interleave, and only the offsets keep them apart.

*SerialRadixJoin.* `step` counts the calls of `radix_cluster_nopadding` that have
returned, of which there are two or four by `alg.passes`; one action is one such call,
or one cluster of the join loop. `num` are the `num_tuples` that the filtering call changes.

*NoPartitioningJoin.* A bucket is `<<index>>`, or `<<thread, buffer, place>>` for an
overflow bucket (`<<0, place>>` for one that NPO_st takes from the heap); `mem` holds those
handed out. Choosing the place, counting and storing are separate steps, so that the
latch matters; a probe visits one bucket a step and writes a pair of positions for each
match. `freed` are the threads that called `free_bucket_buffer`. NPO_st is thread 0
alone; the other threads are `"absent"`. `out` is the file of `write_result_relation`.

*RelationGenerator.* Chunks, first keys and random partners are the code's formulas;
`locks[x]` is the byte of tuple x. Taking each of the two locks, each write of the swap and
each unlock is a step, so swaps of different threads overlap in every way.

In all modules an operator with the comment *slip* is a mistake somebody could make
in that place of the code. None is used by a specification; each serves to see that
the property named for it in `PROJECT.json` (`mutants`) would notice the mistake.

## 3. Runs

| Run | Bounds | Shows |
|---|---|---|
| `shared_structures` | the filter: 2 threads, 2 keys, 4 sizes and 5 block sizes (below a byte, 0, truncated, refused ones), both variants, 0 to 3 hash functions, all hash functions into {0, 7, 13} | `WithinBitmap`, `NoFalseNegative`, `OneBlockPerKey` |
| | the queue: 3 threads (symmetric), 4 tasks, blocks of 2 slots | `OneOwner`, `ImplementsPool` |
| `sizes_without_a_byte` | the filter: m = 0 and 4, both variants | **violates** `BitsInBitmap` |
| `first_pass` | all four programs, 3 threads, 2 partitions, a line of 2 tuples, relations of 0 to 5 tuples | `TypeOK`, `NoFalseNegative`, `FilterRaceFree`, `HistogramsComplete`, `WithinAllocation`, `UnreachedSlotsRight`, `NothingMisplaced`, `PlainImplementsContract`, `Termination` |
| `swwc_seam` | filter and write-combining, 2 threads, 2 tuples | **violates** `ImplementsContract` |
| `prj` | 3 threads on 2 nodes, 2 x 2 subpartitions of 0 to 4 tuples, both builds, thresholds 4 and 3 | `TypeOK`, `SameBarrier`, `NothingLeftOver`, `ResultRight`, `OneSkewTask`, `UnlockedAlone`, `Termination` |
| `prj_prho_hangs` | the same threads, PRHO; a subpartition of 4 S tuples and no R | **violates** `JoinReturns` |
| `radix_joins` | RJ and BRJ in one and two passes; 2 threads with each join function; 1 + 1 radix bits, up to 17 R tuples | `TypeOK`, `TasksApart`, `ClustersRight`, `ResultRight`, `Termination` |
| `prho_zero_key` | the same relations, PRHO | **violates** `ResultIsCount` |
| `npo_program` | the generator: 1 to 4 threads, 9 sets of arguments, pages of 2 tuples, all random numbers | `TypeOK`, `SwapsExclusive`, `KeysAsOrdered`, `OnlySwaps`, `Termination` |
| | the join: NPO on 3 threads, NPO_st; up to 7 R tuples, 2 a bucket, 1 overflow bucket and 2 results a buffer | `TableOK`, `EveryTupleStored`, `NoProbeWhileBuilding`, `NoUseAfterFree`, `ResultRight`, `JoinEnds` |
| | the fallback: 4 threads, 3 rounds, with and without spurious wakeups | `WaitersCounted`; without spurious wakeups `ImplementsBarrier`, `AllCallsReturn` |
| `generator_keys` | the generator, the same arguments | **violates** `KeysFromOne` |
| `npo_no_timing` | the join: 2 threads, `NO_TIMING` | **violates** `NoUseAfterFree` |
| `barrier_early` | the fallback: 3 threads, with spurious wakeups | **violates** `NobodyLeavesEarly` |

Why the bounds are enough. Two threads make every pair of conflicting steps, and the
third is the one between two others (a row before and a row after one's own; a
thread on another node; one that overtakes). The inputs contain a duplicate key, an
S tuple without partner, a false positive of the filter, an empty chunk, a
remainder, a thread's part of a partition that starts, ends or lies within a line, a
pair without R or S, a pair above the threshold with a small and a large
subpartition, one whose large subpartition has no R, a cluster without partner, an odd number of tuples with one hash value, a
group of four S tuples and a rest, a bucket with two overflow buckets, a full block of
slots, a full overflow buffer and a full result buffer, chunks of whole pages and of
tuples. Three rounds of a barrier let one thread be two calls ahead of another if the
barrier let it. The filter of 8 bits makes keys collide. `SecondPass` needs no third
thread: what two tasks may not do to each other is a matter of the two.

The threads of `TaskQueue` are symmetric, since no definition of it, of `TaskPool`
or of the filter beside it names one and the run checks safety only; most other models
number their threads, as the code does, and none uses symmetry.

`CHECK_DEADLOCK FALSE` stands where the system ends (all threads have returned and
been joined, all rounds are over) or is shown not to. It is not needed for finding threads that
wait for ever: `Termination`, `JoinEnds` and `AllCallsReturn` do. In `shared_structures` deadlock
is checked: adders that are done with all keys take idle steps (`FilterFilled`).

Properties that say more than their names: `UnreachedSlotsRight` and `NothingMisplaced` are
what is left of the contract with write-combining: only slots in a line that another
thread writes from its start can be lost, and nothing is ever put in a wrong place.
Four properties of passing runs carry a condition, which is the state the code mishandles; a
violating run shows what happens there, and the condition says that it is the only such state:
`WithinBitmap` (and the other two of the filter) is about sizes that give the bitmap a byte
(`HasBytes`); `KeysAsOrdered` about generators none of whose chunks starts one too low
(`StartsTooLow`, generator.c 370 and 371); `ResultRight` of `RadixJoins` leaves out PRHO
where an S tuple with key 0 meets the 0 that it writes behind R (`SentinelMet`);
`ResultRight` and `Termination` of `PrjThread` leave out PRO and PRHO where skew handling meets
a large subpartition of S that has no R (`Unbearable`). `ResultRight` of `NoPartitioningJoin` also says that each
equal pair is in the written file exactly once.

### What the violations say

* `sizes_without_a_byte`: bloom_filter.h demands a size that is a multiple of 8, the assertion a
  power of 2; `assert_args` does not check the first, and `(m & (m - 1)) == 0` accepts a 0, too. With
  m = 1, 2 or 4 the bitmap has no byte at all, nor with m = 0, where `mod_m` moreover leaves hash
  values of 32 bits as they are, and those are the positions that the first add sets.
* `generator_keys`: generator.h says 'keys are unique from 1 to maxid'. A chunk's first key is
  `(offset + 1) % threshold`, so a chunk that should begin with the largest key begins
  with 0; 1025 tuples on 3 threads are an example. (Within a chunk the generator counts on without
  a modulus, so only first keys are off.)
* `prho_zero_key`: PRHO compares tuples in pairs and clears the key behind the last R tuple. In a
  cluster of odd size that hashes to 0 throughout, an S tuple with key 0 finds that key,
  too, and PRHO returns more than 'number of result tuples'. Key 0 comes from
  `create_relation_nonunique` ('between [0, * maxid]') and from `generator_keys`.
* `prj_prho_hangs`: the skew loop makes join tasks of a subpartition when R *or*
  S is large, so also without any R. `bucket_chaining_join` then has an array of no bucket heads
  and a mask of all ones, and reads whatever lies where the hash values point; in
  `histogram_optimized_join` a loop counts an unsigned number down to `numR`, which for 0
  is for ever, which is the violation. `histogram_join` bears such a task. Only with `SKEW_HANDLING`, which is off by default.
* `swwc_seam`: within a partition the threads' slots follow each other without padding,
  so two threads meet within a cache line. The second flushes its first line, or writes
  its remainder, from the line's start, with what happens to be in its buffer there. If the
  first has already written its last tuples, they are overwritten. This concerns builds
  with `USE_SWWC_OPTIMIZED_PART` and at least two threads, with and without the filter.
* `barrier_early`: barrier.h calls `pthread_cond_wait` once instead of in a loop. This
  concerns systems without `pthread_barrier_t` only, where the file replaces it.
* `npo_no_timing`: the barrier that a comment says is there for reliable timing also
  keeps overflow buckets alive. Configured with `--disable-timing`, NPO reads freed
  memory. The default build has the barrier, and `npo_program` shows that it suffices.

### Fairness

Weak fairness of each thread's next step: the threads are kernel threads pinned to
cores, each of which the scheduler runs. Weak fairness of the barrier's opening,
of `pthread_join` and of main's steps after it: each proceeds once its condition
holds, which stays true. No strong fairness for the spin locks (latches of NPO, pairs of
locks of the generator): a thread can lose one to others only as often as these have
tuples to insert or to swap, which is finitely often.

### What is assumed

* A store is visible once made, in the order of the program. The joins use plain
  stores between barriers, which are full fences; `FilterRaceFree`,
  `HistogramsComplete`, `UnlockedAlone` and `NoProbeWhileBuilding` are the statements
  that no two threads use plain accesses on the same data in between. `unlock` in
  lock.h is a plain volatile store; that is enough on x86.
* `PaddingCoversLine` (SwwcPartition): the padding between partitions is at least a cache line
  (prj_params.h 88, 89: three lines per partition of the second pass, and three more), so
  that no line holds slots of two partitions of one thread.
* `NumaAssumption` (PrjThread): a partition lies on a node of some thread of the join.
  The code mixes the kernel's answer (`get_numa_node_of_address`) with tables
  (`get_numa_id`, `get_num_numa_regions`, which say 0 and 1 on an unknown machine).
  On an unknown machine with several nodes the kernel's answer may exceed the
  number of queues; with more nodes than the threads cover, a queue may have no reader.
* `NoTaskAssumption` (PrjThread): the null pointer is no task.
* `ThreadsAssumption` (RadixJoins): a join has a thread. With `-n 0` the program divides by
  the number of threads (parallel_radix_join_bloom.c 1646).
* `RelationsAssumption` (NoPartitioningJoin): R has at least as many tuples as a bucket.
  Below that `nbuckets` is 0.
* `InputsAssumption` of RelationGenerator (`Fits`): every chunk has a tuple, and the last
  chunk as many as the rounding of the others leaves it unmatched ones. Otherwise the
  shuffle counts down from -1, or the unmatched keys go beyond the chunk; the code tests neither.
* `Strays` (PrjThread): a `bucket_chaining_join` that reads beyond its bucket array counts any of
  these numbers besides its matches, or never returns; for what undefined behaviour does
  otherwise (a crash) there is no state. `TypeOK` of `SecondPass` says that without skew handling
  no task has an empty R.
* `ArgsAssumption`, `HashAssumption` (BloomFilterUse): sizes fit 64 bits and hash values 32, and
  twice the number of hash functions is below 2^32. Creation divides by B, whatever the variant;
  `Init` has no filter with B = 0, since the program stops there.

## 4. Proofs

All theorems hold for every value of the constants that satisfies the named assumptions in
the modules. Each module of proofs says at its head what it proves.

**The first pass** (`FirstPassProofs`): any number of threads, of partitions and of hash
functions, any padding and line, any filter positions and any two relations. First, of the
filtered program with plain stores by itself (`RadixPartition!Spec`):

* `TypeCorrect`: `TypeOK`, in which each counter stays within its loop.
* `ThreadsInStep`: `InStep`, all threads partition the same relation and are on the
  same side of the same barrier. This is inductive together with `TypeOK`, since
  only `ReleaseBarrier` crosses a barrier, and it takes all threads across.
* From it follow `FilterHasNoRace` and `HistogramsAreComplete` at once.
* `FilterHoldsR`: `FilterFilled`. `NoFalseNegative` is not inductive: that a lookup
  succeeds depends on what other threads inserted earlier. The invariant says that a
  thread's scanned tuples, and the first `bit[t]` positions of its current one, are in
  the filter (`ScannedAdded`, `BeingAdded`), and that once a thread works on S all of
  R is (`AllAdded`). The step that needs an argument is the barrier after R: every
  tuple is in some thread's chunk (`EveryTupleInAChunk`, the remainder of the
  division), every thread has scanned its chunk.
* `NoMatchIsLost`: `NoFalseNegative`. `FilterOut` needs a position that is not set,
  and `FilterHoldsR` says that a partner's positions are.

As it happens the proof uses the barrier inside `parallel_radix_partition` only: the
one between R and S (bloom.c 1153) is not needed for the filter.

Then, of all four programs (`PassSpec`), all that `first_pass` checks but termination:
`PassTypeCorrect`, `PassLosesNoMatch`, `PassFilterHasNoRace`, `PassHistogramsAreComplete`,
`PassStaysInMemory` (`WithinAllocation`), `UnreachedSlotsAreRight`, `NothingIsMisplaced` and the
refinement `PlainPassKeepsContract` (`PlainImplementsContract`). They come from one invariant,
`PassInv` (`PassKeepsAccount`):

* Without the filter threads are not in step: one may count S while another copies R. What
  is left is `Met`: nobody has left the first barrier of a relation before all came there.
  `Places` says which loops a program has, and that nothing is stored before that barrier.
* `Account(kept)`: there is a set of positions of each relation, those that were counted, that
  accounts for everything. A tuple's slot is a function of it (`SlotFor`: the tuples of earlier
  partitions, and the earlier ones of its own, and the paddings before). A thread's histogram
  counts its part of the set, before the prefix sum and after (`HistAt`); the offsets it has added
  up, row by row, count the set's tuples in the rows it has seen, then its start in each
  partition (`OutputAt`); its next slot is the start and the tuples it has passed (`NextAt`); what it
  stored is in its slot (`StoredAt`), and nothing else is anywhere (`NothingElse`).
* The set is not a variable of the program; it grows when a tuple counts. So the invariant says
  that there is one, and every step shows which. That all R tuples and all S tuples with a
  partner are in it is `KeptAt`, from `NoFalseNegative`.
* Arithmetic of the sets comes first: the slots of a thread's part of a partition are an
  interval in the order of the relation (`OwnRange`), so are those of a partition
  (`ClusterSlots`), all lie in the allocation (`SlotBounds`), and no two tuples share one
  (`SlotsApart`).
* With write-combining a thread's buffer holds, before its next slot, tuples that belong
  there or garbage (`BufferAt`), and only tuples whose slots are in no other thread's lines are
  promised to stay (`Exposed`). A line that is written may hold garbage in the slots of another
  thread but never of another partition (`OtherCluster`), because of the padding.
* For the refinement, a step that leaves the last thread behind a relation makes its
  partitions what `PartitionContract` makes of the counted tuples, all at once
  (`SeenIsPartitions`); nobody touches them later (`PartitionedStays`); S comes after R
  (`PartitionedInOrder`).

**The filter** (`BloomFilterUseProofs`): any number of adders, keys and hash functions, both
variants, and every size of 64 bits that `assert_args` lets through and that gives the bitmap a
byte: main's default of 2^28, and sizes from 2^32 on, which `add_generic` truncates to 0. `AddedKeysAreFound` (`NoFalseNegative`): the invariant adds that a call
in progress has set the positions it has counted (`BitsSoFar`); bits are never cleared.
`BitsLieInTheBitmap` (`WithinBitmap`)
and `KeysStayInTheirBlock` (`OneBlockPerKey`): a power of two is less than 8 or whole bytes
(`WholeBytes`). A size loses its multiples of 2^32 in `add_generic`. What is left is not larger than the
size, unless it is 0: then a position is any number of 32 bits, of which the size was a multiple
(`PositionsInBitmap`). The positions come from a recursive function (double hashing), whose values are
bounded by induction.

**The task queue** (`TaskQueueProofs`): any number of threads, any finite set of tasks, blocks of
any size.

* `SlotsHaveOneOwner` (`OneOwner`). A slot is given away once, because as many slots have been
  given away as tasks begun (`SlotsCounted`) and different places below `curr` are different
  slots (`SlotsApart`). `Linked` are the slots that were ever pushed; pointers lead from there to
  there (`ListClosed`), so a thread that still fills its slot cannot be met on the list.
* `QueueIsAPool` (`ImplementsPool`). What is hard is that the list is one of pointers, and that
  `count` decides whether there is a task. The invariant says that there is a function giving
  every linked slot the length of the list from it on (`Depths`), and that it gives `head` the
  value of `count`, but for a thread between moving `head` and counting (`LengthOfList`). So
  `count > 0` exactly when `head` is no null pointer, the walk `At` has that many slots, Push
  shifts it by one, Unlink shifts it back, and every other step leaves it (`ShiftedWalk`, `SameWalk`).
  That nothing is added twice is `OneCopy`: a task is in one hand or in one slot.

**The fallback barrier** (`CondBarrierProofs`), any finite set of threads and any number of rounds:
`NoWakeupIsLost` (`WaitersCounted`), with and without spurious wakeups, and `FallbackIsABarrier`
(`ImplementsBarrier`) on a system without them (for others `ImplementsBarrier` claims nothing;
see `barrier_early`). For the second, the inductive invariant adds to `CountsOK` that `called` is the
number of blocked threads (`CountExact`) and that all threads are in the same round (`InRound`).
With it the thread that completes the count is known to find all others blocked, so that all
have called when the first returns. Each step is then one of `PthreadBarrier` or a stutter.

**The join loop** (`PrjThreadProofs`), any number of threads, partitions and nodes, any input and
any thresholds, both builds. All of `prj` but termination:

* `ThreadsMeetAtOneBarrier` (`SameBarrier`), `QueuesNeedNoLockThere` (`UnlockedAlone`) and
  `SkewTaskIsShared` (`OneSkewTask`). The invariant says that all threads are in one phase, where a
  phase lies between two openings of the barrier and allows thread 0 other places than the
  rest (`Places`). Which barrier ends a phase depends on the shared `skewtask`, which no thread
  can change within a phase that reads it; that is also why all partition the same task.
* `TasksAreOfTheirKinds` (`TypeOK`). Thread 0's `part_queue` holds pairs of partitions, and later join
  tasks. The invariant adds which queues are empty (`Drained`): a thread leaves pass 2 and the
  join loop when its node's queue is empty, and only threads of the node refill one. Pieces
  of a large join task stay in its subpartition, since k times the quotient, and the quotient
  once more for all but the last piece, is at most the number of tuples (`PiecesCover`).
* `NothingIsLeftOver` (`NothingLeftOver`). Each tuple of S that has partners is at any time in one
  place (`InOnePlace`): its pair of partitions is still to be queued, or is in a queue; a
  thread or all threads have the pair and have not come to its subpartition; a join task with it is
  in a queue; or it was joined, once. A place in a queue is counted from the end, where
  neither adding nor taking moves anything. Every action moves the tuple to one other place
  or leaves it (`Moves`, `NothingMoved`). When all threads have left the join loop no other place is left.
* `ResultIsRight` (`ResultRight`). With `histogram_join` on any input, and with the other two
  unless skew handling meets a large subpartition of S without R (`Unbearable`). For these `Borne` says
  that no queue ever has a task without R for them, since every task is a subpartition with R and S
  or a large one of a large pair; so no thread miscounts or is lost in a join function
  (`NothingMiscounted`). Every match found so far was counted by one thread, in
  `result` of that thread (`CountedBy`; which one is not a variable of the program, so the
  invariant says that there is a function). A join adds the matches of its task, none of which
  had been found before, because the tuples were in that task and nowhere else (`JoinFinds`).

**NPO** (`NoPartitioningJoinProofs`), any number of threads, sizes of buckets, of overflow and of
result buffers, and any relations, NPO and NPO_st alike:

* `ProbesReadACompleteTable` (`NoProbeWhileBuilding`), with and without timing, and
  `BucketsOutliveProbes` (`NoUseAfterFree`) with timing. The invariant is again one phase for all
  threads; with timing nobody has freed a buffer before the freeing phase.
* `TableIsWellFormed` (`TableOK`), `TableHoldsR` (`EveryTupleStored`) and the count of
  `ResultIsRight` (below). They come from one invariant, `Whole`:
  a latch has one holder (`Exclusion`), who alone can be between reading a count and storing into
  the place it stands for (`Reserved`), and an overflow bucket has been handed out to one chain by one
  thread's buffer (`HandedOut`). Hence every bucket in use lies at one depth of one hash value's chain
  (`Chains`); a tuple that was built in lies in one place of a bucket of its chain, and
  every counted place but one that is reserved holds such a tuple (`Storage`). A probe then walks the chain of its
  key from the start, so what it has counted is the number of equal keys in the
  buckets it has left behind (`Counting`). At the end of the chain that is the number of all R
  tuples with the key, and the threads' counts add up over their chunks (`Total`).
* `ResultIsRight` (`ResultRight`): the number the program prints, and the file main writes. `Whole`
  also says of each thread's result buffer that it is well formed (only the first of its chain may
  have room, and it is empty only when it is alone), that it holds exactly the pairs the
  thread has found, and that it has as many places written as `matches` counts; so no pair is there twice
  (`ResultTypes`, `Counting`, `MatchesWritten`). Reading back `matches` tuples visits each written place
  once: the number of tuples still to be read determines the buffer and the place in
  it, as quotient and remainder (`ReadBackIs`). The file is these contents one after another,
  disjoint because no two threads share a tuple of S (`FileIs`); once written it stays (`FileRight`).

**The generator** (`RelationGeneratorProofs`), any number of threads, sizes, selectivity and random
numbers: `TypeCorrect` (`TypeOK`: indexes stay within the relation and partners below their
tuple), `SwapsAreExclusive` (`SwapsExclusive`), the action property `NoKeyLostOrDoubled` (`OnlySwaps`) and
`KeysAreAsOrdered` (`KeysAsOrdered`). The
invariant adds that all threads are on one side of the barrier and that the key a swap
remembers in `tmp` is still the one it overwrote. `FloorsFit` bounds the sum of the chunks' rounded
fractions, without which the first keys are not natural numbers. For the keys it adds `Filling`:
each tuple a thread has written so far has its right key (`RightKey`), and the thread's next keys continue
them. When the last thread reaches the barrier every tuple has its right key (`Laid`). `Parts` says
that every index is in one chunk, and that every number below that of the matched tuples belongs to
one tuple; so the indexes of the matched tuples and those numbers are paired off, and the chunks
that start one too low with their first tuples. Sets that are paired off are equally large
(`PairedBy`): these are the counts, for each key one less or more for each chunk that starts one too
low at it (`KeysAccounted`, `LaidIsAccounted`). Behind the barrier exchanges keep them. Where no
chunk starts too low that account is `KeysAsOrdered`.

**The radix joins in memory** (`RadixJoinsProofs`), any number of threads, any relations, any radix bits,
paddings and size of the probe buffer; of keys that unwritten memory holds it is assumed that they
are keys (`JunkAssumption`).

* `TasksAreApart` (`TasksApart`). Sizes and starts of clusters come from counting positions of tuples:
  what is summed up before a cluster is the number of tuples with smaller radix bits
  (`ClustersBefore`), so clusters lie one behind the other and within the relation (`ClusterSizes`,
  `Layout`). The margin of a partition, which the second pass may use for padding, is at most the
  padding between partitions (`Sizes`). The invariant `ParallelInv` says which thread has which
  partition (`PartitionTasks`), that the output of a thread between its loops are histograms of
  that partition's tuples (`Counted`), and that join tasks lie apart within partitions whose second
  pass is over (`Places`): the new tasks of a partition are then apart from all others,
  since partitions are.
* `TypesAreKept` (`TypeOK`), of RJ and BRJ, too. Whatever is read as a slice lies within its array, what is
  written are keys, and what a join function returns is a number. For the histogram joins this
  needs the counters that the first half hands to the second (`CountersReady`), for RJ and BRJ
  that the counts are those of a relation no longer than the input, and `r` and `s` not beyond
  the clusters joined so far (`SerialCounted`).
* `ClustersAreRight` (`ClustersRight`). A second invariant, `ContentInv`, says what memory holds; it is
  inductive relative to `ParallelInv`, from which it knows that no two threads' slots meet. The array
  `tmp` holds the partitions until a join reorders its R tuples there, which no thread does before all
  are behind the barrier (`OnePhase`, `PartitionsRight`); `rel` holds what a thread has clustered, where
  its histogram says (`ClusteredRight`), and for each join task the tuples of one value of all radix
  bits (`JoinTasksRight`). A tuple's place in a cluster is the number of the cluster's tuples before it
  in the input (`RankIn`), so that a cluster is known slot by slot (`Holds`) without a definition by
  recursion. That the second pass's cluster of a partition is the cluster of both groups of bits, with
  the tuples in the same order, is `ClusterOfCluster`; that a tuple stays where it was scattered to,
  `ScatterSlot`: no other tuple of the partition has its slot. What another
  thread clusters lies outside (`StillThere`), and the joins write to `tmp` only, from which by then
  nothing but their own copies is read.
* `ResultsAreRight` (`ResultRight`): every radix join ends with the number of pairs of tuples
  with equal keys, but for PRHO where it meets its sentinel (`SentinelMet`). The proof counts
  the sentinel's matches along, and says last that there are none. The numbers are counted as sets of pairs (`EqualPairs`), the threads'
  results as one set of as many elements (`TotalResult`).
  * What a join function returns for one cluster: that `bucket_chaining_join` follows each
    chain through all tuples with its hash (`BucketsFind`), that the histogram joins reorder R by
    hash value, so that a key's tuples lie between its counter and the next (`Sorted`,
    `CountersAre`), and that comparing them in pairs finds the slot behind only if it is the
    sentinel (`PairsWith`, `SlotBehind`). Grouping S in buffers splits it in two (`MatchesSplit`).
  * Parallel joins: `FoundInv`. A value of the radix bits waits while its partition is to be
    clustered or its cluster is to be joined (`Waits`). What the threads have found
    are the pairs whose value does not wait (`FoundRight`). That nothing is found twice
    is that a value has at most one join task, which is in the queue or one thread's (`OneOwner`):
    join tasks of one value begin at the same slots, so they are one (`ClusterIsOneTask`), and a
    partition that waits has no join tasks yet. That nothing is left out is `QueuesEmptied`: nobody is behind the
    barrier before the partitions are done with, and nobody is done before the join queue is empty.
    A cluster for which no join task is made has no R or no S, so no pairs. Between the
    halves of a histogram join memory still holds what the first half wrote (`Prepared`); the joins
    of others write elsewhere (`TasksAreApart`).
  * RJ and BRJ: `SortedInv`. After each call a relation is at a stage (`Stage`), and its copy has the
    tuples of the input that the filter lets through, rearranged by some bijection (`Arranged`),
    in the order of the bits of the calls so far (`InOrderOf`): the second pass keeps what the first
    has sorted, since `radix_cluster_nopadding` keeps the order within a cluster. The filter
    has the bits of all R tuples when S is checked (`FilterRight`), so no tuple of S that is
    dropped has a partner. What has been joined are the pairs with radix bits below `i`
    (`JoinedRight`): in a sorted copy the tuples of one value lie side by side at `r` and `s`.

Several of these modules need induction over the naturals. They state it for sets, derived from
well-foundedness, so that it can be cited where an operator parameter could not be instantiated;
from it follows that functions recursive in a natural number exist and satisfy their equation.

A theorem is about the specification of its own module (`BarrierSpec`, `FilterSpec`, `GenSpec`,
elsewhere `Spec`), of which `SharedStructures` and `NpoProgram` take the initial states and the
steps of a part as they are.

**Only model-checked**: liveness, since fairness and `ENABLED` are out of the prover's reach. Every
safety property of the passing runs is a theorem.

## 5. Not modelled

* The Zipf generator. Its table consists of sums of `pow()`, and its binary search compares
  these with random doubles; what is discrete about it is one sequential loop.
* The serial generators, and reading and writing relations as files.
* Materialised results of the radix joins (`JOIN_RESULT_MATERIALIZE`): they use the same two
  calls of tuple_buffer.h as NPO. Reading buffers forwards, copying and sorting them is called by
  nothing.
* `NUM_PASSES` 1 and `PERF_COUNTERS` builds of `prj_thread`; prefetching; memory that cannot be
  allocated (the program exits).
* The rest of parallel_radix_join.c: after its first pass (`FirstPass`) and RJ (`SerialRadixJoin`)
  it repeats parallel_radix_join_bloom.c, which `PrjThread` and `SecondPass` model.
* CPU and NUMA tables, the hash functions (the filter is right for any), option parsing,
  printing, timers, performance counters, unit tests.
* Vendored and recorded code, which is most of the repository: the table printer fort.c, the
  intrinsics of sse2neon.h, libconfig, bzip2, the two copies of the Wisconsin joins, scripts and
  measurements. None of it is logic of these joins.

Hazards without a property are those that an assumption above excludes
(bloom.c 1216, no_partitioning_join.c 619, generator.c 207 and 351), the two lines of main.c 490, and
genzipf.c 134.

## 6. What is left

The Zipf generator, and skew handling in memory:
`PrjThread` has it without offsets, and `SecondPass` has the offsets without it.
