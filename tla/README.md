# TLA+ models of the concurrent containers of "The Art of Writing Efficient Programs",
2nd edition

The repository holds the example programs of the book, chapter by chapter. The code
that keeps state and must keep it correct is the concurrency code: the containers of
Chapter07 (queue, deque, hash set, list, and the spinlock and the reference-counted
pointer below them), the work-stealing coroutines of Chapter08, and the pointers that
Chapters 06 and 07 publish data through. Around it stand the programs that drive,
measure or compare: benchmarks with their threads and barriers, generators, index trees,
buffers, sorts and loops. This directory models the first in detail, the second in
small modules, checks both with TLC and proves what matters most with TLAPS.

Paths below are relative to `src/`; `CQ` is
`Chapter07/06_concurrent_queue/concurrent_queue.h`, `SL` the `spinlock.h` beside it, and
`CD` is `Chapter07/05_concurrent_deque/concurrent_deque.h`; `HS`, `IP`, `LL` and `WS` are
introduced below.

## 1. Inventory

### Modelled

**SpinLock** (`SL`; the same file stands beside the deque and the hash set, and with
another sleep length beside the list). *State*: the lock word; per thread the round
(`spin_count`) and the attempt of the current burst. *Operations*: `lock`, `try_lock`,
`unlock`, `locked`. *Used by*: both queues (one lock for the head, one for the tail),
the deque (its only lock), the hash set (one for its doublings, and those of its
deques). *Hard*: the test (a load) and the exchange are two steps, the loop is unrolled
with the first attempt in the `for` condition, and the back-off count is reset in the
middle of the loop. *Correct when*: one holder at a time, no lost release, `try_lock`
returns, somebody makes progress, and each thread sleeps short an exact number of times
before it sleeps long or gives up.

**RingAtomicMapQueueMPMC<Key, Value>**, the key-value ring queue (`CQ`).
*State*: `Capacity` slots of `key`, `busy` and raw memory for a value; a head and a tail,
each an index with a lock. *Operations*: `push(key, value)`, `pop(value)`, `empty`,
constructor and destructor. *Interaction*: producers meet under the tail lock, consumers
under the head lock, and the two sides only in the slot, through `key` and `busy`. The
locks are released as soon as a slot is claimed, before the value is built or moved.
*Hard*: three separate loads decide that a slot is stable while commits of this and of
the last lap run without a lock; claims and commits complete in different orders;
a full ring; an empty answer while something is busy.
*Correct when*: a slot has one owner, a pair stays together, elements leave in the order
in which they were claimed, nothing is stranded, calls return, the destructor
destroys what is there and nothing else.

**RingAtomicMapQueueMPMC<Key, void>**, the key-only ring queue (`CQ`).
*State*: atomic keys and the same head and tail. *Operations*: `push(key)`, `pop()`,
`empty()`. *Hard*: the slot changes before the index does, and neither side looks at the
other's index. *Correct when*: linearizable, as a bounded FIFO queue.

**ConcurrentAppendDeque** (`CD`, and the copy beside the hash set).
*State*: a published size; a published directory, an array of pointers to blocks of
`BlockSize` elements, and its capacity; the retired directories; a SpinLock.
*Operations*: `emplace_back` (both `push_back` forward to it), `resize`, `reserve`,
`operator[]` (with `at`, `front` and `back`), iterators, the destructor. *Interaction*:
writers serialize on the lock; readers and iterators take nothing and meet writers in
the size, the directory pointer, the block pointers and the elements, the last two of
which are plain memory. *Hard*: a reader may hold a directory that was replaced since,
or load one that is newer than the size it saw; block pointers are filled in lazily, after
the directory is published; `resize` looks at the size before it takes the lock; an
iterator caches an address through reallocations. *Correct when*: an index below a
published size names a constructed element that never moves, whatever directory the
reader loaded; plain stores meet no reader; a cached address matches its index; each
call does what it promises; readers never wait.

**ConcurrentResizableHashSet** (`HS`,
`Chapter07/07_concurrent_hash/concurrent_hash_set.h`). *State*: the table size; a deque
of bucket heads (a link and a seal level each) and a deque of nodes (key and a link with
a marked and a frozen bit). *Operations*: `insert`, `erase`, `contains`, and on the way
of each the split of a bucket that nobody has met since the table doubled; `insert`
doubles the table. *Interaction*: the two deques are `ConcurrentAppendDeque`s; a
`SpinLock` serializes the doublings, and nothing else takes it. *Hard*: a split seals
the parent bucket, freezes and copies its nodes and publishes the child while threads
with an older size insert and erase there; splits nest (an unsplit parent first);
`erase` is a bit in a link that a split may freeze at the same moment; each retry
depends on a table size that has to be newer. *Correct when*: one node speaks for a key,
a published link never changes but for its bits and a frozen one not at all, answers are
linearizable, calls return.

**intr_shared_ptr** and **atomic_shared_ptr** (`IP`,
`Chapter07/08_concurrent_list/intr_shared_ptr.h`; `lock_free_shared_ptr/` beside it).
*State*: a word with the pointer, a mark bit and, in the first, a lock bit; the count in
each object. *Operations*: construct, destroy, `load`, `store`, `compare_exchange`.
*Hard*: a load must count before a store drops the last reference; addresses
come back, so a CAS may meet another object at the same address. *Correct when*: counts
equal references at every step, and a CAS replaces what it expected.

**LockFreeList** (`LL`, `Chapter07/08_concurrent_list/lock_free_list.h`). *State*: nodes
that hold atomic shared pointers to their successors, marked when the pointer supports
marks. *Operations*: `insert_after`, `erase_after`, iterators, and a `~Node` that
dismantles the chain behind it. *Interaction*: stands on the pointers above. *Hard*:
iterators may stand at erased nodes and call the list from there; the unlink after a
mark may fail or come late; a destruction stops where somebody still holds a node and
resumes when that one lets go. *Correct when*: answers are linearizable, no node is lost
or comes back, an iterator parked at an erased node still finds every node that was live
behind it and stays so, every node is freed once.

**Work stealing** (`WS`, `Chapter08/18_coroutines_work_stealing.C`). *State*: ranges,
suspended handles, flags and owned threads of two workers, under one mutex but for the
two assignments of main. *Correct when*: each item is done once, a coroutine is resumed
once per suspension, both workers are woken at the end, main sees them finished, every
thread has an owner.

**Waits** (Chapter08 06-08, 11-13, 17): threads, stop tokens, atomic wait, latch,
semaphore, a coroutine that hops between threads. *Correct when*: nobody waits for ever
or uses a local that is gone; in 17 that can happen to `t2` and to no other (section 6).

**Shared values** (Chapter05 03-10 and 13-16, Chapter06 01-06, Chapter07 01-03):
counters and maxima by every means of protection. *Correct when*: no update is lost, a
maximum does not go down, plain accesses do not race.

**Publishing** (Chapter07 04, Chapter06 07-09): four pointers that publish objects.
*Correct when*: readers meet complete objects, which live as long as the reader has a
count; a reference from `operator*` has none, and may outlive its object once that is
replaced (section 6); each object is replaced once.

**Benchmark drivers** of queue, deque, hash set and list. *State*: the container's
lifetime, threads at barriers and latches, stop flags, counters. *Correct when*: nobody
touches a container before it is made or after it is gone, rounds stay apart, what is
reported is what happened, everybody stops.

**Algorithms**: generators and iterators (Chapter08 14-16a), index trees (Chapter12
02-05), buffers and the pool (Chapter09 04a-04e, 06), latency statistics
(`latbench_common.h`), loops (Chapter03, Chapter09 07-09), substring sorts (Chapter02).
*Correct when*: each version computes what its simplest version computes; a comparison
function used for sorting is an order, as far as it is asked.

### Not modelled

The rest of Chapters 02 to 05, 08, 10 and 11, and of Chapter12, shows what a compiler, a
cache, a NUMA node or an instruction does: no state outlives a loop iteration, or the
point of the program is undefined behaviour that its chapter explains. The tests of
Chapter07 were read for what they expect of the containers. The sources of Chapter04 14
and 15 include a header that the repository does not have. Scripts, build files and the
vendored pointer library are outside: the latter is external in `AtomicSharedPtr`
(hazard pointers and deferred reclamation).

## 2. Modules

| Module | Contents |
| --- | --- |
| `Lockable` | abstract lock with `lock`, `try_lock` and `unlock`: what stage of its use each thread is at |
| `SpinLock`, `MCSpinLock` | the spinlock, one action per access of the word; instance |
| `Fifo` | abstract bounded FIFO queue with claimed and published elements |
| `RingQueue`, `MCRingQueue` | the key-value queue, one action per access; instances |
| `RingQueueHistory`, `MCRingQueueHistory` | the same with a history variable for what an empty answer promises |
| `RingLemmas`, `RingQueueProofs` | arithmetic of indices modulo the capacity; proofs |
| `BoundedQueue` | abstract linearizable bounded queue |
| `KeyQueue`, `MCKeyQueue`, `KeyQueueProofs` | the key-only queue, instance, proofs |
| `AppendLog` | abstract sequence that only grows |
| `AppendDeque`, `MCAppendDeque`, `AppendDequeProofs` | the append-only deque, one action per access that a reader can observe; instance, proofs |
| `ConcurrentSet` | abstract linearizable set |
| `HashSet`, `MCHashSet`, `HashSetProofs` | the resizable hash set; instance; its invariant and types, and that it is linearizable |
| `AtomicSharedPtr`, `MCAtomicSharedPtr`, `AtomicSharedPtrProofs` | both atomic shared pointers; instance, proofs |
| `NodeList` | abstract linearizable list of anchors and successors |
| `LockFreeList`, `MCLockFreeList`, `LockFreeListProofs` | the list's calls; instance; proofs |
| `NodeChain` | the destruction of the list's nodes |
| `MCRingFair` | the key-value queue under fair scheduling in three environments |
| `WorkStealing`, `Waits`, `SharedValue`, `Publishing` | the small concurrent programs |
| `QueueBenchmarks`, `DequeBenchmarks`, `FixtureBenchmarks` | the benchmark drivers |
| `Generators`, `IndexTree`, `Buffers`, `Histogram`, `Loops`, `Substrings` | the algorithms |
| `MCPrograms` | one instance of `NodeChain` and the thirteen modules of the last three rows |
| `ProgramsProofs` | proofs about `SpinLock` and, in `MCPrograms`, about work stealing and the end of a list |

The composition is by assumption and guarantee. `SpinLock` is shown to implement
`Lockable` (`ImplementsLock`, also proved), and the queues, the deque and the hash set
use a lock as `Lockable` describes it: entered in one step when nobody is inside, and
left by who is; they only need a variable that names that thread. `HashSet` uses its deques as `AppendDeque` shows them to
be (an element below a size that was seen stays where it is, `ImplementsAppendLog`).
`LockFreeList` uses its pointers as `AtomicSharedPtr` shows them to be: each operation is
one step, and an object somebody refers to is not freed (`CountsAreExact`), so that
addresses identify nodes. `NodeChain` then looks at the counts themselves. The benchmark
drivers use the containers as one-step operations.

**SpinLock.** `pc` is where the thread is between accesses: `test` before
`lock_.load()`, `exchange` before `lock_.exchange(1)`, the two sleeps, `critical`,
`gave_up` (the `false` of `try_lock`). `FailedAttempt` is the control of the two nested
loops. `lock` and `try_lock` share their control and differ at its end (`LongSleep`,
`GiveUp`). `yields`, `slept` and `sawFree` are history variables.

**RingQueue.** Each access of a shared atomic is an action, named for it: `PushKey`,
`PushBusy`, `PushRecheck` are the three loads of lines 170-172, `PushClaim` the store of
`busy`, `PushAdvance` the increment with the unlock, `PushConstruct`, `PushPublish`,
`PushDone` the commit; `Pop...` likewise. An access together with an unlock that follows
it is one action: what the unlock enables is enabled no earlier in the code. Elements
are the numbers of the pushes, so that a value identifies its push; the key of the n-th
push is `KeyOf(n)`, a constant, so that runs choose between different and equal keys.
`at` is the index that the thread's slot reference was made from, `ret` and `got` what
the caller gets.

**KeyQueue.** The same for the key-only specialization; `AnswerOf` reads off the answer
a thread is about to return from where it is.

**AppendDeque.** Directories and blocks are numbered in the order of their allocation; 0
is the null pointer. A writer's accesses that readers can observe are actions: the check
without the lock (`Check`), the copied directory and its publication (`Copy`, `Swap`),
the block pointer (`Block`), the element (`Construct`) and the size (`Publish`). What
only the holder of the lock sees is taken together with the neighbouring access: the
second check with `Lock`, the capacity and the retired directories with `Swap`. The
unlock belongs to the last access before it. A reader loads the directory, then the
block pointer, then uses the element (`LoadDirectory`, `LoadEntry`, `ReadElement`), and
keeps in `at`, `dir` and `addr` what it holds between them; `operator[]`, the iterator's
constructor and `operator*` share this path. The precondition, an index below a size
that the caller saw, is stated with the current size, which is at least as large because
no call shrinks the deque. An element is named by the writer that appended it, or `Zero`
when `resize` made it.

**HashSet.** The index bits of a link never change after publication, so a bucket is the
set of its published nodes and a link the state of its two bits. Nodes are numbered as
they are published and a new one is linked before the older ones, so a walk meets the
nodes of a bucket from the greatest number down, and it stops only where it can decide:
at nodes of its key. `Call` and `LoadSize` begin an operation;
`LoadHead`, `Walk`, `Mark`, `Recheck`, `Publish` are its accesses; the split is
`LoadParent`, `Seal`, `Copy`, `PublishChild`, on a stack of buckets, the innermost
first, because an unsplit parent comes first; `LockResize` and `StoreSize` double the table. The seal level is the
table size itself. Since a decision may fall before a call returns, `decision` (a
history variable) names who decided what in the last step.

**AtomicSharedPtr.** Threads share one word and own two pointers each, `p` and `e` (the
`expected` of a CAS). `drop` holds the objects, three at most and in order, that a call
still has to release, so that between the exchange and the release other threads run. `impl` chooses the class. Addresses
are used again when freed.

**LockFreeList.** `InsertLoad`, `Link` and `EraseLoad`, `LoadAfter`, `Mark`, `Unlink`
are the accesses of next pointers; `UnlinkPlain` is the mode without marks. `Begin` and
`Advance` move an iterator, in both modes to any node, erased or not; `MayCall` says where
calls are made: anywhere with marks, at the head without. `IteratorsReachTheRest` is an
invariant, `FindsInOrder`, and an action property, `NoneIsMissed`: no step, the unlink
included, takes a node that stays in the list from what a parked iterator has ahead.

**NodeChain.** `stack` holds the frames of `~Node` (line 114) of each owner, the innermost last, with its locals `curr` and `next_curr`; every change of a
count is a step, since `use_count` is compared between them. The references to a node
are a set of places (`References`), which the counts are compared with.

**WorkStealing.** A section under the mutex is an action, except where it starts a
thread: then the started thread runs while the section has not ended. An assignment to
`threads[i]` is a read of the old pointer, a store, and the join of the old thread
(`Assign`, `Store`, `Join`; `Assign1`, `Store1`, `Join1` for main).

**The other programs.** Their modules say at the top what an action is. In `SharedValue`
a benchmark is a record (how it protects, where the cell is, what it offers), and a file
a set of records. In `Generators` and `Loops` the versions that a program compares run
side by side. In `Substrings` `std::sort` is any sequence of comparisons of neighbours;
in `Histogram` a `double` is a fraction. `MCPrograms` instantiates all of them, and
`NodeChain`, over the same fifteen variables: `which` names the program of a behavior, so that one run checks
them all and their behaviors do not interleave.

**What abstracts what.** `Fifo` is refined with the slots between the two indices as the
queue and what consumers hold on their way out as `holding`. `BoundedQueue` is refined
with the two windows in which a slot is ahead of its index: a stored key counts as in
the queue before the tail moves, and a cleared one as gone before the head moves.
`AppendLog` is refined with the elements below the published size, found through the
current directory: an element appears in the log when the size is stored, and a step
that moved, replaced or lost one would be neither a step of the log nor a stutter.
`ConcurrentSet` is refined with the keys whose authoritative node is not marked,
wherever splits have taken it; an insert takes effect when its node is published, an
erase when its mark is set, and any other answer must have been true at some moment of
the call. `NodeList` is refined with the unmarked nodes reachable from the head, in
their order.

## 3. Runs

Passing runs.

| Run | Instance | Shows |
| --- | --- | --- |
| `spinlock` | 2 threads, bursts of 8 and 8 rounds as in the source | one holder, refinement of `Lockable`, the exact number of short sleeps before a long one (8 the first time, 7 in every later round) and before `try_lock` gives up (8), `try_lock` returns under any holder, `lock` progresses when holders release |
| `ring_mpmc` | 2 producers, 2 consumers, different keys, at most Capacity elements in flight | exclusive slots across the wrap-around, pairs, when `pop` may say empty and `push` full, the destructor |
| `ring_fair` | 2 producers and 1 consumer; 1 and 2; 1 and 1 with every key equal on a ring that gets full | FIFO order of claims, calls that hold their lock return, polling drains the queue |
| `key` | 2 and 2, 10 pushes through 8 slots, NTRY 2 | linearizability of the key-only queue with all its answers; polling drains it |
| `deque` | 2 writers, 1 reader with an iterator, blocks of 2 | readers find constructed elements through any directory, no race of plain accesses, iterator caches, the destructor, what calls return, refinement of `AppendLog`, wait-free readers |
| `hash` | 2 threads, 1 key, table of 4 doubling to 16 | one authority for the key through nested splits, final links, refinement of `ConcurrentSet`, every call returns |
| `pointer` | 2 threads, 2 objects, both classes | exact counts with `desired` copied or handed over, CAS replaces what it expected |
| `list` | 2 threads, 3 nodes, marks and no marks | refinement of `NodeList`, no node of the list is missed by an iterator parked at an erased one, every call returns |
| `programs` | thirteen small programs and the dismantling of a chain of 4 nodes with 2 iterators, see the constants in `MCPrograms` and its configuration | safety of each, agreement of each algorithm with its reference, termination |

Runs that disagree with a comment (section 6): `ring_aba_push`, `ring_linearizable`,
`steal_owned`.

Runs with several modules or environments (`ring_fair`, `programs`) start in any
of their parts; the conjuncts of their properties are guarded by the part. In `programs`
every action of each of the fourteen modules fires;
`SharingIsSafe`, `StealingIsSafe` and `BenchmarksAreSound` name the modules' own
invariants.

**Bounds.** The capacity is 8, the smallest the constructor accepts (`CQ:114`; the
queue's README speaks of an experiment with 4 slots, which this constructor aborts). To
meet the wrap-around without eight pushes in every interleaving, the key-value runs
start from a quiescent queue that holds `Preloaded` elements at indices 0 ..
`Preloaded` - 1, a state that as many calls of `push` reach. `MaxPush` bounds the pushes,
so that slots of the second lap are filled and drained. `Credits`
bounds the elements in flight, counting those still being delivered, as callers do
that hand out a fixed pool. `NTRY` is 1 or 2 instead of the source's default of 8: every
probe is the same code, and two tell the first from the last. Indices do not wrap; the
capacity divides 2^64, so the slot of an index would not change. Symmetry is used in
`ring_mpmc` only, which checks no liveness.

One key makes the order of elements invisible to TLC in run `key`; that elements
leave in order is part of the theorem `KeyQueueLinearizable`.

The deque runs with blocks of 2, the smallest in which an offset matters. `emplace_back`
is called below a size of 3 (`MaxSize`; two writers can both be past the call, so that
the size reaches 4), `resize` with 1 and 3, `reserve` with 5. These meet: an empty deque
without a directory, growth by 1 and by doubling, two blocks, a `resize` that loses its
race between the two checks, one that crosses a block, and a `reserve` that grows the
directory or finds it large enough, with up to three directories of which two are
retired. One reader is enough for safety: readers write nothing that another thread
reads.

The sizes of the hash set are powers of two, the literals up to 2^16, from
`InitialSize`, at least 4, to `MaxSize`. It runs with one key whose hash, 12, moves at both doublings (4 to 8, 8 to
16), so that a thread with the first size meets a bucket that two splits have left, and
a split whose parent was never split. `MaxNodes` stops new inserts when four nodes were
published, copies included; calls in progress go on. Two keys in one chain (`Hashes2`)
take too long for a regular run. The pointer runs without a bound on its calls: two
objects are enough for an address to come back as another object, and for a CAS whose
expected, desired and current values are the same or all differ. The list has three
nodes, the fewest with an erase between two others; a thread's iterator is its anchor,
so that two threads give two parked iterators; without marks they walk anywhere and
return to the head for calls. `NodeChain` has the dummy and a chain
long enough for an owner to stop in the middle twice. The programs run with two or three
threads and loops of two or three laps, numbers modulo 16, strings of length four;
`WorkStealing` has seven items per worker, so that a worker steals, is stolen from and
is woken for the end, and threads to spare (`EnoughThreads`).

**Fairness.** A thread inside a call keeps being scheduled: weak fairness of each
thread's own step. It says nothing about who gets a lock; a waiter may starve, as with
the real spinlock, so calls are shown to return once they hold their lock. Nothing makes
a thread call again, except in `NothingStranded` and `CallsReturnAndDrain`, whose
premise is consumers that poll (`ConsumersPoll` in `KeyQueue`, as the tests' loops do;
strong fairness because a call can only be made between calls). `LockingProgresses` has
holders that release as its premise. In the deque only readers' steps are fair
(`ReaderSpec`): writers may stop anywhere, with the lock held, and readers still return
(`ReadersAreWaitFree`). In `hash` every thread inside a call is scheduled, resizers with
the lock included, and then every call returns: the bounds end the inserts, so that no
thread is overtaken for ever. The code promises no more; with unbounded traffic a call
may retry each time the table doubles. The same holds of the list, whose nodes are
inserted once. The threads of the programs are scheduled each, with one addition: a weak
compare-and-swap that keeps being tried does not fail spuriously for ever (`CasOk`, weak
fairness of the success).

**Deadlock** is checked but in `programs` and `steal_owned`, whose programs end.
Consumers can always call `empty` or `pop`, so that the check finds a thread stuck only
together with the liveness properties; in the programs `ProgramsEnd` says that what
stops has finished.

## 4. What is proved

For all values of the constants that satisfy the modules' `ASSUME`s:

- `SpinLock`: `MutualExclusion`, `ImplementsLock`, the types, and
  `BackoffBudgets`: exactly `ShortRounds` short sleeps before the first long one and
  before `try_lock` gives up, exactly one fewer before every later long one. The
  invariant is that the word is 1 exactly when a thread is in the critical section, plus
  the relation of `spin_count` and `yields` at each `pc`: equal in the first cycle,
  `spin_count` one ahead in the later ones.
  `Lockable` has one stage per thread, read off its `pc` and its operation: the two loops
  come back with the lock, or in `try_lock` alone without it, and it is entered from a
  call only, while nobody is inside.
- `KeyQueue`: the types, and `Linearizable`, the refinement of `BoundedQueue`. The
  invariant says that, seen through the windows, the slots between first and last hold
  keys and all others hold none, that at most `Capacity` are between, and what a lock
  holder knows (`ret` is the key it cleared, the slot at the tail is free once checked).
- `RingQueue`: the types, without conditions; and `SlotsAreExclusive`,
  `PairsStayTogether`, `DestructorIsSafe`, `EmptyIsJustified`, `FullIsJustified` and
  `ImplementsFifo`, the refinement of `Fifo`, in every `Environment`: keys that differ,
  and either one producer or at most `Capacity` elements in flight
  (`Credits <= Capacity`). Outside it the code fails, see section 6.

The argument for the key-value queue: each commit in progress is a ticket, the thread
with the index it claimed. Tickets of producers lie between head and tail, those of
consumers less than a lap below head, no two have the same index (`TicketInv`).
The contents of a slot follow from the newest ticket on it (`SlotsInv`: full and
published, empty, being committed, being drained, step by step of the commit). What
a thread has loaded so far of the key-busy-key sequence bounds what may have happened
since (`CheckInv`). `FreshInv` (an element is published by one push, and read by one
pop) turns a key that is equal into a slot that has not moved, where keys differ. The
one fact that is not inductive without the environment is that a producer never reaches a
slot whose index of the lap before is still being committed (`NoLapping`): one
producer is never its own predecessor, and with `Credits <= Capacity` the counting
invariant `RoomInv` excludes it. For the refinement, the entry of a ticket between head
and tail is what the one push that commits it carries, or what its slot holds once the
key is stored. `OneSlotEach` says that no value is constructed in, or moved out of, the
slot of another entry, so that only claims, publications, takes and deliveries are seen.
`ring_fair` checks it in the theorem's two environments and with equal keys.

- `AtomicSharedPtr`, both classes: the types, `CountsAreExact`, `CasSwapsExpected`.
- `AppendDeque`: the types, `MemoryIsSafe`, `CacheIsCurrent`, and `ImplementsAppendLog`,
  the refinement of `AppendLog` with what each call promises to append and return.

The argument for the pointers: the references are a set of places, the word and each
thread's pointers and locals at its `pc`, and a count is the cardinality of those that
name the object (`CountInv`). `HazardInv` says that what a thread of `atomic_shared_ptr`
is about to increment is retired at most, not freed; in `intr_shared_ptr` the lock bit of
the word keeps the word as its holder read it (`WordInv`). `CallsInv` says which class,
operation and `pc` go together. A count that reaches zero is one that no place names.

The argument for the deque: blocks get their numbers in the order of allocation, and only
the lock holder allocates, so that block `k` of the deque always is block number `k + 1`.
An entry of any directory, live or retired, is therefore null or determined by its place
(`DirInv`), and a reader that loaded an old directory finds the blocks the current one
has. `WritersInv` is what the lock holder has built so far at each `pc`, `ElementInv` that
the constructed elements are those below the size and these, and `ReadersInv` that a
reader's index is below a size it saw. No induction over data is needed: the address of
an index is computed from it.

- `HashSet`, for any keys, hashes and threads: the types, `KeyAuthority`,
  `LinksAreFinal`, and `ImplementsSet`, the refinement of `ConcurrentSet`, which is
  linearizability.

The argument for the hash set: the buckets that a key can be in as the table doubles are
its hash modulo the successive sizes, a ladder whose rungs are parents and children.
`LadderInv` says that below a published bucket the ladder goes on with a published child
at every rung, and that the parent of that child is sealed for its size; so an insert
that finds its bucket not sealed beyond its size stands at the highest published bucket
of its key, and what is added to a sealed chain belongs to none of the children it is
sealed for (`SealsHold`). `SplitInv` follows the freezing and the copying of the nodes
that move, until the private chain holds each unmarked one once. So when a bucket is
published nothing below it can change any more (`AuthorityInv`: no node of its keys below
it is live, and where nothing is ever erased, each has its copy above).
`ChainInv` says that a chain holds each key without a tombstone at most once.

For the refinement, the highest published bucket of a key decides whether the key is a
member (`TopDecides`), and each step is shown to do to the members what the set does:
mark takes a key out, publication puts one in, and sealing, freezing, copying, publishing
a child and doubling change nothing. A call that looks in an older bucket is answered
from what it saw: `SeenInv` says that while a call runs, its history holds TRUE if there
is an unmarked node of its key in its bucket, and FALSE once all the nodes that it has
left are tombstones, unless the table has grown, in which case the call goes on. TLC
checked `SeenInv` and the invariant on small tables before they were proved.

- Work stealing, the program `steal` of `MCPrograms`, for any `N`, `Chunk`, `Threshold`
  and `MaxThreads`: `StealingIsSafe`.

The argument for work stealing: `EachItemOnce` is inductive together with `ResumedOnce`,
since a worker that is listed as waiting sleeps, and so nobody but the giver touches its
range and its share; with `IdleHaveNoItems`, since what the gift replaces must be empty;
and with the arithmetic of the gift, half of a range above the threshold being some of it
and not all. That nobody looks for work after the other one has finished needs
`LeaveTogether`: with stealing, one worker starts to leave in the same step as the other,
when it wakes it to no work. A chunk may be larger than what is left, and the bound on
threads only stops a run.

- `LockFreeList`, for any threads and any finite set of nodes, with marks and without:
  the types, `IteratorsReachTheRest`, and `ImplementsList`, the refinement of
  `NodeList`, which is linearizability.

The argument for the list: three things exist at every moment (`Shape`): the set `A` of
the nodes that were ever linked, which only grows; the chain `C` of those that the head
still reaches; and a rank for every node such that each link, of the chain or of an
erased node that somebody still stands at, leads to a lower one. They are quantified, not
computed from the state: the node of an insert that was refused is not fresh, not held
and not linked, and looks like an erased one. Ranks are why a walk ends: links only ever
lead down, although erased nodes keep theirs and nodes come in between (the ranks are
doubled at each insertion to make room). With marks, an unmarked node in `A` is in `C`;
without, the dummy is, and calls are made there only. So a CAS that succeeds on an
anchor changes the chain, and a mark that succeeds takes out what the list still held.
What a thread knows at each `pc` is `Holds`: its target was linked, with a rank below
that of its anchor, and the value that it unlinks to is still the link of the target,
which nobody changes once it is marked. `LinkInserts`, `MarkErases` and `UnlinkErases` say what the three kinds of CAS do
to the list that a walk from the head finds.

`IteratorsReachTheRest` has two parts. At every linked node the walk finds nodes that were
erased and then a last part of the list (`FindsRest`, `RestOfList`, by the ranks). And
every step keeps, at every place an iterator may be, what it would find of the list
(`Keeps`): a link that changes at one node keeps what is found everywhere if it does so at
that node (`KeptByOne`), and an insertion, a mark and an unlink do.

The walk is a recursive function over the number of steps, and what it finds is proved
by induction: over the natural numbers from `NatLessThanWellFounded` and `WFMin` of the
library (`SetInduction`), which take no operator as a parameter, and from it for the walk
itself (`OrbitExists`, `WalkIsOrbit`), for the ranks (`RankInduction`) and for the
number of steps (`WalkEnds`: as many as there are nodes are enough).

- The end of a list, the program `chain` of `MCPrograms`, for any `Chain` and any finite
  `Iterators`: `ChainsAreDismantled`, that is, the counts, that nobody refers to a dead
  node and none is destroyed twice, that iterators find their way on as it was, and how
  deep `~Node` calls itself.

The argument for the end of a list (`ChainInv`, at the end of `NodeChain`): a count is
the number of places that refer to the node (`CountsInv`). Each step but the last of
`~Node` gives up at most one reference, gets at most one to a node that something refers
to, and writes two places at most, so the counts stay exact (`CountsAreKept`) and a node
whose count is zero is referred to by nothing and by no `next` that could bring it back
(`DeadInv`). `CallsInv` is what a call of `~Node` knows between its steps: once it has
compared the count with one, it is the only holder of `curr`, so the count stays one until
it deletes the node, and a `next` that it has loaded is still there when it cuts it.
`OpenInv` follows, that only a node with such a holder has a cut `next`, and with it that
an iterator, which would be a second holder, finds its way on as it was.

That the depth is bounded needs more than counts. Calls nest where a call gives up the
last reference to a node at the end of its walk, although the walk stopped because
somebody else held the node: somebody let go in between. `TokenInv` says who that can be:
each link that was cut is carried by one local of one call, and a node has one link, but
for the node behind an erased one, which has two. So it was an iterator, which `given`
counts, or, once, the erased node's own `~Node`. `BudgetInv` keeps the account: the depth
is at most what iterators gave up; one less as soon as the erased node has ended
(`Late`), since an iterator was the last to hold that, until the call that is nested at
the node behind it (`Passed`) uses the surplus. `had` says whether there was an erased
node at the start. TLC checked `ChainInv` on the instance of `programs` before it was
proved.

Left to TLC: liveness and fairness, which are out of this prover's reach; the key-value
queue with one producer, one consumer and equal keys; the programs but `WorkStealing` and
`NodeChain`; the disagreements.

## 5. What the model leaves out

- Memory orders weaker than sequential consistency. Slots are accessed with acquire and
  release operations and indices under locks, so publication is as modelled for pairs of
  threads; reorderings of relaxed accesses are not explored.
- Exceptions of `Value`, out of contract by the class comment (`CQ:69-74`).
- Durations of sleeps and yields, and the load that decides whether to yield.
- In the deque: exceptions, out of contract (`CD:450-455`); the overflow of sizes near
  2^64; `capacity()`, which changes nothing.
- In the hash set: how full the arena of nodes is, which decides when to double (in the
  model any insert may); the run has one key, see the bounds; `size()`, which changes
  nothing.
- In the list: `push_front`, `pop_front` and `begin()`, which forward; the values in
  nodes.
- In the pointers: `std::atomic<std::shared_ptr>`, the third pointer of the list, which
  belongs to the library.
- In the programs: clocks, output, command lines, thread placement, and the sizes and
  repetitions that only make a measurement longer.
- `locked()` and the constructor's checks of its arguments.
- More than one call of `empty()` by a thread that is also a producer: the roles are
  disjoint, a thread with both roles is two threads of the model that take turns.

## 6. Where the code and its comments disagree

1. `CQ:167-168`: the key-busy-key sequence is said to ensure that the slot does not move.
   A producer that lags by a lap sees no key (claimed, not published), not busy
   (published), no key (popped, still draining), and claims a slot that a consumer
   owns (`ring_aba_push`). It takes two producers, one stopped inside its commit for
   a lap while the other fills and wraps the ring.
2. `CQ:243-244`: an empty answer is said to be linearizable, because the push at the head
   has not returned. Pushes behind it may have (`ring_linearizable`).
3. `WS:39`: `SharedState` is said to own the threads. `run_test` assigns `threads[1]`
   (line 228) without the mutex, while worker 0, which was started the line before, may
   have found worker 1 suspended and assign it too (line 176): one of the two
   new threads is never joined (`steal_owned`).

These were found with the same modules, and are not among the runs:

- `SL:135`: `false` from `try_lock` is said to mean that the lock was held the whole
  time. It was held at each look: TLC refutes `FalseMeansHeldAllTheTime` (`SpinLock`)
  with the constants of `spinlock`.
- `CQ:299-300`: `empty()` false is said to mean that `pop()` would have succeeded. The
  key it reads may be one that a consumer of the last lap is about to clear: TLC refutes
  `NotEmptyMeansPoppable` (`RingQueue`) with a producer, two consumers, `Preloaded` 8,
  `MaxPush` 8, `Credits` 9, NTRY 1.
- The check of `CQ:247` in `pop` with a repeated key: the slot is emptied and refilled
  with an equal key between the loads. TLC refutes `CheckMeansStable` with a producer,
  two consumers, one key, `Preloaded` 8, `MaxPush` 9, `Credits` 10, NTRY 1.
- `SL:91-92` speaks of eight rounds of yields, then a long sleep, "resetting the counter
  and repeating", and `SL:111` of starting the yield budget over. The reset of the count is
  followed by the loop's increment (`SL:98`), so that each cycle but the first has seven.
  `BackoffBudgets` states what the code does, eight and then seven, and not what these
  comments say; TLC refutes `EightYieldsEveryCycle` (`SpinLock`), which states the
  comments, with the constants of `spinlock`.
- As the code's own comment (`CQ:192-194`) describes, `push` also returns `false` on a
  ring that holds fewer than `Capacity` elements, when the slot at the tail is still
  being drained; the README beside it says "truly full".
- `LL:94-96` speaks of destruction without recursion. `~Node` calls itself once more for
  each reference that an iterator gave up since (`CallsNestByIterators`): the depth is
  bounded by what the iterators do, not by a constant, and not by the length of the
  list.
- `Chapter06/07_unique_ptr.C:38-42`: two `republish` calls may return the same old
  object; the class is for one publisher, as the model has it.
- `Chapter08/17_coroutines_change_threads.C:31`: `t2` may be assigned, and read by both
  threads (lines 32 and 36), after main has destroyed it, since the coroutine runs on
  before the assignment. `Waits` counts these uses in `stale`; `LocalsOutliveThreads` asks
  that there are no others, and that every thread has ended unless they happened. The
  example claims nothing about it.
- `Chapter06/08_shared_ptr.C:59` and `09_locked_shared_ptr.C:95-98`: `operator*` returns a
  reference whose count, or lock, is given up when it returns, and the object may be
  deleted before the caller reads. `Publishing` has that read (`Look`); `ReadersAreSafe`
  asks for a living object from `get()` and while `operator*` runs, and behind the
  reference only that nothing but a replacement deletes it. Nothing in the repository
  calls `operator*` of these classes.
- `Chapter08/15_coroutine_generator.C:61-62`: the class takes 0 for "not yet", so it
  would start over if a sum wrapped to 0; the coroutine would not. The model's numbers
  wrap without that.
- `Chapter03/12_cond.C:38` and `04_superscalar.C:57` add to `rand()` as an `int`, which
  may overflow; `Loops` takes both outcomes.
- `Chapter03/21_branchless_functions.C:72,100`: the functions named "predicted" draw the
  condition at random.
- `Chapter06/05_shared_index.C:72,82` pass `release` as the failure order of a compare
  and swap, which the language does not allow.
- `latbench_common.h`: without a sample `lat_min` stays the largest integer, and is
  printed.
- `Chapter12/03_index_tree_runtime.C:54-61`: the lock covers getting the iterators, not
  the iteration, so iterating needs that nobody inserts.
- `Chapter09/06_pool.C:35`: `allocate` compares nothing with the capacity.

## 7. Plan

What is modelled is what the repository has of state; what is left is proof.

1. `Publishing`: `ReadersAreSafe`, with the counts by places as in `ChainsEndSafely`.
2. `SharedValue`: `ValuesAreExact` for any number of threads.
