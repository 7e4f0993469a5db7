# ConSTL in TLA+

ConSTL ("Concurrent / Constexpr STL (WIP), aimed to replace TBB and Boost") is a
collection of C++20 headers: two work-stealing thread pools, a lock-free queue,
parallel algorithms, hash maps and other containers, and vectorised routines.
This directory holds TLA+ models of its core, TLC configurations that check them
on small instances, and TLAPS proofs of what matters most for every instance.

`tlc -config <run>.cfg <module>` runs a check (`PROJECT.json` names the module of
every run); `tlapm <module>_proof.tla` checks a proof.

## 1. The system

| part | sources | state | operations | talks to |
|---|---|---|---|---|
| ConcurrentQueue | `conpool/ConcurrentQueue.h` | `head`, and per heap node a value and `next` | `push`, `try_pop`, by any thread | the allocator |
| ThreadPool | `conpool/ThreadPool.h` | a queue and a stop flag per worker, the call stacks, a latch per `join` / `arena` | `_thread_entry`, `_look_for_task`, `join`, `arena`, `request_stop` | ConcurrentQueue, move_only_function |
| TaskPool (pbb) | `wip/pbb/core.{h,cpp}` | a mutex-protected deque per worker, the call stacks, a counter per `task_group` / `begin_arena` | `look_for_task`, `run`, `wait`, `begin_arena` | |
| ParallelAlgorithms (pbb) | `wip/pbb/parallel_*.h`, `blocked_range.h` | body objects on the callers' stacks | `parallel_for`, `_reduce`, `_scan`, `_invoke` | TaskPool |
| radix_sort | `wip/radix_sort.h` | counters and two buffers | `radix_sort` | ParallelAlgorithms |
| flat_map | `wip/v1_flat_map.h`, `constl/flat_map.h` | slots of an open-addressing table, a size | insert, `operator[]`, erase, find, rehash, iteration | |
| OrderedMap | `condense/OrderedMap.h` | a hash index and a vector | insert, erase, find | |
| SparseVec | `condense/SparseVec.h` | sparse blocks, dense blocks, two sizes | push_back, pop_back, erase, at | |
| BinaryBuffer | `condense/BinaryBuffer.h` | a cursor or a buffer | read, write | |
| move_only_function | `constl/move_only_function.h` | a type-erased callable | construct, call | ThreadPool |
| MutexGuard | `conpool/MutexGuard.h` | a value and its mutex | lock, read, write | |
| consimd | `consimd/*` | loop locals | `copy_if`, `adjacent_difference`, `sincos` | |
| utf8 | `constl/utf8.h` | loop locals | encode, decode | |
| contest | `contest/*` | registered cases, a report per case | `TEST`, `expects`, `run_all_cases` | |
| the rest | `conutils`, small headers, `bin` | see `PROJECT.json` | output, traits, formatting | |

What is hard in it:

* **lock freedom without reclamation**: `push` publishes a node before its link is
  stored, `try_pop` deletes a node other threads may be reading, and addresses come
  back (ConcurrentQueue);
* **waiting by working**: a worker that waits runs other tasks on top of the
  waiting frame, so the stacks of all workers interleave; tasks hold references to
  latches, counters, closures and body objects on those frames (both pools, and the
  algorithms above them);
* **stopping**: flags are set one worker at a time, a join gives up with its
  functions still running (ThreadPool);
* **random stealing**: nothing about progress may depend on what the random numbers pick;
* **legal call sequences** that reach a broken state: the containers.

What makes each part correct:

* ConcurrentQueue: an atomic stack; no leak, no double delete, no access after
  delete; some operation always completes.
* ThreadPool, TaskPool: every function is run once, while the call it was passed
  to is still in progress; a wait ends, and ends only when everything it waits for is
  done; whoever entered the pool gets out.
* ParallelAlgorithms: the result is the sequential one; body objects are private.
* flat_map, OrderedMap, SparseVec: they refine a finite map or a sequence. All three
  do so only up to certain erases, and the properties say which.
* BinaryBuffer, utf8: what is encoded is decoded again, wherever it is cut.
* consimd, radix_sort: the fast loop computes what the plain one does.
* contest: every case is run once and counted by its own expectations.

## 2. Modules

| module | models | uses |
|---|---|---|
| `LinearStack` | abstract: an atomic LIFO stack with invocations and responses | |
| `ConcurrentQueue` | `ConcurrentQueue.h`, one shared-memory access per action | implements `LinearStack` |
| `ConcurrentQueue_proof` | inductive invariant, the safety theorems and the refinement | `ConcurrentQueue`, `LinearStack` |
| `ThreadPool` | `ThreadPool.h`, with queues that are atomic stacks | what `LinearStack` promises |
| `ThreadPool_proof` | inductive invariant and the safety theorems | `ThreadPool`, `ProofLibrary` |
| `TaskPool` | `core.h`, `core.cpp` | |
| `TaskPool_proof` | inductive invariant and the safety theorems | `TaskPool`, `ProofLibrary` |
| `ProofLibrary` | lemmas: induction and recursion over numbers, pushing on and taking from a family of queues | |
| `BlockedRange` | `blocked_range.h` | |
| `ParallelReduce` | `parallel_reduce.h` | extends `TaskPool`, `BlockedRange` |
| `ParallelReduce_proof` | where the body objects are and what they hold: invariants and theorems | `ParallelReduce`, `TaskPool_proof` |
| `ParallelScan` | `parallel_scan.h` | extends `TaskPool`, `BlockedRange` |
| `FiniteMap` | abstract: a finite map and the answers of its operations | |
| `FlatMap` | `v1_flat_map.h` | implements `FiniteMap`, up to a harmful erase |
| `FlatMap_proof` | order of probing, table invariant, safety theorems and the refinement | `FlatMap`, `FiniteMap`, `ProofLibrary` |
| `SparseVec`, `OrderedMap`, `BinaryBuffer` | the headers of the same names | |
| `Condense_proof` | inductive invariants and safety theorems | `OrderedMap`, `SparseVec`, `BinaryBuffer` |
| `Routines_proof` | inductive invariants and safety theorems | `AdjacentDifference`, `Contest`, `CopyIf`, `Utf8`, `RadixSort`, `ProofLibrary` |
| `Utf8` | `utf8.h`, on a stream | |
| `CopyIf`, `AdjacentDifference` | `consimd/*.cpp` | |
| `RadixSort` | `radix_sort.h`, on inputs of one grain | |
| `Contest` | `contest/test.h`, `test.cpp` | |
| `MC*` | instances for TLC; `MCContainers` and `MCRoutines` choose one of several independent modules per behaviour | |

### ConcurrentQueue

`head`, `next` and `value` are the C++ fields; `alloc` is the heap. Despite its name
the queue is LIFO. `pc`, `node`, `hptr`, `nxt` and `val` are the threads' program
counters and locals. `stack` is a history variable: the nodes pushed and not popped,
in CAS order.

* `push` is `PushNew`, `PushConstruct` or `PushThrow` (the exception guard), `PushCas`
  or `PushCasFail` (also spurious), `PushLink`. Between `PushCas` and `PushLink` the
  node is public and its link is the sentinel `Pending` (`-1`).
* `try_pop` is `PopCall`, `PopLoad`, `PopSpin`, `PopCas` or `PopCasFail`, `PopTake`,
  `PopReturn`. A load from a deleted node may give any link.
* `Fresh` says which address `new` may return. `Recycle = TRUE` is the real allocator:
  any free address. `Recycle = FALSE` keeps back addresses that a thread in `try_pop`
  compares with, which is what hazard pointers or deferred deletion would ensure.

An interleaving of sequentially consistent accesses is enough here: apart from the
atomics the threads share only node values, which the release CAS of `push` publishes
and the acquire loads of `try_pop` receive.

The **abstract stack**: `Elems` maps `stack` through `value`, `Op` says how far each
operation is. `push` takes effect at its CAS; `try_pop` at its CAS, or where it reads a
null head.

### ThreadPool

A worker's call stack is a sequence of frames: the thread's loop (`entry`), tasks,
`join`s and `arena`s. The frame's `at` is the place in `_look_for_task` or in the
body. The functions passed to the pool form a forest `Children`; a client outside the
pool passes `Root[c]` to `arena` (`join` outside the pool does that itself).
`_look_for_task` is `OwnCheck`, `OwnPop`, `Shuffle`, `Visit`, `Steal`, `StealNothing`;
`is_stop()` and `try_pop()` are separate steps. `m_tls.workers` is one vector per
thread: a nested `_look_for_task` reshuffles it under the loop of an outer one, which
`Shuffle` models by forgetting which entries the outer frames have seen.

A stop does not end every thread: `m_latch.wait()` in `arena` (line 175) does not look
at the stop flag, so a worker or a client blocks there for ever when the function it
passed was left in a queue. `StopSettles` says what remains of a stopped pool: every
worker has ended, but those blocked in an arena of their own whose function was not run to
its end; at least one of these was left in a queue; and the clients that do not return are
those whose function was left likewise, in a queue or on such a worker's stack. Without
nested arenas this means that all workers end.

Not in the model: the constructor (threads start on empty queues), `~ThreadPool`, thread
affinity, and the lifetime of the closure inside `move_only_function` (see the
hazard at `move_only_function.h:35`).

`Descendants`, of which `BackMeansDone` speaks, is the least set of functions that
contains a client's root and is closed under `Children`.

### TaskPool

A `task_functor` runs its function when it is dropped: `Look` takes it off a deque
and puts a task frame on the stack, `FnReturn` is the end of the function in
`~task_impl`, `Release` the decrement in `~task_iface`. `run` is `RunCount` (fetch_add) and
`RunPush`. `WaitCheck` is the loop of `wait`. `look_for_task` tries its own deque
first, then `NumWorkers - 1` times a deque picked at random with repetition. A
`begin_arena` on a worker runs its function in place, so it is a `CallFn`. A `run`
outside the pool takes four steps: `RunOutside` counts, `DropOutside` is the throw of
`spawn_task`, which drops the functor and so runs the function, `ReleaseOutside` is the
decrement that follows, and `UnwindGroup` the destructor of the group. Were the counter not
zero by then, its `wait` would throw out of a `noexcept` destructor; the client would be
`"terminated"`, which `TypeOK` excludes. The function run in `DropOutside` submits nothing
(`PoolAssumption`): a `run` in it would throw out of `~task_impl`, which is `noexcept`.

### ParallelReduce, ParallelScan

`BlockedRange` is a range, its split and what its halves are. In `ParallelReduce` the
functions of TaskPool are the subranges, `ReduceBody` the code of `parallel_reduce`: run
the right half, call the left half, wait. `acc[r]` is the body object made for `r`: the blocks
`body` was called on, in the order in which they were joined, and the number of init values
folded into it; no two orders of application look alike. `given[r]` is the object that the
call for `r` holds a reference to: its own, or its caller's once it has been called.
`parallel_for` is the same without bodies; `parallel_invoke(f, g)` is the program of
`MCTaskPool`.

In `ParallelScan` a function is a call of `parallel_scan`, a range and whether the final
pass has begun. `ScanBody` makes both halves, and outside the final pass makes them
again with the same two body objects. `CopyBody` is the copy that `rbody` starts from,
`Scan` the body's or the join's turn at the end of a call.

### FlatMap

`bucket` is the table: a slot is `Free` or holds a pair (`m_bitmaps` and `m_buckets` in
one). `IndexOn` is `bucket_index_on`, defined where the probe ends; a call whose probe
would not end is not enabled, and `ProbesEnd` says when that can be. `Moved` is the loop
of `rehash` in the order of the old slots. `insert` makes room before it looks for the
key, `operator[]` after that and only for a new key. `ret` is what the call returned.
`cut` and `harmed` are history variables: slots freed by `erase` since the table was
made, and whether an `erase` has freed a slot that another key's probe had passed.

`Contents` is what lookups find: the refinement mapping to `FiniteMap`. Up to the first
harmful erase every operation is the finite map's, and `rehash`, `reserve` and
`shrink_to_fit` are invisible. After it a key may be lost, be inserted a second time, and
come back with its old value; `Counted` states what is left.

### SparseVec, OrderedMap, BinaryBuffer

`SparseVec`: `sparse` and `dense` are the blocks' entries put together. What the code
leaves uninitialised is `Junk`; indexing by `Junk` or beyond a vector is undefined and
sets `wild`, where the behaviour ends. `vec` is the reference: the elements pushed and
not popped, kept up to the first `erase` of an id other than the last (`holed`). Such an
erase takes the entry one past the last for the last one and writes a `did` that nobody
set; from then on `push_back` may return an id in use.

`OrderedMap`: `order` is the vector, `unomap` the index, `inserted` the reference. Erasing
by key leaves the key in `unomap`; erasing by iterator leaves the positions of the
elements that moved (`stale`). A call whose position lies beyond the vector is undefined
and not enabled.

`BinaryBuffer`: the writers put the bytes `<<i, 1>>, <<i, 2>>, ...` of the `i`-th value at
their offset, the reader takes them out. A call that throws leaves everything as it was.

### Utf8, CopyIf, AdjacentDifference, RadixSort, Contest

Each module is one routine, stepped by turns of its loop, with a property that compares
it to a reference after every step.

* `Utf8`: shifts and masks as divisions and remainders. `Send` encodes, `Feed(n)` gives
  the next `n` bytes to `decode_utf8_string` behind the bytes it left over before.
  `CountLoop` is its first loop, which measures how many code points are whole,
  `DecodeLoop` its second, which decodes that many and looks no further where the input
  ends; both are functions of the number of turns. `Utf8Assumption` takes code points
  below 2^21 only: `encode_utf8` has no form for larger ones.
* `CopyIf`: `CopyVector` is one turn of the AVX loop with the permutation table `Lut`
  and the masked store, `CopyScalar` one of the rest. The reference is the scalar
  `copy_if` asked for `gt1` with operand 0: that is what the vector version answers
  whatever predicate it is given (`copy_if.cpp:61`).
* `AdjacentDifference`: `Vectors` is one turn over 32 elements, transposes and
  permutation included. A difference is the pair of the elements subtracted.
* `RadixSort`: one counting pass, scan and emission per digit, the exchange of the two
  buffers, and the copy at the end. `SumOfFirst` is the exclusive scan. `RadixAssumption`
  says that the number of passes is even: it is 32 / W, for W a power of two below 32.
* `Contest`: registration of every test for every type and parameter, then the cases
  one by one with a report each.

## 3. Runs

| run | instance | shows |
|---|---|---|
| `queue_multi` | 3 threads push and pop, 3 nodes, 2 values, safe reclamation | `TypeOK`, `ListIntact`, `NodesOwned`, `LinkTargetAlive`, `Linearizable` |
| `queue_single` | 3 pushers, one of them pops, addresses reused at once | `NoUseAfterFree`, `Linearizable`, `SpinEnds`, `LockFree` |
| `queue_aba` | 2 threads push and pop, addresses reused at once | **violates** `Linearizable` |
| `thread_pool` | 2 workers, 2 clients, nested joins, a nested arena, no stop | `TypeOK`, `RunOnce`, `ScopeHeld`, `LatchCounts`, `BackMeansDone`, `ClientsReturn` |
| `thread_pool_stop` | 2 workers, 2 clients, nested joins, two nested arenas, a stop at any time | `RunOnce`, `BoundedShutdown`, `EarlyReturnOnlyIfStopped`, `StopSettles` |
| `task_pool` | 2 workers, 3 clients: nested groups, a group beside them, a `run` outside the pool | `TypeOK`, `RunOnce`, `GroupOutlivesTasks`, `PendingCounts`, `ClientsReturn` |
| `arena_worker0` | `task_pool`'s program on 2 workers | **violates** `ArenaOnWorker0` |
| `parallel_reduce` | 7 elements, grain 2, 3 workers | `ResultInOrder`, `BodyPrivate`, `BodyAlive` |
| `scan_sum` | 2 elements, grain 1, 2 workers | **violates** `ScanSum` |
| `flat_map` | 3 colliding keys, 2 values, up to 8 buckets | `ProbeChain`, `ProbesEnd`, `Counted`, `RefinesFiniteMap` |
| `containers` | blocks of 2 and 4 ids; 3 keys, 2 values; 7 bytes | `SparseIsVector`, `OrderIndexed`, `OrderKeysOnce`, `RoundTrip` |
| `routines` | see below | `StreamDecodes`, `CopyIfPacks`, `NeighboursSubtracted`, `PassesSort`, `CasesTallied` |

**Bounds.** Queue: three threads are the smallest number for which one pops while one
links and one has read an old head; three nodes give a list of two under a node
being recycled. The heap bound is not in the code: when no address is fresh `PushNew`
waits, and a pop frees one. Pools: two workers already steal from each other in both
directions and wait for functions buried on each other's stacks. `task_pool` gives its
two workers the work of two clients, while the third is in `run` and is interrupted
between any two of its four steps; `parallel_reduce` has three workers. Programs have two
levels of nested forks, the least at which a waiting worker runs a task that waits. In `thread_pool_stop` one nested arena is called below a
join and one at the top, so that one worker, both, or none of them may be blocked when
the stop comes. Every function is run once, so the programs and runs
are finite; counters need no bound. `parallel_reduce` has four leaves in uneven halves.

Containers: the keys of `flat_map` have hashes 0, 4 and 7, so that all three or two of
them collide in tables of 1, 2, 3 or 4 buckets and part in larger ones, probes wrap
around, and `rehash` and `reserve` (called with 0, 1, 3, 5) shrink and grow the table; a
call that needs more than 8 buckets is not made. Four ids in blocks of two fill, empty and
refill a block, and lie on both sides of a block's border. With three keys,
erasing one leaves two others whose positions may be wrong in different ways. Seven bytes hold three values of
sizes 1, 2 and 4, or two and a call that throws.

Routines: code points on both sides of each border between encoded lengths, two stray
bytes (128 and 255), texts of up to three, cut anywhere. Vectors of four lanes and inputs
of up to nine elements, every combination of kept and dropped ones: two turns and
every rest. `adjacent_difference` has its real width, and sizes one below, at and one
above multiples of 32. The radix sort has its four passes, with base 2 instead of 256, on
every input of three elements. One plain test and one with two types and two
parameters, up to two expectations per case.

**Fairness.** A thread inside an operation is scheduled again (weak fairness of its
steps), which is what any operating system gives. For `LockFree` and `SpinEnds` the
queue assumes in addition that not every CAS fails for ever: strong
fairness of "some CAS succeeds", for `compare_exchange_weak` may fail spuriously.
Nothing obliges anybody to call an operation, no fairness is put on which victim
is picked, and functions passed to a pool terminate. `request_stop`, once it has set
one flag, sets the others. The containers and routines are
sequential and need none. `CHECK_DEADLOCK FALSE` is set where the system really stops:
`thread_pool_stop` (workers end, or block in an arena for ever), `routines` (they end), and `containers` (nothing is
modelled after undefined behaviour of a `SparseVec`).

**Findings.** `queue_aba`: with several consumers and an ordinary allocator, `try_pop`
suffers from ABA. A consumer reads `hptr` and `hptr->next`; others pop that node and
the next, and push a node at the first address; the CAS succeeds and `head` becomes a
node that was popped already. ThreadPool steals with `try_pop` from all workers, so it
is exposed. `arena_worker0`: the message of `core.cpp:68` says that begin_arena enters
worker 0; any worker may steal the function. `scan_sum`: `parallel_scan` feeds each
element to the same body in both passes and adds what the right body copied from the
left once more, while a (disabled) test expects each once.

Other things the models show of the code, which no doc, comment or test of the
repository contradicts, so that no run is expected to fail for them; the properties say
exactly how far the code goes, and exempt or describe what lies beyond, so they do not
catch these:

* `radix_sort.h:74` copies the other buffer over the result, which brings back the state
  before the last pass (`PassesSort`).
* `v1_flat_map.h`: `erase` leaves no tombstone (`RefinesFiniteMap` holds up to the first
  erase that cuts another key's probe, `ProbeChain` exempts the slots freed);
  `rehash(1)` makes a table that can be full, in which the lookup of another key never
  ends (`ProbesEnd`); a rehash merges duplicates without counting (`Counted`).
* `OrderedMap`: every `erase` but that of the last iterator leaves the index stale, so
  that `at` may answer with another key's value (`OrderIndexed`, `OrderKeysOnce`).
* `SparseVec`: `erase` is right for the last id only (`SparseIsVector`).
* `copy_if.cpp:61`: the vector version ignores the predicate (`CopyIf` compares with the
  predicate that it always uses).

## 4. Proofs

All for any values of the constants: threads, nodes, workers, clients, programs, ranges.

`ConcurrentQueue_proof`: what can go wrong is one kind of step, and only that.
**`StalePop`** is a `try_pop` whose CAS succeeds although the link it has read is not the
link of its node any more. `ListCorrect`, `NodesCorrect`, `LinkTargetCorrect` and
`ImplementsUntilStale` say of every behaviour without such a step,
`Spec /\ [][~StalePop]_vars`, that the list is the history of the CASes, that each node is
listed once or has one owner, that the late store of `push` hits a listed node, and that the
queue is the atomic stack. No allocator and no number of consumers is excluded: a `push`
whose CAS compares a reused address, for one, does no harm. `Spec => []TypeOK` holds with
stale pops too.

When is there none? `NeverStale` assumes **`SafeReclamation`**: `Recycle` is false, or at most
one thread pops (`SingleConsumer`). The code ensures neither, ThreadPool pops from several
threads, and `queue_aba` finds a behaviour that is not a stack's, in which there must be a
`StalePop`, by `ImplementsUntilStale`. `Implements` joins the two:
under `SafeReclamation`, `Spec => Linearizable`. `MemorySafe` assumes `SingleConsumer`: with
two consumers one can delete the node whose link the other is reading.

The invariant that every step but a `StalePop` preserves is `CoreInv`. It joins to `TypeOK`,
`ListIntact` and `NodesOwned`:

* `BuildersPending`: a node under construction has the sentinel for link.
* `LinkersListed`: the target of a late `next` store is listed just above the head the
  CAS replaced, and has one linker. This is what the sentinel is for: the node cannot be
  popped before the store.

`SafeReclamation` preserves `Apart` as well, from which `~StalePop` follows (`ApartNotStale`):

* `BuildersHidden`: no popper holds the address of a node under construction. Otherwise its
  publication could satisfy an old popper's CAS.
* `PopperFresh`: if a popper's node is listed, the link it read is still the node's. So
  a CAS that succeeds installs the right head.
* `ConsumersPop`, `SoleConsumerListed`: with one consumer the node it read stays listed.

The proof has one lemma per kind of step (`PushNewStep`, `PushCasStep`, `PushLinkStep`,
`PopCasStep`, `ReadHeadStep`, `PopSpinStep`, `PopTakeStep`, and two for local steps).
`SafeReclamation` is used in `PushNewStep` alone, and that the link is not stale in
`PopCasStep` alone.

For the refinement, `CarriesValue` is a second invariant: a pusher's node holds its
argument, a popper has no result before its CAS. `MapPushed` and `MapPopped` relate
concatenation and `Tail` on nodes to those on elements. Then each action is shown to
be an action of `LinearStack`, or to leave `Elems` and `Op` unchanged (a spin, a failed
CAS, the construction and the deletion of an unlisted node).

### Containers and routines

Their modules state, for the proofs, a specification of the component alone
(`OrderSpec`, `SparseSpec`, ...); the runs `containers` and `routines` check the same
actions beside those of the others. The bounds a run needs (`MaxIds`, `MaxLength`,
`MaxExpects`) are constants here too, so the theorems hold for every bound. Assumed is
what the constants are: `SparseVecAssumption` (a block has entries, junk is no index),
`BinaryAssumption` (a type has a positive size), `CopyAssumption` (a vector has lanes, inputs
are integers), `AdjacentAssumption` and `ContestAssumption` (sizes and counts are
naturals); `OrderedMap` assumes nothing.

`Condense_proof`:

* `KeysOnce`, `OrderIndexedHolds`: `OrderInv` is `OrderKeysOnce` with the types; it is
  inductive because an insertion asks `unomap`, which keeps every key of the vector, and
  because an erase (`ErasePreserves`) makes a vector each of whose elements comes from
  a place of its own in the old one, other than the erased one's. Until the index is
  stale, `OrderAgrees`: `unomap` holds just the keys' positions, and the vector is the
  one the calls describe. An erase that keeps this is one of the last element.
* `SparseIsVectorHolds`: `OrderIndexed`'s counterpart for the two arrays. Until an id other
  than the last is erased (`SparseAgrees`), entry i of either array names i in the other, the
  dense values are the vector, and no bit is set beyond it, whatever blocks were added or emptied
  before. After that only the sizes' equality is kept, which the theorem also states.
* `RoundTripHolds`: there are offsets where the values written lie (`Layout`), and as long
  as the types read are those written, the reader is at one of them. The invariant says
  that such offsets exist; a write behind the last value extends them.

`Routines_proof`:

* `NeighboursSubtractedHolds`: `last[0]` is the element before the first that is not done.
  The rest is arithmetic of lanes: each row of `rgba` has every fourth of the 32 elements
  (`Lanes`, `Division`), the permuted last row has each lane's left neighbour, and
  transposing the differences puts every element back. Whatever is unaligned or left
  over continues from the same `last[0]`.
* `CasesTalliedHolds`: `CasesKnown` says that the cases registered are distinct and those
  of the tests so far, all of them: c is the pair of its quotient and its remainder
  (`CasesOfProperties`). `Tallied` says that the failures counted are the cases before
  `current` one of whose outcomes failed, and that the report knows of the current case only.

* `CopyIfPacksHolds`: `Packed` is the loop `out[j++] = in[i]`, a recursive function; the table
  is made by the same loop as the scalar result. By induction over the loop's turns,
  packing l more elements appends the elements at the lanes that packing the mask gives
  (`PackedFurther`), so the lanes a masked store writes behind those are never counted,
  and fit in `dst` as no more was kept than read.
* `StreamDecodesHolds`: what was sent is one stream of bytes, and each of its code points
  has a place in it. The bytes left over and the bytes on their way are two adjacent cuts
  of the stream; the first begins where the next code point does, which has not arrived
  whole. The arithmetic of shifts says that the length is known from the first byte, the
  value from as many bytes as that, and that a stray byte is taken for one byte of its own.
  So both loops, turn by turn, are at the same places, and stop at the last code point that
  is whole: the decoder, which does not look where the input ends, never has to.
* `PassesSortHolds`: a stable sort by a key gives each position a place, one more than the
  number of positions that belong before it; the places are a permutation (`PlaceRange`,
  `PlaceOrder`, `PlaceOnto`). Sorting by the next digit what is sorted by the lower
  ones gives the places of the sort by both (`PlacesCompose`, `LowDigits`,
  `LexicographicOrder`). `RadixInv` adds what a pass does in between: the scan is where each
  bucket begins (`ScanIsLowerCount`), an index is that plus the bucket's elements already
  emitted (`NextPlace`), so each element goes where the sort puts it and onto no other.
  It also keeps that the spare buffer is the sort by one digit less, which is what
  `CopyBack` hands to the caller.

### The hash map

`FlatMap_proof` assumes `FlatMapAssumption`: hashes are natural numbers, and `Free` is not a
pair. Tables may have any size, as `MaxBuckets` may be any number, and any function may be
the hash. The argument:

* For a key, the slots of a table have an order, that of its probe: `Rank` is the number of
  slots looked at before (`ProbeOnce`, `ProbeEverywhere`: n steps visit n slots, each once).
  `IndexOn` is the slot of least rank that is free or holds the key (`StopsFirst`).
* `TableInv` is inductive: at most `(count + 1) / 2` slots are counted in `size`, and at most
  `size` are taken, so a table of two slots or more has a free one, where every probe ends
  (`HalfFree`); `rehash(1)` fits the inequality too, which is why `ProbesEnd` excepts a
  single slot. The probe of a stored pair passes taken slots only, but for those in `cut`
  (`Chained`). As long as no erase was harmful, it passes no cut slot either, each key is
  `Once` in the table, and `size` is the number of keys.
* A rehash is a recursive function over the slots of the old table. `MovesUpto` says what it
  has made of the first m of them; that it is defined (`MovesExist`) and moves every key
  (`TableMoved`) is by induction over m, which `NatClosed` obtains from the well-foundedness
  of the natural numbers. It mends cut probes and merges duplicates: nothing is cut in the
  new table, and each key is in it once.
* An erase is harmless if no other key's probe has passed the slot: then all of this stays
  (`EraseKeeps`), and otherwise it harms the map until it is emptied.
* While the map is unharmed a stored key is found (`StoredIsFound`), so what `find` sees
  is the set of stored pairs. `PutContents`, `WithoutContents` and `SameContents` say what
  the changes of one slot and a rehash do to it, and each operation becomes one of
  `FiniteMap`'s (`StepRefines`).

`ProbeChainHolds`, `ProbesEndHolds`, `CountedHolds` and `RefinesFiniteMapHolds` follow.

### The pools

Assumptions on the constants, which TLC evaluates on every run: `PoolAssumption` (there is
a worker; bodies are sequences over the functions) and `ForestAssumption` (every
function comes from one place of one body or client, for a closure is made where it is
passed; in `TaskPool` also that a wait follows every `run`, for `~task_group` waits).
Nothing limits how many workers, clients or functions there are, nor how deep calls nest;
nothing is assumed about fairness or about which victim is picked.

`ProofLibrary`: if no function is in two places of a family of queues, that stays so when
one that is in none is pushed (`PushOnTop`) or a top is taken (`TakeTop`), and what the
queues hold together changes by just this function.

`TaskPool_proof`. `PoolInv` has these layers, and none is inductive alone:

* `Shape`: what lies on top of what. A wait lies on the function that is at that wait;
  only the innermost frame is anywhere but in its body.
* `OnceInDeques`, `OnceOnStacks`, `Lifecycle`: a function is in one place. A push could
  break this if its step were made twice; so `Lifecycle` says in addition that whatever is
  out or done has its step behind it (`Past`), and a frame's position only grows.
* `GroupsHeld`: a submitted function that is queued or running has its group, that is, its
  parent's frame still has a wait ahead. A wait ends at a counter of zero, so this needs
* `CountsExact`: a counter is the number of the group's functors counted and not dropped
  (`Members`), with the one that is counted but not pushed yet (`Announced`, between
  `RunCount` and `RunPush`), the one that has been run but not released, and the one that a
  client in a throwing `run` holds (`Carried`). So the counter is zero again when that
  client's group is unwound. It holds also
  for groups that are gone: their counters are zero, since nobody is left to decrement.

`TypesHold`, `RunOnceHolds`, `GroupOutlivesHolds` and `PendingCountsHold` follow; so does
`NoneLostHolds`, the converse of `Lifecycle`: a function whose step has been made is queued, on
a stack, held by a client in `run` (`Handed`), or has been run. The proof shows for each kind of change of the stacks (a frame advances, is called, returns, is
taken with its function) what becomes of the set of active frames, then treats each
action with these.

`ParallelReduce_proof` adds `OwnersBelow`: the range whose body object a call refers to is
that of a call at or below it on the same stack, and was run (`Submitted`). A called half
inherits its caller's object, one frame up; a stolen half starts with its own. As a
range has one frame (`OnceOnStacks`), two threads with the same object would have that
frame on two stacks. The right half's object, which the join reads, is nobody's any
more: after the wait its group is over, so by `GroupsHeld` the right half is neither
queued nor running (`RightHalfWaited`). This is `BodyPrivateHolds`; `BodyAliveHolds`
follows from the same place of the owner, whose parent is held by its group.

`ResultInOrderHolds` is about what the objects hold. The stacks and the objects are seen
through `CountMove`, `CallMove`, ..., which say what each action of the pool does to the set of
active frames (`CountEffect`, `CallEffect`, ...). `ResultInv` adds to the invariants above:

* `UnderWay`: the object that a call refers to is new until its left half has been called,
  and holds the left half's blocks once that has returned. `Unbegun`, `Finished`: the object of
  a run range is new before the range is begun, and holds all of it, in order, afterwards.
* `OneHolder`: of all the calls that refer to one object, the innermost alone is not
  inside its left half. So when a call changes the object, nothing is claimed of it for the
  others: what they wait for is that very change. `CallersObject` says where the
  references come from.

At the end of a call both halves are past (`Lifecycle`), neither is queued or running
(`TopNotInLeft`; `RightHalfDone`, for the right one's group is over), so by `NoneLost` both have
been run, and the two sequences of blocks make up the range (`CoversJoined`). How deep the
ranges nest does not enter.

`ThreadPool_proof`. What is kept of the frames are their `Cores` (all but the thread's
position among its victims), and from them `Bodies`, `Ending`, `Waiting`, `Unpushed` and
`Readied`. Every step changes the stacks in one of four ways: the innermost frame turns
into another (`Turned`), leaves (`Left`), calls a join or an arena (`Called`), or a
taken function lands on it (`Landed`); these lemmas say what becomes of the five sets. A
reshuffle of the thread's `workers` vector under outer loops changes no core.
`PoolInv` joins to `Shape` and the uniqueness of places:

* `Lifecycle`, as above: with `Past(t)` from the number of functions the join has pushed.
* `LatchesExact`: the latch of a join or arena that has not returned is the number of
  its functions that have not been run, those still to be pushed included.
  `ReadyMeansDown`: a join that has seen its latch down may rely on it later, for latches
  of calls in progress only go down.
* `Prompt`: a worker that took a task after it was told to stop is at no `try_pop`.
* `Scoped`: what is queued or running is awaited. `Joined`: a function that is done, or
  past its join or arena, has no child left to run.

Stop requests at any time are part of all of this. They break only the last two, because
a join on a stopped worker returns with functions unfinished; these are stated
(and proved) for `stopped = 0`. So `TypesHold`, `RunOnceHolds`, `LatchCountsHold`,
`BoundedShutdownHolds` and `EarlyReturnHolds` hold with stops, `ScopeHeldUnlessStopped` and
`BackMeansDoneUnlessStopped` until the first worker is told to stop: the run `thread_pool`
checks their consequents where nobody calls `request_stop`. `BackMeansDone` is about all
descendants of a root, the invariant about children: the functions done are a set closed
under `Children` (`Joined`), so the least closed set lies in it.

### Only model-checked

* Liveness (`LockFree`, `SpinEnds`, `ClientsReturn`, `StopSettles`): the prover has no
  rules for ENABLED and fairness.
* What the `violation` runs refute: their properties are false of the code.

Every invariant of a passing run is a theorem. Where the library's induction theorems take an
operator for an argument and cannot be instantiated with the installed back ends, the
proofs use `NatClosed` (a set of numbers closed under successor) and `RecursionExists` of
`ProofLibrary`, which are about sets and functions; so the recursive definitions of the
modules with theorems are recursive functions, and none of them uses a fold.

## 5. Not modelled

`PROJECT.json` lists every component with its reason.

* `MutexGuard` forwards to `std::unique_lock`: a model of it would be one of the
  standard library. `RWMutexGuard::read` does not compile.
* `move_only_function` is type erasure without control of its own. Built from a
  temporary it keeps a reference to it (line 35), which is gone when the task runs;
  `ThreadPool` takes closures to be stored by value, as they are meant to be.
* `ScopeProfiler`, formatting, type traits, hash mixing and polynomial approximations
  have no state or control to check; `neighlut` is commented out of the build.
* `constl/flat_map.h` does not compile once `find`, `insert` or an iterator is
  instantiated. Of `v1_flat_map.h` the iterators (they stop at free slots, and wrap before
  `end()`), the constructor from a range (it leaves every member uninitialised) and
  `insert_or_assign` (it assigns to a pair with a const key) are left out; so is
  `OrderedMap::insert_or_assign`, for the same reason.
* Inputs of `radix_sort` larger than a grain: the split constructor of line 22 leaves `d`
  unset, and the ranges emitted in parallel race on `indices` (line 55). Both are
  undefined, so there is nothing to state.
* The constructors and destructors of the pools, and thread affinity. `~task_pool` never
  returns; `~ThreadPool` destroys queues other workers still read (see the hazards).
* `parallel_for` and `parallel_invoke` have no module of their own: the forks they make
  are those of `ParallelReduce` and `MCTaskPool`.
* A grain of zero, with which the recursion of the algorithms has no end:
  `GrainAssumption` states the precondition the code leaves unsaid.
