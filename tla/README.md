# A verification development for hylic

hylic computes recursive folds over trees: a *fold* (init, accumulate, finalize), a *graph* (visit the children of
a node) and an *executor* that runs one over the other. The Fused executor is a plain recursion. The Funnel executor
runs the same fold on a scoped pool of threads, in continuation-passing style, with lock-free queues and
accumulators; it is where the state, the concurrency and the unsafe code are, and what most of this project is about.
Around the executors is an algebra of folds, graphs and lifts, written out once per storage *domain* (Arc, Rc, Box),
with ready-made folds, memoization and traces on top; the rest of the project is about that.

Paths below are relative to the repository; `funnel/` stands for `src/exec/variant/funnel/`.

## Inventory

| component | source | state | operations |
|---|---|---|---|
| Pool | `funnel/pool.rs` | `PoolState`: shutdown, job_ptr, in_job, dispatch_lock, event count | `Pool::with`, `dispatch` (publish, body, seal, latch), `pool_thread` |
| EventCount | `funnel/infra/eventcount.rs` | one 32-bit epoch, used as a futex | prepare, wait, notify_one, notify_all |
| Dispatch | `funnel/dispatch/*.rs` | `FoldView` (fold_done, idle_count), `FoldState`, `WorkerCtx` | `run_fold`, `worker_entry`, `worker_loop`, `push_task`, `notify_idle` |
| CPS walk | `funnel/cps/walk.rs`, `cont.rs` | continuations Root, Direct, Slot; `RootCell`; a node's parent continuation | `walk_cps`, `fire_cont`, `execute_task`, `take_parent_cont` |
| FoldChain | `funnel/cps/chain.rs` | slots and overflow buffers, packed ticket word, sweep cursor with gate bit, done, heap | append_slot, deliver_and_sweep, set_total_and_sweep, deliver_and_finalize, set_total_and_finalize |
| Accumulate policies | `funnel/policy/accumulate/` | none | OnArrival, OnFinalize select the operations of the chain |
| WorkerDeque | `funnel/infra/deque.rs` | bottom, top, ring of slots | push, pop (owner), steal (anybody) |
| PerWorker | `funnel/policy/queue/per_worker.rs` | a deque per thread, 64-bit mask `work_available` | push, try_acquire |
| Shared, StealQueue | `funnel/policy/queue/shared.rs`, `funnel/infra/steal_queue/` | tail and head positions, segments of slots with a state each | push, steal, try_reclaim |
| Arenas | `funnel/infra/{segmented_slab,arena,cont_arena}.rs` | segments allocated on demand, a counter | alloc, get, take |
| Wake policies | `funnel/policy/wake/` | per-thread unit, flag or counter | should_notify, reset |
| Presets, Session | `funnel/mod.rs`, `funnel/policy/mod.rs` | none | select policies, run |
| Exec | `src/exec/mod.rs` | none | delegate to an executor |
| Fused | `src/exec/variant/fused/mod.rs` | none | recursion |
| graph | `src/graph` | none (closures) | Visit: map, filter, fold, ...; Edgy: map, contramap, filter, product, sugars |
| domain | `src/domain/{shared,local,owned}` | none (closures in Arc, Rc or Box) | fold combinators, graph combinators, lifts, in each domain |
| ops | `src/ops` | none | Lift: identity, composition, ShapeLift, SeedLift; `run_on`; SeedNode, explanations of seeds |
| memoize | `src/prelude/memoize.rs`, `memoize_by_lift` in `src/domain/*/shape_lifts` | a cache under a lock | visit |
| rest of prelude | `src/prelude` | none | explainer, tree formats, traced and fallible graphs, count, depth, vec folds |

How they interact: a caller's `run_fold` builds the queue store, the arenas, the `RootCell` and the `FoldView` on its
stack, wraps pointers to them in a `Job` and calls `dispatch`. Workers pick the job up from `job_ptr`, enter
`worker_loop`, take tasks from the queue and run `walk_cps`, which pushes a task for every child but the first and
goes on into the first. A finished node delivers into the `FoldChain` of its parent (`fire_cont`), whoever is told
that the chain is complete goes on with the grandparent, and the one that reaches `Cont::Root` fills the `RootCell`,
sets `fold_done` and notifies. The caller sees the cell, seals `job_ptr`, waits until `in_job` is zero, and drops
everything. All waiting, of idle pool threads and of workers out of tasks, is on the one epoch of the pool.

What is hard here: a stack frame shared with threads that may enter late; sleeping threads of two loops on one futex;
tickets taken before the number of children is known; a gate that a finalizer may find closed; a last element that two
threads want; a mask that lags behind the deques it describes; slots claimed by a counter and written, or given up, later;
Relaxed and Release/Acquire orderings throughout; closures that panic; bounded spin loops; a cache that is looked up and
filled in two critical sections; combinators that exist five times over. The list of hazards, at their lines, with the properties that answer each, is in `PROJECT.json`.

What makes the components correct:

* Pool: no worker touches a frame that is gone; folds are serialized; every call returns; all threads are joined.
* EventCount: nobody sleeps through an event that was meant for it.
* FoldChain: exactly one finalizer per node; every child accumulated once, in visit order; one thread in the heap.
* Queues: every task is taken exactly once; none is left where nobody will look for it.
* Arenas: an index in a task always names a written value; at drop exactly the live values are dropped.
* Wake policies: a notification that is not sent delays nobody for ever.
* Walk: the fold's result is the sequential one; each continuation is consumed once.
* Algebra: a composed lift means what its parts say, in any company; the copies of a combinator agree.
* memoize: not observable in results, with any number of runs, and no run waits for ever.

## Modules

| module | models | notes |
|---|---|---|
| `Pool` | pool, event count, dispatch, worker loop, life of a fold | one step per shared access |
| `MCPool` | | symmetry for the runs of `Pool` |
| `PoolProofs` | | theorems about `Pool`: frames, lock and latch; sleeping and waking |
| `FoldPromise` | what the accumulator of a node promises | abstract |
| `FoldChain` | FoldChain with both accumulate policies | implements `FoldPromise` |
| `MCFoldChain` | | the settings `FoldChain` is checked in |
| `FoldChainProofs` | | theorems about `FoldChain`, the refinement among them |
| `TaskDeque` | what a deque promises | abstract |
| `WorkerDeque` | the Chase-Lev deque | implements `TaskDeque` |
| `WorkerDequeProofs` | | theorems about `WorkerDeque`, the refinement among them |
| `PerWorker` | the PerWorker queue policy, the wake policies and the worker loop around them | on deques as `TaskDeque` has them |
| `PerWorkerProofs` | | theorems about `PerWorker` |
| `TaskPool` | what a shared queue promises | abstract |
| `SegmentTable` | a table of lazily installed segments | used twice by `SharedQueue` |
| `SharedQueue` | StealQueue with the Shared policy; SegmentedSlab, Arena and ContArena | implements `TaskPool` |
| `SegmentTableProofs` | | a segment table as one long array |
| `SharedQueueProofs` | | theorems about `SharedQueue`, the refinement among them |
| `TreeFold` | what an executor promises: the answer of the Fused recursion, once | abstract |
| `FunnelWalk` | the CPS walk of a whole tree over queues and accumulators | implements `TreeFold` |
| `MCFunnelWalk` | | the trees of the run of `FunnelWalk` |
| `FunnelWalkProofs` | | theorems about `FunnelWalk`, the refinement among them |
| `Edgy` | Visit and Edgy/Treeish | operators |
| `SharedDomain` | folds, combinators and shape lifts of the Shared domain | operators |
| `LocalDomain`, `OwnedDomain` | the same as the other two domains have them | operators |
| `Explainer` | seed rows, SeedLift, the explainer lifts and their projections | operators |
| `PreludeFolds` | ready-made folds, texts of trees, traced and fallible graphs | operators |
| `Lifts` | lifts as terms, composition, `run_on`, the Fused recursion | operators |
| `Memoized` | a graph behind a cache, run by the Fused executor from several threads | state machine |
| `MemoizedProofs` | | theorems about `Memoized` |
| `Lifted` | composing lifts, and memoizing and running the graph they give | state machine, extends `Memoized` |

How they fit: `Pool` keeps the frame of a fold alive and its threads awake, and knows a fold only as a number of subtrees;
`FunnelWalk` is what happens inside one such frame, with a queue and an accumulator that behave as promised;
`WorkerDeque`, `SharedQueue` and `FoldChain` are shown to keep promises of that kind, step by step of their atomics. The composition is by contract: `FunnelWalk`
states the accumulator's promise in `Finalizes` and `Leaves`, and its queue is weaker than `TaskDeque` (any task, not the oldest or newest);
`PerWorker` uses deques that `TaskDeque` describes and adds what lies between them: the mask, the wake policies, the sleep.
`TreeFold` ties the executors together: the funnel's walk implements it, it is the recursion that `Lifts` runs, and what `Memoized` compares
its runs with.

### Pool

`poolVars` are the fields of `PoolState`, `frameVars` what a fold keeps on its caller's stack, by fold; `pc` says where
each thread is, and its values are grouped by the function they belong to (`OuterPcs`: `pool_thread`, `LoopPcs`:
`worker_loop`, `WalkPcs`: a task, `BodyPcs` and `LockedPcs`: `dispatch`). A `Job` is a number, given in the order of
creation; `live` is the set of jobs whose frame still exists, so a worker that keeps a job number after `live` lost it
is a dangling pointer. The tree is abstracted to counters: a walk may push more subtrees (`PushTask`), a task is taken
once (`TryAcquire`), and the delivery of the last unfinished subtree goes on to `Cont::Root`. This
keeps every synchronization of the fold with the pool and leaves the values to the modules of the chain and the deque.
The wake policy's answer is a free choice in `PushTask`: whatever holds of `Pool` holds of EveryPush, OncePerBatch and
EveryK. `try_acquire` sees the tasks that are there; what the mask of PerWorker may hide is the subject of `PerWorker`.
Execution of a task inline, when a queue is full, is a longer walk to the pool.

Constants switch the environment: `StoreBuffer` lets the store of `job_ptr` be overtaken by later loads of the same thread,
as Release and Acquire permit (a read-modify-write or the mutex release drains it); `ClosuresMayPanic` lets a walk
unwind, in a caller (guard dropped, mutex poisoned, frame gone, no seal) or in a worker (in_job stays);
`SpinLimitsExpire` lets the caller's poll and the latch reach their limits. Steps of a worker whose frame is
gone are undefined behaviour and are left out: `NoDangling` is violated one step before.

### FoldChain

One process per child (the thread that runs its task) and the walker. `events` and `total` are the two halves of the packed
`state` word, `cursor` and `sweeping` those of `sweep`. The variable `setting`, chosen from the constant `Settings` and never
changed, says how the chain is used, so that one run covers several uses. With `WeakMemory` a Relaxed or unordered Acquire load
may return any older value that coherence and the hand-over of the task still permit: `seen` is the least value of `appended`
the process can read, `told` says whether its ticket told it the total. `InlineFirst` is the order of `walk_cps`: children
from the second on are offered as they are appended, child 0 only after `set_total`; without it the events come in any order
after the slots are appended, as the unit tests of the chain do. The spin limits of the finalizer loops are left out:
the loops are checked to end under fair scheduling.

### WorkerDeque

The owner's stores to `bottom` go through a FIFO store buffer that the SeqCst fence and the compare_exchange drain (TSO);
the slot is written in two steps, so a thief's speculative read may see a torn value, which it must throw away.
Loads by thieves are in program order, as the SeqCst fence between them has it. Positions are unbounded integers:
an `isize` of positions cannot wrap in the life of a fold. `NothingLost` says of the deque's content that it is what was pushed
and not taken, and that a pop which returns nothing has found it empty.

### PerWorker

`deque` is the policy's array of deques, `work_available` its mask, by bit: thread i has bit `i % width`, because
`1u64 << i` wraps around in a release build, so with more than `width` threads two share a bit and a thief that looks for the
bit of one finds the deque of the other. `bits[i]` is the copy of the mask that `try_acquire` works off. A walk of the tree is a number of
batches of pushes, one for each node visited; the flag `second` tells the look after `prepare` from the first. The three wake
policies are one state number per thread, `reset` at the start of every visit, also of a child that a full deque gave back in the middle of its parent's batch.
`unfinished` counts tasks and the root's walk; the thread that brings it to zero sets `done` and wakes everybody.

### SharedQueue

One store of positions and one slab. A push claims a position by `fetch_add` on `bottom`, finds or installs its segment, writes the
task and makes the slot AVAILABLE. A thief retries at `top` while the slot there is EMPTY, passes it if it was RECLAIMED, and otherwise claims
the position by moving `top` and then the slot by marking it STOLEN. A publisher may take its last task back (`try_reclaim`) until
the slot is STOLEN, also when a thief has claimed the position already. `Tasks` carry the index of a slab value: a ChainNode, which many tasks share, or a continuation,
which one thread moves out. `SegmentTable` is the storage of both: a thread that misses a segment allocates one, one of them
installs it, and the loser goes on with the winner's, so the loser's own is never in the state. A position beyond the last segment
makes `push` and `alloc` panic after they have counted themselves; a thief that comes to such a position panics as well.
`DropStores` is the end of the fold: the Arena drops the value of every index below `next`, in order, and panics in the middle of a panic
when it comes to one beyond the last segment; the ContArena drops none. `DropIsClean` and `EveryTaskIsTaken` hold with these panics. A queue that has run
out leaves the tasks below its end to the threads that have not panicked, and the slab in order; an alloc that found no segment makes the drop of the Arena abort,
which `DropIsClean` allows in this case only. What waits when every thread has panicked is not taken.

### FunnelWalk

`stack[t]` holds a thread's activations: a `Visiting` one is inside `graph.visit` in `walk_cps`, a `Firing` one carries a
result through `fire_cont`, `Delivering` and `SettingTotal` are inside a call of a chain. There is more than one only when a push
found the queue full and the child is walked inside the visit of its parent. `slots`, `closed` and `finalized` are a
node's chain, `parent` its `parent_cont`, `arena` the cells of `cont_arena` (by the node whose continuation is in them). The closures of the fold are
uninterpreted: a heap is the sequence of accumulated results and `finalize` pairs it with the node, so two answers are equal only if
every node was folded from the same results in the same order. A queue is a bounded set and any task in it may be acquired next, which covers the LIFO pop,
the FIFO steal and the Shared queue up to its capacity. Of the calls that overlap when the last child arrives any may be the one that
gets the folded heap (under OnArrival the sweeper need not be the last to deliver), and the others return None. Notification is left out:
a thread that sleeps is one that does not acquire, and the fairness requires only the caller to.

A mutant showed that a chain could finalize before `set_total` without harm in this walk: child 0 is not started until
then, so slot 0 is empty. The total matters only to users of `FoldChain` that deliver in another order, as its unit tests do.

### Graphs, folds, lifts, prelude

These modules are operators. A Visit is the sequence of what it emits; an Edgy is the function from nodes to such sequences; a fold
is a record of three functions; a closure that updates a heap in place is a function from the old heap to the new one. A type
parameter of the code ranges over all types, so a closure is a function on `Any` (the set of all values in the module TLC).
Each domain is translated from its own source: where the code has a combinator once per domain, or both as a lift
and as a method of Fold or Edgy, the project has as many operators, and `RoutesAgree` compares them. A lift in `Lifts` is a term (atoms and
compositions); `Apply` interprets it in a domain, as `ComposedLift::apply` does by calling its parts in order. The seed lift turns nodes into rows
(an entry row, or a node), and the lifts composed after it work on rows, which an atom's `rows` records.
Texts of trees are sequences of tokens: line ends, indentation and labels.

### Memoized

A run is the Fused executor's recursion with its call stack made explicit: `frames[t]` has one frame for each call of `recurse` that has not
returned, with the node, the children once `visit` has them, the child whose result is awaited and the heap. `memo` says what wraps the graph: nothing,
`memoize_by_lift` of the Shared or the Local domain ("lift", "local"), or `memoize_treeish_by` ("by"). A step is a critical
section of the cache, a call of the graph's closure, or a recursive call or return. `memoize_by_lift` holds its lock
while it computes a miss (`Miss`, `Compute`, `Insert` with `lock` taken); `memoize_treeish_by` looks up, computes, and
inserts, in two critical sections. The graph's closure may panic in between: a `Mutex` held then is poisoned, and the runs that meet it panic as well.
The closures of the fold are uninterpreted as in `TreeFold`, whose recursion on the same graph is `Plain`. Of the graph the module asks what
a recursion needs, that every way down ends (`Ends`); a node may be reached in many ways, which is what memoization is
for. Of the user's key function it asks that nodes of one key have the same children (`SameChildren`); without that a cached entry is wrong
by the user's own doing. The history variable `asked` counts, by run and key, how often the graph was called for the children of a key.

### Lifted

`Lifted` puts the operators to use. `Compose` adds one lift at a time, up to `MaxAtoms` and a seed lift; the graph of each of these is
then memoised and run, for the lifts that change the graph: `LiftedGraph` applies the lift to the base pair, as `apply_bare` does, and
numbers its nodes or rows, and every step from there on is one of `Memoized`. The keys are the nodes themselves (`memoize_treeish`), or a function
that has one key for two nodes with the same children. What lifts do to folds is compared by `LiftLaws` and `RoutesAgree`, while the lift is being composed.

### Mutants

Each property is tried against a plausible bug: an operator marked "mutant" in the module, defined just before the
definition it replaces, that no next-state relation uses (`SealForgotten`, `IdleDecForgotten`, `DoneIgnored`,
`NoFence`, `InstallBlindly`, `QuietEnd`, ...). `PROJECT.json` pairs each with the run that must find it.

## Runs

| run | instance | shows |
|---|---|---|
| `pool_safety` | 1 caller, 2 workers, 2 folds, 1 task | frame, lock and idle count invariants, nobody sleeps through an end; 474 k states |
| `pool_returns` | 2 callers, 1 worker, 2 folds, fair | lock serializes; every run() returns; the pool is joined; 86 k states |
| `pool_faults` | 2 callers, 1 worker, panics, limits, store buffer | in_job exact; a worker enlists in every fold; a poisoned pool is silent; 65 k states |
| `chain` | 3 children, initial capacity 2; in the order of `walk_cps` OnArrival with stale loads and OnFinalize without, both policies in any order | refinement of `FoldPromise` with its liveness, one finalizer, heap exclusive, every call returns; 213 k states |
| `deque` | owner, 2 thieves, capacity 2, 3 tasks | refinement of `TaskDeque`, nothing lost; 183 k states |
| `per_worker` | caller and 2 workers, deques of 1, 3 tasks, masks of 2 and 64 bits, all wake policies | each task runs once, hidden tasks have owners awake, the fold ends; 742 k states |
| `shared` | 2 threads, segments of 1 slot, 2 segments, 3 pushes and 3 allocs, both arenas | refinement of `TaskPool`, nothing stranded, indices find values, drop is clean; 80 k states |
| `walk` | 9 nodes in four shapes, caller and 2 workers, queues of 2 | refinement of `TreeFold` (answer and liveness), continuations linear, nothing left behind; 40 k states |
| `lifted` | compositions of 2 lifts with and without a seed lift, 2 threads, 1 panic | laws of lifts, copies of combinators agree, prelude agrees, caches honest, runs finish; 187 k states |
| `pool_store_buffer` | 1 caller, 1 worker | violated: see Findings |
| `pool_panic_join` | 1 caller, 1 worker | violated |
| `chain_stale` | 3 children, OnFinalize | violated |

Properties with several parts. `NoSleepThroughEnd` has the end of a fold and the shutdown; `LinearConts` says of a continuation that it is in one place, and of a
node that it is visited once; `NothingLost` of the deque is described above; `KeepsFairPromise` is `FoldPromise` with its liveness where loads
are not stale for ever. `ProtocolInv` of `Pool` is the inductive part of the proofs below. `HandedOutOnce` is the refinement of `TaskPool`, `Linearizable` that of
`TaskDeque`, `ComputesFold` that of `TreeFold`.

Bounds. Two folds are enough for a worker to come late from the first into the second, and for a job pointer, a token or
an idle count to be left over; two callers for the lock to be contended and for the poisoned mutex to have another user; two
workers for one to sleep while the other finishes, and for idle_count to exceed one. One pushed task gives a wake by `notify_one`
that may go to either loop. `pool_faults` has one worker, to stay small: with two it has 5.3 million states and passes as well. Three children over an initial capacity of two exercise the overflow buffer and let a
sweeper be overtaken by one delivery and blocked by another. Three tasks in a ring of two wrap a position onto a slot
that a thief may still be reading; two thieves compete with each other and with the owner. The trees of
`walk` have a root wide enough to overflow a queue of two, an overflowing child that branches itself, only children above and
below branches, branches under both children, and a single node; three threads let a node's children finish in every order on
different threads. In `per_worker` a deque of one overflows, so a child is walked within its parent's batch, and a mask of two bits under
three threads aliases two of them as 65 threads would in the code. In `shared` segments of one slot make every position a
race for a segment, and a third push or alloc meets the end of the table; with two threads every access of a push meets every access
of a steal, a reclaim and another push. `lifted` uses a graph with two ways to one node, so that a cache is hit within a run as well as between two, and key functions that
give two nodes one entry;
two lifts show every pair of neighbours in either order. `EpochModulus` is 2^32 in the code and 64 in
the runs, which none of them reaches: after a wrap `token.epoch() > last_epoch` fails and workers stay parked. No run and no theorem covers that
(`EveryWorkerEnlisted` fails with a modulus of 4); it is listed as a hazard without a property.

Deadlock is checked, except where the modelled system really stops: in the runs with panics and expiring limits, which
leave threads waiting for ever, and in `shared`, `per_worker` and `lifted`, whose folds and runs come to an end without a loop
to say so (`FoldEnds`, `EveryTaskIsTaken` and `RunsFinish` say that it is not an early end).
`Terminated` is the end of a pool, of a chain's calls and of a fold; a deque is polled for ever.

Fairness: weak fairness of every thread's steps (the operating system schedules every runnable thread). A futex wake, a spurious wake, a panic and the flush of a store buffer
are the environment's and not fair; the wake that `notify_all` performs is a step of its thread and wakes all sleepers. The
lock needs no strong fairness in the runs because each caller starts finitely many folds. In `walk` the caller's acquire is fair and a worker's is not, since a push may miss a worker about to sleep;
each thread finishes the task it has. In `shared` a thief's attempts are fair, and strongly so at the compare_exchange that may fail spuriously
(`compare_exchange_weak` in a loop). In `lifted` each thread that has started a run goes on. (A `std::sync::Mutex` guarantees nothing to a caller that competes with an endless stream of others.)

## Proofs

Seven components have theorems, for every value of the constants.

### Pool

`PoolProofs` proves, for any finite sets of workers and callers, any number of folds and tasks and
any epoch modulus, every safety property the runs check. The first group holds under every setting of the switches, with
delayed stores, panics and expiring limits:

* `TypeCorrect`: `TypeOK`, with the ranges of the counters, which are unsigned in the code: `in_job` and `idle_count` never exceed the number of
  workers, `unfinished` never the subtrees pushed and the root, and none is below zero. The first two ranges are those of exact counts; for
  `unfinished` the threads that hold a subtree are counted (`BooksInv`): it is at least what is queued and what is being walked.
* `InJobIsExact`: `in_job` counts exactly the workers in the job region (or dead in it). The proof follows the cardinality
  of the set across `Enter`, `Leave` and the wakes.
* `IdleCountIsExact`: `idle_count` of a live fold counts exactly the workers between its increment and its decrement. Besides the
  cardinalities it needs that a job number is new when a frame is made, so no sleeper is left over from an earlier fold (`CreationInvariant`).
* `PoisonedIsSilent`: `PoisonedPoolIsSilent`, no caller gets to `publish` once the mutex is poisoned. The lock holder is the one that poisons,
  and nobody acquires after it.
* `NobodySleepsThroughEnd`: `NoSleepThroughEnd`, assuming `[]EpochFits`.
* `AllWorkersEnlist`: `EveryWorkerEnlisted`, assuming `[]EpochFits`.

The second group assumes `SequentiallyConsistent` (`StoreBuffer = FALSE`), but allows panics and expiring limits:

* `PoolInvariant` and `ProtocolHolds`: `ProtocolInv`.
* `DanglingNeedsUnwind`: `NoDangling` unless the mutex is poisoned. A caller that unwinds drops its frame without the seal, so this is all that is
  true with panics; `NothingDangles` has `NoDangling` itself, assuming also `NoPanics`. `pool_store_buffer` shows that the first assumption is needed.

The argument for the frames: `NoDangling` alone is not inductive. What makes it so is the chain lock, frame, pointer, worker. The lock
holder is the one caller inside `dispatch` (`LockInv`); a non-null `job_ptr` is the job of that caller, who has not
sealed yet (`PublishInv`); callers' jobs are live and distinct (`FrameInv`); so a worker that loads `job_ptr`
serves the lock holder (`ServesLockHolder`). The holder cannot pass the latch while a worker is in the job region, because `in_job`
counts it (`InJobExact`), and no worker can enter a call after the seal because the pointer is null; hence the frame
is dropped only when no worker has it. With panics every link but `FrameInv` holds until the mutex is poisoned, and from then on `PoisonInv` says that nobody
is inside `dispatch`. `PoolInv` is the conjunction of these with `InJobExact` and the types (`pool_safety` checks `TypeOK` and `ProtocolInv`), and the
proof goes action by action through shape lemmas (what a step of one thread leaves to the others).

The argument for the sleepers is that of an eventcount: a thread reads the epoch, looks, and sleeps only if the epoch has not moved.
`EpochInv`: no token is ahead of the epoch. `DoneInv`: a worker that holds a token of the current epoch and has
looked at `fold_done` before it was set is followed by a thread that is about to bump the epoch; `StopInv` is the same of
the shutdown, for the tokens of the outer loop. A bump makes every such token old, and the wake that
comes after it reaches whoever was asleep by then. For the start of a fold, the store of `job_ptr` may be delayed, but not beyond the notification: its
`fetch_add` is a Release (`Bump` drains the buffer), so whoever reads the new epoch finds the job. (A mutant without the drain is found by `pool_faults`.) `BufferInv` says what may be
in a store buffer and when, `JobInv` that the job in memory is the published one unless its store is still there. `NewsInv`: while a fold is announced and not
done, the epoch is news to every worker outside it, or on its way out of another; `WaitInv`: a worker at its outer wait has seen no news. So it cannot stay there. The delayed
seal of the fold before does no harm: it leaves its buffer at the latest when the mutex is released, before the next caller publishes. `Bump` is the one shape
of all notifications, so each part is shown once for it. `EpochFits` (`epoch + 1 < EpochModulus`) is the hypothesis that the epoch does not wrap: with a wrap an old
token can look fresh, in the code after 2^32 notifications. A hypothesis on behaviours is weaker than a bound on the number of steps, and the runs satisfy
it: TLC finds `EpochFits` true in all 5.3 million states of two callers and two workers with all switches on and a modulus of 64.

### FoldChain

`FoldChainProofs` proves, for any number of children, any initial capacity and any set of settings:

* `TypeCorrect`, `OneThreadInHeap` (`HeapExclusive`), `NoSlotAhead` (`NoSlotBeyondBuffers`) and `ChildZeroKeepsItOpen`
  (`SetTotalNeverLast`), with stale loads under either policy;
* `OneFinalizer` (`ExactlyOneFinalizer`) and `Implements` (`Spec => Promise!Spec`), assuming `StrongOrOnArrival`: no
  setting combines OnFinalize with stale loads. `chain_stale` shows what happens without the assumption.

The invariant has a part for each device of the code. `WalkerInv`: buffers are ahead of slots. `OfferInv`: child 0 waits for the walker.
`TicketInv`: `events` is the number of children that took a ticket, so one event is the last under either policy.
`GateInv`: the gate bit stands for one thread. `HeapInv`: the heap holds the children up to the cursor, or up to the position of the thread in it.
`DoneInv`: whoever has the result, or is about to, is the only one: under OnArrival because `done` is set under the
gate and looked at under it, under OnFinalize because it holds the last ticket. `NoSlotAhead` follows by way of child 0: a
sweep past slot 0 has accumulated it, and no task of child 0 runs before the last slot has its buffer. A step of a sweep
changes the program counter and the locals of one thread, and `SweepStep` reduces the invariant to that thread;
`ComingStep` does the same for the walker and the children up to their tickets. `Kinds` sorts the steps for the refinement.

### SharedQueue

`SegmentTableProofs` shows that a segment table is an array: installing a segment changes nothing that can be read, a write
changes one position. On this view `SharedQueueProofs` proves, for any number of threads, size of a segment and number of segments:

* `TypeCorrect`: `TypeOK`.
* `NothingIsStranded`: `NothingStranded`, no available task behind `top` except one a thief is about to settle.
* `EachTaskOnce`: `HandedOutOnce`, the refinement of `TaskPool`.
* `EveryTaskFindsItsNode`: `TaskFindsItsNode`, for the Arena and the ContArena.
* `DropsAreClean`: `DropIsClean`, for both.

The first invariant relates each thread to the slot it works on. `Pushing` and `PushInv`: a publisher between `fetch_add` and its
store has a position of its own whose slot is EMPTY. `Stealing` and `StealInv`: a thief that has claimed a position is the only one there,
and the slot is AVAILABLE, or RECLAIMED by its publisher. `SlotInv` and `NodeInv`: a slot that is not EMPTY holds the task of its
position, whose index was allocated. `NoneBehind` is `NothingStranded` with the thief named. `Quiet` steps, those that do not touch a
slot, are dealt with by one frame lemma.

The second, `SlabInv`, is about what the tasks point to, and follows an index of the slab from hand to hand. `Holds` says where an index is: in the hand of its
publisher, in a slot that is AVAILABLE or about to be read by its thief, or in a task that runs. `LiveInv`: what is held has its value, but for
an index that is just being allocated. `UniqueInv` and `HeldInv`, of the ContArena: a continuation is in one place, and in some place until it is moved
out, so that the thread that moves it disturbs nobody and none is left when nobody holds any. `WrittenInv`: every index that was counted was written, or
a thread owes it (`Owes`): it is about to write it, or has panicked because there is no segment for it. A step moves no index (`QuietSlab`), moves one (`MoveSlab`) or uses one (`UseSlab`); `DropSlab`
reads the end of the fold off the parts.

### WorkerDeque

`WorkerDequeProofs` proves, for any number of thieves and tasks and any capacity from two (the code has powers of two, which it
needs for `& mask` only):

* `TypeCorrect`: `TypeOK`.
* `NoTaskLost`: `NothingLost`.
* `DequeLinearizable`: `Linearizable`, the refinement of `TaskDeque`.

Three facts carry it. `BoundsInv`: no value of `bottom`, in memory or in the owner's store buffer, exceeds the logical bottom, because the
SeqCst fence of `pop` empties the buffer before `pop` reads `top`. `ThiefOK`: a thief whose `t` is still `top` has a first task
in view, and what it read is that task; the slot at `top` is not written while it is, since `push` keeps less than a capacity between
them. `TaskInv`: a task is in one place. Every step is then one of five `Kinds`, of which three are the steps of `TaskDeque`; what a kind does to
the tasks, to the other thieves and to the content is shown once for all steps of the kind.

### PerWorker

`PerWorkerProofs` proves, for any number of workers, any mask widths, any capacity and under each wake policy:

* `TypeCorrect`: `TypeOK`; in particular the bits of the mask are numbers of threads, whatever its width.
* `TasksRunOnce`: `RunOnce`.
* `HiddenTasks`: `HiddenTasksHaveAwakeOwners`.

`PlaceInv` says where a task is: in one place of one deque until it runs. `TaskTaken` shows it of a pop and a steal at once, the
two ends of a deque. `LoopInv` has the last theorem: a thread gets past `try_acquire`'s pop only with its own deque empty, and
nobody else fills it. One case is left, the caller that returns because `done` is set: it does not look at its deque. `CountInv`
closes it by counting: `unfinished` is the number of walks on all stacks plus that of the tasks that wait, so at zero no deque has any
(`NothingLeft`).

### FunnelWalk

`FunnelWalkProofs` proves, for every tree, any number of threads and any capacity of the queues:

* `TypeCorrect`: `TypeOK`.
* `ContinuationsAreLinear`: `LinearConts`.
* `NothingIsLeft`: `NothingLeft`.
* `WalkRefinesFold`: `Spec => Promise!Spec`, the safety half of `ComputesFold`.

A tree is what `TreeAssumption` says of the graph, with its nodes told apart by their place (`TreeOps` gives a node to its
visitor by reference, and a node that is reached twice is walked twice): nobody has two parents or is twice a child
(`OneParent`), and following parents or children comes to an end (`UpEnds`, `DownEnds`; on an infinite path the recursion does not
return either). TLC evaluates it for the trees of the run.

The invariant, `IInv` (`WalkInvariant`), follows two things of each node through the threads. `Seeks` is the duty to walk it: its task, or
the activation that visits it or sets its total. `Has` is its continuation: in its task, in its visit until the second child, in
its chain or its cell of the arena, or in the activation that fires it. `OneSeeks` and `OneHas` say that each is in one place; a step hands
over those of one activation, and the shape lemmas (`BecomeOne`, `BecomeTwo`, `BecomeNone`) say which activations that leaves
alone. `Calm`: a child the walk of its parent has not come to is `Fresh`, neither sought, nor held, nor visited. `NodesOK` ties the rest to
them: a filled slot belongs to a child that is over (`Gone`: visited, and its continuation nowhere), and a chain that knows its total
keeps its parent's continuation until it is finalized, which it is only when all slots are filled.

`NothingIsLeft` goes up the tree: who has a child's continuation will still need its parent's, so the parent's has not been taken
(`ParentHas`), and so on to the root (`UpToRoot`, which needs `UpEnds`); but `RootOK` says that the root's is gone once the cell is
set. For the answer, `FoldEquation` shows that `recurse` is defined at every node, from partial solutions that agree (no
induction theorem is needed, `DownEnds` is an induction principle of its own), and `ValuesOK` that every result in a fire, a slot or
the root cell is the recursion's of its node. `FireRoot` is then the one step of `TreeFold`, and all others leave the answer alone.

### Memoized

`MemoizedProofs` proves, for every graph whose recursion ends, every key function that keeps its promise, any number of runs and of panics, and
each of the memoizations:

* `TypeCorrect`: `TypeOK`.
* `MemoIsHonest`: `MemoHonest`: the results are those of the recursion without a cache, every entry is right for all nodes of its
  key, and children are computed no more often than the documentation has it.

The assumptions are those of `MemoizedAssumption`; `SameChildren` is a guard of `Memoise`. `lifted` checks the two properties with the graphs and keys of `Lifted`,
whose steps are steps of `Memoized` or leave its variables alone.

The invariant, `Inv` (`MemoInvariant`), has four parts. `StackOK`, of each run: every frame but the last waits for the node of the next one
(`Waits`), the heap of a frame has the recursion's results of the children it has passed (`FrameOK`), and the children, once there, are
the graph's. `LockInv`: the lock is held exactly by a run that computes or inserts, where that happens under the lock. `CacheInv`: entries are right;
it makes a hit as good as a call of the graph, and an insertion keeps it for the other nodes of the key by `SameChildren`. `AskInv` is what the counts need:
what a run has asked for is in the cache or about to be inserted by that run, so a run that misses has not asked, and
where the lock is held nobody has. `OwnKeeps` reduces the invariant to the run that steps, `StackGoesOn` and `StackGrows` are all that happens to a stack. As in `FunnelWalkProofs`,
`FoldEquation` shows that the recursion is defined at every node, here by induction over `Ends`, and `FrameValue`
that a frame which has passed all children returns the value of its node.

### Only model-checked

Liveness and fairness are out of the prover's reach: `FoldReturns`, `PoolJoins`, `AllCallsReturn`, `EveryTaskIsTaken`, `FoldEnds`,
`RunsFinish` and the liveness halves of `KeepsFairPromise` and `ComputesFold`. So is what a recursive definition computes for every input:
the modules of operators use `RECURSIVE`, folds over sequences and functions on all values, and so the three invariants about them, `LiftLaws`,
`RoutesAgree` and `PreludeFoldsAgree`, stay with TLC.

## Findings

Violation runs, each against a sentence of the repository (quoted in `PROJECT.json`).

* `pool_store_buffer`: the seal is a Release store and the latch an Acquire load of another variable, so the load may come first;
  the worker's Acquire increment and its load of `job_ptr` leave the mirror image open on weakly ordered machines. A caller may see
  `in_job == 0`, and a worker still load the unsealed pointer.
* `pool_panic_join`: a panic that leaves `f` skips the shutdown, and the scope waits for parked workers for ever.
* `chain_stale`: `bulk_finalize` reads `appended` Relaxed and may finalize without the last children. OnFinalize is what the default `Spec` selects.

Seen while modelling, without a run of their own:

* `run_fold` raises "run_fold hung" after a number of iterations of its poll (`funnel/dispatch/mod.rs:76`), also while a worker is
  still computing a long task: the limit counts iterations, not progress.
* `shared.rs:66` has a queue that is never full; a StealQueue has room for a fixed number of segments and panics beyond
  them (`steal_queue/segment.rs`), as `shared` models.
* With more than 63 workers `1u64 << my_idx` (`per_worker.rs:87`) panics in a debug build and aliases in a release build. `per_worker` shows
  that an alias costs parallelism only.
* The GraphHeavy preset is said to have "larger arenas" (`funnel/policy/mod.rs:55`) and has those of the default.
* `pretty_print` does not indent a node's first child (`prelude/common_folds.rs:36-40`), so `PreludeFoldsAgree` compares only its number of labels.

## Plan

Done: all modules above, in the order pool, chain, deque, walk, then queue policies and arenas, then the algebra, the prelude and
memoization; proofs of `Pool`, `FoldChain`, `SharedQueue`, `WorkerDeque`, `PerWorker`, `FunnelWalk` and `Memoized`.

Left: weak memory in `SharedQueue`.

## Not modelled

* `Spec`, `Session` and the presets (`funnel/mod.rs`, `funnel/policy/mod.rs`): types and constructors that select policies; the modules
  take what they select as constants. Of the traits of `src/exec/mod.rs` only `Exec::run` does anything.
* The wording of the other trace formatters and the one-line tree format (`src/prelude/explainer.rs`, `format.rs`).
* A closure of a fold that runs another fold on the same pool (it waits for the lock its own fold holds), and a graph whose closure visits the
  memoized graph (it waits for the lock its own visit holds, or panics in the Local domain). Nothing in the code supports either.
* Weak memory in `SharedQueue`, whose steps are sequentially consistent, and in `PerWorker`, whose mask and deques are atomic.
* Allocation failure; the destruction of a dropped deque (a fold that returned has left nothing in it, `NothingLeft`) or chain.
* The try_- and Debug plumbing of the graph types, and how closures are stored: an Arc, an Rc or a Box has no counterpart.
