-------------------------------- MODULE Pool --------------------------------
(***************************************************************************)
(* The scoped thread pool of the Funnel executor and the life of a fold on *)
(* it: Pool::with spawns the workers and joins them, dispatch publishes a  *)
(* stack-allocated Job, runs the caller's share of the fold, seals the job *)
(* pointer and latches on in_job; pool_thread enters a published job and   *)
(* runs worker_loop in it; every thread parks on the ONE event count.      *)
(*                                                                         *)
(* What a fold computes is left to the modules of the chain and the queue. *)
(* Here it is a number of subtrees: a walk may push more of them, each one *)
(* is taken once, and the thread that finishes the last one fires          *)
(* Cont::Root.                                                             *)
(*                                                                         *)
(* One step is one access to a shared variable. The only store whose delay *)
(* another access can overtake is the one to job_ptr (see Store): with     *)
(* StoreBuffer a caller's store stays in its store buffer until a read-    *)
(* modify-write of that thread or a spontaneous flush, as the Release /    *)
(* Acquire orderings of the source permit.                                 *)
(***************************************************************************)
EXTENDS Integers, FiniteSets

CONSTANTS
  Callers,           \* threads that call run() on the pool inside f
  Workers,           \* the n_workers threads spawned by Pool::with
  Main,              \* the thread that runs Pool::with
  Nobody,            \* no thread: the dispatch lock is free
  MaxFolds,          \* bound: folds started by all callers together
  MaxTasks,          \* bound: subtrees pushed to the queue per fold
  EpochModulus,      \* 2^32 in the code: the width of EventCount.epoch
  StoreBuffer,       \* may a Release store be overtaken by a later load?
  ClosuresMayPanic,  \* may a user closure panic?
  SpinLimitsExpire   \* may a bounded spin loop reach its limit?

Threads == Callers \cup Workers \cup {Main}

NoJob == 0                       \* the null job pointer
Jobs == 1 .. MaxFolds            \* one Job per run_fold, by order of creation
NoStore == MaxFolds + 1          \* nothing in the store buffer
JobPtrs == {NoJob} \cup Jobs

ASSUME ThreadsAssumption ==
  /\ Callers \cap Workers = {}
  /\ Main \notin Callers \cup Workers
  /\ Nobody \notin Callers \cup Workers \cup {Main}
  /\ IsFiniteSet(Callers)
  /\ IsFiniteSet(Workers)
ASSUME BoundsAssumption ==
  /\ MaxFolds \in Nat
  /\ MaxTasks \in Nat
  /\ EpochModulus \in Nat \ {0}
ASSUME SwitchesAssumption ==
  /\ StoreBuffer \in BOOLEAN
  /\ ClosuresMayPanic \in BOOLEAN
  /\ SpinLimitsExpire \in BOOLEAN

VARIABLES
  \* PoolState
  shutdown, job_ptr, epoch, in_job, dispatch_lock, poisoned,
  \* the store buffer of each caller
  buffer,
  \* what each fold keeps on its caller's stack: FoldView, queue store, RootCell
  live,              \* the jobs whose stack frame exists
  queued,            \* tasks in the queue
  pushed,            \* tasks pushed so far (bounds the tree)
  unfinished,        \* subtrees whose result is not delivered yet
  root_done, fold_done, idle_count,
  \* the threads
  pc,                \* where each thread is
  job,               \* the Job a thread holds a pointer to
  token,             \* the Token of the last prepare()
  last_epoch,        \* pool_thread's local
  folds              \* number of folds started (bounded by MaxFolds)

poolVars == <<shutdown, job_ptr, epoch, in_job, dispatch_lock, poisoned>>
frameVars == <<live, queued, pushed, unfinished, root_done, fold_done, idle_count>>
threadVars == <<pc, job, token, last_epoch, folds>>
vars == <<poolVars, buffer, frameVars, threadVars>>

-----------------------------------------------------------------------------
(* Where a thread can be. *)

\* pool_thread outside the job region, parked in its futex, or gone
OuterPcs == {"prepare", "check_shutdown", "outer_wait", "parked", "enter"}
\* worker_loop: inside (job.call)(job.data, thread_idx)
LoopPcs == {"acquire", "in_prepare", "check_done", "acquire2", "idle_inc",
            "wait", "asleep", "awake"}
\* walk_cps, push_task and fire_cont, run by workers and callers alike
WalkPcs == {"walk", "idle_check", "one_inc", "one_wake",
            "set_cell", "set_done", "done_inc", "done_wake"}
\* a worker that dereferences its job pointer
CallPcs == LoopPcs \cup WalkPcs
\* a worker counted by in_job
JobRegion == CallPcs \cup {"load", "leave"}
WorkerPcs == OuterPcs \cup JobRegion \cup {"exited", "dead"}

\* dispatch between the publication and the seal
BodyPcs == WalkPcs \cup {"poll", "poll_acquire"}
PublishedPcs == BodyPcs \cup {"pub_inc", "pub_wake", "seal"}
\* dispatch while it holds dispatch_lock
LockedPcs == PublishedPcs \cup {"publish", "latch", "unlock"}
CallerPcs == LockedPcs \cup {"idle", "lock", "drop", "finished", "panicked"}

MainPcs == {"run", "stop_inc", "stop_wake", "join", "joined"}

-----------------------------------------------------------------------------
Init ==
  /\ shutdown = FALSE
  /\ job_ptr = NoJob
  /\ epoch = 0
  /\ in_job = 0
  /\ dispatch_lock = Nobody
  /\ poisoned = FALSE
  /\ buffer = [c \in Callers |-> NoStore]
  /\ live = {}
  /\ queued = [j \in Jobs |-> 0]
  /\ pushed = [j \in Jobs |-> 0]
  /\ unfinished = [j \in Jobs |-> 0]
  /\ root_done = [j \in Jobs |-> FALSE]
  /\ fold_done = [j \in Jobs |-> FALSE]
  /\ idle_count = [j \in Jobs |-> 0]
  /\ pc = [t \in Threads |-> CASE t \in Callers -> "idle"
                               [] t \in Workers -> "prepare"
                               [] OTHER         -> "run"]
  /\ job = [t \in Callers \cup Workers |-> NoJob]
  /\ token = [w \in Workers |-> 0]
  /\ last_epoch = [w \in Workers |-> 0]
  /\ folds = 0

Goto(t, from, to) ==
  /\ pc[t] = from
  /\ pc' = [pc EXCEPT ![t] = to]

-----------------------------------------------------------------------------
(* EventCount and the memory it shares with the job pointer. *)

\* prepare(): snapshot the epoch
Prepare(w) == token' = [token EXCEPT ![w] = epoch]

\* wait(token) returns at once when the epoch has moved
EpochNeverMoved(w) == FALSE                       \* mutant: the wait ignores the token
EpochMoved(w) == epoch # token[w]

\* the store of job_ptr: in memory at once, or in the caller's store buffer
Store(c, ptr) ==
  IF StoreBuffer
    THEN buffer' = [buffer EXCEPT ![c] = ptr] /\ UNCHANGED job_ptr
    ELSE job_ptr' = ptr /\ UNCHANGED buffer

\* a read-modify-write by t, or the release of the mutex, drains t's buffer
Drain(t) ==
  IF t \in Callers /\ buffer[t] # NoStore
    THEN job_ptr' = buffer[t] /\ buffer' = [buffer EXCEPT ![t] = NoStore]
    ELSE UNCHANGED <<job_ptr, buffer>>

Flush(c) ==
  /\ buffer[c] # NoStore
  /\ Drain(c)
  /\ UNCHANGED <<shutdown, epoch, in_job, dispatch_lock, poisoned, frameVars, threadVars>>

\* mutant: a Relaxed fetch_add, which orders no earlier store
BumpRelaxed(t, from, to) ==
  /\ Goto(t, from, to)
  /\ epoch' = (epoch + 1) % EpochModulus
  /\ UNCHANGED <<shutdown, job_ptr, in_job, dispatch_lock, poisoned, buffer, frameVars,
                 job, token, last_epoch, folds>>

\* the fetch_add of notify_one and notify_all
Bump(t, from, to) ==
  /\ Goto(t, from, to)
  /\ epoch' = (epoch + 1) % EpochModulus
  /\ Drain(t)
  /\ UNCHANGED <<shutdown, in_job, dispatch_lock, poisoned, frameVars,
                 job, token, last_epoch, folds>>

Sleeping == {w \in Workers : pc[w] \in {"parked", "asleep"}}
\* where a sleeper resumes: outer loop, or the idle_count decrement of the inner one
Resume(w) == IF pc[w] = "parked" THEN "prepare" ELSE "awake"

\* the futex wake of notify_all: every thread asleep on the epoch, outer and inner
WakeAll(t, from, to) ==
  /\ pc[t] = from
  /\ pc' = [u \in Threads |-> IF u = t THEN to
                              ELSE IF u \in Sleeping THEN Resume(u) ELSE pc[u]]
  /\ UNCHANGED <<poolVars, buffer, frameVars, job, token, last_epoch, folds>>

\* the futex wake of notify_one: any one sleeper, if there is one
WakeOne(t) ==
  /\ pc[t] = "one_wake"
  /\ IF Sleeping = {}
       THEN pc' = [pc EXCEPT ![t] = "walk"]
       ELSE \E w \in Sleeping : pc' = [pc EXCEPT ![t] = "walk", ![w] = Resume(w)]
  /\ UNCHANGED <<poolVars, buffer, frameVars, job, token, last_epoch, folds>>

\* a futex wait may return without a wake
SpuriousWake(w) ==
  /\ w \in Sleeping
  /\ pc' = [pc EXCEPT ![w] = Resume(w)]
  /\ UNCHANGED <<poolVars, buffer, frameVars, job, token, last_epoch, folds>>

-----------------------------------------------------------------------------
(* pool_thread: the outer loop and the in_job bracket. *)

OuterPrepare(w) ==
  /\ Goto(w, "prepare", "check_shutdown")
  /\ Prepare(w)
  /\ UNCHANGED <<poolVars, buffer, frameVars, job, last_epoch, folds>>

\* return on shutdown; break out of the wait loop on an epoch not seen before
CheckShutdown(w) ==
  /\ pc[w] = "check_shutdown"
  /\ \/ /\ shutdown
        /\ pc' = [pc EXCEPT ![w] = "exited"]
        /\ UNCHANGED last_epoch
     \/ /\ ~shutdown
        /\ token[w] > last_epoch[w]
        /\ last_epoch' = [last_epoch EXCEPT ![w] = token[w]]
        /\ pc' = [pc EXCEPT ![w] = "enter"]
     \/ /\ ~shutdown
        /\ token[w] <= last_epoch[w]
        /\ pc' = [pc EXCEPT ![w] = "outer_wait"]
        /\ UNCHANGED last_epoch
  /\ UNCHANGED <<poolVars, buffer, frameVars, job, token, folds>>

OuterWait(w) ==
  /\ Goto(w, "outer_wait", IF EpochMoved(w) THEN "prepare" ELSE "parked")
  /\ UNCHANGED <<poolVars, buffer, frameVars, job, token, last_epoch, folds>>

Enter(w) ==
  /\ Goto(w, "enter", "load")
  /\ in_job' = in_job + 1
  /\ UNCHANGED <<shutdown, job_ptr, epoch, dispatch_lock, poisoned,
                 buffer, frameVars, job, token, last_epoch, folds>>

\* mutant: a null pointer skips the fetch_sub
LoadJobSkips(w) ==
  /\ Goto(w, "load", IF job_ptr = NoJob THEN "prepare" ELSE "acquire")
  /\ job' = [job EXCEPT ![w] = job_ptr]
  /\ UNCHANGED <<poolVars, buffer, frameVars, token, last_epoch, folds>>

LoadJob(w) ==
  /\ Goto(w, "load", IF job_ptr = NoJob THEN "leave" ELSE "acquire")
  /\ job' = [job EXCEPT ![w] = job_ptr]
  /\ UNCHANGED <<poolVars, buffer, frameVars, token, last_epoch, folds>>

\* mutant: pool_thread goes on without its fetch_sub
LeaveUncounted(w) ==
  /\ Goto(w, "leave", "prepare")
  /\ job' = [job EXCEPT ![w] = NoJob]
  /\ UNCHANGED <<poolVars, buffer, frameVars, token, last_epoch, folds>>

Leave(w) ==
  /\ Goto(w, "leave", "prepare")
  /\ in_job' = in_job - 1
  /\ job' = [job EXCEPT ![w] = NoJob]
  /\ UNCHANGED <<shutdown, job_ptr, epoch, dispatch_lock, poisoned,
                 buffer, frameVars, token, last_epoch, folds>>

-----------------------------------------------------------------------------
(* worker_loop. A thread whose job is not live has undefined behaviour: the *)
(* steps below are those of a thread whose job is.                          *)

OnLiveFrame(t) == job[t] \in live

\* try_acquire on a task queue: a task when there is one, and the walk it stands for
TryAcquire(t, from, otherwise) ==
  /\ OnLiveFrame(t)
  /\ LET j == job[t] IN
     \/ /\ queued[j] > 0
        /\ queued' = [queued EXCEPT ![j] = @ - 1]
        /\ Goto(t, from, "walk")
     \/ /\ queued[j] = 0
        /\ Goto(t, from, otherwise)
        /\ UNCHANGED queued
  /\ UNCHANGED <<poolVars, buffer, live, pushed, unfinished, root_done, fold_done,
                 idle_count, job, token, last_epoch, folds>>

InnerPrepare(w) ==
  /\ Goto(w, "in_prepare", "check_done")
  /\ Prepare(w)
  /\ UNCHANGED <<poolVars, buffer, frameVars, job, last_epoch, folds>>

CheckDone(w) ==
  /\ OnLiveFrame(w)
  /\ Goto(w, "check_done", IF fold_done[job[w]] THEN "leave" ELSE "acquire2")
  /\ UNCHANGED <<poolVars, buffer, frameVars, job, token, last_epoch, folds>>

IdleInc(w) ==
  /\ OnLiveFrame(w)
  /\ Goto(w, "idle_inc", "wait")
  /\ idle_count' = [idle_count EXCEPT ![job[w]] = @ + 1]
  /\ UNCHANGED <<poolVars, buffer, live, queued, pushed, unfinished, root_done,
                 fold_done, job, token, last_epoch, folds>>

InnerWait(w) ==
  /\ Goto(w, "wait", IF EpochMoved(w) THEN "awake" ELSE "asleep")
  /\ UNCHANGED <<poolVars, buffer, frameVars, job, token, last_epoch, folds>>

\* mutant: worker_loop goes on without its fetch_sub
IdleDecForgotten(w) ==
  /\ Goto(w, "awake", "acquire")
  /\ UNCHANGED <<poolVars, buffer, frameVars, job, token, last_epoch, folds>>

IdleDec(w) ==
  /\ OnLiveFrame(w)
  /\ Goto(w, "awake", "acquire")
  /\ idle_count' = [idle_count EXCEPT ![job[w]] = @ - 1]
  /\ UNCHANGED <<poolVars, buffer, live, queued, pushed, unfinished, root_done,
                 fold_done, job, token, last_epoch, folds>>

-----------------------------------------------------------------------------
(* A walk: push_task for the children, then the delivery of its own result. *)

\* where execute_task returns to
AfterTask(t) == IF t \in Callers THEN "poll" ELSE "acquire"

\* push_task with room in the queue; whether should_notify says so depends on
\* the wake policy (always under EveryPush)
PushTask(t) ==
  /\ OnLiveFrame(t)
  /\ LET j == job[t] IN
     /\ pushed[j] < MaxTasks
     /\ pushed' = [pushed EXCEPT ![j] = @ + 1]
     /\ queued' = [queued EXCEPT ![j] = @ + 1]
     /\ unfinished' = [unfinished EXCEPT ![j] = @ + 1]
  /\ \/ Goto(t, "walk", "idle_check")
     \/ Goto(t, "walk", "walk")
  /\ UNCHANGED <<poolVars, buffer, live, root_done, fold_done, idle_count,
                 job, token, last_epoch, folds>>

\* notify_idle: the relaxed load of idle_count before notify_one
CheckIdle(t) ==
  /\ OnLiveFrame(t)
  /\ Goto(t, "idle_check", IF idle_count[job[t]] > 0 THEN "one_inc" ELSE "walk")
  /\ UNCHANGED <<poolVars, buffer, frameVars, job, token, last_epoch, folds>>

\* fire_cont up the chain: the last delivery of the fold reaches Cont::Root
DeliverResult(t) ==
  /\ OnLiveFrame(t)
  /\ unfinished' = [unfinished EXCEPT ![job[t]] = @ - 1]
  /\ Goto(t, "walk", IF unfinished[job[t]] = 1 THEN "set_cell" ELSE AfterTask(t))
  /\ UNCHANGED <<poolVars, buffer, live, queued, pushed, root_done, fold_done,
                 idle_count, job, token, last_epoch, folds>>

\* Cont::Root: RootCell::set, then fold_done, then notify_all
SetRootCell(t) ==
  /\ OnLiveFrame(t)
  /\ Goto(t, "set_cell", "set_done")
  /\ root_done' = [root_done EXCEPT ![job[t]] = TRUE]
  /\ UNCHANGED <<poolVars, buffer, live, queued, pushed, unfinished, fold_done,
                 idle_count, job, token, last_epoch, folds>>

SetFoldDone(t) ==
  /\ OnLiveFrame(t)
  /\ Goto(t, "set_done", "done_inc")
  /\ fold_done' = [fold_done EXCEPT ![job[t]] = TRUE]
  /\ UNCHANGED <<poolVars, buffer, live, queued, pushed, unfinished, root_done,
                 idle_count, job, token, last_epoch, folds>>

Walk(t) ==
  \/ PushTask(t)
  \/ CheckIdle(t)
  \/ Bump(t, "one_inc", "one_wake")
  \/ WakeOne(t)
  \/ DeliverResult(t)
  \/ SetRootCell(t)
  \/ SetFoldDone(t)
  \/ Bump(t, "done_inc", "done_wake")
  \/ WakeAll(t, "done_wake", AfterTask(t))

-----------------------------------------------------------------------------
(* run_fold and dispatch. *)

\* run_fold builds the FoldState and the Job on its stack
StartFold(c) ==
  /\ Goto(c, "idle", "lock")
  /\ folds < MaxFolds
  /\ folds' = folds + 1
  /\ job' = [job EXCEPT ![c] = folds + 1]
  /\ live' = live \cup {folds + 1}
  /\ unfinished' = [unfinished EXCEPT ![folds + 1] = 1]
  /\ UNCHANGED <<poolVars, buffer, queued, pushed, root_done, fold_done, idle_count,
                 token, last_epoch>>

\* the caller is done with the pool
Finish(c) ==
  /\ Goto(c, "idle", "finished")
  /\ UNCHANGED <<poolVars, buffer, frameVars, job, token, last_epoch, folds>>

MayLockPoisoned == dispatch_lock = Nobody         \* mutant: unwrap_or_else(into_inner)
MayLock == dispatch_lock = Nobody /\ ~poisoned

Lock(c) ==
  /\ MayLock
  /\ Goto(c, "lock", "publish")
  /\ dispatch_lock' = c
  /\ UNCHANGED <<shutdown, job_ptr, epoch, in_job, poisoned,
                 buffer, frameVars, job, token, last_epoch, folds>>

Publish(c) ==
  /\ Goto(c, "publish", "pub_inc")
  /\ Store(c, job[c])
  /\ UNCHANGED <<shutdown, epoch, in_job, dispatch_lock, poisoned, frameVars,
                 job, token, last_epoch, folds>>

\* the caller's loop: root_cell.is_done(), else try_acquire
Poll(c) ==
  /\ Goto(c, "poll", IF root_done[job[c]] THEN "seal" ELSE "poll_acquire")
  /\ UNCHANGED <<poolVars, buffer, frameVars, job, token, last_epoch, folds>>

\* mutant: dispatch latches without sealing
SealForgotten(c) ==
  /\ Goto(c, "seal", "latch")
  /\ UNCHANGED <<poolVars, buffer, frameVars, job, token, last_epoch, folds>>

Seal(c) ==
  /\ Goto(c, "seal", "latch")
  /\ Store(c, NoJob)
  /\ UNCHANGED <<shutdown, epoch, in_job, dispatch_lock, poisoned, frameVars,
                 job, token, last_epoch, folds>>

NoLatch == TRUE                                   \* mutant: dispatch seals and returns
LatchOpen == in_job = 0

Latch(c) ==
  /\ LatchOpen
  /\ Goto(c, "latch", "unlock")
  /\ UNCHANGED <<poolVars, buffer, frameVars, job, token, last_epoch, folds>>

\* dispatch returns and drops its guard
Unlock(c) ==
  /\ Goto(c, "unlock", "drop")
  /\ Drain(c)
  /\ dispatch_lock' = Nobody
  /\ UNCHANGED <<shutdown, epoch, in_job, poisoned, frameVars, job, token,
                 last_epoch, folds>>

\* the stack frame of run_fold goes: FoldView, store, arenas, RootCell, Job
DropFrame(c) ==
  LET j == job[c] IN
  /\ live' = live \ {j}
  /\ queued' = [queued EXCEPT ![j] = 0]
  /\ pushed' = [pushed EXCEPT ![j] = 0]
  /\ unfinished' = [unfinished EXCEPT ![j] = 0]
  /\ root_done' = [root_done EXCEPT ![j] = FALSE]
  /\ fold_done' = [fold_done EXCEPT ![j] = FALSE]
  /\ idle_count' = [idle_count EXCEPT ![j] = 0]
  /\ job' = [job EXCEPT ![c] = NoJob]

Return(c) ==
  /\ Goto(c, "drop", "idle")
  /\ DropFrame(c)
  /\ UNCHANGED <<poolVars, buffer, token, last_epoch, folds>>

-----------------------------------------------------------------------------
(* Panics: of a user closure, of a bounded spin loop, of lock().unwrap(). *)

\* a caller unwinds out of dispatch: the guard is dropped (and poisons the
\* mutex), the frame is dropped, and the job pointer keeps its value
Unwind(c) ==
  /\ pc' = [pc EXCEPT ![c] = "panicked"]
  /\ dispatch_lock' = Nobody
  /\ poisoned' = TRUE
  /\ Drain(c)
  /\ DropFrame(c)
  /\ UNCHANGED <<shutdown, epoch, in_job, token, last_epoch, folds>>

ClosurePanics(t) ==
  /\ ClosuresMayPanic
  /\ OnLiveFrame(t)
  /\ pc[t] = "walk"
  /\ \/ t \in Callers /\ Unwind(t)
     \/ /\ t \in Workers
        /\ pc' = [pc EXCEPT ![t] = "dead"]
        /\ UNCHANGED <<poolVars, buffer, frameVars, job, token, last_epoch, folds>>

\* one more failed poll may be the one beyond the limit: "run_fold hung"
\* in the caller's loop, "threads still in job region" in the latch
GiveUp(c) ==
  /\ SpinLimitsExpire
  /\ \/ pc[c] = "poll_acquire" /\ queued[job[c]] = 0
     \/ pc[c] = "latch" /\ in_job > 0
  /\ Unwind(c)

LockPoisoned(c) ==
  /\ dispatch_lock = Nobody
  /\ poisoned
  /\ Goto(c, "lock", "panicked")
  /\ DropFrame(c)
  /\ UNCHANGED <<poolVars, buffer, token, last_epoch, folds>>

-----------------------------------------------------------------------------
(* Pool::with after f returned. A panic of a caller propagates out of f, so  *)
(* neither the store of shutdown nor its notify_all happens then.            *)

\* mutant: the store of shutdown without notify_all
SetShutdownSilently ==
  /\ \A c \in Callers : pc[c] = "finished"
  /\ Goto(Main, "run", "join")
  /\ shutdown' = TRUE
  /\ UNCHANGED <<job_ptr, epoch, in_job, dispatch_lock, poisoned, buffer, frameVars,
                 job, token, last_epoch, folds>>

SetShutdown ==
  /\ \A c \in Callers : pc[c] = "finished"
  /\ Goto(Main, "run", "stop_inc")
  /\ shutdown' = TRUE
  /\ UNCHANGED <<job_ptr, epoch, in_job, dispatch_lock, poisoned, buffer, frameVars,
                 job, token, last_epoch, folds>>

Join ==
  /\ \A w \in Workers : pc[w] = "exited"
  /\ Goto(Main, "join", "joined")
  /\ UNCHANGED <<poolVars, buffer, frameVars, job, token, last_epoch, folds>>

-----------------------------------------------------------------------------
WorkerStep(w) ==
  \/ OuterPrepare(w)
  \/ CheckShutdown(w)
  \/ OuterWait(w)
  \/ Enter(w)
  \/ LoadJob(w)
  \/ Leave(w)
  \/ TryAcquire(w, "acquire", "in_prepare")
  \/ InnerPrepare(w)
  \/ CheckDone(w)
  \/ TryAcquire(w, "acquire2", "idle_inc")
  \/ IdleInc(w)
  \/ InnerWait(w)
  \/ IdleDec(w)
  \/ Walk(w)

CallerStep(c) ==
  \/ StartFold(c)
  \/ Finish(c)
  \/ Lock(c)
  \/ LockPoisoned(c)
  \/ Publish(c)
  \/ Bump(c, "pub_inc", "pub_wake")
  \/ WakeAll(c, "pub_wake", "walk")
  \/ Walk(c)
  \/ Poll(c)
  \/ TryAcquire(c, "poll_acquire", "poll")
  \/ Seal(c)
  \/ Latch(c)
  \/ Unlock(c)
  \/ Return(c)

MainStep ==
  \/ SetShutdown
  \/ Bump(Main, "stop_inc", "stop_wake")
  \/ WakeAll(Main, "stop_wake", "join")
  \/ Join

\* what the environment may do and need not: the memory, the futex, the closures
Environment ==
  \/ \E c \in Callers : Flush(c) \/ GiveUp(c)
  \/ \E w \in Workers : SpuriousWake(w)
  \/ \E t \in Callers \cup Workers : ClosurePanics(t)

Terminated ==
  /\ pc[Main] = "joined"
  /\ UNCHANGED vars

Next ==
  \/ \E w \in Workers : WorkerStep(w)
  \/ \E c \in Callers : CallerStep(c)
  \/ MainStep
  \/ Environment
  \/ Terminated

Spec == Init /\ [][Next]_vars

\* the operating system runs every thread; a wake may be spurious but need not be
Fairness ==
  /\ \A w \in Workers : WF_vars(WorkerStep(w))
  /\ \A c \in Callers : WF_vars(CallerStep(c))
  /\ WF_vars(MainStep)

FairSpec == Spec /\ Fairness

-----------------------------------------------------------------------------
(* Type correctness: every variable of the pool, the frames and the threads  *)
(* stays in the range the code gives it. The unsigned counters never go      *)
(* below zero: in_job and idle_count count workers, a fold has no more       *)
(* subtrees than were pushed for it and the root, and a frame that is gone    *)
(* (or not made yet) counts nothing.                                         *)
TypeOK ==
  /\ shutdown \in BOOLEAN
  /\ job_ptr \in JobPtrs
  /\ epoch \in 0 .. EpochModulus - 1
  /\ in_job \in 0 .. Cardinality(Workers)
  /\ dispatch_lock \in Callers \cup {Nobody}
  /\ poisoned \in BOOLEAN
  /\ buffer \in [Callers -> JobPtrs \cup {NoStore}]
  /\ live \in SUBSET Jobs
  /\ queued \in [Jobs -> 0 .. MaxTasks]
  /\ pushed \in [Jobs -> 0 .. MaxTasks]
  /\ unfinished \in [Jobs -> 0 .. MaxTasks + 1]
  /\ root_done \in [Jobs -> BOOLEAN]
  /\ fold_done \in [Jobs -> BOOLEAN]
  /\ idle_count \in [Jobs -> 0 .. Cardinality(Workers)]
  /\ \A j \in Jobs : queued[j] <= pushed[j] /\ unfinished[j] <= pushed[j] + 1
  /\ \A j \in Jobs \ live : pushed[j] = 0 /\ unfinished[j] = 0 /\ idle_count[j] = 0
  /\ pc \in [Threads -> CallerPcs \cup WorkerPcs \cup MainPcs]
  /\ \A c \in Callers : pc[c] \in CallerPcs
  /\ \A w \in Workers : pc[w] \in WorkerPcs
  /\ pc[Main] \in MainPcs
  /\ job \in [Callers \cup Workers -> JobPtrs]
  /\ token \in [Workers -> 0 .. EpochModulus - 1]
  /\ last_epoch \in [Workers -> 0 .. EpochModulus - 1]
  /\ folds \in 0 .. MaxFolds

(* A worker inside (job.call)(job.data) works on a stack frame that exists:   *)
(* what the SAFETY comments of pool_thread and worker_entry claim.           *)
NoDangling ==
  \A w \in Workers : pc[w] \in CallPcs => job[w] \in live

(* Folds are serialized, and the latch is final: a worker in a job region    *)
(* serves the fold of the caller that holds dispatch_lock, from its load of  *)
(* job_ptr until the call returns, and that caller has published the job and *)
(* has not left the latch. (A caller that unwinds leaves its workers behind, *)
(* with the mutex poisoned.)                                                 *)
ServesLockHolder ==
  ~poisoned =>
    \A w \in Workers : pc[w] \in CallPcs =>
      \E c \in Callers : /\ dispatch_lock = c /\ job[c] = job[w]
                         /\ pc[c] \in PublishedPcs \cup {"latch"}

(* in_job counts the threads between fetch_add and fetch_sub, no more and no *)
(* fewer: zero really means that nobody is in the job region. A worker that  *)
(* unwinds is counted for ever.                                              *)
InJobExact ==
  in_job = Cardinality({w \in Workers : pc[w] \in JobRegion \cup {"dead"}})

(* idle_count is the number of workers between its increment and its         *)
(* decrement, in every fold, whatever order they wake up in.                 *)
IdleCountExact ==
  \A j \in live :
    idle_count[j] = Cardinality({w \in Workers :
                                   /\ pc[w] \in {"wait", "asleep", "awake"}
                                   /\ job[w] = j})

(* Workers run within each fold: once dispatch has woken the pool and until  *)
(* the fold is done, no worker stays parked in the outer loop.               *)
EveryWorkerEnlisted ==
  \A c \in Callers : pc[c] \in BodyPcs /\ ~fold_done[job[c]] =>
    \A w \in Workers : pc[w] # "parked"

(* EventCount: no worker sleeps through the end of its fold, and none through *)
(* the shutdown of the pool. While one is asleep although what it waits for   *)
(* has happened, the thread that made it happen is yet to wake it.            *)
NoSleepThroughEnd ==
  /\ \A w \in Workers : pc[w] = "asleep" /\ fold_done[job[w]] =>
       \E t \in Callers \cup Workers :
         pc[t] \in {"done_inc", "done_wake"} /\ job[t] = job[w]
  /\ shutdown /\ Sleeping # {} => pc[Main] \in {"stop_inc", "stop_wake"}

(* A poisoned pool publishes nothing: after a panic has unwound through      *)
(* dispatch no later caller gets past lock().unwrap().                       *)
PoisonedPoolIsSilent ==
  [][poisoned => \A c \in Callers : pc[c] # "publish" /\ pc'[c] # "publish"]_vars

(* Every call of run() returns to its caller.                                *)
FoldReturns ==
  \A c \in Callers : pc[c] = "lock" ~> pc[c] = "idle"

(* Pool::with joins all its threads.                                         *)
PoolJoins == <>(pc[Main] = "joined")

-----------------------------------------------------------------------------
(* The seal-and-latch protocol of dispatch, in full: what has to hold besides  *)
(* TypeOK and InJobExact for the invariants above to be inductive, when stores *)
(* are not delayed. A caller that unwinds through dispatch leaves the pointer  *)
(* unsealed; the mutex it has poisoned is what is left to rely on then.        *)

\* nothing waits in a store buffer
Settled == \A c \in Callers : buffer[c] = NoStore

\* dispatch_lock is held from lock() to the drop of the guard
LockInv == \A c \in Callers : pc[c] \in LockedPcs <=> dispatch_lock = c

\* nobody is inside dispatch once the mutex is poisoned
PoisonInv == poisoned => \A c \in Callers : pc[c] \notin LockedPcs

\* each caller has its own frame, from run_fold's first line to its return
FrameInv ==
  /\ \A c \in Callers : job[c] # NoJob => job[c] \in live
  /\ \A c \in Callers : job[c] <= folds
  /\ \A c, d \in Callers : c # d /\ job[c] = job[d] => job[c] = NoJob
  /\ \A c \in Callers : pc[c] \in LockedPcs \cup {"lock", "drop"} => job[c] # NoJob

\* a published job is the one of the lock holder, who has not sealed it yet
PublishInv ==
  job_ptr # NoJob /\ ~poisoned =>
    \E c \in Callers : dispatch_lock = c /\ job[c] = job_ptr /\ pc[c] \in PublishedPcs

(* Between lock() and the drop of the guard the job pointer, the lock, the    *)
(* stack frames and the workers agree: a published job is the lock holder's,  *)
(* its frame is alive, and whoever is in a call works for that caller.        *)
ProtocolInv == Settled /\ LockInv /\ PoisonInv /\ FrameInv /\ PublishInv /\ ServesLockHolder
=============================================================================
