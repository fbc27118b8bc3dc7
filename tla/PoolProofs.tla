----------------------------- MODULE PoolProofs -----------------------------
(***************************************************************************)
(* Proofs about the pool, for every number of threads and every bound:     *)
(* the life of a frame, and who sleeps while there is something to do.     *)
(***************************************************************************)
EXTENDS Pool, FiniteSetTheorems, TLAPS

\* The epoch stays below its modulus when notify_one or notify_all adds one.
LEMMA EpochRange ==
  ASSUME NEW e \in Nat
  PROVE  (e + 1) % EpochModulus \in 0 .. EpochModulus - 1
BY BoundsAssumption, SMT

\* an update of a function, inside or outside its domain
LEMMA UpdateType ==
  ASSUME NEW D, NEW S, NEW f \in [D -> S], NEW j, NEW v, j \in D => v \in S
  PROVE  [f EXCEPT ![j] = v] \in [D -> S]
OBVIOUS

\* the per-fold counters stay integers
LEMMA CounterType ==
  ASSUME NEW f \in [Jobs -> Int], NEW j
  PROVE  /\ [f EXCEPT ![j] = @ + 1] \in [Jobs -> Int]
         /\ [f EXCEPT ![j] = @ - 1] \in [Jobs -> Int]
         /\ [f EXCEPT ![j] = 0] \in [Jobs -> Int]
         /\ [f EXCEPT ![j] = 1] \in [Jobs -> Int]
<1>1. j \in Jobs => f[j] + 1 \in Int /\ f[j] - 1 \in Int
  OBVIOUS
<1>2. 0 \in Int /\ 1 \in Int
  OBVIOUS
<1>3. [f EXCEPT ![j] = @ + 1] \in [Jobs -> Int]
  BY <1>1, UpdateType
<1>4. [f EXCEPT ![j] = @ - 1] \in [Jobs -> Int]
  BY <1>1, UpdateType
<1>5. [f EXCEPT ![j] = 0] \in [Jobs -> Int]
  BY <1>2, UpdateType
<1>6. [f EXCEPT ![j] = 1] \in [Jobs -> Int]
  BY <1>2, UpdateType
<1> QED
  BY <1>3, <1>4, <1>5, <1>6

-----------------------------------------------------------------------------
(* The types of the variables, with the counters as integers: their ranges  *)
(* follow from the counts below (TypeCorrect). The steps shared by several  *)
(* threads first.                                                           *)

Typing ==
  /\ shutdown \in BOOLEAN
  /\ job_ptr \in JobPtrs
  /\ epoch \in 0 .. EpochModulus - 1
  /\ in_job \in Int
  /\ dispatch_lock \in Callers \cup {Nobody}
  /\ poisoned \in BOOLEAN
  /\ buffer \in [Callers -> JobPtrs \cup {NoStore}]
  /\ live \in SUBSET Jobs
  /\ queued \in [Jobs -> Int]
  /\ pushed \in [Jobs -> Int]
  /\ unfinished \in [Jobs -> Int]
  /\ root_done \in [Jobs -> BOOLEAN]
  /\ fold_done \in [Jobs -> BOOLEAN]
  /\ idle_count \in [Jobs -> Int]
  /\ pc \in [Threads -> CallerPcs \cup WorkerPcs \cup MainPcs]
  /\ \A c \in Callers : pc[c] \in CallerPcs
  /\ \A w \in Workers : pc[w] \in WorkerPcs
  /\ pc[Main] \in MainPcs
  /\ job \in [Callers \cup Workers -> JobPtrs]
  /\ token \in [Workers -> 0 .. EpochModulus - 1]
  /\ last_epoch \in [Workers -> 0 .. EpochModulus - 1]
  /\ folds \in 0 .. MaxFolds

\* a thread drains its buffer: both cells keep their types
LEMMA DrainType ==
  ASSUME Typing, NEW t, Drain(t)
  PROVE  /\ job_ptr' \in JobPtrs
         /\ buffer' \in [Callers -> JobPtrs \cup {NoStore}]
BY DEF Typing, Drain

\* A store of job_ptr, delayed or not, keeps both cells in their types.
LEMMA StoreType ==
  ASSUME Typing, NEW c \in Callers, NEW p \in JobPtrs, Store(c, p)
  PROVE  /\ job_ptr' \in JobPtrs
         /\ buffer' \in [Callers -> JobPtrs \cup {NoStore}]
BY DEF Typing, Store

\* what Typing says of pc, and how a step of one thread keeps it
PcType(p) ==
  /\ p \in [Threads -> CallerPcs \cup WorkerPcs \cup MainPcs]
  /\ \A c \in Callers : p[c] \in CallerPcs
  /\ \A w \in Workers : p[w] \in WorkerPcs
  /\ p[Main] \in MainPcs

PcsOf(t) == IF t \in Callers THEN CallerPcs
            ELSE IF t \in Workers THEN WorkerPcs ELSE MainPcs

\* A step that moves one thread to a place where it may be keeps PcType.
LEMMA PcSet ==
  ASSUME PcType(pc), NEW t \in Threads, NEW x \in PcsOf(t),
         pc' = [pc EXCEPT ![t] = x]
  PROVE  PcType(pc')
BY ThreadsAssumption DEF PcType, PcsOf, Threads

\* notify_all sends each sleeper to a place where a worker may be.
LEMMA PcWakeAll ==
  ASSUME PcType(pc), NEW t \in Threads, NEW f, NEW x \in PcsOf(t), WakeAll(t, f, x)
  PROVE  PcType(pc')
<1>1. \A w \in Workers : Resume(w) \in WorkerPcs
  BY DEF Resume, WorkerPcs, OuterPcs, JobRegion, CallPcs, LoopPcs
<1> QED
  BY <1>1, ThreadsAssumption DEF PcType, PcsOf, Threads, WakeAll, Sleeping

\* notify_one does so for the one sleeper it wakes.
LEMMA PcWakeOne ==
  ASSUME PcType(pc), NEW t \in Callers \cup Workers, WakeOne(t)
  PROVE  PcType(pc')
<1>1. \A w \in Workers : Resume(w) \in WorkerPcs
  BY DEF Resume, WorkerPcs, OuterPcs, JobRegion, CallPcs, LoopPcs
<1>2. "walk" \in WorkerPcs /\ "walk" \in CallerPcs
  BY DEF WorkerPcs, JobRegion, CallPcs, CallerPcs, LockedPcs, PublishedPcs, BodyPcs, WalkPcs
<1> QED
  BY <1>1, <1>2, ThreadsAssumption DEF PcType, Threads, WakeOne, Sleeping

\* The places of a walk are places of a caller and of a worker alike.
LEMMA WalkPcsType ==
  ASSUME NEW t \in Callers \cup Workers
  PROVE  /\ WalkPcs \subseteq PcsOf(t)
         /\ AfterTask(t) \in PcsOf(t)
BY ThreadsAssumption DEF PcsOf, AfterTask, WorkerPcs, JobRegion, CallPcs, CallerPcs,
   LockedPcs, PublishedPcs, BodyPcs, LoopPcs

\* The fetch_add of a notification preserves Typing.
LEMMA BumpType ==
  ASSUME Typing, NEW t \in Threads, NEW f, NEW x \in PcsOf(t), Bump(t, f, x)
  PROVE  Typing'
<1>1. PcType(pc')
  BY PcSet DEF Typing, PcType, Bump, Goto
<1>2. epoch' \in 0 .. EpochModulus - 1
  BY EpochRange DEF Typing, Bump
<1> QED
  BY <1>1, <1>2, DrainType DEF Typing, PcType, Bump, frameVars

\* So does the futex wake of notify_all.
LEMMA WakeAllType ==
  ASSUME Typing, NEW t \in Threads, NEW f, NEW x \in PcsOf(t), WakeAll(t, f, x)
  PROVE  Typing'
<1>1. PcType(pc')
  BY PcWakeAll DEF Typing, PcType
<1> QED
  BY <1>1 DEF Typing, PcType, WakeAll, poolVars, frameVars

\* Each step of a walk preserves Typing.
LEMMA WalkType ==
  ASSUME Typing, NEW t \in Callers \cup Workers, Walk(t)
  PROVE  Typing'
<1>0. PcType(pc) /\ t \in Threads
  BY DEF Typing, PcType, Threads
<1>w. WalkPcs \subseteq PcsOf(t) /\ AfterTask(t) \in PcsOf(t)
  BY WalkPcsType
<1> USE DEF WalkPcs
<1>1. CASE PushTask(t)
  <2>1. PcType(pc')
    BY <1>0, <1>1, <1>w, PcSet DEF PushTask, Goto
  <2> QED
    BY <1>1, <2>1, CounterType DEF Typing, PcType, PushTask, poolVars
<1>2. CASE CheckIdle(t)
  <2>1. PcType(pc')
    BY <1>0, <1>2, <1>w, PcSet DEF CheckIdle, Goto
  <2> QED
    BY <1>2, <2>1 DEF Typing, PcType, CheckIdle, poolVars, frameVars
<1>3. CASE Bump(t, "one_inc", "one_wake")
  BY <1>0, <1>3, <1>w, BumpType
<1>4. CASE WakeOne(t)
  <2>1. PcType(pc')
    BY <1>0, <1>4, PcWakeOne
  <2> QED
    BY <1>4, <2>1 DEF Typing, PcType, WakeOne, poolVars, frameVars
<1>5. CASE DeliverResult(t)
  <2>1. PcType(pc')
    BY <1>0, <1>5, <1>w, PcSet DEF DeliverResult, Goto
  <2> QED
    BY <1>5, <2>1, CounterType DEF Typing, PcType, DeliverResult, poolVars
<1>6. CASE SetRootCell(t)
  <2>1. PcType(pc')
    BY <1>0, <1>6, <1>w, PcSet DEF SetRootCell, Goto
  <2> QED
    BY <1>6, <2>1 DEF Typing, PcType, SetRootCell, poolVars
<1>7. CASE SetFoldDone(t)
  <2>1. PcType(pc')
    BY <1>0, <1>7, <1>w, PcSet DEF SetFoldDone, Goto
  <2> QED
    BY <1>7, <2>1 DEF Typing, PcType, SetFoldDone, poolVars
<1>8. CASE Bump(t, "done_inc", "done_wake")
  BY <1>0, <1>8, <1>w, BumpType
<1>9. CASE WakeAll(t, "done_wake", AfterTask(t))
  BY <1>0, <1>9, <1>w, WakeAllType
<1> QED
  BY <1>1, <1>2, <1>3, <1>4, <1>5, <1>6, <1>7, <1>8, <1>9 DEF Walk

\* try_acquire, in the worker's and in the caller's loop, preserves Typing.
LEMMA TryAcquireType ==
  ASSUME Typing, NEW t \in Callers \cup Workers, NEW f, NEW x \in PcsOf(t),
         TryAcquire(t, f, x)
  PROVE  Typing'
<1>0. PcType(pc) /\ t \in Threads
  BY DEF Typing, PcType, Threads
<1>1. "walk" \in PcsOf(t)
  BY WalkPcsType DEF WalkPcs
<1>2. PcType(pc')
  BY <1>0, <1>1, PcSet DEF TryAcquire, Goto
<1>3. queued' \in [Jobs -> Int]
  BY CounterType DEF TryAcquire, Typing
<1> QED
  BY <1>2, <1>3 DEF Typing, PcType, TryAcquire, poolVars

\* Each step of pool_thread and worker_loop preserves Typing.
LEMMA WorkerType ==
  ASSUME Typing, NEW w \in Workers, WorkerStep(w)
  PROVE  Typing'
<1>0. PcType(pc) /\ w \in Threads
  BY DEF Typing, PcType, Threads
<1>w. /\ OuterPcs \subseteq PcsOf(w)
      /\ LoopPcs \subseteq PcsOf(w)
      /\ {"load", "leave", "exited", "dead"} \subseteq PcsOf(w)
  BY ThreadsAssumption DEF PcsOf, WorkerPcs, JobRegion, CallPcs
<1> USE DEF OuterPcs, LoopPcs
<1>1. CASE OuterPrepare(w)
  <2>1. PcType(pc')
    BY <1>0, <1>1, <1>w, PcSet DEF OuterPrepare, Goto
  <2> QED
    BY <1>1, <2>1 DEF Typing, PcType, OuterPrepare, Prepare, poolVars, frameVars
<1>2. CASE CheckShutdown(w)
  <2>1. PcType(pc')
    BY <1>0, <1>2, <1>w, PcSet DEF CheckShutdown
  <2>2. last_epoch' \in [Workers -> 0 .. EpochModulus - 1]
    BY <1>2 DEF CheckShutdown, Typing
  <2> QED
    BY <1>2, <2>1, <2>2 DEF Typing, PcType, CheckShutdown, poolVars, frameVars
<1>3. CASE OuterWait(w)
  <2>1. PcType(pc')
    BY <1>0, <1>3, <1>w, PcSet DEF OuterWait, Goto
  <2> QED
    BY <1>3, <2>1 DEF Typing, PcType, OuterWait, poolVars, frameVars
<1>4. CASE Enter(w)
  <2>1. PcType(pc')
    BY <1>0, <1>4, <1>w, PcSet DEF Enter, Goto
  <2> QED
    BY <1>4, <2>1 DEF Typing, PcType, Enter, frameVars
<1>5. CASE LoadJob(w)
  <2>1. PcType(pc')
    BY <1>0, <1>5, <1>w, PcSet DEF LoadJob, Goto
  <2> QED
    BY <1>5, <2>1 DEF Typing, PcType, LoadJob, poolVars, frameVars
<1>6. CASE Leave(w)
  <2>1. PcType(pc')
    BY <1>0, <1>6, <1>w, PcSet DEF Leave, Goto
  <2>2. job' \in [Callers \cup Workers -> JobPtrs]
    BY <1>6 DEF Leave, Typing, JobPtrs
  <2> QED
    BY <1>6, <2>1, <2>2 DEF Typing, PcType, Leave, frameVars
<1>7. CASE TryAcquire(w, "acquire", "in_prepare")
  BY <1>7, <1>w, TryAcquireType
<1>8. CASE InnerPrepare(w)
  <2>1. PcType(pc')
    BY <1>0, <1>8, <1>w, PcSet DEF InnerPrepare, Goto
  <2> QED
    BY <1>8, <2>1 DEF Typing, PcType, InnerPrepare, Prepare, poolVars, frameVars
<1>9. CASE CheckDone(w)
  <2>1. PcType(pc')
    BY <1>0, <1>9, <1>w, PcSet DEF CheckDone, Goto
  <2> QED
    BY <1>9, <2>1 DEF Typing, PcType, CheckDone, poolVars, frameVars
<1>10. CASE TryAcquire(w, "acquire2", "idle_inc")
  BY <1>10, <1>w, TryAcquireType
<1>11. CASE IdleInc(w)
  <2>1. PcType(pc')
    BY <1>0, <1>11, <1>w, PcSet DEF IdleInc, Goto
  <2> QED
    BY <1>11, <2>1, CounterType DEF Typing, PcType, IdleInc, poolVars
<1>12. CASE InnerWait(w)
  <2>1. PcType(pc')
    BY <1>0, <1>12, <1>w, PcSet DEF InnerWait, Goto
  <2> QED
    BY <1>12, <2>1 DEF Typing, PcType, InnerWait, poolVars, frameVars
<1>13. CASE IdleDec(w)
  <2>1. PcType(pc')
    BY <1>0, <1>13, <1>w, PcSet DEF IdleDec, Goto
  <2> QED
    BY <1>13, <2>1, CounterType DEF Typing, PcType, IdleDec, poolVars
<1>14. CASE Walk(w)
  BY <1>14, WalkType
<1> QED
  BY <1>1, <1>2, <1>3, <1>4, <1>5, <1>6, <1>7, <1>8, <1>9, <1>10, <1>11, <1>12,
     <1>13, <1>14 DEF WorkerStep

\* Dropping the frame of run_fold leaves every per-fold variable in its type.
LEMMA DropFrameType ==
  ASSUME Typing, NEW c \in Callers, DropFrame(c)
  PROVE  /\ live' \in SUBSET Jobs
         /\ queued' \in [Jobs -> Int]
         /\ pushed' \in [Jobs -> Int]
         /\ unfinished' \in [Jobs -> Int]
         /\ root_done' \in [Jobs -> BOOLEAN]
         /\ fold_done' \in [Jobs -> BOOLEAN]
         /\ idle_count' \in [Jobs -> Int]
         /\ job' \in [Callers \cup Workers -> JobPtrs]
BY CounterType DEF Typing, DropFrame, JobPtrs

\* Unwinding out of dispatch preserves Typing.
LEMMA UnwindType ==
  ASSUME Typing, NEW c \in Callers, Unwind(c)
  PROVE  Typing'
<1>1. PcType(pc')
  BY PcSet, ThreadsAssumption DEF Typing, PcType, Unwind, PcsOf, CallerPcs, Threads
<1>2. DropFrame(c) /\ Drain(c)
  BY DEF Unwind
<1> QED
  BY <1>1, <1>2, DropFrameType, DrainType DEF Typing, PcType, Unwind

\* Each step of run_fold and dispatch preserves Typing.
LEMMA CallerType ==
  ASSUME Typing, NEW c \in Callers, CallerStep(c)
  PROVE  Typing'
<1>0. PcType(pc) /\ c \in Threads
  BY DEF Typing, PcType, Threads
<1>c. CallerPcs \subseteq PcsOf(c)
  BY DEF PcsOf
<1>w. /\ WalkPcs \subseteq PcsOf(c)
      /\ {"poll", "poll_acquire", "pub_inc", "pub_wake", "seal", "publish", "latch",
          "unlock", "idle", "lock", "drop", "finished", "panicked"} \subseteq PcsOf(c)
  BY <1>c DEF CallerPcs, LockedPcs, PublishedPcs, BodyPcs
<1>1. CASE StartFold(c)
  <2>1. PcType(pc')
    BY <1>0, <1>1, <1>w, PcSet DEF StartFold, Goto
  <2>2. folds + 1 \in Jobs /\ folds' \in 0 .. MaxFolds
    BY <1>1, BoundsAssumption DEF StartFold, Typing, Jobs
  <2>3. unfinished' \in [Jobs -> Int]
    BY <1>1, CounterType DEF StartFold, Typing
  <2> QED
    BY <1>1, <2>1, <2>2, <2>3 DEF Typing, PcType, StartFold, poolVars, JobPtrs
<1>2. CASE Finish(c)
  <2>1. PcType(pc')
    BY <1>0, <1>2, <1>w, PcSet DEF Finish, Goto
  <2> QED
    BY <1>2, <2>1 DEF Typing, PcType, Finish, poolVars, frameVars
<1>3. CASE Lock(c)
  <2>1. PcType(pc')
    BY <1>0, <1>3, <1>w, PcSet DEF Lock, Goto
  <2> QED
    BY <1>3, <2>1 DEF Typing, PcType, Lock, frameVars
<1>4. CASE LockPoisoned(c)
  <2>1. PcType(pc')
    BY <1>0, <1>4, <1>w, PcSet DEF LockPoisoned, Goto
  <2>2. DropFrame(c)
    BY <1>4 DEF LockPoisoned
  <2> QED
    BY <1>4, <2>1, <2>2, DropFrameType DEF Typing, PcType, LockPoisoned, poolVars
<1>5. CASE Publish(c)
  <2>1. PcType(pc')
    BY <1>0, <1>5, <1>w, PcSet DEF Publish, Goto
  <2>2. job[c] \in JobPtrs
    BY DEF Typing
  <2> QED
    BY <1>5, <2>1, <2>2, StoreType DEF Typing, PcType, Publish, frameVars
<1>6. CASE Bump(c, "pub_inc", "pub_wake")
  BY <1>0, <1>6, <1>w, BumpType
<1>7. CASE WakeAll(c, "pub_wake", "walk")
  BY <1>0, <1>7, <1>w, WakeAllType DEF WalkPcs
<1>8. CASE Walk(c)
  BY <1>8, WalkType
<1>9. CASE Poll(c)
  <2>1. PcType(pc')
    BY <1>0, <1>9, <1>w, PcSet DEF Poll, Goto
  <2> QED
    BY <1>9, <2>1 DEF Typing, PcType, Poll, poolVars, frameVars
<1>10. CASE TryAcquire(c, "poll_acquire", "poll")
  BY <1>10, <1>w, TryAcquireType
<1>11. CASE Seal(c)
  <2>1. PcType(pc')
    BY <1>0, <1>11, <1>w, PcSet DEF Seal, Goto
  <2>2. NoJob \in JobPtrs
    BY DEF JobPtrs
  <2> QED
    BY <1>11, <2>1, <2>2, StoreType DEF Typing, PcType, Seal, frameVars
<1>12. CASE Latch(c)
  <2>1. PcType(pc')
    BY <1>0, <1>12, <1>w, PcSet DEF Latch, Goto
  <2> QED
    BY <1>12, <2>1 DEF Typing, PcType, Latch, poolVars, frameVars
<1>13. CASE Unlock(c)
  <2>1. PcType(pc')
    BY <1>0, <1>13, <1>w, PcSet DEF Unlock, Goto
  <2> QED
    BY <1>13, <2>1, DrainType DEF Typing, PcType, Unlock, frameVars
<1>14. CASE Return(c)
  <2>1. PcType(pc')
    BY <1>0, <1>14, <1>w, PcSet DEF Return, Goto
  <2>2. DropFrame(c)
    BY <1>14 DEF Return
  <2> QED
    BY <1>14, <2>1, <2>2, DropFrameType DEF Typing, PcType, Return, poolVars
<1> QED
  BY <1>1, <1>2, <1>3, <1>4, <1>5, <1>6, <1>7, <1>8, <1>9, <1>10, <1>11, <1>12,
     <1>13, <1>14 DEF CallerStep

\* Each step of Pool::with after f preserves Typing.
LEMMA MainType ==
  ASSUME Typing, MainStep
  PROVE  Typing'
<1>0. PcType(pc) /\ Main \in Threads
  BY DEF Typing, PcType, Threads
<1>w. MainPcs \subseteq PcsOf(Main)
  BY ThreadsAssumption DEF PcsOf
<1> USE DEF MainPcs
<1>1. CASE SetShutdown
  <2>1. PcType(pc')
    BY <1>0, <1>1, <1>w, PcSet DEF SetShutdown, Goto
  <2> QED
    BY <1>1, <2>1 DEF Typing, PcType, SetShutdown, frameVars
<1>2. CASE Bump(Main, "stop_inc", "stop_wake")
  BY <1>0, <1>2, <1>w, BumpType
<1>3. CASE WakeAll(Main, "stop_wake", "join")
  BY <1>0, <1>3, <1>w, WakeAllType
<1>4. CASE Join
  <2>1. PcType(pc')
    BY <1>0, <1>4, <1>w, PcSet DEF Join, Goto
  <2> QED
    BY <1>4, <2>1 DEF Typing, PcType, Join, poolVars, frameVars
<1> QED
  BY <1>1, <1>2, <1>3, <1>4 DEF MainStep

\* What the memory, the futex and the closures do preserves Typing.
LEMMA EnvironmentType ==
  ASSUME Typing, Environment
  PROVE  Typing'
<1>0. PcType(pc)
  BY DEF Typing, PcType
<1>1. ASSUME NEW c \in Callers, Flush(c) PROVE Typing'
  <2>1. Drain(c)
    BY <1>1 DEF Flush
  <2> QED
    BY <1>1, <2>1, DrainType DEF Typing, Flush, frameVars, threadVars
<1>2. ASSUME NEW c \in Callers, GiveUp(c) PROVE Typing'
  BY <1>2, UnwindType DEF GiveUp
<1>3. ASSUME NEW w \in Workers, SpuriousWake(w) PROVE Typing'
  <2>1. Resume(w) \in PcsOf(w) /\ w \in Threads
    BY ThreadsAssumption DEF Resume, PcsOf, WorkerPcs, OuterPcs, JobRegion, CallPcs,
       LoopPcs, Threads
  <2>2. PcType(pc')
    BY <1>0, <1>3, <2>1, PcSet DEF SpuriousWake
  <2> QED
    BY <1>3, <2>2 DEF Typing, PcType, SpuriousWake, poolVars, frameVars
<1>4. ASSUME NEW t \in Callers \cup Workers, ClosurePanics(t) PROVE Typing'
  <2>1. CASE t \in Callers /\ Unwind(t)
    BY <2>1, UnwindType
  <2>2. CASE t \in Workers /\ pc' = [pc EXCEPT ![t] = "dead"]
             /\ UNCHANGED <<poolVars, buffer, frameVars, job, token, last_epoch, folds>>
    <3>1. PcType(pc')
      BY <1>0, <2>2, PcSet, ThreadsAssumption DEF PcsOf, WorkerPcs, Threads
    <3> QED
      BY <2>2, <3>1 DEF Typing, PcType, poolVars, frameVars
  <2> QED
    BY <1>4, <2>1, <2>2 DEF ClosurePanics
<1> QED
  BY <1>1, <1>2, <1>3, <1>4 DEF Environment

\* The types hold in every reachable state.
LEMMA TypingInvariant == Spec => []Typing
<1>1. Init => Typing
  <2> SUFFICES ASSUME Init PROVE Typing
    OBVIOUS
  <2>1. PcType(pc)
    BY ThreadsAssumption DEF Init, PcType, Threads, CallerPcs, WorkerPcs, OuterPcs, MainPcs
  <2>2. 0 \in 0 .. EpochModulus - 1 /\ 0 \in 0 .. MaxFolds
    BY BoundsAssumption
  <2>3. /\ queued \in [Jobs -> Int] /\ pushed \in [Jobs -> Int]
        /\ unfinished \in [Jobs -> Int] /\ idle_count \in [Jobs -> Int]
    BY DEF Init
  <2>4. token \in [Workers -> 0 .. EpochModulus - 1] /\ last_epoch \in [Workers -> 0 .. EpochModulus - 1]
    BY <2>2 DEF Init
  <2>5. /\ buffer \in [Callers -> JobPtrs \cup {NoStore}]
        /\ job \in [Callers \cup Workers -> JobPtrs] /\ job_ptr \in JobPtrs
    BY DEF Init, JobPtrs
  <2>6. epoch \in 0 .. EpochModulus - 1 /\ folds \in 0 .. MaxFolds /\ in_job \in Int
    BY <2>2 DEF Init
  <2>7. root_done \in [Jobs -> BOOLEAN] /\ fold_done \in [Jobs -> BOOLEAN] /\ live \in SUBSET Jobs
    BY DEF Init
  <2> QED
    BY <2>1, <2>3, <2>4, <2>5, <2>6, <2>7 DEF Init, Typing, PcType
<1>2. Typing /\ [Next]_vars => Typing'
  <2> SUFFICES ASSUME Typing, [Next]_vars PROVE Typing'
    OBVIOUS
  <2>1. CASE UNCHANGED vars
    BY <2>1 DEF vars, poolVars, frameVars, threadVars, Typing
  <2>2. CASE Next
    BY <2>1, <2>2, WorkerType, CallerType, MainType, EnvironmentType DEF Next, Terminated
  <2> QED
    BY <2>1, <2>2
<1> QED
  BY <1>1, <1>2, PTL DEF Spec

-----------------------------------------------------------------------------
(* Shapes of steps: what most steps have in common.                          *)

RegionPcs == JobRegion \cup {"dead"}
Region == {w \in Workers : pc[w] \in RegionPcs}

\* every thread but t stays where it is, or wakes up
OthersStay(t) ==
  \A u \in Threads : u # t => \/ pc'[u] = pc[u]
                              \/ u \in Sleeping /\ pc'[u] = Resume(u)

\* a step of t that touches neither the latch, nor the lock, nor the jobs
Quiet(t) ==
  /\ OthersStay(t)
  /\ UNCHANGED <<in_job, dispatch_lock, poisoned, job, live, folds>>
  /\ UNCHANGED <<job_ptr, buffer>> \/ Drain(t)

\* A Goto moves its own thread and no other.
LEMMA GotoStays ==
  ASSUME Typing, NEW t \in Threads, NEW f, NEW x, Goto(t, f, x)
  PROVE  pc[t] = f /\ pc'[t] = x /\ OthersStay(t)
BY DEF Typing, Goto, OthersStay

\* A wake-up of all sleepers is quiet.
LEMMA WakeAllQuiet ==
  ASSUME Typing, NEW t \in Threads, NEW f, NEW x, WakeAll(t, f, x)
  PROVE  pc[t] = f /\ pc'[t] = x /\ Quiet(t)
BY DEF Typing, WakeAll, Quiet, OthersStay, poolVars, frameVars

\* The fetch_add of a notification is quiet.
LEMMA BumpQuiet ==
  ASSUME Typing, NEW t \in Threads, NEW f, NEW x, Bump(t, f, x)
  PROVE  pc[t] = f /\ pc'[t] = x /\ Quiet(t)
BY GotoStays DEF Bump, Quiet, frameVars

\* A walk is quiet: it never touches the latch, the lock or the job pointer.
LEMMA WalkQuiet ==
  ASSUME Typing, NEW t \in Callers \cup Workers, Walk(t)
  PROVE  /\ Quiet(t)
         /\ pc[t] \in WalkPcs
         /\ pc'[t] \in WalkPcs \cup {AfterTask(t)}
<1>0. t \in Threads
  BY DEF Threads
<1> USE DEF WalkPcs
<1>1. CASE PushTask(t)
  BY <1>0, <1>1, GotoStays DEF PushTask, Quiet, poolVars
<1>2. CASE CheckIdle(t)
  BY <1>0, <1>2, GotoStays DEF CheckIdle, Quiet, poolVars, frameVars
<1>3. CASE Bump(t, "one_inc", "one_wake")
  BY <1>0, <1>3, BumpQuiet
<1>4. CASE WakeOne(t)
  <2>1. t \notin Sleeping
    BY <1>4 DEF WakeOne, Sleeping
  <2>2. OthersStay(t) /\ pc[t] = "one_wake" /\ pc'[t] = "walk"
    BY <1>0, <1>4, <2>1 DEF WakeOne, OthersStay, Typing, Threads, Sleeping
  <2> QED
    BY <1>4, <2>2 DEF WakeOne, Quiet, poolVars, frameVars
<1>5. CASE DeliverResult(t)
  BY <1>0, <1>5, GotoStays DEF DeliverResult, Quiet, poolVars
<1>6. CASE SetRootCell(t)
  BY <1>0, <1>6, GotoStays DEF SetRootCell, Quiet, poolVars
<1>7. CASE SetFoldDone(t)
  BY <1>0, <1>7, GotoStays DEF SetFoldDone, Quiet, poolVars
<1>8. CASE Bump(t, "done_inc", "done_wake")
  BY <1>0, <1>8, BumpQuiet
<1>9. CASE WakeAll(t, "done_wake", AfterTask(t))
  BY <1>0, <1>9, WakeAllQuiet
<1> QED
  BY <1>1, <1>2, <1>3, <1>4, <1>5, <1>6, <1>7, <1>8, <1>9 DEF Walk

\* outside the three steps of the in_job bracket a worker neither enters nor
\* leaves the job region, and neither enters nor leaves the call
LEMMA WorkerQuiet ==
  ASSUME Typing, NEW w \in Workers, WorkerStep(w),
         ~Enter(w), ~LoadJob(w), ~Leave(w)
  PROVE  /\ Quiet(w)
         /\ pc[w] \in RegionPcs <=> pc'[w] \in RegionPcs
         /\ pc'[w] \in CallPcs => pc[w] \in CallPcs
<1>0. w \in Threads /\ w \in Callers \cup Workers
  BY DEF Threads
<1>w. CallPcs \subseteq RegionPcs /\ WalkPcs \subseteq CallPcs /\ LoopPcs \subseteq CallPcs
  BY DEF RegionPcs, JobRegion, CallPcs
<1>o. \A x \in OuterPcs \cup {"exited"} : x \notin RegionPcs /\ x \notin CallPcs
  BY DEF OuterPcs, RegionPcs, JobRegion, CallPcs, LoopPcs, WalkPcs
<1>l. "leave" \in RegionPcs
  BY DEF RegionPcs, JobRegion
<1>1. CASE OuterPrepare(w)
  BY <1>0, <1>1, <1>o, GotoStays DEF OuterPrepare, Quiet, poolVars, frameVars, OuterPcs
<1>2. CASE CheckShutdown(w)
  <2>1. pc[w] = "check_shutdown" /\ pc'[w] \in OuterPcs \cup {"exited"} /\ OthersStay(w)
    BY <1>0, <1>2 DEF CheckShutdown, OthersStay, Typing, OuterPcs
  <2> QED
    BY <1>2, <1>o, <2>1 DEF CheckShutdown, Quiet, poolVars, frameVars, OuterPcs
<1>3. CASE OuterWait(w)
  BY <1>0, <1>3, <1>o, GotoStays DEF OuterWait, Quiet, poolVars, frameVars, OuterPcs
<1>7. ASSUME NEW f \in LoopPcs, NEW x \in LoopPcs, TryAcquire(w, f, x)
      PROVE  Quiet(w) /\ pc[w] \in CallPcs /\ pc'[w] \in CallPcs
  <2>1. \/ Goto(w, f, "walk")
        \/ Goto(w, f, x)
    BY <1>7 DEF TryAcquire
  <2>2. pc[w] = f /\ pc'[w] \in {"walk", x} /\ OthersStay(w)
    BY <1>0, <2>1, GotoStays
  <2> QED
    BY <1>7, <1>w, <2>2 DEF TryAcquire, Quiet, poolVars, WalkPcs
<1>8. CASE InnerPrepare(w)
  BY <1>0, <1>8, <1>w, GotoStays DEF InnerPrepare, Quiet, poolVars, frameVars, LoopPcs
<1>9. CASE CheckDone(w)
  BY <1>0, <1>9, <1>w, <1>l, GotoStays DEF CheckDone, Quiet, poolVars, frameVars, LoopPcs
<1>11. CASE IdleInc(w)
  BY <1>0, <1>11, <1>w, GotoStays DEF IdleInc, Quiet, poolVars, LoopPcs
<1>12. CASE InnerWait(w)
  BY <1>0, <1>12, <1>w, GotoStays DEF InnerWait, Quiet, poolVars, frameVars, LoopPcs
<1>13. CASE IdleDec(w)
  BY <1>0, <1>13, <1>w, GotoStays DEF IdleDec, Quiet, poolVars, LoopPcs
<1>14. CASE Walk(w)
  BY <1>0, <1>14, <1>w, WalkQuiet, ThreadsAssumption DEF AfterTask, LoopPcs
<1> QED
  BY <1>1, <1>2, <1>3, <1>7, <1>8, <1>9, <1>11, <1>12, <1>13, <1>14, <1>w
     DEF WorkerStep, LoopPcs

\* a caller's share of the body: the walks it runs and the tasks it acquires
CallerQuietStep(c) ==
  \/ Bump(c, "pub_inc", "pub_wake")
  \/ WakeAll(c, "pub_wake", "walk")
  \/ Walk(c)
  \/ Poll(c)
  \/ TryAcquire(c, "poll_acquire", "poll")

\* The caller's share of the body is quiet and stays between publish and seal.
LEMMA CallerQuiet ==
  ASSUME Typing, NEW c \in Callers, CallerQuietStep(c)
  PROVE  Quiet(c) /\ pc[c] \in PublishedPcs /\ pc'[c] \in PublishedPcs
<1>0. c \in Threads /\ c \in Callers \cup Workers
  BY DEF Threads
<1> USE DEF PublishedPcs, BodyPcs
<1>1. CASE Bump(c, "pub_inc", "pub_wake")
  BY <1>0, <1>1, BumpQuiet
<1>2. CASE WakeAll(c, "pub_wake", "walk")
  BY <1>0, <1>2, WakeAllQuiet DEF WalkPcs
<1>3. CASE Walk(c)
  BY <1>0, <1>3, WalkQuiet DEF AfterTask
<1>4. CASE Poll(c)
  BY <1>0, <1>4, GotoStays DEF Poll, Quiet, poolVars, frameVars
<1>5. CASE TryAcquire(c, "poll_acquire", "poll")
  BY <1>0, <1>5, GotoStays DEF TryAcquire, Quiet, poolVars, WalkPcs
<1> QED
  BY <1>1, <1>2, <1>3, <1>4, <1>5 DEF CallerQuietStep

-----------------------------------------------------------------------------
(* The count of the latch.                                                   *)

\* a step that leaves every worker on its side of the bracket keeps the count
LEMMA SameRegion ==
  ASSUME InJobExact, in_job' = in_job,
         \A w \in Workers : pc[w] \in RegionPcs <=> pc'[w] \in RegionPcs
  PROVE  InJobExact'
<1>1. Region' = Region
  BY DEF Region
<1> QED
  BY <1>1 DEF InJobExact, Region, RegionPcs

\* waking up stays on the same side
LEMMA ResumeRegion ==
  ASSUME NEW w \in Sleeping
  PROVE  /\ pc[w] \in RegionPcs <=> Resume(w) \in RegionPcs
         /\ pc[w] \in CallPcs <=> Resume(w) \in CallPcs
BY DEF Sleeping, Resume, RegionPcs, JobRegion, CallPcs, LoopPcs, WalkPcs

\* A thread that stays or wakes up stays inside or outside the job region.
LEMMA OthersRegion ==
  ASSUME NEW t, OthersStay(t), NEW w \in Workers, w # t
  PROVE  /\ pc[w] \in RegionPcs <=> pc'[w] \in RegionPcs
         /\ pc[w] \in CallPcs <=> pc'[w] \in CallPcs
BY ResumeRegion DEF OthersStay, Threads

\* The workers in the job region can be counted.
LEMMA FiniteRegion == IsFiniteSet(Region) /\ Cardinality(Region) \in Nat
<1>1. Region \subseteq Workers
  BY DEF Region
<1> QED
  BY <1>1, ThreadsAssumption, FS_Subset, FS_CardinalityType

\* fetch_add counts exactly the worker that enters.
LEMMA EnterCount ==
  ASSUME Typing, InJobExact, NEW w \in Workers, Enter(w)
  PROVE  InJobExact'
<1>1. pc[w] = "enter" /\ pc'[w] = "load" /\ OthersStay(w)
  BY GotoStays DEF Enter, Threads
<1>2. w \notin Region /\ Region' = Region \cup {w}
  BY <1>1, OthersRegion DEF Region, RegionPcs, JobRegion, CallPcs, LoopPcs, WalkPcs
<1>3. Cardinality(Region') = Cardinality(Region) + 1
  BY <1>2, FiniteRegion, FS_AddElement
<1> QED
  BY <1>3 DEF InJobExact, Region, RegionPcs, Enter

\* fetch_sub uncounts exactly the worker that leaves.
LEMMA LeaveCount ==
  ASSUME Typing, InJobExact, NEW w \in Workers, Leave(w)
  PROVE  InJobExact'
<1>1. pc[w] = "leave" /\ pc'[w] = "prepare" /\ OthersStay(w)
  BY GotoStays DEF Leave, Threads
<1>2. w \in Region /\ Region' = Region \ {w}
  BY <1>1, OthersRegion DEF Region, RegionPcs, JobRegion, CallPcs, LoopPcs, WalkPcs
<1>3. Cardinality(Region') = Cardinality(Region) - 1
  BY <1>2, FiniteRegion, FS_RemoveElement
<1> QED
  BY <1>3 DEF InJobExact, Region, RegionPcs, Leave

\* Every step of a worker keeps in_job exact.
LEMMA WorkerCount ==
  ASSUME Typing, InJobExact, NEW w \in Workers, WorkerStep(w)
  PROVE  InJobExact'
<1>1. CASE Enter(w)
  BY <1>1, EnterCount
<1>2. CASE Leave(w)
  BY <1>2, LeaveCount
<1>3. CASE LoadJob(w)
  <2>1. pc[w] = "load" /\ pc'[w] \in {"leave", "acquire"} /\ OthersStay(w)
    BY <1>3, GotoStays DEF LoadJob, Threads
  <2>2. pc[w] \in RegionPcs /\ pc'[w] \in RegionPcs
    BY <2>1 DEF RegionPcs, JobRegion, CallPcs, LoopPcs
  <2> QED
    BY <1>3, <2>1, <2>2, OthersRegion, SameRegion DEF LoadJob, poolVars
<1>4. CASE ~Enter(w) /\ ~Leave(w) /\ ~LoadJob(w)
  BY <1>4, WorkerQuiet, OthersRegion, SameRegion DEF Quiet
<1> QED
  BY <1>1, <1>2, <1>3, <1>4

\* no step of a caller, of Main or of the environment counts anybody in or out
LEMMA OutsiderCount ==
  ASSUME Typing, InJobExact, NEW t \in Callers \cup {Main}, OthersStay(t), in_job' = in_job
  PROVE  InJobExact'
BY OthersRegion, SameRegion, ThreadsAssumption

\* Every step of a caller keeps in_job exact.
LEMMA CallerCount ==
  ASSUME Typing, InJobExact, NEW c \in Callers, CallerStep(c)
  PROVE  InJobExact'
<1>0. c \in Threads
  BY DEF Threads
<1>1. CASE CallerQuietStep(c)
  BY <1>1, CallerQuiet, OutsiderCount DEF Quiet
<1>2. CASE ~CallerQuietStep(c)
  <2>1. \E f, x : Goto(c, f, x)
    BY <1>2 DEF CallerStep, CallerQuietStep, StartFold, Finish, Lock, LockPoisoned,
       Publish, Seal, Latch, Unlock, Return
  <2>2. in_job' = in_job
    BY <1>2 DEF CallerStep, CallerQuietStep, StartFold, Finish, Lock, LockPoisoned,
       Publish, Seal, Latch, Unlock, Return, poolVars
  <2> QED
    BY <1>0, <2>1, <2>2, GotoStays, OutsiderCount
<1> QED
  BY <1>1, <1>2

\* Every step of Pool::with keeps in_job exact.
LEMMA MainCount ==
  ASSUME Typing, InJobExact, MainStep
  PROVE  InJobExact'
<1>0. Main \in Threads
  BY DEF Threads
<1>1. CASE SetShutdown
  BY <1>0, <1>1, GotoStays, OutsiderCount DEF SetShutdown
<1>2. CASE Bump(Main, "stop_inc", "stop_wake")
  BY <1>0, <1>2, BumpQuiet, OutsiderCount DEF Quiet
<1>3. CASE WakeAll(Main, "stop_wake", "join")
  BY <1>0, <1>3, WakeAllQuiet, OutsiderCount DEF Quiet
<1>4. CASE Join
  BY <1>0, <1>4, GotoStays, OutsiderCount DEF Join, poolVars
<1> QED
  BY <1>1, <1>2, <1>3, <1>4 DEF MainStep

\* Unwinding moves nobody but the caller, and does not touch in_job.
LEMMA UnwindStays ==
  ASSUME Typing, NEW c \in Callers, Unwind(c)
  PROVE  OthersStay(c) /\ in_job' = in_job
BY DEF Unwind, OthersStay, Typing, Threads

\* A flush, a spurious wake or a panic keeps in_job exact.
LEMMA EnvironmentCount ==
  ASSUME Typing, InJobExact, Environment
  PROVE  InJobExact'
<1>1. ASSUME NEW c \in Callers, Flush(c) PROVE InJobExact'
  BY <1>1, SameRegion DEF Flush, threadVars
<1>2. ASSUME NEW c \in Callers, GiveUp(c) PROVE InJobExact'
  BY <1>2, UnwindStays, OutsiderCount DEF GiveUp
<1>3. ASSUME NEW w \in Workers, SpuriousWake(w) PROVE InJobExact'
  <2>1. w \in Sleeping /\ pc'[w] = Resume(w) /\ OthersStay(w)
    BY <1>3 DEF SpuriousWake, OthersStay, Typing, Threads
  <2> QED
    BY <1>3, <2>1, ResumeRegion, OthersRegion, SameRegion DEF SpuriousWake, poolVars
<1>4. ASSUME NEW t \in Callers \cup Workers, ClosurePanics(t) PROVE InJobExact'
  <2>1. CASE t \in Callers /\ Unwind(t)
    BY <2>1, UnwindStays, OutsiderCount
  <2>2. CASE t \in Workers /\ pc[t] = "walk" /\ pc' = [pc EXCEPT ![t] = "dead"]
             /\ in_job' = in_job
    <3>1. pc'[t] = "dead" /\ OthersStay(t)
      BY <2>2 DEF OthersStay, Typing, Threads
    <3>2. pc[t] \in RegionPcs /\ pc'[t] \in RegionPcs
      BY <2>2, <3>1 DEF RegionPcs, JobRegion, CallPcs, WalkPcs
    <3> QED
      BY <2>2, <3>1, <3>2, OthersRegion, SameRegion
  <2> QED
    BY <1>4, <2>1, <2>2 DEF ClosurePanics, poolVars
<1> QED
  BY <1>1, <1>2, <1>3, <1>4 DEF Environment

(* in_job is exactly the number of workers between their fetch_add and their *)
(* fetch_sub (and of those that died in between), under every memory model   *)
(* and with every kind of panic: a zero read by the latch means that nobody  *)
(* is in the job region.                                                     *)
THEOREM InJobIsExact == Spec => []InJobExact
<1>1. Init => InJobExact
  <2> SUFFICES ASSUME Init PROVE InJobExact
    OBVIOUS
  <2>1. Region = {}
    BY ThreadsAssumption DEF Init, Region, RegionPcs, JobRegion, CallPcs, LoopPcs, WalkPcs,
       Threads
  <2> QED
    BY <2>1, FS_EmptySet DEF Init, InJobExact, Region, RegionPcs
<1>2. Typing /\ InJobExact /\ [Next]_vars => InJobExact'
  <2> SUFFICES ASSUME Typing, InJobExact, [Next]_vars PROVE InJobExact'
    OBVIOUS
  <2>1. CASE UNCHANGED vars
    BY <2>1, SameRegion DEF vars, poolVars, threadVars
  <2>2. CASE Next
    BY <2>1, <2>2, WorkerCount, CallerCount, MainCount, EnvironmentCount
       DEF Next, Terminated
  <2> QED
    BY <2>1, <2>2
<1> QED
  BY <1>1, <1>2, TypingInvariant, PTL DEF Spec

-----------------------------------------------------------------------------
(* The mutex of dispatch, under every memory model and with every panic.     *)

\* A caller's pc changes only by its own steps.
LEMMA CallersStay ==
  ASSUME NEW t, OthersStay(t), NEW c \in Callers, c # t
  PROVE  pc'[c] = pc[c]
BY ThreadsAssumption DEF OthersStay, Threads, Sleeping

\* A step that moves nobody into dispatch, nobody out of it, and not the mutex.
LEMMA LockSame ==
  ASSUME LockInv, PoisonInv, UNCHANGED <<dispatch_lock, poisoned>>,
         \A c \in Callers : pc'[c] \in LockedPcs <=> pc[c] \in LockedPcs
  PROVE  LockInv' /\ PoisonInv'
BY DEF LockInv, PoisonInv

\* The same of the step of one thread.
LEMMA LockOne ==
  ASSUME LockInv, PoisonInv, UNCHANGED <<dispatch_lock, poisoned>>, NEW t, OthersStay(t),
         t \in Callers => (pc'[t] \in LockedPcs <=> pc[t] \in LockedPcs)
  PROVE  LockInv' /\ PoisonInv'
<1>1. \A c \in Callers : pc'[c] \in LockedPcs <=> pc[c] \in LockedPcs
  BY CallersStay
<1> QED
  BY <1>1, LockSame

\* No step of a worker is a step of dispatch.
LEMMA WorkerLock ==
  ASSUME Typing, LockInv, PoisonInv, NEW w \in Workers, WorkerStep(w)
  PROVE  LockInv' /\ PoisonInv'
<1>0. w \in Threads /\ w \notin Callers
  BY ThreadsAssumption DEF Threads
<1>1. CASE Enter(w) \/ Leave(w) \/ LoadJob(w)
  BY <1>0, <1>1, GotoStays, LockOne DEF Enter, Leave, LoadJob, poolVars
<1>2. CASE ~Enter(w) /\ ~Leave(w) /\ ~LoadJob(w)
  BY <1>0, <1>2, WorkerQuiet, LockOne DEF Quiet
<1> QED
  BY <1>1, <1>2

\* An unwinding caller leaves dispatch and poisons the mutex.
LEMMA UnwindLock ==
  ASSUME Typing, LockInv, PoisonInv, NEW c \in Callers, pc[c] \in LockedPcs, Unwind(c)
  PROVE  LockInv' /\ PoisonInv'
<1>1. pc'[c] = "panicked" /\ \A d \in Callers : d # c => pc'[d] = pc[d]
  BY DEF Unwind, Typing, Threads
<1>2. dispatch_lock = c /\ dispatch_lock' = Nobody
  BY DEF LockInv, Unwind
<1>3. "panicked" \notin LockedPcs
  BY DEF LockedPcs, PublishedPcs, BodyPcs, WalkPcs
<1>4. \A d \in Callers : pc'[d] \notin LockedPcs /\ dispatch_lock' # d
  BY <1>1, <1>2, <1>3, ThreadsAssumption DEF LockInv
<1> QED
  BY <1>4 DEF LockInv, PoisonInv

\* Every step of a caller keeps the mutex and the pcs in agreement.
LEMMA CallerLock ==
  ASSUME Typing, LockInv, PoisonInv, NEW c \in Callers, CallerStep(c)
  PROVE  LockInv' /\ PoisonInv'
<1>0. c \in Threads
  BY DEF Threads
<1>p. /\ PublishedPcs \cup {"publish", "latch", "unlock", "seal", "pub_inc"} \subseteq LockedPcs
      /\ \A x \in {"idle", "lock", "drop", "finished", "panicked"} : x \notin LockedPcs
  BY DEF LockedPcs, PublishedPcs, BodyPcs, WalkPcs
<1>1. CASE CallerQuietStep(c)
  BY <1>1, <1>p, CallerQuiet, LockOne DEF Quiet
<1>2. CASE StartFold(c) \/ Finish(c) \/ LockPoisoned(c) \/ Return(c)
  <2>1. /\ OthersStay(c)
        /\ pc[c] \in {"idle", "lock", "drop"} /\ pc'[c] \in {"lock", "finished", "panicked", "idle"}
    BY <1>0, <1>2, GotoStays DEF StartFold, Finish, LockPoisoned, Return
  <2> QED
    BY <1>2, <1>p, <2>1, LockOne DEF StartFold, Finish, LockPoisoned, Return, poolVars
<1>3. CASE Publish(c) \/ Seal(c) \/ Latch(c)
  <2>1. /\ OthersStay(c)
        /\ pc[c] \in {"publish", "seal", "latch"} /\ pc'[c] \in {"pub_inc", "latch", "unlock"}
    BY <1>0, <1>3, GotoStays DEF Publish, Seal, Latch
  <2> QED
    BY <1>3, <1>p, <2>1, LockOne DEF Publish, Seal, Latch, poolVars
<1>4. CASE Lock(c)
  <2>1. /\ pc'[c] = "publish" /\ \A d \in Callers : d # c => pc'[d] = pc[d]
        /\ dispatch_lock = Nobody /\ dispatch_lock' = c /\ ~poisoned /\ ~poisoned'
    BY <1>0, <1>4, GotoStays, CallersStay DEF Lock, MayLock
  <2> QED
    BY <1>p, <2>1, ThreadsAssumption DEF LockInv, PoisonInv
<1>5. CASE Unlock(c)
  <2>1. /\ pc[c] = "unlock" /\ pc'[c] = "drop" /\ \A d \in Callers : d # c => pc'[d] = pc[d]
        /\ dispatch_lock' = Nobody /\ poisoned' = poisoned
    BY <1>0, <1>5, GotoStays, CallersStay DEF Unlock
  <2>2. dispatch_lock = c
    BY <1>p, <2>1 DEF LockInv
  <2> QED
    BY <1>p, <2>1, <2>2, ThreadsAssumption DEF LockInv, PoisonInv
<1> QED
  BY <1>1, <1>2, <1>3, <1>4, <1>5 DEF CallerStep, CallerQuietStep

\* So does everything else.
LEMMA OtherLock ==
  ASSUME Typing, LockInv, PoisonInv, MainStep \/ Environment
  PROVE  LockInv' /\ PoisonInv'
<1>0. Main \in Threads /\ Main \notin Callers
  BY ThreadsAssumption DEF Threads
<1>1. CASE MainStep
  BY <1>0, <1>1, GotoStays, BumpQuiet, WakeAllQuiet, LockOne
     DEF MainStep, SetShutdown, Join, Quiet, poolVars
<1>2. ASSUME NEW c \in Callers, Flush(c) PROVE LockInv' /\ PoisonInv'
  BY <1>2, LockSame DEF Flush, threadVars
<1>3. ASSUME NEW c \in Callers, GiveUp(c) PROVE LockInv' /\ PoisonInv'
  <2>1. pc[c] \in LockedPcs /\ Unwind(c)
    BY <1>3 DEF GiveUp, LockedPcs, PublishedPcs, BodyPcs
  <2> QED
    BY <2>1, UnwindLock
<1>4. ASSUME NEW w \in Workers, SpuriousWake(w) PROVE LockInv' /\ PoisonInv'
  BY <1>4, LockOne, ThreadsAssumption DEF SpuriousWake, OthersStay, Typing, Threads, poolVars
<1>5. ASSUME NEW t \in Callers \cup Workers, ClosurePanics(t) PROVE LockInv' /\ PoisonInv'
  <2>1. CASE t \in Callers /\ Unwind(t)
    <3>1. pc[t] \in LockedPcs
      BY <1>5 DEF ClosurePanics, LockedPcs, PublishedPcs, BodyPcs, WalkPcs
    <3> QED
      BY <2>1, <3>1, UnwindLock
  <2>2. CASE t \in Workers /\ pc' = [pc EXCEPT ![t] = "dead"] /\ UNCHANGED poolVars
    BY <2>2, LockOne, ThreadsAssumption DEF OthersStay, Typing, Threads, poolVars
  <2> QED
    BY <1>5, <2>1, <2>2 DEF ClosurePanics
<1> QED
  BY <1>1, <1>2, <1>3, <1>4, <1>5 DEF Environment

\* The mutex is held exactly inside dispatch, and nobody is inside once it is poisoned.
LEMMA LockInvariant == Spec => [](LockInv /\ PoisonInv)
<1>1. Init => LockInv /\ PoisonInv
  BY ThreadsAssumption DEF Init, LockInv, PoisonInv, LockedPcs, PublishedPcs, BodyPcs, WalkPcs, Threads
<1>2. Typing /\ LockInv /\ PoisonInv /\ [Next]_vars => LockInv' /\ PoisonInv'
  <2> SUFFICES ASSUME Typing, LockInv, PoisonInv, [Next]_vars PROVE LockInv' /\ PoisonInv'
    OBVIOUS
  <2>1. CASE UNCHANGED vars
    BY <2>1, LockSame DEF vars, poolVars, threadVars
  <2>2. CASE Next
    BY <2>1, <2>2, WorkerLock, CallerLock, OtherLock DEF Next, Terminated
  <2> QED
    BY <2>1, <2>2
<1> QED
  BY <1>1, <1>2, TypingInvariant, PTL DEF Spec

\* The poisoning of the mutex is for ever.
LEMMA PoisonStays ==
  ASSUME Typing, poisoned, [Next]_vars
  PROVE  poisoned'
<1>1. ASSUME NEW w \in Workers, WorkerStep(w) PROVE poisoned'
  BY <1>1, WorkerQuiet DEF Quiet, Enter, Leave, LoadJob, poolVars
<1>2. ASSUME NEW c \in Callers, CallerStep(c) PROVE poisoned'
  <2>1. CASE CallerQuietStep(c)
    BY <2>1, CallerQuiet DEF Quiet
  <2>2. CASE ~CallerQuietStep(c)
    BY <1>2, <2>2 DEF CallerStep, CallerQuietStep, StartFold, Finish, Lock, LockPoisoned, Publish,
       Seal, Latch, Unlock, Return, poolVars
  <2> QED
    BY <2>1, <2>2
<1>3. CASE MainStep
  BY <1>3 DEF MainStep, SetShutdown, Bump, WakeAll, Join, poolVars
<1>4. CASE Environment
  BY <1>4 DEF Environment, Flush, GiveUp, SpuriousWake, ClosurePanics, Unwind, poolVars
<1>5. CASE UNCHANGED vars
  BY <1>5 DEF vars, poolVars
<1> QED
  BY <1>1, <1>2, <1>3, <1>4, <1>5 DEF Next, Terminated

(* After a panic has unwound through dispatch no caller gets as far as the   *)
(* publication of a job: every later lock().unwrap() panics. Under every     *)
(* memory model, for any number of callers and workers.                      *)
THEOREM PoisonedIsSilent == Spec => PoisonedPoolIsSilent
<1>1. Typing /\ PoisonInv /\ PoisonInv' /\ [Next]_vars =>
        [poisoned => \A c \in Callers : pc[c] # "publish" /\ pc'[c] # "publish"]_vars
  BY PoisonStays DEF PoisonInv, LockedPcs
<1> QED
  BY <1>1, LockInvariant, TypingInvariant, PTL DEF Spec, PoisonedPoolIsSilent

-----------------------------------------------------------------------------
(* The seal and the latch, when stores are not delayed.                      *)

\* every access in program order: the reading of the protocol in pool.rs
SequentiallyConsistent == StoreBuffer = FALSE
NoPanics == ClosuresMayPanic = FALSE /\ SpinLimitsExpire = FALSE

\* the protocol, the types and the count that it needs to be inductive
PoolInv == Typing /\ InJobExact /\ ProtocolInv

\* With empty store buffers there is nothing to drain.
LEMMA DrainSettled ==
  ASSUME Settled, NEW t, Drain(t)
  PROVE  UNCHANGED <<job_ptr, buffer>>
BY DEF Settled, Drain

\* steps that move the lock, the frames and the job pointer not at all
LEMMA QuietInv ==
  ASSUME PoolInv, NEW t \in Threads, Quiet(t),
         t \in Callers => pc[t] \in PublishedPcs /\ pc'[t] \in PublishedPcs,
         t \in Workers => (pc'[t] \in CallPcs => pc[t] \in CallPcs)
  PROVE  ProtocolInv'
<1>1. UNCHANGED <<job_ptr, buffer, in_job, dispatch_lock, poisoned, job, live, folds>>
  BY DrainSettled DEF Quiet, PoolInv, ProtocolInv
<1>2. \A c \in Callers : pc'[c] = pc[c] \/ (pc[c] \in PublishedPcs /\ pc'[c] \in PublishedPcs)
  BY CallersStay DEF Quiet
<1>3. \A w \in Workers : pc'[w] \in CallPcs => pc[w] \in CallPcs
  BY OthersRegion DEF Quiet
<1>4. Settled'
  BY <1>1 DEF PoolInv, ProtocolInv, Settled
<1>5. LockInv' /\ PoisonInv'
  BY <1>1, <1>2 DEF PoolInv, ProtocolInv, LockInv, PoisonInv, LockedPcs
<1>6. FrameInv'
  BY <1>1, <1>2 DEF PoolInv, ProtocolInv, FrameInv, LockedPcs
<1>7. PublishInv'
  BY <1>1, <1>2 DEF PoolInv, ProtocolInv, PublishInv
<1>8. ServesLockHolder'
  BY <1>1, <1>2, <1>3 DEF PoolInv, ProtocolInv, ServesLockHolder
<1> QED
  BY <1>4, <1>5, <1>6, <1>7, <1>8 DEF ProtocolInv

\* Every step of a worker preserves the protocol; LoadJob is the one that needs it:
\* the job it loads is the published one, so its owner has not sealed.
LEMMA WorkerInv ==
  ASSUME PoolInv, NEW w \in Workers, WorkerStep(w)
  PROVE  ProtocolInv'
<1>0. Typing /\ w \in Threads /\ w \notin Callers
  BY ThreadsAssumption DEF PoolInv, ProtocolInv, Threads
<1>1. CASE Enter(w) \/ Leave(w)
  <2>1. pc'[w] \in {"load", "prepare"} /\ OthersStay(w)
    BY <1>0, <1>1, GotoStays DEF Enter, Leave
  <2>2. pc'[w] \notin CallPcs
    BY <2>1 DEF CallPcs, LoopPcs, WalkPcs
  <2>3. \A c \in Callers : pc'[c] = pc[c] /\ job'[c] = job[c]
    BY <1>0, <1>1, <2>1, CallersStay DEF Enter, Leave, Typing
  <2>4. \A u \in Workers : pc'[u] \in CallPcs => pc[u] \in CallPcs /\ job'[u] = job[u]
    BY <1>0, <1>1, <2>1, <2>2, OthersRegion DEF Enter, Leave, Typing
  <2>5. UNCHANGED <<job_ptr, buffer, dispatch_lock, poisoned, live, folds>>
    BY <1>1 DEF Enter, Leave, frameVars
  <2> QED
    BY <2>3, <2>4, <2>5 DEF PoolInv, ProtocolInv, Settled, LockInv, PoisonInv, FrameInv, PublishInv, ServesLockHolder
<1>2. CASE LoadJob(w)
  <2>1. /\ pc'[w] = IF job_ptr = NoJob THEN "leave" ELSE "acquire"
        /\ OthersStay(w)
    BY <1>0, <1>2, GotoStays DEF LoadJob
  <2>2. pc'[w] \in CallPcs => job_ptr # NoJob /\ job'[w] = job_ptr
    BY <1>0, <1>2, <2>1 DEF LoadJob, CallPcs, LoopPcs, WalkPcs, Typing
  <2>3. \A c \in Callers : pc'[c] = pc[c] /\ job'[c] = job[c]
    BY <1>0, <1>2, <2>1, CallersStay DEF LoadJob, Typing
  <2>4. \A u \in Workers : u # w => (pc'[u] \in CallPcs => pc[u] \in CallPcs) /\ job'[u] = job[u]
    BY <1>0, <1>2, <2>1, OthersRegion DEF LoadJob, Typing
  <2>5. UNCHANGED <<job_ptr, buffer, dispatch_lock, poisoned, live, folds>>
    BY <1>2 DEF LoadJob, poolVars, frameVars
  <2>6. ServesLockHolder'
    BY <2>2, <2>3, <2>4, <2>5 DEF PoolInv, ProtocolInv, PublishInv, ServesLockHolder
  <2> QED
    BY <2>3, <2>5, <2>6 DEF PoolInv, ProtocolInv, Settled, LockInv, PoisonInv, FrameInv, PublishInv
<1>3. CASE ~Enter(w) /\ ~Leave(w) /\ ~LoadJob(w)
  BY <1>0, <1>3, WorkerQuiet, QuietInv
<1> QED
  BY <1>1, <1>2, <1>3

\* a step of caller c alone: c moves from f to x, the workers serve on
LEMMA CallerMoves ==
  ASSUME Typing, NEW c \in Callers, NEW f, NEW x, Goto(c, f, x)
  PROVE  /\ pc[c] = f /\ pc'[c] = x
         /\ \A d \in Callers : d # c => pc'[d] = pc[d]
         /\ \A w \in Workers : pc'[w] \in CallPcs <=> pc[w] \in CallPcs
<1>1. pc[c] = f /\ pc'[c] = x /\ OthersStay(c)
  BY GotoStays DEF Threads
<1> QED
  BY <1>1, CallersStay, OthersRegion, ThreadsAssumption

\* the latch saw zero: nobody is in a call
LEMMA LatchSawZero ==
  ASSUME Typing, InJobExact, in_job = 0
  PROVE  \A w \in Workers : pc[w] \notin CallPcs
<1>1. Region = {}
  BY FiniteRegion, FS_EmptySet DEF InJobExact, Region, RegionPcs
<1> QED
  BY <1>1 DEF Region, RegionPcs, JobRegion

\* A caller that returns or unwinds drops its own frame and no other.
LEMMA DropFrameInv ==
  ASSUME Typing, FrameInv, NEW c \in Callers, DropFrame(c), folds' = folds,
         pc'[c] \in {"idle", "panicked"}, \A d \in Callers : d # c => pc'[d] = pc[d]
  PROVE  FrameInv'
<1>1. /\ job'[c] = NoJob /\ \A d \in Callers : d # c => job'[d] = job[d]
      /\ live' = live \ {job[c]}
  BY DEF DropFrame, Typing
<1>2. NoJob <= folds
  BY BoundsAssumption DEF Typing, NoJob
<1>3. pc'[c] \notin LockedPcs \cup {"lock", "drop"}
  BY DEF LockedPcs, PublishedPcs, BodyPcs, WalkPcs
<1> QED
  BY <1>1, <1>2, <1>3 DEF FrameInv

\* Every step of a caller preserves the protocol; Latch is the one that needs
\* InJobExact: a zero means that no worker is in a call on the frame.
LEMMA CallerInv ==
  ASSUME SequentiallyConsistent, PoolInv, NEW c \in Callers, CallerStep(c)
  PROVE  ProtocolInv'
<1>0. Typing /\ c \in Threads /\ c \notin Workers
  BY ThreadsAssumption DEF PoolInv, ProtocolInv, Threads
<1>l. LockInv' /\ PoisonInv'
  BY <1>0, CallerLock DEF PoolInv, ProtocolInv
<1>1. CASE CallerQuietStep(c)
  BY <1>0, <1>1, CallerQuiet, QuietInv
<1>2. CASE StartFold(c)
  <2>1. /\ pc[c] = "idle" /\ pc'[c] = "lock"
        /\ \A d \in Callers : d # c => pc'[d] = pc[d]
        /\ \A w \in Workers : pc'[w] \in CallPcs <=> pc[w] \in CallPcs
    BY <1>0, <1>2, CallerMoves DEF StartFold
  <2>2. /\ job'[c] = folds + 1 /\ \A d \in Callers : d # c => job'[d] = job[d]
        /\ \A w \in Workers : job'[w] = job[w]
        /\ live' = live \cup {folds + 1} /\ folds' = folds + 1
    BY <1>0, <1>2 DEF StartFold, Typing
  <2>3. UNCHANGED <<job_ptr, buffer, dispatch_lock, poisoned>>
    BY <1>2 DEF StartFold, poolVars
  <2>4. dispatch_lock # c
    BY <2>1 DEF PoolInv, ProtocolInv, LockInv, LockedPcs, PublishedPcs, BodyPcs, WalkPcs
  <2>5. folds \in Nat /\ \A d \in Callers : job[d] \in Nat
    BY BoundsAssumption DEF PoolInv, ProtocolInv, Typing, JobPtrs, Jobs, NoJob
  <2>6. FrameInv'
    BY <2>1, <2>2, <2>5 DEF PoolInv, ProtocolInv, FrameInv, NoJob
  <2>8. PublishInv' /\ ServesLockHolder'
    BY <2>1, <2>2, <2>3, <2>4 DEF PoolInv, ProtocolInv, PublishInv, ServesLockHolder
  <2> QED
    BY <1>l, <2>3, <2>6, <2>8 DEF PoolInv, ProtocolInv, Settled
<1>3. CASE Finish(c)
  <2>1. /\ pc[c] = "idle" /\ pc'[c] = "finished"
        /\ \A d \in Callers : d # c => pc'[d] = pc[d]
        /\ \A w \in Workers : pc'[w] \in CallPcs <=> pc[w] \in CallPcs
    BY <1>0, <1>3, CallerMoves DEF Finish
  <2>2. UNCHANGED <<job_ptr, buffer, dispatch_lock, poisoned, job, live, folds>>
    BY <1>3 DEF Finish, poolVars, frameVars
  <2>3. dispatch_lock # c
    BY <2>1 DEF PoolInv, ProtocolInv, LockInv, LockedPcs, PublishedPcs, BodyPcs, WalkPcs
  <2>4. FrameInv'
    BY <2>1, <2>2, <2>3 DEF PoolInv, ProtocolInv, FrameInv, LockedPcs, PublishedPcs, BodyPcs, WalkPcs
  <2>5. PublishInv' /\ ServesLockHolder'
    BY <2>1, <2>2, <2>3 DEF PoolInv, ProtocolInv, PublishInv, ServesLockHolder
  <2> QED
    BY <1>l, <2>2, <2>4, <2>5 DEF PoolInv, ProtocolInv, Settled
<1>4. CASE Lock(c)
  <2>1. /\ pc[c] = "lock" /\ pc'[c] = "publish"
        /\ \A d \in Callers : d # c => pc'[d] = pc[d]
        /\ \A w \in Workers : pc'[w] \in CallPcs <=> pc[w] \in CallPcs
    BY <1>0, <1>4, CallerMoves DEF Lock
  <2>2. /\ UNCHANGED <<job_ptr, buffer, poisoned, job, live, folds>>
        /\ dispatch_lock = Nobody /\ dispatch_lock' = c
    BY <1>4 DEF Lock, MayLock, frameVars
  <2>3. \A d \in Callers : dispatch_lock # d
    BY <2>2, ThreadsAssumption
  <2>4. FrameInv'
    BY <2>1, <2>2, <2>3 DEF PoolInv, ProtocolInv, FrameInv, LockedPcs
  <2>5. PublishInv' /\ ServesLockHolder'
    BY <2>1, <2>2, <2>3 DEF PoolInv, ProtocolInv, PublishInv, ServesLockHolder
  <2> QED
    BY <1>l, <2>2, <2>4, <2>5 DEF PoolInv, ProtocolInv, Settled
<1>5. CASE LockPoisoned(c)
  <2>1. /\ pc[c] = "lock" /\ pc'[c] = "panicked"
        /\ \A d \in Callers : d # c => pc'[d] = pc[d]
    BY <1>0, <1>5, CallerMoves DEF LockPoisoned
  <2>2. DropFrame(c) /\ poisoned' /\ UNCHANGED <<buffer, folds>>
    BY <1>5 DEF LockPoisoned, poolVars
  <2> QED
    BY <1>0, <1>l, <2>1, <2>2, DropFrameInv DEF PoolInv, ProtocolInv, Settled, PublishInv, ServesLockHolder
<1>6. CASE Publish(c)
  <2>1. /\ pc[c] = "publish" /\ pc'[c] = "pub_inc"
        /\ \A d \in Callers : d # c => pc'[d] = pc[d]
        /\ \A w \in Workers : pc'[w] \in CallPcs <=> pc[w] \in CallPcs
    BY <1>0, <1>6, CallerMoves DEF Publish
  <2>2. /\ UNCHANGED <<buffer, dispatch_lock, poisoned, job, live, folds>>
        /\ job_ptr' = job[c]
    BY <1>6 DEF Publish, Store, SequentiallyConsistent, frameVars
  <2>3. dispatch_lock = c
    BY <2>1 DEF PoolInv, ProtocolInv, LockInv, LockedPcs
  <2>4. FrameInv'
    BY <2>1, <2>2, <2>3 DEF PoolInv, ProtocolInv, FrameInv, LockedPcs, PublishedPcs
  <2>5. PublishInv' /\ ServesLockHolder'
    BY <2>1, <2>2, <2>3 DEF PoolInv, ProtocolInv, PublishInv, ServesLockHolder, PublishedPcs
  <2> QED
    BY <1>l, <2>2, <2>4, <2>5 DEF PoolInv, ProtocolInv, Settled
<1>7. CASE Seal(c)
  <2>1. /\ pc[c] = "seal" /\ pc'[c] = "latch"
        /\ \A d \in Callers : d # c => pc'[d] = pc[d]
        /\ \A w \in Workers : pc'[w] \in CallPcs <=> pc[w] \in CallPcs
    BY <1>0, <1>7, CallerMoves DEF Seal
  <2>2. /\ UNCHANGED <<buffer, dispatch_lock, poisoned, job, live, folds>>
        /\ job_ptr' = NoJob
    BY <1>7 DEF Seal, Store, SequentiallyConsistent, frameVars
  <2>3. dispatch_lock = c
    BY <2>1 DEF PoolInv, ProtocolInv, LockInv, LockedPcs, PublishedPcs
  <2>4. FrameInv'
    BY <2>1, <2>2, <2>3 DEF PoolInv, ProtocolInv, FrameInv, LockedPcs, PublishedPcs
  <2>5. PublishInv' /\ ServesLockHolder'
    BY <2>1, <2>2, <2>3 DEF PoolInv, ProtocolInv, PublishInv, ServesLockHolder
  <2> QED
    BY <1>l, <2>2, <2>4, <2>5 DEF PoolInv, ProtocolInv, Settled
<1>8. CASE Latch(c)
  <2>1. /\ pc[c] = "latch" /\ pc'[c] = "unlock"
        /\ \A d \in Callers : d # c => pc'[d] = pc[d]
        /\ \A w \in Workers : pc'[w] \in CallPcs <=> pc[w] \in CallPcs
    BY <1>0, <1>8, CallerMoves DEF Latch
  <2>2. UNCHANGED <<job_ptr, buffer, dispatch_lock, poisoned, job, live, folds>>
    BY <1>8 DEF Latch, poolVars, frameVars
  <2>3. dispatch_lock = c
    BY <2>1 DEF PoolInv, ProtocolInv, LockInv, LockedPcs
  <2>4. \A w \in Workers : pc[w] \notin CallPcs
    BY <1>8, LatchSawZero DEF Latch, LatchOpen, PoolInv, ProtocolInv
  <2>p. ~poisoned
    BY <2>1 DEF PoolInv, ProtocolInv, PoisonInv, LockedPcs
  <2>5. job_ptr = NoJob
    BY <2>1, <2>3, <2>p DEF PoolInv, ProtocolInv, PublishInv, PublishedPcs, BodyPcs, WalkPcs
  <2>6. FrameInv'
    BY <2>1, <2>2, <2>3 DEF PoolInv, ProtocolInv, FrameInv, LockedPcs
  <2>7. PublishInv' /\ ServesLockHolder'
    BY <2>1, <2>2, <2>4, <2>5 DEF PublishInv, ServesLockHolder
  <2> QED
    BY <1>l, <2>2, <2>6, <2>7 DEF PoolInv, ProtocolInv, Settled
<1>9. CASE Unlock(c)
  <2>1. /\ pc[c] = "unlock" /\ pc'[c] = "drop"
        /\ \A d \in Callers : d # c => pc'[d] = pc[d]
        /\ \A w \in Workers : pc'[w] \in CallPcs <=> pc[w] \in CallPcs
    BY <1>0, <1>9, CallerMoves DEF Unlock
  <2>2. /\ UNCHANGED <<job_ptr, buffer, poisoned, job, live, folds>>
        /\ dispatch_lock' = Nobody
    BY <1>9, DrainSettled DEF Unlock, PoolInv, ProtocolInv, frameVars
  <2>3. dispatch_lock = c
    BY <2>1 DEF PoolInv, ProtocolInv, LockInv, LockedPcs
  <2>4. "unlock" \notin PublishedPcs \cup {"latch"} /\ "drop" \notin LockedPcs
    BY DEF LockedPcs, PublishedPcs, BodyPcs, WalkPcs
  <2>p. ~poisoned
    BY <2>1 DEF PoolInv, ProtocolInv, PoisonInv, LockedPcs
  <2>5. job_ptr = NoJob /\ \A w \in Workers : pc[w] \notin CallPcs
    BY <2>1, <2>3, <2>4, <2>p DEF PoolInv, ProtocolInv, PublishInv, ServesLockHolder
  <2>6. FrameInv'
    BY <2>1, <2>2, <2>3, <2>4, ThreadsAssumption DEF PoolInv, ProtocolInv, FrameInv, LockedPcs
  <2>7. PublishInv' /\ ServesLockHolder'
    BY <2>1, <2>2, <2>5 DEF PublishInv, ServesLockHolder
  <2> QED
    BY <1>l, <2>2, <2>6, <2>7 DEF PoolInv, ProtocolInv, Settled
<1>10. CASE Return(c)
  <2>1. /\ pc[c] = "drop" /\ pc'[c] = "idle"
        /\ \A d \in Callers : d # c => pc'[d] = pc[d]
        /\ \A w \in Workers : pc'[w] \in CallPcs <=> pc[w] \in CallPcs
    BY <1>0, <1>10, CallerMoves DEF Return
  <2>2. /\ job'[c] = NoJob /\ \A d \in Callers : d # c => job'[d] = job[d]
        /\ \A w \in Workers : job'[w] = job[w]
        /\ live' = live \ {job[c]}
        /\ UNCHANGED <<job_ptr, buffer, dispatch_lock, poisoned, folds>>
    BY <1>0, <1>10 DEF Return, DropFrame, Typing, poolVars
  <2>3. dispatch_lock # c
    BY <2>1 DEF PoolInv, ProtocolInv, LockInv, LockedPcs, PublishedPcs, BodyPcs, WalkPcs
  <2>4. "idle" \notin LockedPcs \cup {"lock", "drop"}
    BY DEF LockedPcs, PublishedPcs, BodyPcs, WalkPcs
  <2>5. NoJob <= folds
    BY BoundsAssumption DEF PoolInv, ProtocolInv, Typing, NoJob
  <2>6. FrameInv'
    BY <2>1, <2>2, <2>3, <2>4, <2>5 DEF PoolInv, ProtocolInv, FrameInv, LockInv
  <2>7. PublishInv' /\ ServesLockHolder'
    BY <2>1, <2>2, <2>3 DEF PoolInv, ProtocolInv, PublishInv, ServesLockHolder
  <2> QED
    BY <1>l, <2>2, <2>6, <2>7 DEF PoolInv, ProtocolInv, Settled
<1> QED
  BY <1>1, <1>2, <1>3, <1>4, <1>5, <1>6, <1>7, <1>8, <1>9, <1>10 DEF CallerStep, CallerQuietStep

\* Every step of Pool::with preserves the protocol.
LEMMA MainInv ==
  ASSUME PoolInv, MainStep
  PROVE  ProtocolInv'
<1>0. Typing /\ Main \in Threads /\ Main \notin Callers /\ Main \notin Workers
  BY ThreadsAssumption DEF PoolInv, ProtocolInv, Threads
<1>1. CASE SetShutdown
  BY <1>0, <1>1, GotoStays, QuietInv DEF SetShutdown, Quiet, frameVars
<1>2. CASE Bump(Main, "stop_inc", "stop_wake")
  BY <1>0, <1>2, BumpQuiet, QuietInv
<1>3. CASE WakeAll(Main, "stop_wake", "join")
  BY <1>0, <1>3, WakeAllQuiet, QuietInv
<1>4. CASE Join
  BY <1>0, <1>4, GotoStays, QuietInv DEF Join, Quiet, poolVars, frameVars
<1> QED
  BY <1>1, <1>2, <1>3, <1>4 DEF MainStep

\* An unwinding caller drops its frame; the mutex is poisoned from then on.
LEMMA UnwindInv ==
  ASSUME PoolInv, NEW c \in Callers, pc[c] \in LockedPcs, Unwind(c)
  PROVE  ProtocolInv'
<1>1. Typing /\ LockInv' /\ PoisonInv'
  BY UnwindLock DEF PoolInv, ProtocolInv
<1>2. pc'[c] = "panicked" /\ \A d \in Callers : d # c => pc'[d] = pc[d]
  BY <1>1 DEF Unwind, Typing, Threads
<1>3. DropFrame(c) /\ folds' = folds /\ poisoned' /\ buffer' = buffer
  BY DrainSettled DEF Unwind, PoolInv, ProtocolInv
<1> QED
  BY <1>1, <1>2, <1>3, DropFrameInv DEF PoolInv, ProtocolInv, Settled, PublishInv, ServesLockHolder

\* Nothing is in a store buffer to be flushed; a spurious wake, a panic and a
\* limit preserve the protocol.
LEMMA EnvironmentInv ==
  ASSUME PoolInv, Environment
  PROVE  ProtocolInv'
<1>0. Typing
  BY DEF PoolInv, ProtocolInv
<1>1. ASSUME NEW c \in Callers, Flush(c) PROVE FALSE
  BY <1>1 DEF Flush, PoolInv, ProtocolInv, Settled
<1>2. ASSUME NEW w \in Workers, SpuriousWake(w)
      PROVE  ProtocolInv'
  <2>1. w \in Sleeping /\ pc'[w] = Resume(w) /\ Quiet(w) /\ w \in Threads
    BY <1>0, <1>2 DEF SpuriousWake, OthersStay, Quiet, Typing, Threads, poolVars, frameVars
  <2> QED
    BY <2>1, ResumeRegion, QuietInv, ThreadsAssumption
<1>3. ASSUME NEW c \in Callers, GiveUp(c) PROVE ProtocolInv'
  <2>1. pc[c] \in LockedPcs /\ Unwind(c)
    BY <1>3 DEF GiveUp, LockedPcs, PublishedPcs, BodyPcs
  <2> QED
    BY <2>1, UnwindInv
<1>4. ASSUME NEW t \in Callers \cup Workers, ClosurePanics(t) PROVE ProtocolInv'
  <2>1. CASE t \in Callers /\ Unwind(t)
    <3>1. pc[t] \in LockedPcs
      BY <1>4 DEF ClosurePanics, LockedPcs, PublishedPcs, BodyPcs, WalkPcs
    <3> QED
      BY <2>1, <3>1, UnwindInv
  <2>2. CASE /\ t \in Workers /\ pc' = [pc EXCEPT ![t] = "dead"]
             /\ UNCHANGED <<poolVars, buffer, frameVars, job, folds>>
    <3>1. pc'[t] = "dead" /\ Quiet(t) /\ t \in Threads /\ t \notin Callers
      BY <1>0, <2>2, ThreadsAssumption DEF OthersStay, Quiet, Typing, Threads, poolVars, frameVars
    <3>2. "dead" \notin CallPcs
      BY DEF CallPcs, LoopPcs, WalkPcs
    <3> QED
      BY <3>1, <3>2, QuietInv
  <2> QED
    BY <1>4, <2>1, <2>2 DEF ClosurePanics
<1> QED
  BY <1>1, <1>2, <1>3, <1>4 DEF Environment

(* The inductive invariant of dispatch and pool_thread: the types, the exact *)
(* count of the latch, and the agreement of job pointer, lock, frames and    *)
(* workers, for every number of callers, workers, folds and tasks.           *)
THEOREM PoolInvariant ==
  ASSUME SequentiallyConsistent
  PROVE  Spec => []PoolInv
<1>1. Init => ProtocolInv
  <2> SUFFICES ASSUME Init PROVE ProtocolInv
    OBVIOUS
  <2>1. \A c \in Callers : pc[c] = "idle" /\ job[c] = NoJob
    BY ThreadsAssumption DEF Init, Threads
  <2>2. \A w \in Workers : pc[w] = "prepare"
    BY ThreadsAssumption DEF Init, Threads
  <2>3. Settled /\ PublishInv
    BY DEF Init, Settled, PublishInv
  <2>4. LockInv /\ PoisonInv
    BY <2>1, ThreadsAssumption DEF Init, LockInv, PoisonInv, LockedPcs, PublishedPcs, BodyPcs, WalkPcs
  <2>5. FrameInv
    BY <2>1 DEF Init, FrameInv, NoJob, LockedPcs, PublishedPcs, BodyPcs, WalkPcs
  <2>6. ServesLockHolder
    BY <2>2 DEF ServesLockHolder, CallPcs, LoopPcs, WalkPcs
  <2> QED
    BY <2>3, <2>4, <2>5, <2>6 DEF ProtocolInv
<1>2. PoolInv /\ [Next]_vars => ProtocolInv'
  <2> SUFFICES ASSUME PoolInv, [Next]_vars
               PROVE  ProtocolInv'
    OBVIOUS
  <2>1. CASE UNCHANGED vars
    BY <2>1 DEF vars, poolVars, frameVars, threadVars, PoolInv, ProtocolInv, Settled, LockInv, PoisonInv, FrameInv,
       PublishInv, ServesLockHolder
  <2>2. CASE Next
    BY <2>1, <2>2, WorkerInv, CallerInv, MainInv, EnvironmentInv DEF Next, Terminated
  <2> QED
    BY <2>1, <2>2
<1>3. PoolInv <=> Typing /\ InJobExact /\ ProtocolInv
  BY DEF PoolInv, ProtocolInv
<1> QED
  BY <1>1, <1>2, <1>3, TypingInvariant, InJobIsExact, PTL DEF Spec

(* The agreement of job pointer, lock, frames and workers by itself, for any *)
(* number of threads and folds, with panics.                                 *)
THEOREM ProtocolHolds ==
  ASSUME SequentiallyConsistent
  PROVE  Spec => []ProtocolInv
<1>1. PoolInv => ProtocolInv
  BY DEF PoolInv
<1> QED
  BY <1>1, PoolInvariant, PTL

\* What the protocol says of frames.
LEMMA FramesLive ==
  ASSUME PoolInv, ~poisoned
  PROVE  NoDangling
<1> SUFFICES ASSUME NEW w \in Workers, pc[w] \in CallPcs
             PROVE  job[w] \in live
  BY DEF NoDangling
<1>1. PICK c \in Callers : dispatch_lock = c /\ job[c] = job[w]
  BY DEF PoolInv, ProtocolInv, ServesLockHolder
<1>2. job[c] # NoJob /\ job[c] \in live
  BY <1>1 DEF PoolInv, ProtocolInv, LockInv, FrameInv
<1> QED
  BY <1>1, <1>2

(* Only a panic of a caller leaves a worker on a frame that is gone, when    *)
(* the accesses of dispatch and pool_thread take effect in program order:    *)
(* neither a panicking worker nor a late one does. The run pool_store_buffer *)
(* shows that the assumption cannot be dropped.                              *)
THEOREM DanglingNeedsUnwind ==
  ASSUME SequentiallyConsistent
  PROVE  Spec => [](NoDangling \/ poisoned)
BY FramesLive, PoolInvariant, PTL

\* Nobody poisons the mutex when nothing panics.
LEMMA NeverPoisoned ==
  ASSUME NoPanics
  PROVE  Spec => []~poisoned
<1>1. Init => ~poisoned
  BY DEF Init
<1>2. Typing /\ ~poisoned /\ [Next]_vars => ~poisoned'
  <2> SUFFICES ASSUME Typing, ~poisoned, [Next]_vars PROVE ~poisoned'
    OBVIOUS
  <2>1. ASSUME NEW w \in Workers, WorkerStep(w) PROVE ~poisoned'
    BY <2>1, WorkerQuiet DEF Quiet, Enter, Leave, LoadJob, poolVars
  <2>2. ASSUME NEW c \in Callers, CallerStep(c) PROVE ~poisoned'
    <3>1. CASE CallerQuietStep(c)
      BY <3>1, CallerQuiet DEF Quiet
    <3>2. CASE ~CallerQuietStep(c)
      BY <2>2, <3>2 DEF CallerStep, CallerQuietStep, StartFold, Finish, Lock, LockPoisoned, Publish,
         Seal, Latch, Unlock, Return, poolVars
    <3> QED
      BY <3>1, <3>2
  <2>3. CASE MainStep
    BY <2>3 DEF MainStep, SetShutdown, Bump, WakeAll, Join, poolVars
  <2>4. CASE Environment
    BY <2>4 DEF Environment, Flush, GiveUp, SpuriousWake, ClosurePanics, NoPanics, poolVars
  <2>5. CASE UNCHANGED vars
    BY <2>5 DEF vars, poolVars
  <2> QED
    BY <2>1, <2>2, <2>3, <2>4, <2>5 DEF Next, Terminated
<1> QED
  BY <1>1, <1>2, TypingInvariant, PTL DEF Spec

(* No worker ever works on a stack frame that is gone, and folds are served  *)
(* one at a time, when the accesses of dispatch and pool_thread take effect  *)
(* in program order and nothing panics.                                      *)
THEOREM NothingDangles ==
  ASSUME SequentiallyConsistent, NoPanics
  PROVE  Spec => [](NoDangling /\ ServesLockHolder)
<1>1. PoolInv /\ ~poisoned => NoDangling /\ ServesLockHolder
  BY FramesLive DEF PoolInv, ProtocolInv
<1> QED
  BY <1>1, PoolInvariant, NeverPoisoned, PTL

-----------------------------------------------------------------------------
(* Sleeping and waking: idle_count, the two waits of a worker, and the       *)
(* enlistment of every worker in a fold. What is about the event count holds *)
(* as long as its epoch does not wrap around.                                *)


\* a worker between the increment and the decrement of idle_count
IdlePcs == {"wait", "asleep", "awake"}

\* Another thread than the one that moves stays where it is or is woken.
LEMMA Others ==
  ASSUME NEW t, OthersStay(t), NEW u \in Callers \cup Workers, u # t
  PROVE  \/ pc'[u] = pc[u]
         \/ u \in Workers /\ pc[u] = "parked" /\ pc'[u] = "prepare"
         \/ u \in Workers /\ pc[u] = "asleep" /\ pc'[u] = "awake"
BY DEF OthersStay, Sleeping, Resume, Threads

-----------------------------------------------------------------------------
(* Jobs are numbered in the order of creation and every live frame has an     *)
(* owner, under every memory model and with every panic.                      *)

\* no job beyond the last one created is to be found anywhere
FreshInv ==
  /\ job_ptr <= folds
  /\ \A c \in Callers : buffer[c] # NoStore => buffer[c] <= folds
  /\ \A t \in Callers \cup Workers : job[t] <= folds
  /\ live \subseteq 1 .. folds
  /\ \A j \in Jobs : j > folds => idle_count[j] = 0

\* a worker in a call has a job
CallInv == \A w \in Workers : pc[w] \in CallPcs => job[w] # NoJob

\* a frame lives as long as its caller is in run_fold
OwnerInv ==
  /\ \A j \in live : \E c \in Callers : job[c] = j
  /\ \A c \in Callers : pc[c] \in {"idle", "finished", "panicked"} => job[c] = NoJob
  /\ shutdown => \A c \in Callers : pc[c] = "finished"

CreationInv == FreshInv /\ CallInv /\ OwnerInv

\* numbers of jobs can be compared
LEMMA JobNumbers ==
  ASSUME Typing
  PROVE  /\ folds \in Nat /\ job_ptr \in Nat
         /\ \A t \in Callers \cup Workers : job[t] \in Nat
         /\ \A c \in Callers : buffer[c] \in Nat
         /\ live \subseteq Nat
<1>1. JobPtrs \subseteq Nat /\ Jobs \subseteq JobPtrs /\ NoStore \in Nat /\ 0 .. MaxFolds \subseteq Nat
  BY BoundsAssumption DEF JobPtrs, Jobs, NoJob, NoStore
<1>2. /\ job_ptr \in JobPtrs /\ folds \in 0 .. MaxFolds
      /\ \A t \in Callers \cup Workers : job[t] \in JobPtrs
      /\ \A c \in Callers : buffer[c] \in JobPtrs \cup {NoStore}
      /\ live \in SUBSET Jobs
  BY DEF Typing
<1> QED
  BY <1>1, <1>2

\* draining a buffer moves an old job number into job_ptr
LEMMA DrainFresh ==
  ASSUME Typing, FreshInv, NEW t, Drain(t)
  PROVE  /\ job_ptr' <= folds
         /\ \A c \in Callers : buffer'[c] # NoStore => buffer'[c] <= folds
BY JobNumbers DEF Typing, FreshInv, Drain

\* a quiet step keeps FreshInv, whatever it does to the idle count of a live fold
LEMMA QuietFresh ==
  ASSUME Typing, FreshInv, NEW t, Quiet(t),
         \A j \in Jobs : j > folds => idle_count'[j] = idle_count[j]
  PROVE  FreshInv'
<1>1. CASE UNCHANGED <<job_ptr, buffer>>
  BY <1>1 DEF FreshInv, Quiet
<1>2. CASE Drain(t)
  BY <1>2, DrainFresh DEF FreshInv, Quiet
<1> QED
  BY <1>1, <1>2 DEF Quiet

\* a quiet step of a thread that does not end its call keeps the owners
LEMMA QuietOwner ==
  ASSUME Typing, OwnerInv, NEW t, Quiet(t),
         t \in Callers => pc[t] \in PublishedPcs /\ pc'[t] \in PublishedPcs,
         shutdown' => shutdown
  PROVE  OwnerInv'
<1>1. \A x \in PublishedPcs : x \notin {"idle", "finished", "panicked"}
  BY DEF PublishedPcs, BodyPcs, WalkPcs
<1>2. \A c \in Callers : pc'[c] = pc[c] \/ (pc[c] \in PublishedPcs /\ pc'[c] \in PublishedPcs)
  BY CallersStay DEF Quiet
<1> QED
  BY <1>1, <1>2 DEF OwnerInv, Quiet

\* a walk leaves the count of idlers, the shutdown flag and the locals alone
LEMMA WalkKeeps ==
  ASSUME NEW t, Walk(t)
  PROVE  UNCHANGED <<idle_count, shutdown, token, last_epoch>>
BY DEF Walk, PushTask, CheckIdle, Bump, WakeOne, DeliverResult, SetRootCell, SetFoldDone, WakeAll,
   poolVars, frameVars

\* so does every worker, except where it counts itself in and out or takes a token
LEMMA WorkerKeeps ==
  ASSUME NEW w \in Workers, WorkerStep(w)
  PROVE  /\ shutdown' = shutdown
         /\ ~IdleInc(w) /\ ~IdleDec(w) => idle_count' = idle_count
         /\ ~OuterPrepare(w) /\ ~InnerPrepare(w) => token' = token
         /\ ~CheckShutdown(w) => last_epoch' = last_epoch
BY WalkKeeps DEF WorkerStep, OuterPrepare, CheckShutdown, OuterWait, Enter, LoadJob, Leave,
   TryAcquire, InnerPrepare, CheckDone, IdleInc, InnerWait, IdleDec, poolVars, frameVars

\* Every step of a worker keeps the numbers of the jobs in order.
LEMMA WorkerCreation ==
  ASSUME Typing, CreationInv, NEW w \in Workers, WorkerStep(w)
  PROVE  CreationInv'
<1>0. w \in Threads /\ w \notin Callers /\ w \in Callers \cup Workers
  BY ThreadsAssumption DEF Threads
<1>1. CASE Enter(w) \/ Leave(w) \/ LoadJob(w)
  <2>1. pc'[w] \in {"load", "prepare", "leave", "acquire"} /\ OthersStay(w)
    BY <1>0, <1>1, GotoStays DEF Enter, Leave, LoadJob
  <2>2. UNCHANGED <<shutdown, job_ptr, buffer, live, folds, idle_count>>
    BY <1>1 DEF Enter, Leave, LoadJob, poolVars, frameVars
  <2>3. /\ \A u \in Callers \cup Workers : u # w => job'[u] = job[u]
        /\ job'[w] \in {job[w], NoJob, job_ptr}
    BY <1>0, <1>1 DEF Enter, Leave, LoadJob, Typing
  <2>4. \A c \in Callers : pc'[c] = pc[c] /\ job'[c] = job[c]
    BY <1>0, <2>1, <2>3, CallersStay
  <2>5. FreshInv'
    BY <2>2, <2>3, JobNumbers DEF CreationInv, FreshInv, NoJob
  <2>6. pc'[w] \in CallPcs => job'[w] # NoJob
    BY <1>0, <1>1, <2>1, GotoStays DEF Enter, Leave, LoadJob, Typing, CallPcs, LoopPcs, WalkPcs
  <2>7. CallInv'
    BY <2>1, <2>3, <2>6, OthersRegion DEF CreationInv, CallInv
  <2>8. OwnerInv'
    BY <2>2, <2>4 DEF CreationInv, OwnerInv
  <2> QED
    BY <2>5, <2>7, <2>8 DEF CreationInv
<1>2. CASE ~Enter(w) /\ ~Leave(w) /\ ~LoadJob(w)
  <2>1. Quiet(w) /\ (pc'[w] \in CallPcs => pc[w] \in CallPcs)
    BY <1>2, WorkerQuiet
  <2>2. \A j \in Jobs : j > folds => idle_count'[j] = idle_count[j]
    <3>1. CASE IdleInc(w) \/ IdleDec(w)
      <4>1. job[w] <= folds /\ job[w] \in Nat /\ folds \in Nat
        BY JobNumbers DEF CreationInv, FreshInv
      <4>2. \A j \in Jobs : j > folds => j # job[w]
        BY <4>1 DEF Jobs
      <4> QED
        BY <3>1, <4>2 DEF IdleInc, IdleDec, Typing
    <3> QED
      BY <3>1, WorkerKeeps
  <2>3. CallInv'
    BY <2>1, OthersRegion DEF Quiet, CreationInv, CallInv
  <2> QED
    BY <1>0, <2>1, <2>2, <2>3, QuietFresh, QuietOwner, WorkerKeeps DEF CreationInv
<1> QED
  BY <1>1, <1>2

\* a caller that drops its frame has no job any more
LEMMA DropCreation ==
  ASSUME Typing, CreationInv, NEW c \in Callers, DropFrame(c), Drain(c) \/ UNCHANGED <<job_ptr, buffer>>,
         UNCHANGED <<folds, shutdown>>, OthersStay(c), pc'[c] \in {"idle", "panicked"},
         pc[c] # "finished"
  PROVE  CreationInv'
<1>1. /\ job'[c] = NoJob /\ \A u \in Callers \cup Workers : u # c => job'[u] = job[u]
      /\ live' = live \ {job[c]}
      /\ \A j \in Jobs : idle_count'[j] \in {idle_count[j], 0}
  BY DEF DropFrame, Typing
<1>2. \A j \in Jobs : j > folds => idle_count'[j] = 0
  BY <1>1 DEF CreationInv, FreshInv
<1>3. FreshInv'
  <2>1. NoJob <= folds
    BY JobNumbers DEF NoJob
  <2>2. /\ job_ptr' <= folds
        /\ \A d \in Callers : buffer'[d] # NoStore => buffer'[d] <= folds
    BY DrainFresh DEF CreationInv, FreshInv
  <2> QED
    BY <1>1, <1>2, <2>1, <2>2 DEF CreationInv, FreshInv
<1>4. CallInv'
  BY <1>1, OthersRegion, ThreadsAssumption DEF CreationInv, CallInv
<1>5. \A d \in Callers : d # c => pc'[d] = pc[d]
  BY CallersStay
<1>6. OwnerInv'
  BY <1>1, <1>5 DEF CreationInv, OwnerInv
<1> QED
  BY <1>3, <1>4, <1>6 DEF CreationInv

\* a caller's share of the body leaves the idle count and the flag alone
LEMMA CallerKeeps ==
  ASSUME NEW c \in Callers, CallerQuietStep(c)
  PROVE  UNCHANGED <<idle_count, shutdown, token, last_epoch>>
BY WalkKeeps DEF CallerQuietStep, Bump, WakeAll, Poll, TryAcquire, poolVars, frameVars

\* A new fold takes the next number, and its caller owns it.
LEMMA StartCreation ==
  ASSUME Typing, CreationInv, NEW c \in Callers, StartFold(c)
  PROVE  CreationInv'
<1>0. c \in Threads /\ c \notin Workers
  BY ThreadsAssumption DEF Threads
<1>1. /\ pc[c] = "idle" /\ pc'[c] = "lock" /\ OthersStay(c)
      /\ \A d \in Callers : d # c => pc'[d] = pc[d]
  BY <1>0, GotoStays, CallersStay DEF StartFold
<1>2. /\ job'[c] = folds + 1 /\ \A u \in Callers \cup Workers : u # c => job'[u] = job[u]
      /\ live' = live \cup {folds + 1} /\ folds' = folds + 1
      /\ UNCHANGED <<job_ptr, buffer, shutdown, idle_count>>
  BY DEF StartFold, Typing, poolVars
<1>3. FreshInv'
  <2>1. \A n \in Nat : n <= folds => n <= folds + 1
    BY JobNumbers
  <2>2. 1 .. folds \subseteq 1 .. folds + 1 /\ folds + 1 \in 1 .. folds + 1
    BY JobNumbers
  <2>3. \A j \in Jobs : j > folds + 1 => j > folds
    BY JobNumbers DEF Jobs
  <2>4. live' \subseteq 1 .. folds'
    BY <1>2, <2>2 DEF CreationInv, FreshInv
  <2>5. \A u \in Callers \cup Workers : job'[u] <= folds'
    BY <1>2, <2>1, JobNumbers DEF CreationInv, FreshInv
  <2>6. \A d \in Callers : buffer'[d] # NoStore => buffer'[d] <= folds'
    BY <1>2, <2>1, JobNumbers DEF CreationInv, FreshInv
  <2>7. job_ptr' <= folds' /\ \A j \in Jobs : j > folds' => idle_count'[j] = 0
    BY <1>2, <2>1, <2>3, JobNumbers DEF CreationInv, FreshInv
  <2> QED
    BY <2>4, <2>5, <2>6, <2>7 DEF FreshInv
<1>4. CallInv'
  BY <1>0, <1>1, <1>2, OthersRegion DEF CreationInv, CallInv
<1>5. job[c] = NoJob /\ NoJob \notin live
  BY <1>1 DEF CreationInv, OwnerInv, Typing, NoJob, Jobs
<1>6. OwnerInv'
  BY <1>1, <1>2, <1>5 DEF CreationInv, OwnerInv
<1> QED
  BY <1>3, <1>4, <1>6 DEF CreationInv

\* Every step of a caller keeps the numbers of the jobs in order.
LEMMA CallerCreation ==
  ASSUME Typing, CreationInv, NEW c \in Callers, CallerStep(c)
  PROVE  CreationInv'
<1>0. c \in Threads /\ c \notin Workers
  BY ThreadsAssumption DEF Threads
<1>1. CASE CallerQuietStep(c)
  <2>1. Quiet(c) /\ pc[c] \in PublishedPcs /\ pc'[c] \in PublishedPcs
    BY <1>1, CallerQuiet
  <2>2. CallInv'
    BY <1>0, <2>1, OthersRegion DEF Quiet, CreationInv, CallInv
  <2> QED
    BY <1>1, <2>1, <2>2, QuietFresh, QuietOwner, CallerKeeps DEF CreationInv
<1>2. CASE StartFold(c)
  BY <1>2, StartCreation
<1>3. CASE Return(c) \/ LockPoisoned(c)
  <2>1. pc[c] \in {"drop", "lock"} /\ pc'[c] \in {"idle", "panicked"} /\ OthersStay(c) /\ DropFrame(c)
    BY <1>0, <1>3, GotoStays DEF Return, LockPoisoned
  <2> QED
    BY <1>3, <2>1, DropCreation DEF Return, LockPoisoned, poolVars
<1>4. CASE Finish(c) \/ Lock(c) \/ Publish(c) \/ Seal(c) \/ Latch(c) \/ Unlock(c)
  <2>1. /\ OthersStay(c)
        /\ \/ pc[c] = "idle" /\ pc'[c] = "finished"
           \/ /\ pc[c] \in {"lock", "publish", "seal", "latch", "unlock"}
              /\ pc'[c] \in {"publish", "pub_inc", "latch", "unlock", "drop"}
    BY <1>0, <1>4, GotoStays DEF Finish, Lock, Publish, Seal, Latch, Unlock
  <2>2. UNCHANGED <<shutdown, job, live, folds, idle_count>>
    BY <1>4 DEF Finish, Lock, Publish, Seal, Latch, Unlock, poolVars, frameVars
  <2>3. /\ job_ptr' <= folds
        /\ \A d \in Callers : buffer'[d] # NoStore => buffer'[d] <= folds
    <3>1. CASE Publish(c) \/ Seal(c)
      <4>1. job[c] <= folds /\ NoJob <= folds
        BY JobNumbers DEF CreationInv, FreshInv, NoJob
      <4>2. PICK p \in {job[c], NoJob} : Store(c, p)
        BY <3>1 DEF Publish, Seal
      <4> QED
        BY <4>1, <4>2 DEF Store, CreationInv, FreshInv, Typing
    <3>2. CASE Unlock(c)
      BY <3>2, DrainFresh DEF Unlock, CreationInv
    <3>3. CASE Finish(c) \/ Lock(c) \/ Latch(c)
      BY <3>3 DEF Finish, Lock, Latch, poolVars, CreationInv, FreshInv
    <3> QED
      BY <1>4, <3>1, <3>2, <3>3
  <2>4. FreshInv'
    BY <2>2, <2>3 DEF CreationInv, FreshInv
  <2>5. CallInv'
    BY <1>0, <2>1, <2>2, OthersRegion DEF CreationInv, CallInv
  <2>6. OwnerInv'
    BY <2>1, <2>2, CallersStay DEF CreationInv, OwnerInv
  <2> QED
    BY <2>4, <2>5, <2>6 DEF CreationInv
<1> QED
  BY <1>1, <1>2, <1>3, <1>4 DEF CallerStep, CallerQuietStep

\* Pool::with is quiet, and sets the flag when all calls are over.
LEMMA MainQuiet ==
  ASSUME Typing, MainStep
  PROVE  /\ Quiet(Main) /\ idle_count' = idle_count
         /\ shutdown' => shutdown \/ \A c \in Callers : pc[c] = "finished"
<1>0. Main \in Threads
  BY DEF Threads
<1>1. Quiet(Main)
  BY <1>0, GotoStays, BumpQuiet, WakeAllQuiet
     DEF MainStep, SetShutdown, Join, Quiet, poolVars, frameVars
<1> QED
  BY <1>1 DEF MainStep, SetShutdown, Bump, WakeAll, Join, poolVars, frameVars

\* So does every step of Pool::with.
LEMMA MainCreation ==
  ASSUME Typing, CreationInv, MainStep
  PROVE  CreationInv'
<1>0. Main \in Threads /\ Main \notin Callers /\ Main \notin Workers
  BY ThreadsAssumption DEF Threads
<1>1. /\ Quiet(Main) /\ idle_count' = idle_count
      /\ shutdown' => shutdown \/ \A c \in Callers : pc[c] = "finished"
  BY MainQuiet
<1>4. CallInv'
  BY <1>0, <1>1, OthersRegion DEF Quiet, CreationInv, CallInv
<1>5. \A c \in Callers : pc'[c] = pc[c]
  BY <1>0, <1>1, CallersStay DEF Quiet
<1>6. OwnerInv'
  BY <1>1, <1>5 DEF Quiet, CreationInv, OwnerInv
<1> QED
  BY <1>1, <1>4, <1>6, QuietFresh DEF CreationInv

\* So does the environment.
LEMMA EnvironmentCreation ==
  ASSUME Typing, CreationInv, Environment
  PROVE  CreationInv'
<1>u. ASSUME NEW c \in Callers, Unwind(c), pc[c] # "finished" PROVE CreationInv'
  <2>1. OthersStay(c) /\ pc'[c] = "panicked"
    BY <1>u, UnwindStays DEF Unwind, Typing, Threads
  <2> QED
    BY <1>u, <2>1, DropCreation DEF Unwind
<1>1. ASSUME NEW c \in Callers, Flush(c) PROVE CreationInv'
  BY <1>1, DrainFresh DEF Flush, CreationInv, FreshInv, CallInv, OwnerInv, frameVars, threadVars
<1>2. ASSUME NEW c \in Callers, GiveUp(c) PROVE CreationInv'
  BY <1>2, <1>u DEF GiveUp
<1>3. ASSUME NEW w \in Workers, SpuriousWake(w) PROVE CreationInv'
  <2>1. Quiet(w) /\ w \notin Callers /\ UNCHANGED <<idle_count, shutdown>>
    BY <1>3, ThreadsAssumption DEF SpuriousWake, OthersStay, Quiet, Typing, Threads, poolVars, frameVars
  <2>2. w \in Sleeping /\ pc'[w] = Resume(w)
    BY <1>3 DEF SpuriousWake, Typing, Threads
  <2>3. CallInv'
    BY <2>1, <2>2, ResumeRegion, OthersRegion DEF Quiet, CreationInv, CallInv
  <2> QED
    BY <2>1, <2>3, QuietFresh, QuietOwner DEF CreationInv
<1>4. ASSUME NEW t \in Callers \cup Workers, ClosurePanics(t) PROVE CreationInv'
  <2>1. CASE t \in Callers /\ Unwind(t)
    BY <1>4, <2>1, <1>u DEF ClosurePanics
  <2>2. CASE /\ t \in Workers /\ pc' = [pc EXCEPT ![t] = "dead"]
             /\ UNCHANGED <<poolVars, buffer, frameVars, job, folds>>
    <3>1. pc'[t] = "dead" /\ Quiet(t) /\ t \notin Callers /\ UNCHANGED <<idle_count, shutdown>>
      BY <2>2, ThreadsAssumption DEF OthersStay, Quiet, Typing, Threads, poolVars, frameVars
    <3>2. "dead" \notin CallPcs
      BY DEF CallPcs, LoopPcs, WalkPcs
    <3>3. CallInv'
      BY <3>1, <3>2, OthersRegion DEF Quiet, CreationInv, CallInv
    <3> QED
      BY <3>1, <3>3, QuietFresh, QuietOwner DEF CreationInv
  <2> QED
    BY <1>4, <2>1, <2>2 DEF ClosurePanics
<1> QED
  BY <1>1, <1>2, <1>3, <1>4 DEF Environment

\* The numbers of jobs, the jobs of workers in a call, and the owners of frames.
LEMMA CreationInvariant == Spec => []CreationInv
<1>1. Init => CreationInv
  <2> SUFFICES ASSUME Init PROVE CreationInv
    OBVIOUS
  <2>1. \A c \in Callers : pc[c] = "idle" /\ job[c] = NoJob /\ buffer[c] = NoStore
    BY ThreadsAssumption DEF Init, Threads
  <2>2. \A w \in Workers : pc[w] = "prepare" /\ job[w] = NoJob
    BY ThreadsAssumption DEF Init, Threads
  <2>3. FreshInv
    BY <2>1, <2>2 DEF Init, FreshInv, NoJob
  <2>4. CallInv
    BY <2>2 DEF CallInv, CallPcs, LoopPcs, WalkPcs
  <2> QED
    BY <2>1, <2>3, <2>4 DEF Init, CreationInv, OwnerInv
<1>2. Typing /\ CreationInv /\ [Next]_vars => CreationInv'
  <2> SUFFICES ASSUME Typing, CreationInv, [Next]_vars PROVE CreationInv'
    OBVIOUS
  <2>1. CASE UNCHANGED vars
    BY <2>1 DEF vars, poolVars, frameVars, threadVars, CreationInv, FreshInv, CallInv, OwnerInv
  <2>2. CASE Next
    BY <2>1, <2>2, WorkerCreation, CallerCreation, MainCreation, EnvironmentCreation
       DEF Next, Terminated
  <2> QED
    BY <2>1, <2>2
<1> QED
  BY <1>1, <1>2, TypingInvariant, PTL DEF Spec

-----------------------------------------------------------------------------
(* The count of idle workers.                                                *)

\* the workers that idle_count counts for fold j
Idlers(j) == {w \in Workers : pc[w] \in IdlePcs /\ job[w] = j}

\* The idlers of a fold can be counted.
LEMMA FiniteIdlers ==
  ASSUME NEW j
  PROVE  IsFiniteSet(Idlers(j)) /\ Cardinality(Idlers(j)) \in Nat
<1>1. Idlers(j) \subseteq Workers
  BY DEF Idlers
<1> QED
  BY <1>1, ThreadsAssumption, FS_Subset, FS_CardinalityType

\* IdleCountExact by the name of the set
LEMMA IdleCountNames == IdleCountExact <=> \A j \in live : idle_count[j] = Cardinality(Idlers(j))
BY DEF IdleCountExact, Idlers, IdlePcs

\* A step in which nobody begins or ends to idle.
LEMMA IdleKept ==
  ASSUME IdleCountExact, live' \subseteq live, \A j \in live' : idle_count'[j] = idle_count[j],
         \A w \in Workers : /\ pc'[w] \in IdlePcs <=> pc[w] \in IdlePcs
                            /\ pc[w] \in IdlePcs => job'[w] = job[w]
  PROVE  IdleCountExact'
<1>1. \A j : Idlers(j)' = Idlers(j)
  BY DEF Idlers
<1> QED
  BY <1>1, IdleCountNames DEF IdleCountExact, Idlers, IdlePcs

\* The same of the step of one thread: to be woken is not to stop idling.
LEMMA IdleKeptOne ==
  ASSUME IdleCountExact, live' \subseteq live, \A j \in live' : idle_count'[j] = idle_count[j],
         NEW t, OthersStay(t), \A w \in Workers : w # t => job'[w] = job[w],
         t \in Workers => /\ pc'[t] \in IdlePcs <=> pc[t] \in IdlePcs
                          /\ pc[t] \in IdlePcs => job'[t] = job[t]
  PROVE  IdleCountExact'
<1>1. \A w \in Workers : w # t => (pc'[w] \in IdlePcs <=> pc[w] \in IdlePcs)
  BY Others DEF IdlePcs
<1> QED
  BY <1>1, IdleKept

\* fetch_add counts the worker that begins to idle.
LEMMA IdleIncCount ==
  ASSUME Typing, CreationInv, IdleCountExact, NEW w \in Workers, IdleInc(w)
  PROVE  IdleCountExact'
<1>1. pc[w] = "idle_inc" /\ pc'[w] = "wait" /\ OthersStay(w) /\ job' = job /\ live' = live
  BY GotoStays DEF IdleInc, Threads
<1>0. /\ \A u \in Workers : u # w => (pc'[u] \in IdlePcs <=> pc[u] \in IdlePcs)
      /\ pc[w] \notin IdlePcs /\ pc'[w] \in IdlePcs
  BY <1>1, Others DEF IdlePcs
<1>k. PICK k : k = job[w]
  OBVIOUS
<1>2. /\ w \notin Idlers(k) /\ Idlers(k)' = Idlers(k) \cup {w}
      /\ \A j \in live : j # k => Idlers(j)' = Idlers(j)
  BY <1>0, <1>1, <1>k DEF Idlers
<1>3. Cardinality(Idlers(k)') = Cardinality(Idlers(k)) + 1
  BY <1>2, FiniteIdlers, FS_AddElement
<1>4. k \in live /\ live \subseteq Jobs
  BY <1>k DEF IdleInc, OnLiveFrame, Typing
<1>5. \A j \in live : idle_count'[j] = IF j = k THEN idle_count[j] + 1 ELSE idle_count[j]
  BY <1>4, <1>k DEF IdleInc, Typing
<1>6. \A j \in live' : idle_count'[j] = Cardinality(Idlers(j)')
  BY <1>1, <1>2, <1>3, <1>4, <1>5, IdleCountNames
<1> QED
  BY <1>1, <1>6 DEF IdleCountExact, Idlers, IdlePcs

\* fetch_sub uncounts the worker that has stopped idling.
LEMMA IdleDecCount ==
  ASSUME Typing, CreationInv, IdleCountExact, NEW w \in Workers, IdleDec(w)
  PROVE  IdleCountExact'
<1>1. pc[w] = "awake" /\ pc'[w] = "acquire" /\ OthersStay(w) /\ job' = job /\ live' = live
  BY GotoStays DEF IdleDec, Threads
<1>0. /\ \A u \in Workers : u # w => (pc'[u] \in IdlePcs <=> pc[u] \in IdlePcs)
      /\ pc[w] \in IdlePcs /\ pc'[w] \notin IdlePcs
  BY <1>1, Others DEF IdlePcs
<1>k. PICK k : k = job[w]
  OBVIOUS
<1>2. /\ w \in Idlers(k) /\ Idlers(k)' = Idlers(k) \ {w}
      /\ \A j \in live : j # k => Idlers(j)' = Idlers(j)
  BY <1>0, <1>1, <1>k DEF Idlers
<1>3. Cardinality(Idlers(k)') = Cardinality(Idlers(k)) - 1
  BY <1>2, FiniteIdlers, FS_RemoveElement
<1>4. k \in live /\ live \subseteq Jobs
  BY <1>k DEF IdleDec, OnLiveFrame, Typing
<1>5. \A j \in live : idle_count'[j] = IF j = k THEN idle_count[j] - 1 ELSE idle_count[j]
  BY <1>4, <1>k DEF IdleDec, Typing
<1>6. \A j \in live' : idle_count'[j] = Cardinality(Idlers(j)')
  BY <1>1, <1>2, <1>3, <1>4, <1>5, IdleCountNames
<1> QED
  BY <1>1, <1>6 DEF IdleCountExact, Idlers, IdlePcs

\* a walk is no time to idle
LEMMA WalkNotIdle == WalkPcs \cap IdlePcs = {}
BY DEF WalkPcs, IdlePcs

\* Every step of a worker keeps idle_count exact.
LEMMA WorkerIdle ==
  ASSUME Typing, CreationInv, IdleCountExact, NEW w \in Workers, WorkerStep(w)
  PROVE  IdleCountExact'
<1>0. w \in Threads /\ w \notin Callers /\ w \in Callers \cup Workers
  BY ThreadsAssumption DEF Threads
<1>1. CASE IdleInc(w)
  BY <1>1, IdleIncCount
<1>2. CASE IdleDec(w)
  BY <1>2, IdleDecCount
<1>3. CASE Enter(w) \/ Leave(w) \/ LoadJob(w)
  <2>1. /\ OthersStay(w)
        /\ pc[w] \notin IdlePcs /\ pc'[w] \notin IdlePcs
    BY <1>0, <1>3, GotoStays DEF Enter, Leave, LoadJob, IdlePcs
  <2>2. /\ live' = live /\ idle_count' = idle_count
        /\ \A u \in Workers : u # w => job'[u] = job[u]
    BY <1>3 DEF Enter, Leave, LoadJob, frameVars, Typing
  <2> QED
    BY <2>1, <2>2, IdleKeptOne
<1>4. CASE ~IdleInc(w) /\ ~IdleDec(w) /\ ~Enter(w) /\ ~Leave(w) /\ ~LoadJob(w)
  <2>1. OthersStay(w) /\ job' = job /\ live' = live /\ idle_count' = idle_count
    BY <1>4, WorkerQuiet, WorkerKeeps DEF Quiet
  <2>2. pc'[w] \in IdlePcs <=> pc[w] \in IdlePcs
    <3>1. CASE Walk(w)
      BY <1>0, <3>1, WalkQuiet, WalkNotIdle DEF AfterTask, IdlePcs
    <3>2. CASE CheckShutdown(w)
      BY <1>0, <3>2, GotoStays DEF CheckShutdown, IdlePcs, Typing
    <3>3. CASE TryAcquire(w, "acquire", "in_prepare") \/ TryAcquire(w, "acquire2", "idle_inc")
      BY <1>0, <3>3, GotoStays DEF TryAcquire, IdlePcs
    <3>4. CASE OuterPrepare(w) \/ OuterWait(w) \/ InnerPrepare(w) \/ CheckDone(w) \/ InnerWait(w)
      BY <1>0, <3>4, GotoStays DEF OuterPrepare, OuterWait, InnerPrepare, CheckDone, InnerWait, IdlePcs
    <3> QED
      BY <1>4, <3>1, <3>2, <3>3, <3>4 DEF WorkerStep
  <2> QED
    BY <2>1, <2>2, IdleKeptOne
<1> QED
  BY <1>1, <1>2, <1>3, <1>4

\* A fold begins with nobody idle in it, and a frame is dropped with its count.
LEMMA CallerIdle ==
  ASSUME Typing, CreationInv, IdleCountExact, NEW c \in Callers, CallerStep(c)
  PROVE  IdleCountExact'
<1>0. c \in Threads /\ c \notin Workers
  BY ThreadsAssumption DEF Threads
<1>1. CASE CallerQuietStep(c)
  BY <1>0, <1>1, CallerQuiet, CallerKeeps, IdleKeptOne DEF Quiet
<1>2. CASE StartFold(c)
  <2>1. OthersStay(c) /\ folds < MaxFolds
    BY <1>0, <1>2, GotoStays DEF StartFold
  <2>2. /\ \A w \in Workers : job'[w] = job[w]
        /\ live' = live \cup {folds + 1} /\ idle_count' = idle_count
    BY <1>0, <1>2 DEF StartFold, Typing
  <2>3. \A j : Idlers(j)' = Idlers(j)
    BY <1>0, <2>1, <2>2, Others DEF Idlers, IdlePcs
  <2>4. Idlers(folds + 1) = {}
    BY JobNumbers DEF CreationInv, FreshInv, Idlers
  <2>5. idle_count[folds + 1] = 0
    BY <2>1, JobNumbers, BoundsAssumption DEF CreationInv, FreshInv, Jobs
  <2>6. \A j \in live' : idle_count'[j] = Cardinality(Idlers(j)')
    BY <2>2, <2>3, <2>4, <2>5, IdleCountNames, FS_EmptySet
  <2> QED
    BY <2>6 DEF IdleCountExact, Idlers, IdlePcs
<1>3. CASE Return(c) \/ LockPoisoned(c)
  <2>1. OthersStay(c) /\ DropFrame(c)
    BY <1>0, <1>3, GotoStays DEF Return, LockPoisoned
  <2> QED
    BY <1>0, <2>1, IdleKeptOne DEF DropFrame, Typing
<1>4. CASE Finish(c) \/ Lock(c) \/ Publish(c) \/ Seal(c) \/ Latch(c) \/ Unlock(c)
  <2>1. OthersStay(c)
    BY <1>0, <1>4, GotoStays DEF Finish, Lock, Publish, Seal, Latch, Unlock
  <2>2. UNCHANGED <<job, live, idle_count>>
    BY <1>4 DEF Finish, Lock, Publish, Seal, Latch, Unlock, frameVars
  <2> QED
    BY <1>0, <2>1, <2>2, IdleKeptOne
<1> QED
  BY <1>1, <1>2, <1>3, <1>4 DEF CallerStep, CallerQuietStep

\* Pool::with and the environment leave idle_count exact.
LEMMA OtherIdle ==
  ASSUME Typing, CreationInv, IdleCountExact, MainStep \/ Environment
  PROVE  IdleCountExact'
<1>0. Main \in Threads /\ Main \notin Workers
  BY ThreadsAssumption DEF Threads
<1>u. ASSUME NEW c \in Callers, Unwind(c) PROVE IdleCountExact'
  BY <1>u, UnwindStays, IdleKeptOne, ThreadsAssumption DEF Unwind, DropFrame, Typing
<1>1. CASE MainStep
  <2>1. OthersStay(Main) /\ UNCHANGED <<job, live, idle_count>>
    BY <1>1, MainQuiet DEF Quiet
  <2> QED
    BY <1>0, <2>1, IdleKeptOne
<1>2. ASSUME NEW c \in Callers, Flush(c) PROVE IdleCountExact'
  BY <1>2, IdleKept DEF Flush, frameVars, threadVars
<1>3. ASSUME NEW c \in Callers, GiveUp(c) PROVE IdleCountExact'
  BY <1>3, <1>u DEF GiveUp
<1>4. ASSUME NEW w \in Workers, SpuriousWake(w) PROVE IdleCountExact'
  BY <1>4, IdleKept DEF SpuriousWake, Sleeping, Resume, IdlePcs, Typing, Threads, frameVars
<1>5. ASSUME NEW t \in Callers \cup Workers, ClosurePanics(t) PROVE IdleCountExact'
  <2>1. CASE t \in Callers /\ Unwind(t)
    BY <2>1, <1>u
  <2>2. CASE t \in Workers /\ pc[t] = "walk" /\ pc' = [pc EXCEPT ![t] = "dead"] /\ UNCHANGED <<frameVars, job>>
    BY <2>2, IdleKept DEF IdlePcs, Typing, Threads, frameVars
  <2> QED
    BY <1>5, <2>1, <2>2 DEF ClosurePanics
<1> QED
  BY <1>1, <1>2, <1>3, <1>4, <1>5 DEF Environment

(* idle_count is exactly the number of workers between its fetch_add and its *)
(* fetch_sub, in every live fold, under every memory model and with every    *)
(* kind of panic, whoever is woken by whom.                                  *)
THEOREM IdleCountIsExact == Spec => []IdleCountExact
<1>1. Init => IdleCountExact
  BY DEF Init, IdleCountExact
<1>2. Typing /\ CreationInv /\ IdleCountExact /\ [Next]_vars => IdleCountExact'
  <2> SUFFICES ASSUME Typing, CreationInv, IdleCountExact, [Next]_vars PROVE IdleCountExact'
    OBVIOUS
  <2>1. CASE UNCHANGED vars
    BY <2>1, IdleKept DEF vars, poolVars, frameVars, threadVars
  <2>2. CASE Next
    BY <2>1, <2>2, WorkerIdle, CallerIdle, OtherIdle DEF Next, Terminated
  <2> QED
    BY <2>1, <2>2
<1> QED
  BY <1>1, <1>2, TypingInvariant, CreationInvariant, PTL DEF Spec

-----------------------------------------------------------------------------
(* The event count. Its epoch is 32 bits wide in the code; what follows is    *)
(* about runs of a pool in which it does not wrap around.                     *)

\* the next fetch_add does not wrap
EpochFits == epoch + 1 < EpochModulus

\* no worker has seen an epoch that is still to come
EpochInv == \A w \in Workers : token[w] <= epoch /\ last_epoch[w] <= epoch

\* The epochs are numbers.
LEMMA EpochNumbers ==
  ASSUME Typing
  PROVE  epoch \in Nat /\ \A w \in Workers : token[w] \in Nat /\ last_epoch[w] \in Nat
<1>1. 0 .. EpochModulus - 1 \subseteq Nat
  BY BoundsAssumption
<1> QED
  BY <1>1 DEF Typing

\* A notification moves the epoch one up.
LEMMA BumpEpoch ==
  ASSUME Typing, EpochFits, NEW t, NEW f, NEW x, Bump(t, f, x)
  PROVE  epoch' = epoch + 1 /\ UNCHANGED <<token, last_epoch, fold_done, shutdown, job, root_done>>
<1>1. \A e \in Nat : e + 1 < EpochModulus => (e + 1) % EpochModulus = e + 1
  BY BoundsAssumption
<1> QED
  BY <1>1, EpochNumbers DEF Bump, EpochFits, frameVars

\* A walk leaves the epoch alone or moves it one up.
LEMMA WalkEpoch ==
  ASSUME Typing, EpochFits, NEW t, Walk(t)
  PROVE  epoch' \in {epoch, epoch + 1}
<1>1. CASE Bump(t, "one_inc", "one_wake") \/ Bump(t, "done_inc", "done_wake")
  BY <1>1, BumpEpoch
<1>2. CASE ~Bump(t, "one_inc", "one_wake") /\ ~Bump(t, "done_inc", "done_wake")
  BY <1>2 DEF Walk, PushTask, CheckIdle, WakeOne, DeliverResult, SetRootCell, SetFoldDone, WakeAll, poolVars
<1> QED
  BY <1>1, <1>2

\* No step moves the epoch back.
LEMMA EpochGrows ==
  ASSUME Typing, EpochFits, [Next]_vars
  PROVE  epoch' \in {epoch, epoch + 1}
<1>1. ASSUME NEW w \in Workers, WorkerStep(w) PROVE epoch' \in {epoch, epoch + 1}
  BY <1>1, WalkEpoch DEF WorkerStep, OuterPrepare, CheckShutdown, OuterWait, Enter, LoadJob, Leave,
     TryAcquire, InnerPrepare, CheckDone, IdleInc, InnerWait, IdleDec, poolVars
<1>2. ASSUME NEW c \in Callers, CallerStep(c) PROVE epoch' \in {epoch, epoch + 1}
  <2>1. CASE Bump(c, "pub_inc", "pub_wake")
    BY <2>1, BumpEpoch
  <2>2. CASE ~Bump(c, "pub_inc", "pub_wake")
    BY <1>2, <2>2, WalkEpoch DEF CallerStep, StartFold, Finish, Lock, LockPoisoned, Publish, WakeAll,
       Poll, TryAcquire, Seal, Latch, Unlock, Return, poolVars
  <2> QED
    BY <2>1, <2>2
<1>3. CASE MainStep
  BY <1>3, BumpEpoch DEF MainStep, SetShutdown, WakeAll, Join, poolVars
<1>4. CASE Environment
  BY <1>4 DEF Environment, Flush, GiveUp, SpuriousWake, ClosurePanics, Unwind, poolVars
<1>5. CASE UNCHANGED vars
  BY <1>5 DEF vars, poolVars
<1> QED
  BY <1>1, <1>2, <1>3, <1>4, <1>5 DEF Next, Terminated

\* Only a worker changes its token and its last epoch, and only to epochs it reads.
LEMMA TokensKept ==
  ASSUME Typing, [Next]_vars
  PROVE  \/ UNCHANGED <<token, last_epoch>>
         \/ \E w \in Workers :
              \/ (OuterPrepare(w) \/ InnerPrepare(w)) /\ UNCHANGED last_epoch
              \/ CheckShutdown(w) /\ UNCHANGED token
<1>1. ASSUME NEW w \in Workers, WorkerStep(w)
      PROVE  \/ UNCHANGED <<token, last_epoch>>
             \/ (OuterPrepare(w) \/ InnerPrepare(w)) /\ UNCHANGED last_epoch
             \/ CheckShutdown(w) /\ UNCHANGED token
  <2>1. CASE OuterPrepare(w) \/ InnerPrepare(w)
    BY <2>1 DEF OuterPrepare, InnerPrepare
  <2>2. CASE CheckShutdown(w)
    BY <2>2 DEF CheckShutdown
  <2> QED
    BY <1>1, <2>1, <2>2, WorkerKeeps
<1>2. ASSUME NEW c \in Callers, CallerStep(c) PROVE UNCHANGED <<token, last_epoch>>
  BY <1>2, WalkKeeps DEF CallerStep, Bump, StartFold, Finish, Lock, LockPoisoned, Publish, WakeAll,
     Poll, TryAcquire, Seal, Latch, Unlock, Return
<1>3. CASE MainStep
  BY <1>3 DEF MainStep, Bump, SetShutdown, WakeAll, Join
<1>4. CASE Environment
  BY <1>4 DEF Environment, Flush, GiveUp, SpuriousWake, ClosurePanics, Unwind, threadVars
<1>5. CASE UNCHANGED vars
  BY <1>5 DEF vars, threadVars
<1> QED
  BY <1>1, <1>2, <1>3, <1>4, <1>5 DEF Next, Terminated

\* No worker has seen an epoch that is still to come.
LEMMA EpochInvariant == Spec /\ []EpochFits => []EpochInv
<1>1. Init => EpochInv
  BY BoundsAssumption DEF Init, EpochInv
<1>2. Typing /\ EpochFits /\ EpochInv /\ [Next]_vars => EpochInv'
  <2> SUFFICES ASSUME Typing, EpochFits, EpochInv, [Next]_vars, NEW w \in Workers
               PROVE  token'[w] <= epoch' /\ last_epoch'[w] <= epoch'
    BY DEF EpochInv
  <2>1. epoch \in Nat /\ token[w] \in Nat /\ last_epoch[w] \in Nat /\ epoch' \in {epoch, epoch + 1}
    BY EpochNumbers, EpochGrows
  <2>2. token[w] <= epoch /\ last_epoch[w] <= epoch
    BY DEF EpochInv
  <2>3. CASE UNCHANGED <<token, last_epoch>>
    BY <2>1, <2>2, <2>3
  <2>4. CASE ~UNCHANGED <<token, last_epoch>>
    <3>1. PICK u \in Workers : \/ (OuterPrepare(u) \/ InnerPrepare(u)) /\ UNCHANGED last_epoch
                               \/ CheckShutdown(u) /\ UNCHANGED token
      BY <2>4, TokensKept
    <3>2. token'[w] \in {token[w], epoch} /\ last_epoch'[w] \in {last_epoch[w], token[w]}
      BY <3>1 DEF OuterPrepare, InnerPrepare, Prepare, CheckShutdown, Typing
    <3> QED
      BY <2>1, <2>2, <3>2
  <2> QED
    BY <2>3, <2>4
<1> QED
  BY <1>1, <1>2, TypingInvariant, PTL DEF Spec

-----------------------------------------------------------------------------
(* The end of a fold and the end of the pool: whoever decides to wait has     *)
(* taken its token before it looked, so it either does not sleep or is woken. *)

\* worker_loop found the fold unfinished and is on its way into the wait
DecidedPcs == {"acquire2", "idle_inc", "wait"}
\* a thread that has set the flag a sleeper waits for, and is yet to wake it
WakerPcs == {"done_inc", "done_wake", "stop_inc", "stop_wake"}

\* fold_done of j is set, its epoch is not counted up yet
DoneComing(j) == \E t \in Callers \cup Workers : pc[t] = "done_inc" /\ job[t] = j
\* fold_done of j is set, its notify_all has not ended yet
DoneWaking(j) == \E t \in Callers \cup Workers : pc[t] \in {"done_inc", "done_wake"} /\ job[t] = j

\* a worker that has decided to wait holds an old token, or one that gets old
DoneInv ==
  \A w \in Workers :
    /\ pc[w] \in DecidedPcs /\ fold_done[job[w]] => token[w] < epoch \/ DoneComing(job[w])
    /\ pc[w] = "asleep" /\ fold_done[job[w]] => DoneWaking(job[w])

\* the same of both waits at the shutdown of the pool
StopInv ==
  shutdown =>
    /\ \A w \in Workers : pc[w] \in DecidedPcs \cup {"outer_wait"} =>
         token[w] < epoch \/ pc[Main] = "stop_inc"
    /\ Sleeping # {} => pc[Main] \in {"stop_inc", "stop_wake"}

\* what the threads that a worker does not see may do to what it waits for
World ==
  /\ epoch' \in {epoch, epoch + 1}
  /\ \A j \in Jobs : fold_done'[j] => fold_done[j] \/ DoneComing(j)'
  /\ \A j \in Jobs : DoneComing(j) => DoneComing(j)' \/ epoch' = epoch + 1
  /\ \A j \in Jobs : DoneWaking(j) => DoneWaking(j)' \/ Sleeping' = {}
  /\ shutdown' => shutdown \/ pc'[Main] = "stop_inc"
  /\ pc[Main] = "stop_inc" => pc'[Main] = "stop_inc" \/ epoch' = epoch + 1
  /\ pc[Main] \in {"stop_inc", "stop_wake"} => pc'[Main] \in {"stop_inc", "stop_wake"} \/ Sleeping' = {}

\* how a worker gets to its waits: on a token that was current when it looked
Own(w) ==
  /\ pc'[w] \in DecidedPcs =>
       \/ pc[w] \in DecidedPcs /\ job'[w] = job[w] /\ token'[w] = token[w]
       \/ ~fold_done'[job'[w]] /\ ~shutdown'
  /\ pc'[w] = "asleep" =>
       \/ pc[w] = "asleep" /\ job'[w] = job[w]
       \/ pc[w] = "wait" /\ job'[w] = job[w] /\ token[w] = epoch /\ epoch' = epoch
  /\ pc'[w] = "outer_wait" =>
       \/ pc[w] = "outer_wait" /\ token'[w] = token[w]
       \/ ~shutdown'
  /\ pc'[w] = "parked" =>
       \/ pc[w] = "parked"
       \/ pc[w] = "outer_wait" /\ token[w] = epoch /\ epoch' = epoch

\* Whoever waits is told, as long as every worker gets to its waits that way.
LEMMA ToldOfEnd ==
  ASSUME Typing, CallInv, CallInv', Typing', EpochInv, DoneInv, StopInv, World, \A w \in Workers : Own(w)
  PROVE  DoneInv' /\ StopInv'
<1>n. epoch \in Nat /\ \A w \in Workers : token[w] \in Nat
  BY EpochNumbers
<1>j. /\ \A w \in Workers : pc[w] \in CallPcs => job[w] \in Jobs
      /\ DecidedPcs \cup {"asleep"} \subseteq CallPcs
  BY DEF CallInv, Typing, JobPtrs, DecidedPcs, CallPcs, LoopPcs
<1>1. ASSUME NEW w \in Workers, pc'[w] \in DecidedPcs, fold_done'[job'[w]]
      PROVE  token'[w] < epoch' \/ DoneComing(job[w])'
  <2>1. pc[w] \in DecidedPcs /\ job'[w] = job[w] /\ token'[w] = token[w]
    BY <1>1 DEF Own
  <2>2. job[w] \in Jobs
    BY <1>j, <2>1
  <2>3. token[w] <= epoch
    BY DEF EpochInv
  <2>4. PICK k \in Jobs : k = job[w]
    BY <2>2
  <2>5. fold_done[k] \/ DoneComing(k)'
    BY <1>1, <2>1, <2>4 DEF World
  <2>6. CASE DoneComing(k)'
    BY <2>1, <2>4, <2>6 DEF DoneComing
  <2>7. CASE fold_done[k] /\ ~DoneComing(k)'
    <3>1. token[w] < epoch \/ DoneComing(k)
      BY <2>1, <2>4, <2>7 DEF DoneInv, DoneComing
    <3> QED
      BY <1>n, <2>1, <2>3, <2>7, <3>1 DEF World
  <2> QED
    BY <2>5, <2>6, <2>7
<1>2. ASSUME NEW w \in Workers, pc'[w] = "asleep", fold_done'[job'[w]]
      PROVE  DoneWaking(job[w])'
  <2>1. job'[w] = job[w] /\ (pc[w] = "asleep" \/ (pc[w] = "wait" /\ token[w] = epoch /\ epoch' = epoch))
    BY <1>2 DEF Own
  <2>2. job[w] \in Jobs
    BY <1>j, <2>1 DEF DecidedPcs
  <2>4. PICK k \in Jobs : k = job[w]
    BY <2>2
  <2>5. fold_done[k] \/ DoneComing(k)'
    BY <1>2, <2>1, <2>4 DEF World
  <2>6. DoneComing(k)' => DoneWaking(job[w])'
    BY <2>1, <2>4 DEF DoneComing, DoneWaking
  <2>7. DoneWaking(k)' => DoneWaking(job[w])'
    BY <2>1, <2>4 DEF DoneWaking
  <2>8. CASE fold_done[k] /\ pc[w] = "asleep"
    <3>1. DoneWaking(k)
      BY <2>4, <2>8 DEF DoneInv, DoneWaking
    <3>2. w \in Sleeping'
      BY <1>2 DEF Sleeping
    <3> QED
      BY <2>7, <3>1, <3>2 DEF World
  <2>9. CASE fold_done[k] /\ pc[w] = "wait" /\ token[w] = epoch /\ epoch' = epoch
    <3>1. DoneComing(k)
      BY <1>n, <2>4, <2>9 DEF DoneInv, DoneComing, DecidedPcs
    <3> QED
      BY <1>n, <2>6, <2>9, <3>1 DEF World
  <2> QED
    BY <2>1, <2>5, <2>6, <2>8, <2>9
<1>3. ASSUME shutdown', NEW w \in Workers, pc'[w] \in DecidedPcs \cup {"outer_wait"}
      PROVE  token'[w] < epoch' \/ pc'[Main] = "stop_inc"
  <2>1. pc[w] \in DecidedPcs \cup {"outer_wait"} /\ token'[w] = token[w]
    BY <1>3 DEF Own
  <2>2. token[w] <= epoch
    BY DEF EpochInv
  <2>3. shutdown \/ pc'[Main] = "stop_inc"
    BY <1>3 DEF World
  <2>4. CASE shutdown
    <3>1. token[w] < epoch \/ pc[Main] = "stop_inc"
      BY <2>1, <2>4 DEF StopInv
    <3> QED
      BY <1>n, <2>1, <2>2, <3>1 DEF World
  <2> QED
    BY <2>3, <2>4
<1>4. ASSUME shutdown', Sleeping' # {} PROVE pc'[Main] \in {"stop_inc", "stop_wake"}
  <2>1. PICK w \in Workers : pc'[w] \in {"parked", "asleep"}
    BY <1>4 DEF Sleeping
  <2>3. shutdown \/ pc'[Main] = "stop_inc"
    BY <1>4 DEF World
  <2>4. CASE shutdown /\ pc[w] \in {"parked", "asleep"}
    BY <1>4, <2>4 DEF StopInv, Sleeping, World
  <2>5. CASE shutdown /\ pc[w] \in {"wait", "outer_wait"} /\ token[w] = epoch /\ epoch' = epoch
    BY <1>n, <1>4, <2>5 DEF StopInv, DecidedPcs, World
  <2> QED
    BY <2>1, <2>3, <2>4, <2>5 DEF Own
<1> QED
  BY <1>1, <1>2, <1>3, <1>4 DEF DoneInv, StopInv

\* A step of a thread that is waking nobody up.
LEMMA WorldOne ==
  ASSUME NEW t, OthersStay(t), \A u \in Callers \cup Workers : u # t => job'[u] = job[u],
         pc[t] \notin WakerPcs, epoch' \in {epoch, epoch + 1}, shutdown' => shutdown,
         \A j \in Jobs : fold_done'[j] => fold_done[j]
  PROVE  World
<1>1. \A u \in Threads : pc[u] \in WakerPcs => u # t /\ pc'[u] = pc[u]
  BY DEF OthersStay, Sleeping, WakerPcs
<1>2. \A u \in Callers \cup Workers : pc[u] \in WakerPcs => pc'[u] = pc[u] /\ job'[u] = job[u]
  BY <1>1 DEF Threads
<1>3. pc[Main] \in WakerPcs => pc'[Main] = pc[Main]
  BY <1>1 DEF Threads
<1>4. \A j : (DoneComing(j) => DoneComing(j)') /\ (DoneWaking(j) => DoneWaking(j)')
  BY <1>2 DEF DoneComing, DoneWaking, WakerPcs
<1> QED
  BY <1>3, <1>4 DEF World, WakerPcs

\* A fetch_add moves the epoch; whoever has done it is still to call the futex.
LEMMA WorldBump ==
  ASSUME Typing, EpochFits, NEW t \in Threads, NEW f, NEW x, Bump(t, f, x),
         f = "done_inc" => x = "done_wake",
         f = "stop_inc" => x = "stop_wake", f \notin {"done_wake", "stop_wake"}
  PROVE  World
<1>1. pc[t] = f /\ pc'[t] = x /\ \A u \in Threads : u # t => pc'[u] = pc[u]
  BY DEF Bump, Goto, Typing
<1>2. epoch' = epoch + 1 /\ UNCHANGED <<fold_done, shutdown, job>>
  BY BumpEpoch
<1>3. \A j : DoneWaking(j) => DoneWaking(j)'
  BY <1>1, <1>2 DEF DoneWaking, Threads
<1>4. pc[Main] \in {"stop_inc", "stop_wake"} => pc'[Main] \in {"stop_inc", "stop_wake"}
  BY <1>1 DEF Threads
<1> QED
  BY <1>2, <1>3, <1>4 DEF World

\* A notify_all leaves nobody asleep.
LEMMA WorldWake ==
  ASSUME Typing, NEW t \in Threads, NEW f, NEW x, WakeAll(t, f, x),
         f \notin {"done_inc", "stop_inc"}, x \notin {"parked", "asleep"}
  PROVE  World
<1>1. /\ pc[t] = f /\ pc'[t] = x
      /\ \A u \in Threads : u # t => pc'[u] = IF u \in Sleeping THEN Resume(u) ELSE pc[u]
      /\ UNCHANGED <<epoch, fold_done, shutdown, job>>
  BY DEF WakeAll, Typing, poolVars, frameVars
<1>2. Sleeping' = {}
  BY <1>1 DEF Sleeping, Resume, Threads
<1>3. \A j : DoneComing(j) => DoneComing(j)'
  BY <1>1 DEF DoneComing, Sleeping, Threads
<1>4. pc[Main] = "stop_inc" => pc'[Main] = "stop_inc"
  BY <1>1, ThreadsAssumption DEF Sleeping, Threads
<1> QED
  BY <1>1, <1>2, <1>3, <1>4 DEF World

\* a thread that sets a flag is on its way to wake the others up
LEMMA WorldDone ==
  ASSUME Typing, NEW t \in Callers \cup Workers, SetFoldDone(t)
  PROVE  World
<1>0. t \in Threads
  BY DEF Threads
<1>1. /\ pc[t] = "set_done" /\ pc'[t] = "done_inc" /\ \A u \in Threads : u # t => pc'[u] = pc[u]
      /\ UNCHANGED <<epoch, shutdown, job>>
      /\ \A j \in Jobs : j # job[t] => fold_done'[j] = fold_done[j]
  BY <1>0 DEF SetFoldDone, Goto, Typing, poolVars
<1>2. DoneComing(job[t])'
  BY <1>1 DEF DoneComing
<1>3. \A j : (DoneComing(j) => DoneComing(j)') /\ (DoneWaking(j) => DoneWaking(j)')
  BY <1>1 DEF DoneComing, DoneWaking, Threads
<1>4. pc'[Main] = pc[Main]
  BY <1>1, ThreadsAssumption DEF Threads
<1>5. \A j \in Jobs : fold_done'[j] => fold_done[j] \/ DoneComing(j)'
  BY <1>1, <1>2 DEF DoneComing
<1> QED
  BY <1>1, <1>3, <1>4, <1>5 DEF World

\* A walk sets fold_done before it wakes.
LEMMA WorldWalk ==
  ASSUME Typing, EpochFits, NEW t \in Callers \cup Workers, Walk(t)
  PROVE  World
<1>0. t \in Threads
  BY DEF Threads
<1>1. CASE Bump(t, "one_inc", "one_wake") \/ Bump(t, "done_inc", "done_wake")
  BY <1>0, <1>1, WorldBump
<1>2. CASE WakeAll(t, "done_wake", AfterTask(t))
  BY <1>0, <1>2, WorldWake DEF AfterTask
<1>3. CASE SetFoldDone(t)
  BY <1>3, WorldDone
<1>4. CASE PushTask(t) \/ CheckIdle(t) \/ WakeOne(t) \/ DeliverResult(t) \/ SetRootCell(t)
  <2>1. OthersStay(t)
    BY <1>4, WalkQuiet DEF Quiet, Walk
  <2>2. pc[t] \in {"walk", "idle_check", "one_wake", "set_cell"}
    BY <1>4 DEF PushTask, CheckIdle, WakeOne, DeliverResult, SetRootCell, Goto
  <2>3. UNCHANGED <<epoch, shutdown, job, fold_done>>
    BY <1>4 DEF PushTask, CheckIdle, WakeOne, DeliverResult, SetRootCell, poolVars, frameVars
  <2> QED
    BY <2>1, <2>2, <2>3, WorldOne DEF WakerPcs
<1> QED
  BY <1>1, <1>2, <1>3, <1>4 DEF Walk

\* what a drop of a frame does to the flags of the end
LEMMA DropWorld ==
  ASSUME Typing, NEW c \in Callers, DropFrame(c)
  PROVE  /\ \A u \in Callers \cup Workers : u # c => job'[u] = job[u]
         /\ \A j \in Jobs : fold_done'[j] => fold_done[j]
BY DEF DropFrame, Typing

\* Every step treats the sleepers like that.
LEMMA WorldHolds ==
  ASSUME Typing, EpochFits, [Next]_vars
  PROVE  World
<1>1. ASSUME NEW w \in Workers, WorkerStep(w) PROVE World
  <2>1. CASE Walk(w)
    BY <2>1, WorldWalk
  <2>2. CASE ~Walk(w)
    <3>0. w \in Threads
      BY DEF Threads
    <3>1. /\ pc[w] \in OuterPcs \cup LoopPcs \cup {"load", "leave"}
          /\ UNCHANGED <<epoch, shutdown, fold_done>>
      BY <1>1, <2>2 DEF WorkerStep, OuterPrepare, CheckShutdown, OuterWait, Enter, LoadJob, Leave, Goto,
         TryAcquire, InnerPrepare, CheckDone, IdleInc, InnerWait, IdleDec, poolVars, frameVars, OuterPcs, LoopPcs
    <3>2. OthersStay(w) /\ \A u \in Callers \cup Workers : u # w => job'[u] = job[u]
      <4>1. CASE Enter(w) \/ LoadJob(w) \/ Leave(w)
        BY <3>0, <4>1, GotoStays DEF Enter, LoadJob, Leave, Typing
      <4>2. CASE ~Enter(w) /\ ~LoadJob(w) /\ ~Leave(w)
        BY <1>1, <4>2, WorkerQuiet DEF Quiet
      <4> QED
        BY <4>1, <4>2
    <3>3. pc[w] \notin WakerPcs
      BY <3>1 DEF OuterPcs, LoopPcs, WakerPcs
    <3> QED
      BY <3>1, <3>2, <3>3, WorldOne
  <2> QED
    BY <2>1, <2>2
<1>2. ASSUME NEW c \in Callers, CallerStep(c) PROVE World
  <2>0. c \in Threads
    BY DEF Threads
  <2>1. CASE Walk(c)
    BY <2>1, WorldWalk
  <2>2. CASE Bump(c, "pub_inc", "pub_wake")
    BY <2>0, <2>2, WorldBump
  <2>3. CASE WakeAll(c, "pub_wake", "walk")
    BY <2>0, <2>3, WorldWake
  <2>4. CASE Return(c) \/ LockPoisoned(c)
    <3>1. OthersStay(c) /\ pc[c] \in {"drop", "lock"} /\ DropFrame(c) /\ UNCHANGED <<epoch, shutdown>>
      BY <2>0, <2>4, GotoStays DEF Return, LockPoisoned, poolVars
    <3> QED
      BY <3>1, DropWorld, WorldOne DEF WakerPcs
  <2>5. CASE \/ StartFold(c) \/ Finish(c) \/ Lock(c) \/ Publish(c) \/ Poll(c)
             \/ TryAcquire(c, "poll_acquire", "poll") \/ Seal(c) \/ Latch(c) \/ Unlock(c)
    <3>1. OthersStay(c) /\ pc[c] \in {"idle", "lock", "publish", "poll", "poll_acquire", "seal", "latch", "unlock"}
      BY <2>0, <2>5, GotoStays DEF StartFold, Finish, Lock, Publish, Poll, TryAcquire, Seal, Latch, Unlock
    <3>2. UNCHANGED <<epoch, shutdown, fold_done>>
      BY <2>5 DEF StartFold, Finish, Lock, Publish, Poll, TryAcquire, Seal, Latch, Unlock, poolVars, frameVars
    <3>3. \A u \in Callers \cup Workers : u # c => job'[u] = job[u]
      BY <2>5 DEF StartFold, Finish, Lock, Publish, Poll, TryAcquire, Seal, Latch, Unlock, Typing
    <3> QED
      BY <3>1, <3>2, <3>3, WorldOne DEF WakerPcs
  <2> QED
    BY <1>2, <2>1, <2>2, <2>3, <2>4, <2>5 DEF CallerStep
<1>3. CASE MainStep
  <2>0. Main \in Threads
    BY DEF Threads
  <2>1. CASE Bump(Main, "stop_inc", "stop_wake")
    BY <2>0, <2>1, WorldBump
  <2>2. CASE WakeAll(Main, "stop_wake", "join")
    BY <2>0, <2>2, WorldWake
  <2>3. CASE SetShutdown
    <3>1. pc[Main] = "run" /\ pc'[Main] = "stop_inc" /\ \A u \in Threads : u # Main => pc'[u] = pc[u]
      BY <2>0, <2>3 DEF SetShutdown, Goto, Typing
    <3>2. UNCHANGED <<epoch, job, fold_done>>
      BY <2>3 DEF SetShutdown, frameVars
    <3>3. \A j : (DoneComing(j) => DoneComing(j)') /\ (DoneWaking(j) => DoneWaking(j)')
      BY <3>1, <3>2, ThreadsAssumption DEF DoneComing, DoneWaking, Threads
    <3> QED
      BY <3>1, <3>2, <3>3 DEF World
  <2>4. CASE Join
    BY <2>0, <2>4, GotoStays, WorldOne DEF Join, WakerPcs, poolVars, frameVars
  <2> QED
    BY <1>3, <2>1, <2>2, <2>3, <2>4 DEF MainStep
<1>u. ASSUME NEW c \in Callers, Unwind(c), pc[c] \notin WakerPcs PROVE World
  BY <1>u, UnwindStays, DropWorld, WorldOne DEF Unwind
<1>4. ASSUME NEW c \in Callers, Flush(c) PROVE World
  BY <1>4 DEF Flush, World, DoneComing, DoneWaking, frameVars, threadVars
<1>5. ASSUME NEW c \in Callers, GiveUp(c) PROVE World
  BY <1>5, <1>u DEF GiveUp, WakerPcs
<1>6. ASSUME NEW w \in Workers, SpuriousWake(w) PROVE World
  BY <1>6, WorldOne DEF SpuriousWake, OthersStay, Sleeping, WakerPcs, Typing, Threads, poolVars, frameVars
<1>7. ASSUME NEW t \in Callers \cup Workers, ClosurePanics(t) PROVE World
  <2>1. CASE t \in Callers /\ Unwind(t)
    BY <1>7, <2>1, <1>u DEF ClosurePanics, WakerPcs
  <2>2. CASE t \in Workers /\ pc[t] = "walk" /\ pc' = [pc EXCEPT ![t] = "dead"] /\ UNCHANGED <<poolVars, frameVars, job>>
    BY <2>2, WorldOne DEF OthersStay, WakerPcs, Typing, Threads, poolVars, frameVars
  <2> QED
    BY <1>7, <2>1, <2>2 DEF ClosurePanics
<1>8. CASE UNCHANGED vars
  BY <1>8 DEF vars, poolVars, frameVars, threadVars, World, DoneComing, DoneWaking
<1> QED
  BY <1>1, <1>2, <1>3, <1>4, <1>5, <1>6, <1>7, <1>8 DEF Next, Environment, Terminated

\* A worker that is not the one to move.
LEMMA OwnOther ==
  ASSUME NEW t, OthersStay(t), NEW w \in Workers, w # t, job'[w] = job[w], token'[w] = token[w]
  PROVE  Own(w)
<1>1. \/ pc'[w] = pc[w]
      \/ pc[w] = "parked" /\ pc'[w] = "prepare"
      \/ pc[w] = "asleep" /\ pc'[w] = "awake"
  BY Others
<1> QED
  BY <1>1 DEF Own, DecidedPcs

\* A worker that goes nowhere near its waits.
LEMMA OwnElsewhere ==
  ASSUME NEW w, pc'[w] \notin DecidedPcs \cup {"asleep", "outer_wait", "parked"}
  PROVE  Own(w)
BY DEF Own

\* A worker looks for the end after it has taken its token, and sleeps on that token.
LEMMA OwnStep ==
  ASSUME Typing, CreationInv, NEW w \in Workers, WorkerStep(w)
  PROVE  Own(w)
<1>0. w \in Threads /\ w \notin Callers /\ w \in Callers \cup Workers
  BY ThreadsAssumption DEF Threads
<1>1. CASE Walk(w)
  <2>1. pc'[w] \in WalkPcs \cup {"acquire"}
    BY <1>0, <1>1, WalkQuiet DEF AfterTask
  <2> QED
    BY <2>1, OwnElsewhere DEF WalkPcs, DecidedPcs
<1>2. CASE OuterPrepare(w) \/ Enter(w) \/ LoadJob(w) \/ Leave(w) \/ InnerPrepare(w) \/ IdleDec(w)
  BY <1>0, <1>2, GotoStays, OwnElsewhere
     DEF OuterPrepare, Enter, LoadJob, Leave, InnerPrepare, IdleDec, DecidedPcs
<1>3. CASE CheckShutdown(w)
  BY <1>0, <1>3 DEF CheckShutdown, Own, DecidedPcs, Typing, Threads, poolVars
<1>4. CASE OuterWait(w)
  BY <1>0, <1>4, GotoStays DEF OuterWait, EpochMoved, Own, DecidedPcs, poolVars
<1>5. CASE TryAcquire(w, "acquire", "in_prepare")
  BY <1>0, <1>5, GotoStays, OwnElsewhere DEF TryAcquire, DecidedPcs
<1>6. CASE CheckDone(w)
  <2>1. pc'[w] = IF fold_done[job[w]] THEN "leave" ELSE "acquire2"
    BY <1>0, <1>6, GotoStays DEF CheckDone
  <2>2. UNCHANGED <<job, fold_done, shutdown>> /\ job[w] \in live
    BY <1>6 DEF CheckDone, OnLiveFrame, poolVars, frameVars
  <2>3. ~shutdown
    <3>1. PICK c \in Callers : job[c] = job[w]
      BY <2>2 DEF CreationInv, OwnerInv
    <3>2. job[w] # NoJob
      BY <2>2 DEF Typing, Jobs, NoJob
    <3> QED
      BY <3>1, <3>2 DEF CreationInv, OwnerInv
  <2> QED
    BY <2>1, <2>2, <2>3 DEF Own, DecidedPcs
<1>7. CASE TryAcquire(w, "acquire2", "idle_inc")
  BY <1>0, <1>7, GotoStays DEF TryAcquire, Own, DecidedPcs
<1>8. CASE IdleInc(w)
  BY <1>0, <1>8, GotoStays DEF IdleInc, Own, DecidedPcs
<1>9. CASE InnerWait(w)
  BY <1>0, <1>9, GotoStays DEF InnerWait, EpochMoved, Own, DecidedPcs, poolVars
<1> QED
  BY <1>1, <1>2, <1>3, <1>4, <1>5, <1>6, <1>7, <1>8, <1>9 DEF WorkerStep

\* Every step takes every worker to its waits that way.
LEMMA OwnHolds ==
  ASSUME Typing, CreationInv, [Next]_vars, NEW w \in Workers
  PROVE  Own(w)
<1>0. w \in Threads /\ w \notin Callers /\ w # Main
  BY ThreadsAssumption DEF Threads
<1>1. ASSUME NEW u \in Workers, WorkerStep(u) PROVE Own(w)
  <2>1. CASE u = w
    BY <1>1, <2>1, OwnStep
  <2>2. CASE u # w
    <3>0. u \in Threads
      BY DEF Threads
    <3>1. OthersStay(u) /\ job'[w] = job[w]
      <4>1. CASE Enter(u) \/ LoadJob(u) \/ Leave(u)
        BY <2>2, <3>0, <4>1, GotoStays DEF Enter, LoadJob, Leave, Typing
      <4>2. CASE ~Enter(u) /\ ~LoadJob(u) /\ ~Leave(u)
        BY <1>1, <4>2, WorkerQuiet DEF Quiet
      <4> QED
        BY <4>1, <4>2
    <3>2. token'[w] = token[w]
      BY <1>1, <2>2, WorkerKeeps DEF OuterPrepare, InnerPrepare, Prepare, Typing
    <3> QED
      BY <2>2, <3>1, <3>2, OwnOther
  <2> QED
    BY <2>1, <2>2
<1>2. ASSUME NEW c \in Callers, CallerStep(c) PROVE Own(w)
  <2>0. c \in Threads /\ c # w
    BY <1>0 DEF Threads
  <2>1. OthersStay(c) /\ job'[w] = job[w]
    <3>1. CASE CallerQuietStep(c)
      BY <3>1, CallerQuiet DEF Quiet
    <3>2. CASE ~CallerQuietStep(c)
      <4>1. OthersStay(c)
        BY <1>2, <2>0, <3>2, GotoStays DEF CallerStep, CallerQuietStep, StartFold, Finish, Lock,
           LockPoisoned, Publish, Seal, Latch, Unlock, Return
      <4>2. job'[w] = job[w]
        BY <1>2, <2>0, <3>2 DEF CallerStep, CallerQuietStep, StartFold, Finish, Lock, LockPoisoned,
           Publish, Seal, Latch, Unlock, Return, DropFrame, Typing
      <4> QED
        BY <4>1, <4>2
    <3> QED
      BY <3>1, <3>2
  <2>2. token'[w] = token[w]
    BY <1>2, WalkKeeps DEF CallerStep, Bump, StartFold, Finish, Lock, LockPoisoned, Publish, WakeAll,
       Poll, TryAcquire, Seal, Latch, Unlock, Return
  <2> QED
    BY <2>0, <2>1, <2>2, OwnOther
<1>3. CASE MainStep
  <2>1. token' = token
    BY <1>3 DEF MainStep, SetShutdown, Bump, WakeAll, Join
  <2> QED
    BY <1>0, <1>3, <2>1, MainQuiet, OwnOther DEF Quiet
<1>u. ASSUME NEW c \in Callers, Unwind(c) PROVE Own(w)
  <2>1. OthersStay(c) /\ c # w /\ DropFrame(c) /\ token' = token
    BY <1>0, <1>u, UnwindStays DEF Unwind
  <2>2. job'[w] = job[w]
    BY <2>1 DEF DropFrame, Typing
  <2> QED
    BY <2>1, <2>2, OwnOther
<1>4. ASSUME NEW c \in Callers, Flush(c) PROVE Own(w)
  BY <1>4 DEF Flush, Own, threadVars
<1>5. ASSUME NEW c \in Callers, GiveUp(c) PROVE Own(w)
  BY <1>5, <1>u DEF GiveUp
<1>6. ASSUME NEW u \in Workers, SpuriousWake(u) PROVE Own(w)
  BY <1>0, <1>6 DEF SpuriousWake, Sleeping, Resume, Own, DecidedPcs, Typing
<1>7. ASSUME NEW t \in Callers \cup Workers, ClosurePanics(t) PROVE Own(w)
  <2>1. CASE t \in Callers /\ Unwind(t)
    BY <2>1, <1>u
  <2>2. CASE t \in Workers /\ pc' = [pc EXCEPT ![t] = "dead"] /\ UNCHANGED <<job, token>>
    BY <1>0, <2>2 DEF Own, DecidedPcs, Typing
  <2> QED
    BY <1>7, <2>1, <2>2 DEF ClosurePanics
<1>8. CASE UNCHANGED vars
  BY <1>8 DEF vars, poolVars, frameVars, threadVars, Own
<1> QED
  BY <1>1, <1>2, <1>3, <1>4, <1>5, <1>6, <1>7, <1>8 DEF Next, Environment, Terminated

\* Nobody decides to wait on a token that will not get old.
LEMMA EndInvariant == Spec /\ []EpochFits => [](DoneInv /\ StopInv)
<1>1. Init => DoneInv /\ StopInv
  <2> SUFFICES ASSUME Init PROVE DoneInv /\ StopInv
    OBVIOUS
  <2>1. \A w \in Workers : pc[w] = "prepare"
    BY ThreadsAssumption DEF Init, Threads
  <2> QED
    BY <2>1 DEF Init, DoneInv, StopInv, DecidedPcs
<1>2. Typing /\ Typing' /\ CreationInv /\ CreationInv' /\ EpochInv /\ EpochFits /\ DoneInv /\ StopInv /\ [Next]_vars
        => DoneInv' /\ StopInv'
  BY ToldOfEnd, WorldHolds, OwnHolds DEF CreationInv
<1> QED
  BY <1>1, <1>2, TypingInvariant, CreationInvariant, EpochInvariant, PTL DEF Spec

(* No worker sleeps through the end of its fold and none through the end of  *)
(* the pool: while one is asleep although what it waits for has happened,    *)
(* the thread that made it happen is yet to wake it. Under every memory      *)
(* model and with every panic, as long as the epoch does not wrap.           *)
THEOREM NobodySleepsThroughEnd == Spec /\ []EpochFits => []NoSleepThroughEnd
<1>1. DoneInv /\ StopInv => NoSleepThroughEnd
  BY DEF DoneInv, StopInv, DoneWaking, NoSleepThroughEnd
<1> QED
  BY <1>1, EndInvariant, PTL

-----------------------------------------------------------------------------
(* Each caller has its own frame, under every memory model and with every     *)
(* panic: two callers never hold the same job.                               *)

\* a caller in run_fold has a frame
FramedPcs == LockedPcs \cup {"lock", "drop"}

\* Frames stay whose they are when nobody gets one or gives one up.
LEMMA FrameSame ==
  ASSUME FrameInv, UNCHANGED <<live, folds>>,
         \A c \in Callers : job'[c] = job[c] /\ (pc'[c] \in FramedPcs => pc[c] \in FramedPcs)
  PROVE  FrameInv'
BY DEF FrameInv, FramedPcs

\* The same of the step of one thread.
LEMMA FrameOne ==
  ASSUME FrameInv, UNCHANGED <<live, folds>>, NEW t, OthersStay(t), \A c \in Callers : job'[c] = job[c],
         t \in Callers => (pc'[t] \in FramedPcs => pc[t] \in FramedPcs)
  PROVE  FrameInv'
<1>1. \A c \in Callers : pc'[c] \in FramedPcs => pc[c] \in FramedPcs
  BY CallersStay
<1> QED
  BY <1>1, FrameSame

\* A new fold gets a frame that nobody had before.
LEMMA StartFrame ==
  ASSUME Typing, FrameInv, NEW c \in Callers, StartFold(c)
  PROVE  FrameInv'
<1>1. /\ pc'[c] = "lock" /\ \A d \in Callers : d # c => pc'[d] = pc[d]
      /\ job'[c] = folds + 1 /\ \A d \in Callers : d # c => job'[d] = job[d]
      /\ live' = live \cup {folds + 1} /\ folds' = folds + 1
  BY CallerMoves DEF StartFold, Typing
<1>2. folds \in Nat /\ \A d \in Callers : job[d] \in Nat
  BY JobNumbers
<1> QED
  BY <1>1, <1>2 DEF FrameInv, NoJob

\* Every step of a caller leaves every caller with a frame of its own.
LEMMA CallerFrame ==
  ASSUME Typing, FrameInv, NEW c \in Callers, CallerStep(c)
  PROVE  FrameInv'
<1>0. c \in Threads
  BY DEF Threads
<1>p. /\ PublishedPcs \cup {"publish", "latch", "unlock", "seal", "pub_inc", "lock", "drop"} \subseteq FramedPcs
      /\ "finished" \notin FramedPcs
  BY DEF FramedPcs, LockedPcs, PublishedPcs, BodyPcs, WalkPcs
<1>1. CASE CallerQuietStep(c)
  BY <1>1, <1>p, CallerQuiet, FrameOne DEF Quiet
<1>2. CASE StartFold(c)
  BY <1>2, StartFrame
<1>3. CASE Return(c) \/ LockPoisoned(c)
  <2>1. /\ pc'[c] \in {"idle", "panicked"} /\ \A d \in Callers : d # c => pc'[d] = pc[d]
        /\ DropFrame(c) /\ folds' = folds
    BY <1>3, CallerMoves DEF Return, LockPoisoned
  <2> QED
    BY <2>1, DropFrameInv
<1>4. CASE Finish(c) \/ Lock(c) \/ Publish(c) \/ Seal(c) \/ Latch(c) \/ Unlock(c)
  <2>1. /\ OthersStay(c)
        /\ \/ pc[c] \in {"lock", "publish", "seal", "latch", "unlock"}
           \/ pc'[c] = "finished"
    BY <1>0, <1>4, GotoStays DEF Finish, Lock, Publish, Seal, Latch, Unlock
  <2>2. UNCHANGED <<job, live, folds>>
    BY <1>4 DEF Finish, Lock, Publish, Seal, Latch, Unlock, frameVars
  <2> QED
    BY <1>p, <2>1, <2>2, FrameOne
<1> QED
  BY <1>1, <1>2, <1>3, <1>4 DEF CallerStep, CallerQuietStep

\* So does every step of a worker.
LEMMA WorkerFrame ==
  ASSUME Typing, FrameInv, NEW w \in Workers, WorkerStep(w)
  PROVE  FrameInv'
<1>0. w \in Threads /\ w \notin Callers
  BY ThreadsAssumption DEF Threads
<1>1. CASE Enter(w) \/ Leave(w) \/ LoadJob(w)
  <2>1. /\ OthersStay(w) /\ UNCHANGED <<live, folds>>
        /\ \A c \in Callers : job'[c] = job[c]
    BY <1>0, <1>1, GotoStays DEF Enter, Leave, LoadJob, frameVars, Typing
  <2> QED
    BY <1>0, <2>1, FrameOne
<1>2. CASE ~Enter(w) /\ ~Leave(w) /\ ~LoadJob(w)
  BY <1>0, <1>2, WorkerQuiet, FrameOne DEF Quiet
<1> QED
  BY <1>1, <1>2

\* An unwinding caller drops its own frame.
LEMMA UnwindFrame ==
  ASSUME Typing, FrameInv, NEW c \in Callers, Unwind(c)
  PROVE  FrameInv'
<1>1. pc'[c] = "panicked" /\ \A d \in Callers : d # c => pc'[d] = pc[d]
  BY DEF Unwind, Typing, Threads
<1> QED
  BY <1>1, DropFrameInv DEF Unwind

\* So does everything else.
LEMMA OtherFrame ==
  ASSUME Typing, FrameInv, MainStep \/ Environment
  PROVE  FrameInv'
<1>1. CASE MainStep
  BY <1>1, MainQuiet, FrameOne, ThreadsAssumption DEF Quiet
<1>2. ASSUME NEW c \in Callers, Flush(c) PROVE FrameInv'
  BY <1>2, FrameSame DEF Flush, frameVars, threadVars
<1>3. ASSUME NEW c \in Callers, GiveUp(c) PROVE FrameInv'
  BY <1>3, UnwindFrame DEF GiveUp
<1>4. ASSUME NEW w \in Workers, SpuriousWake(w) PROVE FrameInv'
  <2>1. OthersStay(w) /\ w \notin Callers /\ UNCHANGED <<job, live, folds>>
    BY <1>4, ThreadsAssumption DEF SpuriousWake, OthersStay, Typing, Threads, frameVars
  <2> QED
    BY <2>1, FrameOne
<1>5. ASSUME NEW t \in Callers \cup Workers, ClosurePanics(t) PROVE FrameInv'
  <2>1. CASE t \in Callers /\ Unwind(t)
    BY <2>1, UnwindFrame
  <2>2. CASE t \in Workers /\ pc' = [pc EXCEPT ![t] = "dead"] /\ UNCHANGED <<frameVars, job, folds>>
    <3>1. OthersStay(t) /\ t \notin Callers /\ UNCHANGED <<job, live, folds>>
      BY <2>2, ThreadsAssumption DEF OthersStay, Typing, Threads, frameVars
    <3> QED
      BY <3>1, FrameOne
  <2> QED
    BY <1>5, <2>1, <2>2 DEF ClosurePanics
<1> QED
  BY <1>1, <1>2, <1>3, <1>4, <1>5 DEF Environment

\* Every caller in run_fold has a live frame, and none has another's.
LEMMA FrameInvariant == Spec => []FrameInv
<1>1. Init => FrameInv
  <2> SUFFICES ASSUME Init PROVE FrameInv
    OBVIOUS
  <2>1. \A c \in Callers : pc[c] = "idle" /\ job[c] = NoJob
    BY ThreadsAssumption DEF Init, Threads
  <2> QED
    BY <2>1 DEF Init, FrameInv, NoJob, LockedPcs, PublishedPcs, BodyPcs, WalkPcs
<1>2. Typing /\ FrameInv /\ [Next]_vars => FrameInv'
  <2> SUFFICES ASSUME Typing, FrameInv, [Next]_vars PROVE FrameInv'
    OBVIOUS
  <2>1. CASE UNCHANGED vars
    BY <2>1, FrameSame DEF vars, frameVars, threadVars
  <2>2. CASE Next
    BY <2>1, <2>2, WorkerFrame, CallerFrame, OtherFrame DEF Next, Terminated
  <2> QED
    BY <2>1, <2>2
<1> QED
  BY <1>1, <1>2, TypingInvariant, PTL DEF Spec

-----------------------------------------------------------------------------
(* The stores of job_ptr, delayed or not: what is in a store buffer is the     *)
(* publication, until the fetch_add of the notification drains it, or the      *)
(* seal. So the job in memory is the published one by the time anybody is      *)
(* told of it.                                                                *)

\* a store is delayed at most until the caller's next read-modify-write or unlock
BufferInv ==
  \A c \in Callers : buffer[c] # NoStore =>
    /\ pc[c] \in {"pub_inc", "latch", "unlock"}
    /\ pc[c] = "pub_inc" => buffer[c] = job[c]

\* the job in memory is the published one
JobInv == \A c \in Callers : pc[c] \in PublishedPcs /\ buffer[c] = NoStore => job_ptr = job[c]

StoreInv == BufferInv /\ JobInv

\* Steps that move no caller in or out of the part where it has stored the pointer.
LEMMA StoreSame ==
  ASSUME StoreInv, UNCHANGED <<job_ptr, buffer>>,
         \A c \in Callers : pc'[c] = pc[c] /\ job'[c] = job[c]
  PROVE  StoreInv'
BY DEF StoreInv, BufferInv, JobInv

\* What a thread drains is what the lock holder stored: it is the only caller with a
\* store to wait for, and it goes on to the publication or away from the job.
LEMMA StoreDrains ==
  ASSUME Typing, LockInv, StoreInv, NEW t, Drain(t), OthersStay(t),
         \A c \in Callers : pc'[c] \in PublishedPcs => pc[c] \in PublishedPcs /\ job'[c] = job[c],
         \A c \in Callers : c # t => job'[c] = job[c]
  PROVE  StoreInv'
<1>1. \A c \in Callers : c # t => pc'[c] = pc[c]
  BY CallersStay
<1>2. CASE t \in Callers /\ buffer[t] # NoStore
  <2>1. /\ job_ptr' = buffer[t] /\ buffer'[t] = NoStore
        /\ \A c \in Callers : c # t => buffer'[c] = buffer[c]
    BY <1>2 DEF Drain, Typing
  <2>2. dispatch_lock = t
    BY <1>2 DEF StoreInv, BufferInv, LockInv, LockedPcs, PublishedPcs
  <2>3. \A c \in Callers : c # t => pc[c] \notin PublishedPcs
    BY <2>2 DEF LockInv, LockedPcs
  <2>4. pc'[t] \in PublishedPcs => pc[t] = "pub_inc"
    <3>1. "latch" \notin PublishedPcs /\ "unlock" \notin PublishedPcs
      BY DEF PublishedPcs, BodyPcs, WalkPcs
    <3> QED
      BY <1>2, <3>1 DEF StoreInv, BufferInv
  <2>5. BufferInv'
    BY <1>1, <2>1 DEF StoreInv, BufferInv
  <2>6. JobInv'
    BY <1>1, <1>2, <2>1, <2>3, <2>4 DEF StoreInv, BufferInv, JobInv
  <2> QED
    BY <2>5, <2>6 DEF StoreInv
<1>3. CASE ~(t \in Callers /\ buffer[t] # NoStore)
  <2>1. UNCHANGED <<job_ptr, buffer>>
    BY <1>3 DEF Drain
  <2> QED
    BY <1>1, <1>3, <2>1 DEF StoreInv, BufferInv, JobInv
<1> QED
  BY <1>2, <1>3

\* A quiet step drains its own thread's store, or none.
LEMMA StoreQuiet ==
  ASSUME Typing, LockInv, StoreInv, NEW t, Quiet(t),
         t \in Callers => pc[t] \in PublishedPcs \ {"pub_inc"} /\ pc'[t] \in PublishedPcs
  PROVE  StoreInv'
<1>1. \A c \in Callers : c # t => pc'[c] = pc[c]
  BY CallersStay DEF Quiet
<1>2. CASE Drain(t)
  BY <1>1, <1>2, StoreDrains DEF Quiet
<1>3. CASE UNCHANGED <<job_ptr, buffer>>
  <2>1. "latch" \notin PublishedPcs /\ "unlock" \notin PublishedPcs
    BY DEF PublishedPcs, BodyPcs, WalkPcs
  <2>2. t \in Callers => buffer[t] = NoStore
    BY <2>1 DEF StoreInv, BufferInv
  <2> QED
    BY <1>1, <1>3, <2>2 DEF Quiet, StoreInv, BufferInv, JobInv
<1> QED
  BY <1>2, <1>3 DEF Quiet

\* Publication and seal: the lock holder's store, delayed or not.
LEMMA StoreStores ==
  ASSUME Typing, LockInv, StoreInv, NEW c \in Callers, Publish(c) \/ Seal(c)
  PROVE  StoreInv'
<1>1. \A d \in Callers : d # c => pc'[d] = pc[d]
  BY CallerMoves DEF Publish, Seal
<1>2. pc[c] \in {"publish", "seal"} /\ job' = job
  BY DEF Publish, Seal, Goto
<1>3. \A d \in Callers : d # c => pc[d] \notin PublishedPcs
  BY <1>2 DEF LockInv, LockedPcs, PublishedPcs
<1>4. buffer[c] = NoStore
  BY <1>2 DEF StoreInv, BufferInv
<1>s. ASSUME NEW ptr, Store(c, ptr)
      PROVE  /\ \A d \in Callers : d # c => buffer'[d] = buffer[d]
             /\ \/ buffer'[c] = ptr
                \/ buffer'[c] = NoStore /\ job_ptr' = ptr
  BY <1>4, <1>s DEF Store, Typing
<1>5. CASE Publish(c)
  <2>1. pc'[c] = "pub_inc" /\ Store(c, job[c])
    BY <1>5, CallerMoves DEF Publish
  <2>2. job[c] # NoStore
    <3>1. job[c] \in JobPtrs
      BY DEF Typing
    <3>2. NoStore \notin JobPtrs
      BY BoundsAssumption DEF JobPtrs, Jobs, NoJob, NoStore
    <3> QED
      BY <3>1, <3>2
  <2>3. BufferInv'
    BY <1>1, <1>2, <1>s, <2>1 DEF StoreInv, BufferInv
  <2>4. JobInv'
    BY <1>1, <1>2, <1>3, <1>s, <2>1, <2>2 DEF JobInv
  <2> QED
    BY <2>3, <2>4 DEF StoreInv
<1>6. CASE Seal(c)
  <2>1. pc'[c] = "latch" /\ Store(c, NoJob)
    BY <1>6, CallerMoves DEF Seal
  <2>2. "latch" \notin PublishedPcs
    BY DEF PublishedPcs, BodyPcs, WalkPcs
  <2>3. BufferInv'
    BY <1>1, <1>2, <1>s, <2>1 DEF StoreInv, BufferInv
  <2>4. JobInv'
    BY <1>1, <1>3, <2>1, <2>2 DEF JobInv
  <2> QED
    BY <2>3, <2>4 DEF StoreInv
<1> QED
  BY <1>5, <1>6

\* Every step of a caller keeps the buffers and the pointer in agreement.
LEMMA CallerStore ==
  ASSUME Typing, LockInv, StoreInv, NEW c \in Callers, CallerStep(c)
  PROVE  StoreInv'
<1>0. c \in Threads /\ c \in Callers \cup Workers
  BY DEF Threads
<1>p. /\ \A x \in {"idle", "lock", "publish", "latch", "unlock", "drop", "finished", "panicked"} : x \notin PublishedPcs
      /\ "pub_inc" \notin WalkPcs
  BY DEF PublishedPcs, BodyPcs, WalkPcs
<1>1. CASE Bump(c, "pub_inc", "pub_wake")
  <2>1. /\ OthersStay(c) /\ Drain(c) /\ job' = job
        /\ pc[c] = "pub_inc"
    BY <1>0, <1>1, GotoStays DEF Bump
  <2>2. \A d \in Callers : pc'[d] \in PublishedPcs => pc[d] \in PublishedPcs /\ job'[d] = job[d]
    BY <2>1, CallersStay DEF PublishedPcs
  <2> QED
    BY <2>1, <2>2, StoreDrains
<1>2. CASE CallerQuietStep(c) /\ ~Bump(c, "pub_inc", "pub_wake")
  <2>1. pc[c] # "pub_inc"
    <3>1. Walk(c) => pc[c] \in WalkPcs
      BY <1>0, WalkQuiet
    <3> QED
      BY <1>p, <1>2, <3>1 DEF CallerQuietStep, WakeAll, Poll, TryAcquire, Goto
  <2> QED
    BY <1>2, <2>1, CallerQuiet, StoreQuiet
<1>3. CASE Publish(c) \/ Seal(c)
  BY <1>3, StoreStores
<1>4. CASE Unlock(c)
  <2>1. OthersStay(c) /\ Drain(c) /\ job' = job /\ pc'[c] = "drop"
    BY <1>0, <1>4, GotoStays DEF Unlock
  <2>2. \A d \in Callers : pc'[d] \in PublishedPcs => pc[d] \in PublishedPcs /\ job'[d] = job[d]
    BY <1>p, <2>1, CallersStay
  <2> QED
    BY <2>1, <2>2, StoreDrains
<1>5. CASE StartFold(c) \/ Finish(c) \/ Lock(c) \/ LockPoisoned(c) \/ Latch(c) \/ Return(c)
  <2>1. /\ OthersStay(c) /\ UNCHANGED <<job_ptr, buffer>>
        /\ \/ pc[c] \in {"idle", "lock", "drop"} /\ pc'[c] \in {"lock", "finished", "publish", "panicked", "idle"}
           \/ pc[c] = "latch" /\ pc'[c] = "unlock" /\ job' = job
    BY <1>0, <1>5, GotoStays DEF StartFold, Finish, Lock, LockPoisoned, Latch, Return, poolVars
  <2>2. \A d \in Callers : d # c => pc'[d] = pc[d] /\ job'[d] = job[d]
    BY <1>5, <2>1, CallersStay DEF StartFold, Finish, Lock, LockPoisoned, Latch, Return, DropFrame, Typing
  <2>3. BufferInv'
    BY <2>1, <2>2 DEF StoreInv, BufferInv
  <2>4. JobInv'
    BY <1>p, <2>1, <2>2 DEF StoreInv, JobInv
  <2> QED
    BY <2>3, <2>4 DEF StoreInv
<1> QED
  BY <1>1, <1>2, <1>3, <1>4, <1>5 DEF CallerStep, CallerQuietStep

\* So does every step of a worker.
LEMMA WorkerStore ==
  ASSUME Typing, LockInv, StoreInv, NEW w \in Workers, WorkerStep(w)
  PROVE  StoreInv'
<1>0. w \in Threads /\ w \notin Callers
  BY ThreadsAssumption DEF Threads
<1>1. CASE Enter(w) \/ Leave(w) \/ LoadJob(w)
  <2>1. /\ OthersStay(w) /\ UNCHANGED <<job_ptr, buffer>>
        /\ \A c \in Callers : job'[c] = job[c]
    BY <1>0, <1>1, GotoStays DEF Enter, Leave, LoadJob, poolVars, Typing
  <2> QED
    BY <1>0, <2>1, CallersStay, StoreSame
<1>2. CASE ~Enter(w) /\ ~Leave(w) /\ ~LoadJob(w)
  BY <1>0, <1>2, WorkerQuiet, StoreQuiet
<1> QED
  BY <1>1, <1>2

\* So does everything else.
LEMMA OtherStore ==
  ASSUME Typing, LockInv, StoreInv, MainStep \/ Environment
  PROVE  StoreInv'
<1>1. CASE MainStep
  BY <1>1, MainQuiet, StoreQuiet, ThreadsAssumption
<1>2. ASSUME NEW c \in Callers, Flush(c) PROVE StoreInv'
  <2>1. OthersStay(c) /\ Drain(c) /\ UNCHANGED <<pc, job>>
    BY <1>2 DEF Flush, OthersStay, threadVars
  <2> QED
    BY <2>1, StoreDrains
<1>u. ASSUME NEW c \in Callers, Unwind(c) PROVE StoreInv'
  <2>1. OthersStay(c) /\ Drain(c) /\ pc'[c] = "panicked"
    BY <1>u, UnwindStays DEF Unwind, Typing, Threads
  <2>2. \A d \in Callers : d # c => job'[d] = job[d]
    BY <1>u DEF Unwind, DropFrame, Typing
  <2>3. "panicked" \notin PublishedPcs
    BY DEF PublishedPcs, BodyPcs, WalkPcs
  <2> QED
    BY <2>1, <2>2, <2>3, CallersStay, StoreDrains
<1>3. ASSUME NEW c \in Callers, GiveUp(c) PROVE StoreInv'
  BY <1>3, <1>u DEF GiveUp
<1>4. ASSUME NEW w \in Workers, SpuriousWake(w) PROVE StoreInv'
  <2>1. OthersStay(w) /\ w \notin Callers /\ UNCHANGED <<job, job_ptr, buffer>>
    BY <1>4, ThreadsAssumption DEF SpuriousWake, OthersStay, Typing, Threads, poolVars
  <2> QED
    BY <2>1, CallersStay, StoreSame
<1>5. ASSUME NEW t \in Callers \cup Workers, ClosurePanics(t) PROVE StoreInv'
  <2>1. CASE t \in Callers /\ Unwind(t)
    BY <2>1, <1>u
  <2>2. CASE t \in Workers /\ pc' = [pc EXCEPT ![t] = "dead"] /\ UNCHANGED <<poolVars, buffer, job>>
    <3>1. OthersStay(t) /\ t \notin Callers /\ UNCHANGED <<job, job_ptr, buffer>>
      BY <2>2, ThreadsAssumption DEF OthersStay, Typing, Threads, poolVars
    <3> QED
      BY <3>1, CallersStay, StoreSame
  <2> QED
    BY <1>5, <2>1, <2>2 DEF ClosurePanics
<1> QED
  BY <1>1, <1>2, <1>3, <1>4, <1>5 DEF Environment

\* What is in memory and what is on its way there, under every memory model.
LEMMA StoreInvariant == Spec => []StoreInv
<1>1. Init => StoreInv
  BY ThreadsAssumption DEF Init, StoreInv, BufferInv, JobInv, PublishedPcs, BodyPcs, WalkPcs, Threads
<1>2. Typing /\ LockInv /\ StoreInv /\ [Next]_vars => StoreInv'
  <2> SUFFICES ASSUME Typing, LockInv, StoreInv, [Next]_vars PROVE StoreInv'
    OBVIOUS
  <2>1. CASE UNCHANGED vars
    BY <2>1, StoreSame DEF vars, poolVars, threadVars
  <2>2. CASE Next
    BY <2>1, <2>2, WorkerStore, CallerStore, OtherStore DEF Next, Terminated
  <2> QED
    BY <2>1, <2>2
<1> QED
  BY <1>1, <1>2, TypingInvariant, LockInvariant, PTL DEF Spec

-----------------------------------------------------------------------------
(* Enlistment: a published job stays in memory until the seal, the epoch      *)
(* counted up after the publication is news to every worker that is not in    *)
(* that job, and a worker to which it is news enters the job instead of       *)
(* parking. The fetch_add that makes the news drains the store of the job, so *)
(* whoever acts on the news finds the job, delayed stores or not.             *)

\* a worker outside the job, or about to leave it without having been in it
OutPcs == {"prepare", "check_shutdown", "outer_wait", "parked", "leave"}

\* a worker that is outside, or still in the call of another fold
Misses(w, j) == pc[w] \in OutPcs \/ (pc[w] \in CallPcs /\ job[w] # j)

\* the epoch of a fold that has been announced and is not done is news
NewsInv ==
  \A c \in Callers : pc[c] \in PublishedPcs \ {"pub_inc"} /\ ~fold_done[job[c]] =>
    \A w \in Workers : Misses(w, job[c]) => last_epoch[w] < epoch

\* a worker at its outer wait has seen no news
WaitInv == \A w \in Workers : pc[w] \in {"outer_wait", "parked"} => token[w] <= last_epoch[w]

EnlistInv == NewsInv /\ WaitInv /\ EveryWorkerEnlisted

\* how a caller gets through the published part of dispatch
Course(c) ==
  /\ pc'[c] \in PublishedPcs \ {"pub_inc"} =>
       /\ pc[c] \in PublishedPcs
       /\ job'[c] = job[c]
       /\ pc[c] = "pub_inc" => epoch' = epoch + 1
       /\ fold_done[job[c]] => fold_done'[job[c]]
  /\ pc'[c] \in BodyPcs => pc[c] \in BodyPcs \/ Sleeping' = {}

\* how a worker gets into a job, out of it, and into its outer wait
Retreat(w) ==
  /\ pc'[w] \in OutPcs =>
       /\ last_epoch'[w] = last_epoch[w]
       /\ \/ pc[w] \in OutPcs
          \/ pc[w] = "load" /\ job_ptr = NoJob
          \/ pc[w] = "check_done" /\ fold_done[job[w]]
  /\ pc'[w] \in CallPcs =>
       /\ last_epoch'[w] = last_epoch[w]
       /\ \/ pc[w] \in CallPcs /\ job'[w] = job[w]
          \/ pc[w] = "load" /\ job'[w] = job_ptr
  /\ pc'[w] \in {"outer_wait", "parked"} =>
       \/ pc[w] \in {"outer_wait", "parked"} /\ token'[w] = token[w]
       \/ token'[w] <= last_epoch'[w]

\* Whoever misses the fold after the step has missed it before: the job it would
\* have loaded is the published one.
LEMMA StillMisses ==
  ASSUME FrameInv, StoreInv, NEW c \in Callers, NEW w \in Workers, Course(c), Retreat(w),
         pc'[c] \in PublishedPcs \ {"pub_inc"}, ~fold_done'[job'[c]], pc[c] # "pub_inc", Misses(w, job[c])'
  PROVE  Misses(w, job[c])
<1>1. pc[c] \in PublishedPcs /\ job'[c] = job[c] /\ ~fold_done[job[c]]
  BY DEF Course
<1>2. job_ptr = job[c] /\ job[c] # NoJob
  <2>1. buffer[c] = NoStore
    BY <1>1 DEF StoreInv, BufferInv, PublishedPcs, BodyPcs, WalkPcs
  <2> QED
    BY <1>1, <2>1 DEF StoreInv, JobInv, FrameInv, LockedPcs
<1>3. CASE pc'[w] \in OutPcs
  BY <1>1, <1>2, <1>3 DEF Retreat, Misses, CallPcs, LoopPcs
<1>4. CASE pc'[w] \in CallPcs /\ job'[w] # job'[c]
  BY <1>1, <1>2, <1>4 DEF Retreat, Misses
<1> QED
  BY <1>3, <1>4 DEF Misses

\* Enlistment is kept as long as callers and workers go that way.
LEMMA Enlists ==
  ASSUME Typing, FrameInv, StoreInv, EpochInv, EnlistInv, epoch' \in {epoch, epoch + 1},
         \A c \in Callers : Course(c), \A w \in Workers : Retreat(w) /\ Own(w)
  PROVE  EnlistInv'
<1>n. epoch \in Nat /\ \A w \in Workers : token[w] \in Nat /\ last_epoch[w] \in Nat
  BY EpochNumbers
<1>2. NewsInv'
  <2> SUFFICES ASSUME NEW c \in Callers, pc'[c] \in PublishedPcs \ {"pub_inc"}, ~fold_done'[job'[c]],
                      NEW w \in Workers, Misses(w, job[c])'
               PROVE  last_epoch'[w] < epoch'
    BY DEF NewsInv
  <2>1. /\ pc[c] \in PublishedPcs /\ job'[c] = job[c]
        /\ pc[c] = "pub_inc" => epoch' = epoch + 1
        /\ ~fold_done[job[c]]
    BY DEF Course
  <2>2. last_epoch'[w] = last_epoch[w] /\ last_epoch[w] <= epoch
    BY DEF Retreat, EpochInv, Misses
  <2>3. CASE pc[c] = "pub_inc"
    BY <1>n, <2>1, <2>2, <2>3
  <2>4. CASE pc[c] # "pub_inc"
    <3>1. Misses(w, job[c])
      BY <2>4, StillMisses
    <3>2. last_epoch[w] < epoch
      BY <2>1, <2>4, <3>1 DEF EnlistInv, NewsInv
    <3> QED
      BY <1>n, <2>2, <3>2
  <2> QED
    BY <2>3, <2>4
<1>3. WaitInv'
  BY DEF EnlistInv, WaitInv, Retreat, OutPcs
<1>4. EveryWorkerEnlisted'
  <2> SUFFICES ASSUME NEW c \in Callers, pc'[c] \in BodyPcs, ~fold_done'[job'[c]],
                      NEW w \in Workers, pc'[w] = "parked"
               PROVE  FALSE
    BY DEF EveryWorkerEnlisted
  <2>1. "pub_inc" \notin BodyPcs /\ BodyPcs \subseteq PublishedPcs
    BY DEF PublishedPcs, BodyPcs, WalkPcs
  <2>2. Sleeping' # {}
    BY DEF Sleeping
  <2>3. pc[c] \in BodyPcs /\ job'[c] = job[c] /\ ~fold_done[job[c]]
    BY <2>1, <2>2 DEF Course
  <2>4. pc[w] # "parked"
    BY <2>3 DEF EnlistInv, EveryWorkerEnlisted
  <2>5. pc[w] = "outer_wait" /\ token[w] = epoch
    BY <2>4 DEF Own
  <2>6. token[w] <= last_epoch[w] /\ last_epoch[w] < epoch
    BY <2>1, <2>3, <2>5 DEF EnlistInv, WaitInv, NewsInv, Misses, OutPcs
  <2> QED
    BY <1>n, <2>5, <2>6
<1> QED
  BY <1>2, <1>3, <1>4 DEF EnlistInv

\* A caller that is not the one to move.
LEMMA CourseOther ==
  ASSUME NEW c \in Callers, NEW t, OthersStay(t), c # t, job'[c] = job[c],
         pc[c] \in PublishedPcs => (fold_done[job[c]] => fold_done'[job[c]])
  PROVE  Course(c)
<1>1. pc'[c] = pc[c]
  BY CallersStay
<1>2. "pub_inc" \notin BodyPcs /\ BodyPcs \subseteq PublishedPcs
  BY DEF PublishedPcs, BodyPcs, WalkPcs
<1> QED
  BY <1>1, <1>2 DEF Course

\* A walk unsets nobody's fold_done.
LEMMA WalkDone ==
  ASSUME Typing, NEW t \in Callers \cup Workers, Walk(t)
  PROVE  \A j \in Jobs : fold_done[j] => fold_done'[j]
<1>1. CASE SetFoldDone(t)
  BY <1>1 DEF SetFoldDone, Typing
<1>2. CASE ~SetFoldDone(t)
  BY <1>2 DEF Walk, PushTask, CheckIdle, Bump, WakeOne, DeliverResult, SetRootCell, WakeAll, frameVars
<1> QED
  BY <1>1, <1>2

\* A caller that has published has a job.
LEMMA PublishedJob ==
  ASSUME Typing, FrameInv, NEW c \in Callers, pc[c] \in PublishedPcs
  PROVE  job[c] \in Jobs /\ \A d \in Callers : d # c => job[d] # job[c]
<1>1. job[c] # NoJob
  BY DEF FrameInv, LockedPcs
<1> QED
  BY <1>1 DEF FrameInv, Typing, JobPtrs

\* Dropping a frame unsets no other caller's fold_done.
LEMMA DropCourse ==
  ASSUME Typing, FrameInv, NEW c \in Callers, NEW d \in Callers, d # c, OthersStay(d), DropFrame(d)
  PROVE  Course(c)
<1>1. job'[c] = job[c]
  BY DEF DropFrame, Typing
<1>2. ASSUME pc[c] \in PublishedPcs PROVE fold_done'[job[c]] = fold_done[job[c]]
  BY <1>2, PublishedJob DEF DropFrame, Typing
<1> QED
  BY <1>1, <1>2, CourseOther

\* A quiet step of another thread leaves a published caller its job.
LEMMA CourseQuiet ==
  ASSUME Typing, FrameInv, NEW t, Quiet(t), NEW c \in Callers, c # t,
         \A j \in Jobs : fold_done[j] => fold_done'[j]
  PROVE  Course(c)
BY PublishedJob, CourseOther DEF Quiet

\* A caller gets through dispatch by its own steps.
LEMMA CourseOwn ==
  ASSUME Typing, FrameInv, EpochFits, NEW c \in Callers, CallerStep(c)
  PROVE  Course(c)
<1>0. c \in Threads /\ c \in Callers \cup Workers /\ c \notin Workers
  BY ThreadsAssumption DEF Threads
<1>p. /\ "pub_inc" \notin BodyPcs \cup WalkPcs /\ BodyPcs \subseteq PublishedPcs /\ "walk" \in BodyPcs /\ "poll" \in BodyPcs
      /\ WalkPcs \subseteq BodyPcs /\ "poll_acquire" \in BodyPcs /\ {"pub_wake", "seal"} \subseteq PublishedPcs
      /\ \A x \in {"idle", "lock", "publish", "latch", "unlock", "drop", "finished", "panicked"} : x \notin PublishedPcs
      /\ {"pub_wake", "pub_inc", "seal"} \cap BodyPcs = {}
  BY DEF PublishedPcs, BodyPcs, WalkPcs
<1>q. CallerQuietStep(c) => pc[c] \in PublishedPcs /\ job'[c] = job[c] /\ job[c] \in Jobs
  BY CallerQuiet, PublishedJob DEF Quiet
<1>1. CASE Bump(c, "pub_inc", "pub_wake")
  <2>1. pc[c] = "pub_inc" /\ pc'[c] = "pub_wake" /\ epoch' = epoch + 1 /\ fold_done' = fold_done
    BY <1>0, <1>1, GotoStays, BumpEpoch DEF Bump
  <2> QED
    BY <1>1, <1>p, <1>q, <2>1 DEF CallerQuietStep, Course
<1>2. CASE WakeAll(c, "pub_wake", "walk")
  <2>1. pc[c] = "pub_wake" /\ pc'[c] = "walk" /\ fold_done' = fold_done
    BY <1>0, <1>2, WakeAllQuiet DEF WakeAll, frameVars
  <2>2. Sleeping' = {}
    BY <1>0, <1>2 DEF WakeAll, Sleeping, Resume, Threads
  <2> QED
    BY <1>2, <1>p, <1>q, <2>1, <2>2 DEF CallerQuietStep, Course
<1>3. CASE Walk(c)
  <2>1. pc[c] \in WalkPcs
    BY <1>0, <1>3, WalkQuiet
  <2> QED
    BY <1>0, <1>3, <1>p, <1>q, <2>1, WalkDone DEF CallerQuietStep, Course
<1>4. CASE Poll(c) \/ TryAcquire(c, "poll_acquire", "poll")
  <2>1. pc[c] \in {"poll", "poll_acquire"} /\ fold_done' = fold_done
    BY <1>0, <1>4, GotoStays DEF Poll, TryAcquire, frameVars
  <2> QED
    BY <1>4, <1>p, <1>q, <2>1 DEF CallerQuietStep, Course
<1>5. CASE \/ StartFold(c) \/ Finish(c) \/ Lock(c) \/ LockPoisoned(c) \/ Publish(c)
           \/ Seal(c) \/ Latch(c) \/ Unlock(c) \/ Return(c)
  <2>1. pc'[c] \in {"idle", "lock", "publish", "pub_inc", "latch", "unlock", "drop", "finished", "panicked"}
    BY <1>0, <1>5, GotoStays DEF StartFold, Finish, Lock, LockPoisoned, Publish, Seal, Latch, Unlock, Return
  <2> QED
    BY <1>p, <2>1 DEF Course
<1> QED
  BY <1>1, <1>2, <1>3, <1>4, <1>5 DEF CallerStep

\* Nobody else takes a caller off its course: its frame is its own.
LEMMA CourseOfOthers ==
  ASSUME Typing, FrameInv, NEW c \in Callers, NEW d \in Callers, d # c, CallerStep(d)
  PROVE  Course(c)
<1>0. d \in Threads /\ d \in Callers \cup Workers
  BY DEF Threads
<1>1. CASE CallerQuietStep(d)
  <2>1. \A j \in Jobs : fold_done[j] => fold_done'[j]
    BY <1>0, <1>1, WalkDone DEF CallerQuietStep, Bump, WakeAll, Poll, TryAcquire, frameVars
  <2> QED
    BY <1>1, <2>1, CallerQuiet, CourseQuiet
<1>2. CASE Return(d) \/ LockPoisoned(d)
  <2>1. OthersStay(d) /\ DropFrame(d)
    BY <1>0, <1>2, GotoStays DEF Return, LockPoisoned
  <2> QED
    BY <2>1, DropCourse
<1>3. CASE StartFold(d) \/ Finish(d) \/ Lock(d) \/ Publish(d) \/ Seal(d) \/ Latch(d) \/ Unlock(d)
  <2>1. OthersStay(d) /\ fold_done' = fold_done
    BY <1>0, <1>3, GotoStays DEF StartFold, Finish, Lock, Publish, Seal, Latch, Unlock, frameVars
  <2>2. job'[c] = job[c]
    BY <1>0, <1>3 DEF StartFold, Finish, Lock, Publish, Seal, Latch, Unlock, Typing
  <2> QED
    BY <2>1, <2>2, CourseOther
<1> QED
  BY <1>1, <1>2, <1>3 DEF CallerStep, CallerQuietStep

\* Every step keeps every caller on its course.
LEMMA CourseHolds ==
  ASSUME Typing, FrameInv, EpochFits, [Next]_vars, NEW c \in Callers
  PROVE  Course(c)
<1>0. c \notin Workers /\ c # Main /\ c \in Threads
  BY ThreadsAssumption DEF Threads
<1>1. ASSUME NEW w \in Workers, WorkerStep(w) PROVE Course(c)
  <2>1. CASE Enter(w) \/ LoadJob(w) \/ Leave(w)
    <3>1. OthersStay(w) /\ fold_done' = fold_done
      BY <1>0, <2>1, GotoStays DEF Enter, LoadJob, Leave, Threads, poolVars, frameVars
    <3>2. job'[c] = job[c]
      BY <1>0, <2>1 DEF Enter, LoadJob, Leave, Typing
    <3> QED
      BY <1>0, <3>1, <3>2, CourseOther
  <2>2. CASE ~Enter(w) /\ ~LoadJob(w) /\ ~Leave(w)
    <3>1. Quiet(w)
      BY <1>0, <1>1, <2>2, WorkerQuiet
    <3>2. \A j \in Jobs : fold_done[j] => fold_done'[j]
      <4>1. CASE Walk(w)
        BY <1>0, <4>1, WalkDone
      <4>2. CASE ~Walk(w)
        BY <1>1, <2>2, <4>2 DEF WorkerStep, OuterPrepare, CheckShutdown, OuterWait,
           TryAcquire, InnerPrepare, CheckDone, IdleInc, InnerWait, IdleDec, frameVars
      <4> QED
        BY <4>1, <4>2
    <3> QED
      BY <1>0, <3>1, <3>2, CourseQuiet
  <2> QED
    BY <2>1, <2>2
<1>2. ASSUME NEW d \in Callers, CallerStep(d) PROVE Course(c)
  BY <1>2, CourseOwn, CourseOfOthers
<1>3. CASE MainStep
  <2>1. fold_done' = fold_done
    BY <1>3 DEF MainStep, SetShutdown, Bump, WakeAll, Join, frameVars
  <2> QED
    BY <1>0, <1>3, <2>1, MainQuiet, CourseQuiet
<1>u. ASSUME NEW d \in Callers, Unwind(d) PROVE Course(c)
  <2>1. CASE d = c
    <3>1. pc'[c] = "panicked"
      BY <1>0, <1>u, <2>1 DEF Unwind, Typing
    <3> QED
      BY <3>1 DEF Course, PublishedPcs, BodyPcs, WalkPcs
  <2>2. CASE d # c
    BY <1>u, <2>2, UnwindStays, DropCourse DEF Unwind
  <2> QED
    BY <2>1, <2>2
<1>4. ASSUME NEW d \in Callers, Flush(d) PROVE Course(c)
  <2>1. "pub_inc" \notin BodyPcs
    BY DEF BodyPcs, WalkPcs
  <2> QED
    BY <1>4, <2>1 DEF Flush, Course, PublishedPcs, frameVars, threadVars
<1>5. ASSUME NEW d \in Callers, GiveUp(d) PROVE Course(c)
  BY <1>5, <1>u DEF GiveUp
<1>6. ASSUME NEW w \in Workers, SpuriousWake(w) PROVE Course(c)
  <2>1. OthersStay(w) /\ UNCHANGED <<job, fold_done>>
    BY <1>0, <1>6 DEF SpuriousWake, OthersStay, Typing, Threads, poolVars, frameVars
  <2> QED
    BY <1>0, <2>1, CourseOther
<1>7. ASSUME NEW t \in Callers \cup Workers, ClosurePanics(t) PROVE Course(c)
  <2>1. CASE t \in Callers /\ Unwind(t)
    BY <2>1, <1>u
  <2>2. CASE t \in Workers /\ pc' = [pc EXCEPT ![t] = "dead"] /\ UNCHANGED <<poolVars, frameVars, job>>
    <3>1. OthersStay(t) /\ UNCHANGED <<job, fold_done>>
      BY <1>0, <2>2 DEF OthersStay, Typing, Threads, poolVars, frameVars
    <3> QED
      BY <1>0, <2>2, <3>1, CourseOther
  <2> QED
    BY <1>7, <2>1, <2>2 DEF ClosurePanics
<1>8. CASE UNCHANGED vars
  BY <1>8 DEF vars, poolVars, frameVars, threadVars, Course, PublishedPcs, BodyPcs, WalkPcs
<1> QED
  BY <1>1, <1>2, <1>3, <1>4, <1>5, <1>6, <1>7, <1>8 DEF Next, Environment, Terminated

\* A worker that is not the one to move.
LEMMA RetreatOther ==
  ASSUME NEW w \in Workers, NEW t, OthersStay(t), w # t,
         job'[w] = job[w], token'[w] = token[w], last_epoch'[w] = last_epoch[w]
  PROVE  Retreat(w)
<1>1. \/ pc'[w] = pc[w]
      \/ pc[w] = "parked" /\ pc'[w] = "prepare"
      \/ pc[w] = "asleep" /\ pc'[w] = "awake"
  BY Others
<1>2. /\ "prepare" \notin CallPcs /\ {"asleep", "awake"} \subseteq CallPcs
      /\ {"parked", "prepare"} \subseteq OutPcs /\ "awake" \notin OutPcs
  BY DEF OutPcs, CallPcs, LoopPcs, WalkPcs
<1> QED
  BY <1>1, <1>2 DEF Retreat

\* A worker enters the job that it loads, leaves a job that is done or none at all,
\* and waits when it has no news.
LEMMA RetreatOwn ==
  ASSUME Typing, NEW w \in Workers, WorkerStep(w)
  PROVE  Retreat(w)
<1>0. w \in Threads /\ w \notin Callers /\ w \in Callers \cup Workers
  BY ThreadsAssumption DEF Threads
<1>p. /\ WalkPcs \cup LoopPcs = CallPcs /\ CallPcs \cap OutPcs = {}
      /\ \A x \in OutPcs \cup {"exited", "enter", "load"} : x \notin CallPcs
      /\ {"enter", "load", "exited"} \cap OutPcs = {} /\ {"outer_wait", "parked"} \subseteq OutPcs
  BY DEF CallPcs, LoopPcs, WalkPcs, OutPcs
\* a step from one place of the call to another
<1>c. ASSUME pc[w] \in CallPcs, pc'[w] \in CallPcs, job'[w] = job[w], last_epoch'[w] = last_epoch[w]
      PROVE  Retreat(w)
  BY <1>c, <1>p DEF Retreat
<1>1. CASE Walk(w)
  <2>1. pc[w] \in WalkPcs /\ pc'[w] \in WalkPcs \cup {"acquire"} /\ UNCHANGED <<job, last_epoch>>
    BY <1>0, <1>1, WalkQuiet, WalkKeeps DEF AfterTask, Quiet
  <2> QED
    BY <1>c, <1>p, <2>1 DEF LoopPcs
<1>2. CASE InnerPrepare(w) \/ IdleDec(w) \/ IdleInc(w) \/ InnerWait(w)
  <2>1. pc[w] \in LoopPcs /\ pc'[w] \in LoopPcs /\ UNCHANGED <<job, last_epoch>>
    BY <1>0, <1>2, GotoStays DEF InnerPrepare, IdleDec, IdleInc, InnerWait, LoopPcs
  <2> QED
    BY <1>c, <1>p, <2>1
<1>3. CASE TryAcquire(w, "acquire", "in_prepare") \/ TryAcquire(w, "acquire2", "idle_inc")
  <2>1. pc[w] \in LoopPcs /\ pc'[w] \in LoopPcs \cup {"walk"} /\ UNCHANGED <<job, last_epoch>>
    BY <1>0, <1>3, GotoStays DEF TryAcquire, LoopPcs
  <2> QED
    BY <1>c, <1>p, <2>1 DEF WalkPcs
<1>4. CASE OuterPrepare(w) \/ Leave(w) \/ Enter(w)
  <2>1. /\ pc[w] \in OutPcs \cup {"enter"} /\ pc'[w] \in {"check_shutdown", "prepare", "load"}
        /\ pc[w] = "enter" => pc'[w] = "load"
        /\ last_epoch' = last_epoch
    BY <1>0, <1>4, GotoStays DEF OuterPrepare, Leave, Enter, OutPcs
  <2> QED
    BY <1>p, <2>1 DEF OutPcs, Retreat
<1>5. CASE CheckShutdown(w)
  <2>1. /\ pc[w] = "check_shutdown" /\ token' = token
        /\ \/ pc'[w] \in {"exited", "enter"}
           \/ pc'[w] = "outer_wait" /\ last_epoch' = last_epoch /\ token[w] <= last_epoch[w]
    BY <1>0, <1>5 DEF CheckShutdown, Typing
  <2> QED
    BY <1>p, <2>1 DEF OutPcs, Retreat
<1>6. CASE OuterWait(w)
  <2>1. /\ pc[w] = "outer_wait" /\ pc'[w] \in {"prepare", "parked"} /\ UNCHANGED <<token, last_epoch>>
    BY <1>0, <1>6, GotoStays DEF OuterWait
  <2> QED
    BY <1>p, <2>1 DEF OutPcs, Retreat
<1>7. CASE LoadJob(w)
  <2>1. /\ pc[w] = "load" /\ last_epoch' = last_epoch /\ job'[w] = job_ptr
        /\ \/ job_ptr = NoJob /\ pc'[w] = "leave"
           \/ pc'[w] = "acquire"
    BY <1>0, <1>7, GotoStays DEF LoadJob, Typing
  <2> QED
    BY <1>p, <2>1 DEF OutPcs, LoopPcs, Retreat
<1>8. CASE CheckDone(w)
  <2>1. /\ pc[w] = "check_done" /\ UNCHANGED <<job, last_epoch>>
        /\ \/ fold_done[job[w]] /\ pc'[w] = "leave"
           \/ pc'[w] = "acquire2"
    BY <1>0, <1>8, GotoStays DEF CheckDone
  <2> QED
    BY <1>p, <2>1 DEF OutPcs, LoopPcs, Retreat
<1> QED
  BY <1>1, <1>2, <1>3, <1>4, <1>5, <1>6, <1>7, <1>8 DEF WorkerStep

\* Every step lets every worker out in that way.
LEMMA RetreatHolds ==
  ASSUME Typing, [Next]_vars, NEW w \in Workers
  PROVE  Retreat(w)
<1>0. w \in Threads /\ w \notin Callers /\ w # Main
  BY ThreadsAssumption DEF Threads
<1>1. ASSUME NEW u \in Workers, WorkerStep(u) PROVE Retreat(w)
  <2>1. CASE u = w
    BY <1>1, <2>1, RetreatOwn
  <2>2. CASE u # w
    <3>0. u \in Threads
      BY DEF Threads
    <3>j. job'[w] = job[w]
      <4>1. CASE Enter(u) \/ LoadJob(u) \/ Leave(u)
        BY <2>2, <4>1 DEF Enter, LoadJob, Leave, Typing
      <4>2. CASE ~Enter(u) /\ ~LoadJob(u) /\ ~Leave(u)
        BY <1>1, <4>2, WorkerQuiet DEF Quiet
      <4> QED
        BY <4>1, <4>2
    <3>1. OthersStay(u)
      <4>1. CASE Enter(u) \/ LoadJob(u) \/ Leave(u)
        BY <3>0, <4>1, GotoStays DEF Enter, LoadJob, Leave
      <4>2. CASE ~Enter(u) /\ ~LoadJob(u) /\ ~Leave(u)
        BY <1>1, <4>2, WorkerQuiet DEF Quiet
      <4> QED
        BY <4>1, <4>2
    <3>2. token'[w] = token[w]
      BY <1>1, <2>2, WorkerKeeps DEF OuterPrepare, InnerPrepare, Prepare, Typing
    <3>3. last_epoch'[w] = last_epoch[w]
      BY <1>1, <2>2, WorkerKeeps DEF CheckShutdown, Typing
    <3> QED
      BY <2>2, <3>j, <3>1, <3>2, <3>3, RetreatOther
  <2> QED
    BY <2>1, <2>2
<1>2. ASSUME NEW c \in Callers, CallerStep(c) PROVE Retreat(w)
  <2>0. c \in Threads /\ c # w
    BY <1>0 DEF Threads
  <2>1. OthersStay(c)
    <3>1. CASE CallerQuietStep(c)
      BY <3>1, CallerQuiet DEF Quiet
    <3>2. CASE ~CallerQuietStep(c)
      BY <1>2, <2>0, <3>2, GotoStays DEF CallerStep, CallerQuietStep, StartFold, Finish, Lock,
         LockPoisoned, Publish, Seal, Latch, Unlock, Return
    <3> QED
      BY <3>1, <3>2
  <2>2. UNCHANGED <<token, last_epoch>>
    BY <1>2, WalkKeeps DEF CallerStep, Bump, StartFold, Finish, Lock, LockPoisoned, Publish, WakeAll,
       Poll, TryAcquire, Seal, Latch, Unlock, Return
  <2>3. job'[w] = job[w]
    <3>1. CASE CallerQuietStep(c)
      BY <3>1, CallerQuiet DEF Quiet
    <3>2. CASE ~CallerQuietStep(c)
      BY <1>2, <2>0, <3>2 DEF CallerStep, CallerQuietStep, StartFold, Finish, Lock,
         LockPoisoned, Publish, Seal, Latch, Unlock, Return, DropFrame, Typing
    <3> QED
      BY <3>1, <3>2
  <2> QED
    BY <2>0, <2>1, <2>2, <2>3, RetreatOther
<1>3. CASE MainStep
  <2>1. UNCHANGED <<token, last_epoch>>
    BY <1>3 DEF MainStep, SetShutdown, Bump, WakeAll, Join
  <2> QED
    BY <1>0, <1>3, <2>1, MainQuiet, RetreatOther DEF Quiet
<1>u. ASSUME NEW c \in Callers, Unwind(c) PROVE Retreat(w)
  <2>1. job'[w] = job[w]
    BY <1>0, <1>u DEF Unwind, DropFrame, Typing
  <2> QED
    BY <1>0, <1>u, <2>1, UnwindStays, RetreatOther DEF Unwind
<1>4. ASSUME NEW c \in Callers, Flush(c) PROVE Retreat(w)
  BY <1>4 DEF Flush, Retreat, threadVars
<1>5. ASSUME NEW c \in Callers, GiveUp(c) PROVE Retreat(w)
  BY <1>5, <1>u DEF GiveUp
<1>6. ASSUME NEW u \in Workers, SpuriousWake(u) PROVE Retreat(w)
  <2>1. UNCHANGED <<job, token, last_epoch>>
    BY <1>6 DEF SpuriousWake
  <2>2. \/ pc'[w] = pc[w]
        \/ pc[w] = "parked" /\ pc'[w] = "prepare"
        \/ pc[w] = "asleep" /\ pc'[w] = "awake"
    BY <1>0, <1>6 DEF SpuriousWake, Sleeping, Resume, Typing
  <2> QED
    BY <2>1, <2>2 DEF Retreat, OutPcs, CallPcs, LoopPcs, WalkPcs
<1>7. ASSUME NEW t \in Callers \cup Workers, ClosurePanics(t) PROVE Retreat(w)
  <2>1. CASE t \in Callers /\ Unwind(t)
    BY <2>1, <1>u
  <2>2. CASE t \in Workers /\ pc' = [pc EXCEPT ![t] = "dead"] /\ UNCHANGED <<job, token, last_epoch>>
    <3>1. pc'[w] = pc[w] \/ pc'[w] = "dead"
      BY <1>0, <2>2 DEF Typing
    <3> QED
      BY <2>2, <3>1 DEF Retreat, OutPcs, CallPcs, LoopPcs, WalkPcs
  <2> QED
    BY <1>7, <2>1, <2>2 DEF ClosurePanics
<1>8. CASE UNCHANGED vars
  BY <1>8 DEF vars, poolVars, frameVars, threadVars, Retreat
<1> QED
  BY <1>1, <1>2, <1>3, <1>4, <1>5, <1>6, <1>7, <1>8 DEF Next, Environment, Terminated

\* The news of the published job, and the workers that have it.
LEMMA EnlistInvariant == Spec /\ []EpochFits => []EnlistInv
<1>1. Init => EnlistInv
  <2> SUFFICES ASSUME Init PROVE EnlistInv
    OBVIOUS
  <2>1. /\ \A c \in Callers : pc[c] = "idle"
        /\ \A w \in Workers : pc[w] = "prepare"
    BY ThreadsAssumption DEF Init, Threads
  <2> QED
    BY <2>1 DEF EnlistInv, NewsInv, WaitInv, EveryWorkerEnlisted, PublishedPcs, BodyPcs, WalkPcs
<1>2. Typing /\ CreationInv /\ FrameInv /\ StoreInv /\ EpochInv /\ EpochFits /\ EnlistInv /\ [Next]_vars
        => EnlistInv'
  <2> SUFFICES ASSUME Typing, CreationInv, FrameInv, StoreInv, EpochInv, EpochFits, EnlistInv, [Next]_vars
               PROVE  EnlistInv'
    OBVIOUS
  <2>1. epoch' \in {epoch, epoch + 1}
    BY EpochGrows
  <2>2. \A c \in Callers : Course(c)
    BY CourseHolds
  <2>3. \A w \in Workers : Retreat(w) /\ Own(w)
    BY RetreatHolds, OwnHolds
  <2> QED
    BY <2>1, <2>2, <2>3, Enlists
<1> QED
  BY <1>1, <1>2, TypingInvariant, CreationInvariant, FrameInvariant, StoreInvariant, EpochInvariant, PTL DEF Spec

(* Workers run within each fold: from the notification of dispatch until the *)
(* fold is done no worker stays parked in the outer loop, under every memory *)
(* model, whoever panics and whatever spin limit expires, as long as the     *)
(* epoch does not wrap. (The notification is a read-modify-write after the   *)
(* store of job_ptr: whoever sees the new epoch finds the job.)              *)
THEOREM AllWorkersEnlist == Spec /\ []EpochFits => []EveryWorkerEnlisted
<1>1. EnlistInv => EveryWorkerEnlisted
  BY DEF EnlistInv
<1> QED
  BY <1>1, EnlistInvariant, PTL
-----------------------------------------------------------------------------
(* The counters of a fold: the subtrees that are not delivered yet are at     *)
(* least the queued ones and those that somebody is working on, so nothing is *)
(* subtracted from a zero.                                                    *)

\* a thread that has a subtree whose result it will deliver
HolderPcs == {"lock", "publish", "pub_inc", "pub_wake", "walk", "idle_check", "one_inc", "one_wake"}
Holders(j) == {t \in Callers \cup Workers : pc[t] \in HolderPcs /\ job[t] = j}

Books(j) ==
  /\ 0 <= queued[j] /\ queued[j] <= pushed[j] /\ pushed[j] <= MaxTasks
  /\ unfinished[j] <= pushed[j] + 1
  /\ j \notin live => pushed[j] = 0 /\ unfinished[j] = 0 /\ idle_count[j] = 0
  /\ j \in live => queued[j] + Cardinality(Holders(j)) <= unfinished[j]

BooksInv == \A j \in Jobs : Books(j)

\* The holders of subtrees can be counted.
LEMMA FiniteHolders ==
  ASSUME NEW j
  PROVE  IsFiniteSet(Holders(j)) /\ Cardinality(Holders(j)) \in Nat
<1>1. Holders(j) \subseteq Callers \cup Workers
  BY DEF Holders
<1>2. IsFiniteSet(Callers \cup Workers)
  BY ThreadsAssumption, FS_Union
<1> QED
  BY <1>1, <1>2, FS_Subset, FS_CardinalityType

\* Fewer holders have a smaller count.
LEMMA FewerHolders ==
  ASSUME NEW j, Holders(j)' \subseteq Holders(j)
  PROVE  Cardinality(Holders(j)') \in Nat /\ Cardinality(Holders(j)') <= Cardinality(Holders(j))
BY FiniteHolders, FS_Subset, FS_CardinalityType

\* A step that counts nothing and gives nobody a subtree.
LEMMA BooksKept ==
  ASSUME Typing, NEW j \in Jobs, Books(j), Holders(j)' \subseteq Holders(j),
         queued'[j] = queued[j], pushed'[j] = pushed[j], unfinished'[j] = unfinished[j],
         j \in live' <=> j \in live, j \in live \/ idle_count'[j] = idle_count[j]
  PROVE  Books(j)'
<1>1. queued[j] \in Int /\ unfinished[j] \in Int
  BY DEF Typing
<1>2. /\ Cardinality(Holders(j)') \in Nat /\ Cardinality(Holders(j)') <= Cardinality(Holders(j))
      /\ Cardinality(Holders(j)) \in Nat
  BY FewerHolders, FiniteHolders
<1>3. j \in live => queued'[j] + Cardinality(Holders(j)') <= unfinished'[j]
  BY <1>1, <1>2 DEF Books
<1> QED
  BY <1>3 DEF Books

\* Who is not the one to move does not get a subtree.
LEMMA OtherHolders ==
  ASSUME NEW t, OthersStay(t), \A u \in Callers \cup Workers : u # t => job'[u] = job[u], NEW j
  PROVE  Holders(j)' \subseteq Holders(j) \cup {t}
<1>1. \A u \in Callers \cup Workers : u # t => (pc'[u] \in HolderPcs => pc[u] \in HolderPcs)
  BY Others DEF HolderPcs
<1> QED
  BY <1>1 DEF Holders

\* The same of the step of one thread.
LEMMA BooksOne ==
  ASSUME Typing, BooksInv, NEW t, OthersStay(t), \A u \in Callers \cup Workers : u # t => job'[u] = job[u],
         t \in Callers \cup Workers => (pc'[t] \in HolderPcs => pc[t] \in HolderPcs /\ job'[t] = job[t]),
         UNCHANGED <<queued, pushed, unfinished, live>>,
         \A j \in Jobs \ live : idle_count'[j] = idle_count[j]
  PROVE  BooksInv'
<1> SUFFICES ASSUME NEW j \in Jobs PROVE Books(j)'
  BY DEF BooksInv
<1>1. Holders(j)' \subseteq Holders(j)
  BY OtherHolders DEF Holders
<1> QED
  BY <1>1, BooksKept DEF BooksInv

\* A thread that acquires a task takes it out of the queue, into its hands.
LEMMA AcquireBooks ==
  ASSUME Typing, BooksInv, NEW t \in Callers \cup Workers, NEW f, NEW x, x \notin HolderPcs, TryAcquire(t, f, x)
  PROVE  BooksInv'
<1>0. t \in Threads
  BY DEF Threads
<1>1. UNCHANGED <<pushed, unfinished, live, idle_count, job>> /\ job[t] \in live
  BY DEF TryAcquire, OnLiveFrame
<1>2. CASE queued[job[t]] > 0 /\ queued' = [queued EXCEPT ![job[t]] = @ - 1] /\ Goto(t, f, "walk")
  <2>1. OthersStay(t)
    BY <1>0, <1>2, GotoStays
  <2> SUFFICES ASSUME NEW j \in Jobs PROVE Books(j)'
    BY DEF BooksInv
  <2>2. Books(j) /\ queued[j] \in Int /\ unfinished[j] \in Int /\ pushed[j] \in Int
    BY DEF BooksInv, Typing
  <2>3. Holders(j)' \subseteq Holders(j) \cup {t}
    BY <1>1, <2>1, OtherHolders
  <2>4. CASE j = job[t]
    <3>1. /\ Cardinality(Holders(j)') \in Nat /\ Cardinality(Holders(j)) \in Nat
          /\ Cardinality(Holders(j)') <= Cardinality(Holders(j)) + 1
      <4>1. IsFiniteSet(Holders(j)) /\ Cardinality(Holders(j)) \in Nat
        BY FiniteHolders
      <4>2. /\ IsFiniteSet(Holders(j) \cup {t}) /\ Cardinality(Holders(j) \cup {t}) \in Nat
            /\ Cardinality(Holders(j) \cup {t}) <= Cardinality(Holders(j)) + 1
        BY <4>1, FS_AddElement, FS_CardinalityType
      <4>3. /\ Cardinality(Holders(j)') <= Cardinality(Holders(j) \cup {t})
            /\ Cardinality(Holders(j)') \in Nat
        BY <2>3, <4>2, FS_Subset, FS_CardinalityType
      <4> QED
        BY <4>1, <4>2, <4>3
    <3>2. queued[j] > 0 /\ queued'[j] = queued[j] - 1
      BY <1>2, <2>4 DEF Typing
    <3> QED
      BY <1>1, <2>2, <2>4, <3>1, <3>2 DEF Books
  <2>5. CASE j # job[t]
    <3>1. Holders(j)' \subseteq Holders(j)
      BY <1>1, <2>3, <2>5 DEF Holders
    <3>2. queued'[j] = queued[j]
      BY <1>2, <2>5 DEF Typing
    <3> QED
      BY <1>1, <2>2, <3>1, <3>2, BooksKept
  <2> QED
    BY <2>4, <2>5
<1>3. CASE queued' = queued /\ Goto(t, f, x)
  BY <1>0, <1>1, <1>3, GotoStays, BooksOne
<1> QED
  BY <1>2, <1>3 DEF TryAcquire

\* A pushed subtree is queued and not delivered.
LEMMA PushBooks ==
  ASSUME Typing, BooksInv, NEW t \in Callers \cup Workers, PushTask(t)
  PROVE  BooksInv'
<1>0. t \in Threads
  BY DEF Threads
<1>1. UNCHANGED <<live, idle_count, job>> /\ job[t] \in live
  BY DEF PushTask, OnLiveFrame
<1>2. OthersStay(t) /\ pc[t] = "walk"
  BY <1>0, GotoStays DEF PushTask
<1> SUFFICES ASSUME NEW j \in Jobs PROVE Books(j)'
  BY DEF BooksInv
<1>3. Books(j) /\ queued[j] \in Int /\ unfinished[j] \in Int /\ pushed[j] \in Int
  BY DEF BooksInv, Typing
<1>4. Holders(j)' \subseteq Holders(j)
  BY <1>1, <1>2, OtherHolders DEF Holders, HolderPcs
<1>5. CASE j = job[t]
  <2>1. /\ pushed[j] < MaxTasks /\ pushed'[j] = pushed[j] + 1
        /\ queued'[j] = queued[j] + 1 /\ unfinished'[j] = unfinished[j] + 1
    BY <1>5 DEF PushTask, Typing
  <2>2. /\ Cardinality(Holders(j)') \in Nat /\ Cardinality(Holders(j)') <= Cardinality(Holders(j))
        /\ Cardinality(Holders(j)) \in Nat
    BY <1>4, FewerHolders, FiniteHolders
  <2> QED
    BY <1>1, <1>3, <1>5, <2>1, <2>2, BoundsAssumption DEF Books
<1>6. CASE j # job[t]
  <2>1. queued'[j] = queued[j] /\ pushed'[j] = pushed[j] /\ unfinished'[j] = unfinished[j]
    BY <1>6 DEF PushTask, Typing
  <2> QED
    BY <1>1, <1>3, <1>4, <2>1, BooksKept
<1> QED
  BY <1>5, <1>6

\* A delivered result is that of a subtree its thread held.
LEMMA DeliverBooks ==
  ASSUME Typing, BooksInv, NEW t \in Callers \cup Workers, DeliverResult(t)
  PROVE  BooksInv'
<1>0. t \in Threads
  BY DEF Threads
<1>1. UNCHANGED <<live, idle_count, job, queued, pushed>> /\ job[t] \in live
  BY DEF DeliverResult, OnLiveFrame
<1>2. OthersStay(t) /\ pc[t] = "walk" /\ pc'[t] \notin HolderPcs
  BY <1>0, GotoStays DEF DeliverResult, AfterTask, HolderPcs
<1> SUFFICES ASSUME NEW j \in Jobs PROVE Books(j)'
  BY DEF BooksInv
<1>3. Books(j) /\ queued[j] \in Int /\ unfinished[j] \in Int /\ pushed[j] \in Int
  BY DEF BooksInv, Typing
<1>4. Holders(j)' \subseteq Holders(j) \ {t}
  BY <1>1, <1>2, OtherHolders DEF Holders
<1>5. CASE j = job[t]
  <2>1. unfinished'[j] = unfinished[j] - 1
    BY <1>5 DEF DeliverResult, Typing
  <2>2. t \in Holders(j)
    BY <1>2, <1>5 DEF Holders, HolderPcs
  <2>3. IsFiniteSet(Holders(j)) /\ Cardinality(Holders(j)) \in Nat
    BY FiniteHolders
  <2>4. IsFiniteSet(Holders(j) \ {t}) /\ Cardinality(Holders(j) \ {t}) = Cardinality(Holders(j)) - 1
    BY <2>2, <2>3, FS_RemoveElement
  <2>5. /\ Cardinality(Holders(j)') \in Nat
        /\ Cardinality(Holders(j)') <= Cardinality(Holders(j)) - 1
    BY <1>4, <2>4, FS_Subset, FS_CardinalityType
  <2> QED
    BY <1>1, <1>3, <1>5, <2>1, <2>3, <2>5 DEF Books
<1>6. CASE j # job[t]
  <2>1. unfinished'[j] = unfinished[j]
    BY <1>6 DEF DeliverResult, Typing
  <2> QED
    BY <1>1, <1>3, <1>4, <2>1, BooksKept
<1> QED
  BY <1>5, <1>6

\* A new fold has one subtree, its caller's.
LEMMA StartBooks ==
  ASSUME Typing, FreshInv, BooksInv, NEW c \in Callers, StartFold(c)
  PROVE  BooksInv'
<1>1. /\ pc[c] = "idle" /\ pc'[c] = "lock" /\ OthersStay(c)
  BY GotoStays DEF StartFold, Threads
<1>2. /\ job'[c] = folds + 1 /\ \A u \in Callers \cup Workers : u # c => job'[u] = job[u]
      /\ live' = live \cup {folds + 1} /\ UNCHANGED <<queued, pushed, idle_count>>
  BY DEF StartFold, Typing
<1>n. /\ folds \in Nat /\ \A u \in Callers \cup Workers : job[u] \in Nat /\ job[u] <= folds
      /\ folds + 1 \in Jobs
  BY JobNumbers, BoundsAssumption DEF FreshInv, StartFold, Jobs
<1> SUFFICES ASSUME NEW j \in Jobs PROVE Books(j)'
  BY DEF BooksInv
<1>3. Books(j) /\ queued[j] \in Int /\ unfinished[j] \in Int /\ pushed[j] \in Int
  BY DEF BooksInv, Typing
<1>4. Holders(j)' \subseteq Holders(j) \cup {c}
  BY <1>1, <1>2, OtherHolders
<1>5. CASE j = folds + 1
  <2>1. j \notin live /\ unfinished'[j] = 1
    BY <1>5, <1>n DEF FreshInv, StartFold, Typing
  <2>2. pushed[j] = 0 /\ queued[j] = 0
    BY <1>3, <2>1 DEF Books
  <2>3. Holders(j) = {}
    BY <1>5, <1>n DEF Holders
  <2>4. /\ Cardinality(Holders(j)') \in Nat /\ Cardinality(Holders(j)') <= 1
    <3>1. Holders(j)' \subseteq {c}
      BY <1>4, <2>3
    <3>2. IsFiniteSet({c}) /\ Cardinality({c}) = 1
      BY FS_Singleton
    <3> QED
      BY <3>1, <3>2, FS_Subset, FS_CardinalityType
  <2> QED
    BY <1>2, <1>3, <1>5, <2>1, <2>2, <2>4 DEF Books
<1>6. CASE j # folds + 1
  <2>1. unfinished'[j] = unfinished[j]
    BY <1>6 DEF StartFold, Typing
  <2>2. Holders(j)' \subseteq Holders(j)
    BY <1>2, <1>4, <1>6 DEF Holders
  <2> QED
    BY <1>2, <1>3, <1>6, <2>1, <2>2, BooksKept
<1> QED
  BY <1>5, <1>6

\* A frame that goes counts nothing any more.
LEMMA DropBooks ==
  ASSUME Typing, BooksInv, NEW c \in Callers, DropFrame(c), OthersStay(c)
  PROVE  BooksInv'
<1>1. /\ job'[c] = NoJob /\ \A u \in Callers \cup Workers : u # c => job'[u] = job[u]
      /\ live' = live \ {job[c]}
  BY DEF DropFrame, Typing
<1> SUFFICES ASSUME NEW j \in Jobs PROVE Books(j)'
  BY DEF BooksInv
<1>2. Books(j)
  BY DEF BooksInv
<1>3. CASE j = job[c]
  <2>1. queued'[j] = 0 /\ pushed'[j] = 0 /\ unfinished'[j] = 0 /\ idle_count'[j] = 0
    BY <1>3 DEF DropFrame, Typing
  <2> QED
    BY <1>1, <1>3, <2>1, BoundsAssumption DEF Books
<1>4. CASE j # job[c]
  <2>1. /\ queued'[j] = queued[j] /\ pushed'[j] = pushed[j] /\ unfinished'[j] = unfinished[j]
        /\ idle_count'[j] = idle_count[j]
    BY <1>4 DEF DropFrame, Typing
  <2>2. j # NoJob
    BY DEF Jobs, NoJob
  <2>3. Holders(j)' \subseteq Holders(j)
    BY <1>1, <2>2, OtherHolders DEF Holders
  <2> QED
    BY <1>1, <1>2, <1>4, <2>1, <2>3, BooksKept
<1> QED
  BY <1>3, <1>4

\* No counter of a walk runs below zero.
LEMMA WalkBooks ==
  ASSUME Typing, BooksInv, NEW t \in Callers \cup Workers, Walk(t)
  PROVE  BooksInv'
<1>0. t \in Threads
  BY DEF Threads
<1>q. OthersStay(t) /\ UNCHANGED <<job, live, idle_count>>
  BY WalkQuiet, WalkKeeps DEF Quiet
<1>1. CASE PushTask(t)
  BY <1>1, PushBooks
<1>2. CASE DeliverResult(t)
  BY <1>2, DeliverBooks
<1>3. CASE ~PushTask(t) /\ ~DeliverResult(t)
  <2>1. UNCHANGED <<queued, pushed, unfinished>>
    BY <1>3 DEF Walk, CheckIdle, Bump, WakeOne, SetRootCell, SetFoldDone, WakeAll, frameVars
  <2>2. pc'[t] \in HolderPcs => pc[t] \in HolderPcs
    <3>1. CASE WakeOne(t)
      BY <3>1 DEF WakeOne, HolderPcs
    <3>2. CASE WakeAll(t, "done_wake", AfterTask(t))
      BY <1>0, <3>2, WakeAllQuiet DEF AfterTask, HolderPcs
    <3> QED
      BY <1>0, <1>3, <3>1, <3>2, GotoStays DEF Walk, CheckIdle, Bump, SetRootCell, SetFoldDone, HolderPcs
  <2> QED
    BY <1>q, <2>1, <2>2, BooksOne
<1> QED
  BY <1>1, <1>2, <1>3

\* So do those of every step of a worker.
LEMMA WorkerBooks ==
  ASSUME Typing, BooksInv, NEW w \in Workers, WorkerStep(w)
  PROVE  BooksInv'
<1>0. w \in Threads /\ w \in Callers \cup Workers
  BY DEF Threads
<1>1. CASE Walk(w)
  BY <1>0, <1>1, WalkBooks
<1>2. CASE TryAcquire(w, "acquire", "in_prepare") \/ TryAcquire(w, "acquire2", "idle_inc")
  BY <1>0, <1>2, AcquireBooks DEF HolderPcs
<1>3. CASE ~Walk(w) /\ ~TryAcquire(w, "acquire", "in_prepare") /\ ~TryAcquire(w, "acquire2", "idle_inc")
  <2>1. OthersStay(w) /\ pc'[w] \notin HolderPcs
    <3>1. CASE CheckShutdown(w)
      BY <1>0, <3>1 DEF CheckShutdown, OthersStay, Typing, HolderPcs
    <3> QED
      BY <1>0, <1>3, <3>1, GotoStays DEF WorkerStep, OuterPrepare, OuterWait, Enter, LoadJob,
         Leave, InnerPrepare, CheckDone, IdleInc, InnerWait, IdleDec, HolderPcs
  <2>2. /\ UNCHANGED <<queued, pushed, unfinished, live>>
        /\ \A u \in Callers \cup Workers : u # w => job'[u] = job[u]
    BY <1>0, <1>3 DEF WorkerStep, OuterPrepare, CheckShutdown, OuterWait, Enter, LoadJob,
       Leave, InnerPrepare, CheckDone, IdleInc, InnerWait, IdleDec, frameVars, Typing
  <2>3. \A j \in Jobs \ live : idle_count'[j] = idle_count[j]
    <3>1. CASE IdleInc(w) \/ IdleDec(w)
      BY <3>1 DEF IdleInc, IdleDec, OnLiveFrame, Typing
    <3>2. CASE ~IdleInc(w) /\ ~IdleDec(w)
      BY <3>2, WorkerKeeps
    <3> QED
      BY <3>1, <3>2
  <2> QED
    BY <2>1, <2>2, <2>3, BooksOne
<1> QED
  BY <1>1, <1>2, <1>3

\* So do those of every step of a caller.
LEMMA CallerBooks ==
  ASSUME Typing, FreshInv, BooksInv, NEW c \in Callers, CallerStep(c)
  PROVE  BooksInv'
<1>0. c \in Threads /\ c \in Callers \cup Workers
  BY DEF Threads
<1>1. CASE Walk(c)
  BY <1>0, <1>1, WalkBooks
<1>2. CASE TryAcquire(c, "poll_acquire", "poll")
  BY <1>0, <1>2, AcquireBooks DEF HolderPcs
<1>3. CASE StartFold(c)
  BY <1>3, StartBooks
<1>4. CASE Return(c) \/ LockPoisoned(c)
  BY <1>0, <1>4, GotoStays, DropBooks DEF Return, LockPoisoned
<1>5. CASE \/ Finish(c) \/ Lock(c) \/ Publish(c) \/ Poll(c) \/ Seal(c) \/ Latch(c) \/ Unlock(c)
           \/ Bump(c, "pub_inc", "pub_wake") \/ WakeAll(c, "pub_wake", "walk")
  <2>1. UNCHANGED <<job, live, queued, pushed, unfinished, idle_count>>
    BY <1>5 DEF Finish, Lock, Publish, Poll, Seal, Latch, Unlock, Bump, WakeAll, frameVars
  <2>2. OthersStay(c) /\ (pc'[c] \in HolderPcs => pc[c] \in HolderPcs)
    <3>1. CASE WakeAll(c, "pub_wake", "walk")
      BY <1>0, <3>1, WakeAllQuiet DEF Quiet, HolderPcs
    <3> QED
      BY <1>0, <1>5, <3>1, GotoStays DEF Finish, Lock, Publish, Poll, Seal, Latch, Unlock, Bump, HolderPcs
  <2> QED
    BY <2>1, <2>2, BooksOne
<1> QED
  BY <1>1, <1>2, <1>3, <1>4, <1>5 DEF CallerStep

\* So do those of everything else.
LEMMA OtherBooks ==
  ASSUME Typing, BooksInv, MainStep \/ Environment
  PROVE  BooksInv'
<1>1. CASE MainStep
  <2>1. Quiet(Main) /\ Main \notin Callers \cup Workers
    BY <1>1, MainQuiet, ThreadsAssumption
  <2>2. UNCHANGED <<queued, pushed, unfinished, idle_count>>
    BY <1>1 DEF MainStep, SetShutdown, Bump, WakeAll, Join, frameVars
  <2> QED
    BY <2>1, <2>2, BooksOne DEF Quiet
<1>2. ASSUME NEW c \in Callers, Flush(c) PROVE BooksInv'
  BY <1>2, BooksOne DEF Flush, OthersStay, frameVars, threadVars
<1>u. ASSUME NEW c \in Callers, Unwind(c) PROVE BooksInv'
  BY <1>u, UnwindStays, DropBooks DEF Unwind
<1>3. ASSUME NEW c \in Callers, GiveUp(c) PROVE BooksInv'
  BY <1>3, <1>u DEF GiveUp
<1>4. ASSUME NEW w \in Workers, SpuriousWake(w) PROVE BooksInv'
  <2>1. /\ OthersStay(w) /\ pc'[w] \notin HolderPcs
        /\ UNCHANGED <<job, live, queued, pushed, unfinished, idle_count>>
    BY <1>4 DEF SpuriousWake, OthersStay, Sleeping, Resume, Typing, Threads, frameVars, HolderPcs
  <2> QED
    BY <2>1, BooksOne
<1>5. ASSUME NEW t \in Callers \cup Workers, ClosurePanics(t) PROVE BooksInv'
  <2>1. CASE t \in Callers /\ Unwind(t)
    BY <2>1, <1>u
  <2>2. CASE t \in Workers /\ pc' = [pc EXCEPT ![t] = "dead"] /\ UNCHANGED <<frameVars, job>>
    <3>1. /\ OthersStay(t) /\ pc'[t] \notin HolderPcs
          /\ UNCHANGED <<job, live, queued, pushed, unfinished, idle_count>>
      BY <2>2 DEF OthersStay, Typing, Threads, frameVars, HolderPcs
    <3> QED
      BY <3>1, BooksOne
  <2> QED
    BY <1>5, <2>1, <2>2 DEF ClosurePanics
<1> QED
  BY <1>1, <1>2, <1>3, <1>4, <1>5 DEF Environment

\* The subtrees of every fold are accounted for, with every kind of panic.
LEMMA BooksInvariant == Spec => []BooksInv
<1>1. Init => BooksInv
  <2> SUFFICES ASSUME Init, NEW j \in Jobs PROVE Books(j)
    BY DEF BooksInv
  <2> QED
    BY BoundsAssumption DEF Init, Books
<1>2. Typing /\ FreshInv /\ BooksInv /\ [Next]_vars => BooksInv'
  <2> SUFFICES ASSUME Typing, FreshInv, BooksInv, [Next]_vars PROVE BooksInv'
    OBVIOUS
  <2>1. CASE UNCHANGED vars
    BY <2>1 DEF vars, frameVars, threadVars, BooksInv, Books, Holders
  <2>2. CASE Next
    BY <2>1, <2>2, WorkerBooks, CallerBooks, OtherBooks DEF Next, Terminated
  <2> QED
    BY <2>1, <2>2
<1>3. CreationInv => FreshInv
  BY DEF CreationInv
<1> QED
  BY <1>1, <1>2, <1>3, TypingInvariant, CreationInvariant, PTL DEF Spec

(* Every reachable state of the pool is well typed, for every number of      *)
(* callers, workers, folds and tasks, under every memory model and with      *)
(* every kind of panic the model has: no unsigned counter runs below zero,   *)
(* in_job and idle_count never exceed the workers, and the count of a fold's *)
(* undelivered subtrees never exceeds those pushed and the root.             *)
THEOREM TypeCorrect == Spec => []TypeOK
<1>1. Typing /\ InJobExact /\ IdleCountExact /\ BooksInv => TypeOK
  <2> SUFFICES ASSUME Typing, InJobExact, IdleCountExact, BooksInv PROVE TypeOK
    OBVIOUS
  <2>w. IsFiniteSet(Workers) /\ Cardinality(Workers) \in Nat
    BY ThreadsAssumption, FS_CardinalityType
  <2>1. in_job \in 0 .. Cardinality(Workers)
    <3>1. Region \subseteq Workers /\ in_job = Cardinality(Region)
      BY DEF Region, RegionPcs, InJobExact
    <3> QED
      BY <2>w, <3>1, FiniteRegion, FS_Subset
  <2>2. ASSUME NEW j \in Jobs
        PROVE  /\ queued[j] \in 0 .. MaxTasks /\ pushed[j] \in 0 .. MaxTasks
               /\ unfinished[j] \in 0 .. MaxTasks + 1
               /\ queued[j] <= pushed[j] /\ unfinished[j] <= pushed[j] + 1
               /\ j \notin live => pushed[j] = 0 /\ unfinished[j] = 0 /\ idle_count[j] = 0
    <3>1. Books(j) /\ queued[j] \in Int /\ pushed[j] \in Int /\ unfinished[j] \in Int
      BY DEF BooksInv, Typing
    <3>2. Cardinality(Holders(j)) \in Nat
      BY FiniteHolders
    <3> QED
      BY <3>1, <3>2, BoundsAssumption DEF Books
  <2>3. ASSUME NEW j \in Jobs PROVE idle_count[j] \in 0 .. Cardinality(Workers)
    <3>1. CASE j \in live
      <4>1. Idlers(j) \subseteq Workers /\ idle_count[j] = Cardinality(Idlers(j))
        BY <3>1, IdleCountNames DEF Idlers
      <4> QED
        BY <2>w, <4>1, FiniteIdlers, FS_Subset
    <3>2. CASE j \notin live
      BY <2>2, <2>w, <3>2
    <3> QED
      BY <3>1, <3>2
  <2>4. /\ queued \in [Jobs -> 0 .. MaxTasks] /\ pushed \in [Jobs -> 0 .. MaxTasks]
        /\ unfinished \in [Jobs -> 0 .. MaxTasks + 1]
        /\ idle_count \in [Jobs -> 0 .. Cardinality(Workers)]
    BY <2>2, <2>3 DEF Typing
  <2> QED
    BY <2>1, <2>2, <2>4 DEF Typing, TypeOK
<1> QED
  BY <1>1, TypingInvariant, InJobIsExact, IdleCountIsExact, BooksInvariant, PTL

=============================================================================
