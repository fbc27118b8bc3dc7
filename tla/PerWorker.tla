------------------------------ MODULE PerWorker ------------------------------
(***************************************************************************)
(* The PerWorker queue policy at work in a fold: every thread pushes to    *)
(* its own deque and announces it in the bit mask work_available; a thread *)
(* without tasks pops its own deque, then steals from the deques whose bit *)
(* is set and clears the bit of each one it finds empty. With it the wake  *)
(* policies, which decide after a push whether to wake an idle worker, and *)
(* the worker loop up to its sleep on the event count.                     *)
(*                                                                         *)
(* The deques are atomic here (WorkerDeque implements TaskDeque); the      *)
(* window between an access to a deque and one to the mask is what this    *)
(* module is about. The event count is atomic too (Pool has its steps).    *)
(***************************************************************************)
EXTENDS Integers, Sequences, FiniteSets, FiniteSetsExt, SequencesExt

CONSTANTS
  Workers,           \* n_workers: the workers are 0 .. Workers - 1, the caller is Workers
  MaskWidths,        \* {64}: 1u64 << idx wraps around in a release build
  Capacity,          \* deque_capacity
  Policies,          \* a subset of {"EveryPush", "OncePerBatch", "EveryK"}
  K,                 \* of EveryK<K>
  MaxTasks           \* bound: tasks pushed during the fold

ASSUME PerWorkerAssumption ==
  /\ {Workers, Capacity, K} \cup MaskWidths \subseteq Nat \ {0} /\ MaxTasks \in Nat
  /\ Policies \subseteq {"EveryPush", "OncePerBatch", "EveryK"}

Caller == Workers
Threads == 0 .. Workers
Tasks == 1 .. MaxTasks

VARIABLES
  deque,             \* the deques, oldest task first
  work_available,    \* the bits that are set
  width,             \* the width of the mask
  policy, wake_state,
  done,              \* fold_done and the root cell
  token,             \* is the event count's epoch still that of the worker's token?
  pc,
  bits,              \* try_acquire's copy of the mask
  second,            \* worker_loop: is this the try_acquire after prepare()?
  depth,             \* walks on the thread's stack: inline runs nest
  pushed,            \* tasks pushed so far (bounded by MaxTasks)
  unfinished,        \* walks, queued ones included, that are not over
  runs               \* history: how often each task was executed

queueVars == <<deque, work_available>>
configVars == <<width, policy>>
walkVars == <<depth, pushed, unfinished, runs>>
eventVars == <<done, token>>
loopVars == <<bits, second>>
vars == <<queueVars, configVars, wake_state, eventVars, pc, loopVars, walkVars>>

Init ==
  /\ deque = [i \in Threads |-> <<>>] /\ work_available = {}
  /\ width \in MaskWidths /\ policy \in Policies
  /\ wake_state = [i \in Threads |-> 0]
  /\ done = FALSE /\ token = [i \in Threads |-> FALSE]
  /\ pc = [i \in Threads |-> IF i = Caller THEN "walk" ELSE "acquire"]
  /\ bits = [i \in Threads |-> {}] /\ second = [i \in Threads |-> FALSE]
  /\ depth = [i \in Threads |-> IF i = Caller THEN 1 ELSE 0]
  /\ pushed = 0 /\ unfinished = 1 /\ runs = [x \in Tasks |-> 0]

Bit(i) == i % width

Goto(i, from, to) ==
  /\ pc[i] = from
  /\ pc' = [pc EXCEPT ![i] = to]

-----------------------------------------------------------------------------
(* The wake policies: a flag for OncePerBatch, a count for EveryK. *)

AfterPush(state) ==
  CASE policy = "EveryPush"    -> 0
    [] policy = "OncePerBatch" -> 1
    [] policy = "EveryK"       -> state + 1
ShouldNotify(state) ==
  CASE policy = "EveryPush"    -> TRUE
    [] policy = "OncePerBatch" -> state = 0
    [] policy = "EveryK"       -> state = 0 \/ (state + 1) % K = 0

ResetWake(i) == wake_state' = [wake_state EXCEPT ![i] = 0]

Asleep == {i \in Threads : pc[i] = "asleep"}          \* idle_count's threads
\* the epoch moves; woken threads go round the loop
Wake(i, to, woken) ==
  /\ token' = [j \in Threads |-> FALSE]
  /\ pc' = [j \in Threads |-> IF j = i THEN to ELSE IF j \in woken THEN "acquire" ELSE pc[j]]

-----------------------------------------------------------------------------
(* A walk: batches of pushes, one batch for each node it visits. *)

FullTooLate(i) == Len(deque[i]) > Capacity            \* mutant
Full(i) == Len(deque[i]) >= Capacity

\* execute_task, or the walk of the task push gave back
Start(i, x) ==
  /\ runs' = [runs EXCEPT ![x] = @ + 1]
  /\ depth' = [depth EXCEPT ![i] = @ + 1]
  /\ ResetWake(i)

OverflowDropped(i, x) == UNCHANGED <<runs, depth, wake_state>>       \* mutant
Overflow(i, x) == Start(i, x)

Push(i) ==
  LET x == pushed + 1 IN
  /\ pushed < MaxTasks
  /\ pushed' = x /\ unfinished' = unfinished + 1
  /\ \/ /\ ~Full(i)
        /\ Goto(i, "walk", "set_bit")
        /\ deque' = [deque EXCEPT ![i] = Append(@, x)]
        /\ UNCHANGED <<runs, depth, wake_state>>
     \/ /\ Full(i)
        /\ Goto(i, "walk", "walk")
        /\ Overflow(i, x)
        /\ UNCHANGED deque
  /\ UNCHANGED <<work_available, configVars, eventVars, loopVars>>

SetBit(i) ==
  /\ Goto(i, "set_bit", "notify")
  /\ work_available' = work_available \cup {Bit(i)}
  /\ UNCHANGED <<deque, configVars, wake_state, eventVars, loopVars, walkVars>>

\* notify_idle
Notify(i) ==
  /\ pc[i] = "notify"
  /\ wake_state' = [wake_state EXCEPT ![i] = AfterPush(@)]
  /\ IF ShouldNotify(wake_state[i]) /\ Asleep # {}
       THEN \E j \in Asleep : Wake(i, "walk", {j})
       ELSE Goto(i, "notify", "walk") /\ UNCHANGED token
  /\ UNCHANGED <<queueVars, configVars, done, loopVars, walkVars>>

\* the walk goes on with its first child: a new batch
NextVisit(i) ==
  /\ pc[i] = "walk" /\ ResetWake(i)
  /\ UNCHANGED <<queueVars, configVars, eventVars, pc, loopVars, walkVars>>

\* mutant: the root's result is set and the sleepers are not told
QuietEnd(i, to) == Goto(i, "walk", to) /\ UNCHANGED token
EndFold(i, to) == pc[i] = "walk" /\ Wake(i, to, Asleep)

Finish(i) ==
  LET to == IF depth[i] = 1 THEN "acquire" ELSE "walk" IN
  /\ pc[i] = "walk"
  /\ depth' = [depth EXCEPT ![i] = @ - 1]
  /\ unfinished' = unfinished - 1
  /\ done' = (unfinished' = 0)
  /\ IF done' THEN EndFold(i, to) ELSE Goto(i, "walk", to) /\ UNCHANGED token
  /\ UNCHANGED <<queueVars, configVars, wake_state, loopVars, pushed, runs>>

-----------------------------------------------------------------------------
(* try_acquire *)

Return(i) ==
  /\ i = Caller /\ done
  /\ Goto(i, "acquire", "returned")
  /\ UNCHANGED <<queueVars, configVars, wake_state, eventVars, loopVars, walkVars>>

Execute(i, from, x) ==
  /\ Goto(i, from, "walk")
  /\ Start(i, x)
  /\ second' = [second EXCEPT ![i] = FALSE]
  /\ bits' = [bits EXCEPT ![i] = {}]
  /\ UNCHANGED <<work_available, configVars, eventVars, pushed, unfinished>>

\* mutant: the mask decides about the thread's own deque as well
HasOwnAnnounced(i) == deque[i] # <<>> /\ Bit(i) \in work_available
HasOwn(i) == deque[i] # <<>>

PopOwn(i) ==
  /\ ~(i = Caller /\ done)
  /\ \/ /\ HasOwn(i)
        /\ Execute(i, "acquire", Last(deque[i]))
        /\ deque' = [deque EXCEPT ![i] = Front(@)]
     \/ /\ ~HasOwn(i)
        /\ Goto(i, "acquire", "load")
        /\ UNCHANGED <<queueVars, configVars, wake_state, eventVars, loopVars, walkVars>>

\* the caller polls; a worker prepares to sleep and tries once more
GiveUp(i) == IF i = Caller THEN "acquire" ELSE IF second[i] THEN "wait" ELSE "prepare"
StealFrom(i, targets) ==
  /\ bits' = [bits EXCEPT ![i] = targets]
  /\ second' = [second EXCEPT ![i] = @ /\ targets # {}]

LoadMask(i) ==
  LET targets == work_available \ {Bit(i)} IN
  /\ Goto(i, "load", IF targets = {} THEN GiveUp(i) ELSE "steal")
  /\ StealFrom(i, targets)
  /\ UNCHANGED <<queueVars, configVars, wake_state, eventVars, walkVars>>

Target(i) == Min(bits[i])                             \* trailing_zeros

Steal(i) ==
  \/ /\ Goto(i, "steal", "clear")
     /\ deque[Target(i)] = <<>>
     /\ UNCHANGED <<queueVars, configVars, wake_state, eventVars, loopVars, walkVars>>
  \/ /\ pc[i] = "steal" /\ deque[Target(i)] # <<>>
     /\ Execute(i, "steal", Head(deque[Target(i)]))
     /\ deque' = [deque EXCEPT ![Target(i)] = Tail(@)]

\* by now the owner may have pushed again
ClearBit(i) ==
  LET targets == bits[i] \ {Target(i)} IN
  /\ Goto(i, "clear", IF targets = {} THEN GiveUp(i) ELSE "steal")
  /\ work_available' = work_available \ {Target(i)}
  /\ StealFrom(i, targets)
  /\ UNCHANGED <<deque, configVars, wake_state, eventVars, walkVars>>

-----------------------------------------------------------------------------
(* worker_loop *)

\* prepare(), then fold_done
Prepare(i) ==
  /\ Goto(i, "prepare", IF done THEN "returned" ELSE "acquire")
  /\ token' = [token EXCEPT ![i] = ~done]
  /\ second' = [second EXCEPT ![i] = ~done]
  /\ UNCHANGED <<queueVars, configVars, wake_state, done, bits, walkVars>>

\* idle_count goes up, and down again when the wait is over
Wait(i) ==
  /\ Goto(i, "wait", IF token[i] THEN "asleep" ELSE "acquire")
  /\ token' = [token EXCEPT ![i] = FALSE]
  /\ UNCHANGED <<queueVars, configVars, wake_state, done, loopVars, walkVars>>

Step(i) ==
  \/ SetBit(i) \/ Notify(i) \/ Return(i) \/ PopOwn(i) \/ LoadMask(i) \/ Steal(i)
  \/ ClearBit(i) \/ Prepare(i) \/ Wait(i)

Next == \E i \in Threads : Push(i) \/ NextVisit(i) \/ Finish(i) \/ Step(i)

Spec == Init /\ [][Next]_vars

\* The scheduler runs every thread and every closure of the fold returns.
FairSpec == Spec /\ \A i \in Threads : WF_vars(Step(i)) /\ WF_vars(Finish(i))

-----------------------------------------------------------------------------
(* Type correctness; no deque exceeds its capacity.                          *)
TypeOK ==
  /\ deque \in [Threads -> Seq(Tasks)] /\ \A i \in Threads : Len(deque[i]) <= Capacity
  /\ work_available \subseteq Threads /\ bits \in [Threads -> SUBSET Threads]
  /\ width \in MaskWidths /\ policy \in Policies /\ wake_state \in [Threads -> 0 .. MaxTasks]
  /\ done \in BOOLEAN /\ token \in [Threads -> BOOLEAN] /\ second \in [Threads -> BOOLEAN]
  /\ pc \in [Threads -> {"walk", "set_bit", "notify", "acquire", "load", "steal", "clear", "prepare",
                         "wait", "asleep", "returned"}]
  /\ depth \in [Threads -> 0 .. MaxTasks + 1]
  /\ pushed \in 0 .. MaxTasks /\ unfinished \in 0 .. MaxTasks + 1 /\ runs \in [Tasks -> Nat]

(* Every pushed task waits in one deque or was executed, once, whether it was*)
(* popped, stolen or given back by a full deque.                             *)
RunOnce ==
  \A x \in 1 .. pushed :
    LET places == {i \in Threads : Contains(deque[i], x)} IN
    Cardinality(places) + runs[x] = 1

(* A thief may clear the bit of a deque that has been filled again, and with *)
(* more threads than bits a deque may have none of its own. No task depends  *)
(* on being seen: a thread that goes to sleep, or leaves, has emptied its own*)
(* deque, so hidden tasks always have an owner that is awake.                *)
HiddenTasksHaveAwakeOwners ==
  \A i \in Threads : pc[i] \in {"wait", "asleep", "returned"} => deque[i] = <<>>

(* The fold comes to its end and every thread leaves it, under each wake     *)
(* policy: a notification that is not sent delays no one for ever.           *)
FoldEnds == <>[](done /\ \A i \in Threads : pc[i] = "returned")
=============================================================================
