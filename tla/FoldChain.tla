----------------------------- MODULE FoldChain -----------------------------
(***************************************************************************)
(* FoldChain: the accumulator of one node with at least two children. The  *)
(* walker appends a slot per child while the tasks of earlier children     *)
(* already run on other threads; every child delivers into its slot and    *)
(* takes a ticket from the packed counter `state`; set_total takes the     *)
(* last ticket but one. OnArrival sweeps contiguous filled slots under the *)
(* gate bit of `sweep` at every event; OnFinalize lets the last ticket     *)
(* sweep them all.                                                         *)
(*                                                                         *)
(* One process per child (the thread that runs its task), and the walker.  *)
(* One step is one access to an atomic. With weakMemory a Relaxed load, or *)
(* an Acquire load that no release it has read from orders, may return a   *)
(* value older than the newest, but never one older than the thread has    *)
(* seen or was told of with the task.                                      *)
(***************************************************************************)
EXTENDS Integers, Sequences

CONSTANTS
  Total,             \* the number of children of the node
  InitialCap,        \* INITIAL_CAP: slots in the chain itself
  Settings           \* the settings a chain may be used in

ASSUME ChainAssumption ==
  /\ Total \in Nat \ {0}
  /\ InitialCap \in Nat \ {0}
  /\ Settings \subseteq [accumulate : {"OnArrival", "OnFinalize"},
                         inlineFirst : BOOLEAN, weakMemory : BOOLEAN]

Slots == 0 .. Total - 1
Walker == Total
Procs == Slots \cup {Walker}

VARIABLES
  setting,           \* one of them, which nothing changes
  appended,          \* AtomicU32: slots handed out
  capacity,          \* slots in `first` and the overflow buffers installed
  filled,            \* SlotCell.filled
  events, total,     \* state: tickets taken (low half), total (high half, 0 unknown)
  cursor, sweeping,  \* sweep: position, and the gate bit
  done,              \* AtomicBool
  heap,              \* the children accumulated so far, in order
  \* the processes
  pc,
  offered,           \* children whose task is in the queue (or run inline)
  seen,              \* the least value of `appended` the process may still read
  told,              \* has the process read the total from its ticket?
  finalizer,         \* am_finalizer
  pos, limit,        \* the locals pos and appended of a sweep
  result             \* what the call returned

chainVars == <<appended, capacity, filled, events, total, cursor, sweeping, done, heap>>
localVars == <<seen, told, finalizer, pos, limit, result>>
vars == <<setting, chainVars, pc, offered, localVars>>

\* the accumulate policy of the fold, fixed with its type
OnArrival == setting.accumulate = "OnArrival"
\* walk_cps: tasks run while slots are appended, child 0 last; else as the unit
\* tests do: all slots appended, then any order
InlineFirst == setting.inlineFirst
\* may loads be stale, as the orderings permit?
WeakMemory == setting.weakMemory

None == <<-2>>               \* the call returned None
Pending == <<-1>>            \* it has not returned

SweepPcs == {"load_sweep", "cas", "check_done", "load_appended", "sweep_slot",
             "load_total", "set_done", "release", "release_some"}
BulkPcs == {"bulk_done", "bulk_appended", "bulk_slot"}
CallPcs == {"ticket", "fin_loop"} \cup SweepPcs \cup BulkPcs
WalkerPcs == {"append", "ensure", "set_total"} \cup CallPcs \cup {"returned"}
ChildPcs == {"task"} \cup CallPcs \cup {"returned"}

Init ==
  /\ setting \in Settings
  /\ appended = 0
  /\ capacity = InitialCap
  /\ filled = [k \in Slots |-> FALSE]
  /\ events = 0 /\ total = 0
  /\ cursor = 0 /\ sweeping = FALSE
  /\ done = FALSE
  /\ heap = <<>>
  /\ pc = [p \in Procs |-> IF p = Walker THEN "append" ELSE "task"]
  /\ offered = {}
  /\ seen = [p \in Procs |-> 0]
  /\ told = [p \in Procs |-> FALSE]
  /\ finalizer = [p \in Procs |-> FALSE]
  /\ pos = [p \in Procs |-> 0]
  /\ limit = [p \in Procs |-> 0]
  /\ result = [p \in Procs |-> Pending]

Goto(p, from, to) ==
  /\ pc[p] = from
  /\ pc' = [pc EXCEPT ![p] = to]

Return(p, from, r) ==
  /\ Goto(p, from, "returned")
  /\ result' = [result EXCEPT ![p] = r]

-----------------------------------------------------------------------------
(* What a load may return. *)

ReadAppended(p) == IF WeakMemory THEN seen[p] .. appended ELSE {appended}
\* a process knows its own slot
ReadFilled(p, k) ==
  IF WeakMemory /\ k # p THEN {FALSE, filled[k]} ELSE {filled[k]}
ReadTotal(p) == IF WeakMemory /\ ~told[p] THEN {0, total} ELSE {total}
ReadDone(p) == IF WeakMemory THEN {FALSE, done} ELSE {done}

-----------------------------------------------------------------------------
(* The walker: append_slot per child, push its task, then set_total. *)

AppendSlot ==
  /\ appended < Total
  /\ Goto(Walker, "append", "ensure")
  /\ appended' = appended + 1
  /\ UNCHANGED <<capacity, filled, events, total, cursor, sweeping, done, heap,
                 offered, localVars>>

\* the children whose task can run once a slot is appended
OfferedAtOnce(index) == offered \cup {index}                      \* mutant: child 0 too
OfferedAfter(index) ==
  IF InlineFirst THEN offered \cup ({index} \ {0})
  ELSE IF appended = Total THEN Slots ELSE offered

\* ensure_overflow doubles what is covered; then the task of the child is pushed
EnsureOverflow ==
  LET index == appended - 1 IN
  /\ Goto(Walker, "ensure", IF appended = Total THEN "set_total" ELSE "append")
  /\ capacity' = IF index < capacity THEN capacity ELSE 2 * capacity
  /\ offered' = OfferedAfter(index)
  /\ seen' = [seen EXCEPT ![index] = appended]
  /\ UNCHANGED <<appended, filled, events, total, cursor, sweeping, done, heap,
                 told, finalizer, pos, limit, result>>

\* after its ticket: OnArrival sweeps in any case, OnFinalize only as the last event
AfterTicket(p, from, last) ==
  \/ OnArrival /\ Goto(p, from, "load_sweep") /\ UNCHANGED result
  \/ ~OnArrival /\ last /\ Goto(p, from, "bulk_done") /\ UNCHANGED result
  \/ ~OnArrival /\ ~last /\ Return(p, from, None)

\* the walker reads `appended` as it wrote it
SetTotal ==
  LET last == events >= appended IN
  /\ total' = appended
  /\ finalizer' = [finalizer EXCEPT ![Walker] = last]
  /\ told' = [told EXCEPT ![Walker] = TRUE]
  /\ seen' = [seen EXCEPT ![Walker] = appended]
  /\ AfterTicket(Walker, "set_total", last)
  /\ UNCHANGED <<appended, capacity, filled, events, cursor, sweeping, done, heap,
                 offered, pos, limit>>

\* walk_cps goes on into child 0 once set_total has returned None
InlineChild ==
  /\ InlineFirst
  /\ 0 \notin offered
  /\ pc[Walker] = "returned"
  /\ result[Walker] = None
  /\ offered' = offered \cup {0}
  /\ seen' = [seen EXCEPT ![0] = appended]
  /\ UNCHANGED <<chainVars, pc, told, finalizer, pos, limit, result>>

-----------------------------------------------------------------------------
(* deliver_and_sweep / deliver_and_finalize: fill the slot, take a ticket. *)

Fill(k) ==
  /\ k \in offered
  /\ Goto(k, "task", "ticket")
  /\ filled' = [filled EXCEPT ![k] = TRUE]
  /\ UNCHANGED <<appended, capacity, events, total, cursor, sweeping, done, heap,
                 offered, localVars>>

\* done_before + 1 >= total
LateTicket == total > 0 /\ events >= total                         \* mutant: one too late
LastTicket == total > 0 /\ events + 1 >= total

Ticket(k) ==
  /\ events' = events + 1
  /\ finalizer' = [finalizer EXCEPT ![k] = LastTicket]
  /\ told' = [told EXCEPT ![k] = total > 0]
  /\ AfterTicket(k, "ticket", LastTicket)
  /\ UNCHANGED <<appended, capacity, filled, total, cursor, sweeping, done, heap,
                 offered, seen, pos, limit>>

-----------------------------------------------------------------------------
(* try_sweep. *)

\* try_sweep returned None: the finalizer tries again, anybody else returns
Fail(p, from) ==
  \/ finalizer[p] /\ Goto(p, from, "fin_loop") /\ UNCHANGED result
  \/ ~finalizer[p] /\ Return(p, from, None)

\* a stale value makes the compare_exchange fail
LoadSweep(p) ==
  /\ \/ /\ sweeping \/ WeakMemory
        /\ Fail(p, "load_sweep")
        /\ UNCHANGED pos
     \/ /\ ~sweeping
        /\ Goto(p, "load_sweep", "cas")
        /\ pos' = [pos EXCEPT ![p] = cursor]
        /\ UNCHANGED result
  /\ UNCHANGED <<chainVars, offered, seen, told, finalizer, limit>>

GateKeptOpen == FALSE                                              \* mutant: s, not s | SWEEPING
GateClosed == TRUE

CasGate(p) ==
  /\ \/ /\ ~sweeping /\ cursor = pos[p]
        /\ Goto(p, "cas", "check_done")
        /\ sweeping' = GateClosed
        /\ UNCHANGED result
     \/ /\ sweeping \/ cursor # pos[p]
        /\ Fail(p, "cas")
        /\ UNCHANGED sweeping
  /\ UNCHANGED <<appended, capacity, filled, events, total, cursor, done, heap,
                 offered, seen, told, finalizer, pos, limit>>

\* the gate was released after `done` was stored: this load is never stale
DoneIgnored == FALSE                                               \* mutant
AlreadyDone == done

CheckDone(p) ==
  /\ \/ AlreadyDone /\ Fail(p, "check_done") /\ sweeping' = FALSE
     \/ ~AlreadyDone /\ Goto(p, "check_done", "load_appended") /\ UNCHANGED <<sweeping, result>>
  /\ UNCHANGED <<appended, capacity, filled, events, total, cursor, done, heap,
                 offered, seen, told, finalizer, pos, limit>>

LoadAppended(p) ==
  /\ Goto(p, "load_appended", "sweep_slot")
  /\ \E a \in ReadAppended(p) :
       /\ limit' = [limit EXCEPT ![p] = a]
       /\ seen' = [seen EXCEPT ![p] = a]
  /\ UNCHANGED <<chainVars, offered, told, finalizer, pos, result>>

Accumulate(p) ==
  /\ heap' = Append(heap, pos[p])
  /\ pos' = [pos EXCEPT ![p] = @ + 1]

SweepSlot(p) ==
  /\ \/ /\ pos[p] < limit[p]
        /\ TRUE \in ReadFilled(p, pos[p])
        /\ Goto(p, "sweep_slot", "sweep_slot")
        /\ Accumulate(p)
     \/ /\ pos[p] < limit[p] => FALSE \in ReadFilled(p, pos[p])
        /\ Goto(p, "sweep_slot", "load_total")
        /\ UNCHANGED <<heap, pos>>
  /\ UNCHANGED <<appended, capacity, filled, events, total, cursor, sweeping, done,
                 offered, seen, told, finalizer, limit, result>>

\* the check for completion: has the cursor reached the total?
Complete(p, t) == t > 0 /\ pos[p] >= t

LoadTotal(p) ==
  /\ \E t \in ReadTotal(p) :
       Goto(p, "load_total", IF Complete(p, t) THEN "set_done" ELSE "release")
  /\ UNCHANGED <<chainVars, offered, localVars>>

SetDone(p) ==
  /\ Goto(p, "set_done", "release_some")
  /\ done' = TRUE
  /\ UNCHANGED <<appended, capacity, filled, events, total, cursor, sweeping, heap,
                 offered, localVars>>

\* mutants: a cursor one too far; a gate left closed
GateBeyond(p) ==
  /\ cursor' = pos[p] + 1
  /\ sweeping' = FALSE
  /\ UNCHANGED <<appended, capacity, filled, events, total, done, heap,
                 offered, seen, told, finalizer, pos, limit>>
GateNotReleased(p) ==
  /\ cursor' = pos[p]
  /\ UNCHANGED <<sweeping, appended, capacity, filled, events, total, done, heap,
                 offered, seen, told, finalizer, pos, limit>>

\* one store advances the cursor and releases the gate
OpenGate(p) ==
  /\ cursor' = pos[p]
  /\ sweeping' = FALSE
  /\ UNCHANGED <<appended, capacity, filled, events, total, done, heap,
                 offered, seen, told, finalizer, pos, limit>>

Release(p) == Fail(p, "release") /\ OpenGate(p)
ReleaseSome(p) == Return(p, "release_some", heap) /\ OpenGate(p)

\* the finalizer's loop around try_sweep
FinalizerLoop(p) ==
  /\ \E d \in ReadDone(p) :
       \/ d /\ Return(p, "fin_loop", None)
       \/ ~d /\ Goto(p, "fin_loop", "load_sweep") /\ UNCHANGED result
  /\ UNCHANGED <<chainVars, offered, seen, told, finalizer, pos, limit>>

TrySweep(p) ==
  \/ LoadSweep(p)
  \/ CasGate(p)
  \/ CheckDone(p)
  \/ LoadAppended(p)
  \/ SweepSlot(p)
  \/ LoadTotal(p)
  \/ SetDone(p)
  \/ Release(p)
  \/ ReleaseSome(p)
  \/ FinalizerLoop(p)

-----------------------------------------------------------------------------
(* bulk_finalize, run by the last event of OnFinalize. *)

BulkDone(p) ==
  /\ Goto(p, "bulk_done", "bulk_appended")
  /\ done' = TRUE
  /\ UNCHANGED <<appended, capacity, filled, events, total, cursor, sweeping, heap,
                 offered, localVars>>

BulkAppended(p) ==
  /\ Goto(p, "bulk_appended", "bulk_slot")
  /\ \E a \in ReadAppended(p) :
       /\ limit' = [limit EXCEPT ![p] = a]
       /\ seen' = [seen EXCEPT ![p] = a]
  /\ UNCHANGED <<chainVars, offered, told, finalizer, pos, result>>

\* spins until the slot is seen filled
BulkSlot(p) ==
  /\ pos[p] < limit[p]
  /\ TRUE \in ReadFilled(p, pos[p])
  /\ Goto(p, "bulk_slot", "bulk_slot")
  /\ Accumulate(p)
  /\ UNCHANGED <<appended, capacity, filled, events, total, cursor, sweeping, done,
                 offered, seen, told, finalizer, limit, result>>

BulkReturn(p) ==
  /\ pos[p] >= limit[p]
  /\ Return(p, "bulk_slot", heap)
  /\ UNCHANGED <<chainVars, offered, seen, told, finalizer, pos, limit>>

BulkFinalize(p) ==
  \/ BulkDone(p)
  \/ BulkAppended(p)
  \/ BulkSlot(p)
  \/ BulkReturn(p)

-----------------------------------------------------------------------------
\* the setting is that of the whole fold, so no step changes it
WalkerStep == AppendSlot \/ EnsureOverflow \/ SetTotal \/ InlineChild
ChildStep(k) == Fill(k) \/ Ticket(k)
Sweep(p) == TrySweep(p) \/ BulkFinalize(p)

AllReturned == \A p \in Procs : pc[p] = "returned"
Terminated == AllReturned /\ UNCHANGED vars

Step ==
  \/ WalkerStep
  \/ \E k \in Slots : ChildStep(k)
  \/ \E p \in Procs : Sweep(p)
Next ==
  \/ Step /\ UNCHANGED setting
  \/ Terminated

Spec == Init /\ [][Next]_vars

\* every thread runs, and every queued task is run by somebody
Fairness ==
  /\ WF_vars(WalkerStep /\ UNCHANGED setting)
  /\ \A k \in Slots : WF_vars(ChildStep(k) /\ UNCHANGED setting)
  /\ \A p \in Procs : WF_vars(Sweep(p) /\ UNCHANGED setting)
FairSpec == Spec /\ Fairness

-----------------------------------------------------------------------------
(* Type correctness: counters, cursor and locals stay within the slots.      *)
TypeOK ==
  /\ setting \in Settings
  /\ appended \in 0 .. Total /\ capacity \in Nat
  /\ filled \in [Slots -> BOOLEAN]
  /\ events \in 0 .. Total /\ total \in 0 .. Total
  /\ cursor \in 0 .. Total /\ sweeping \in BOOLEAN /\ done \in BOOLEAN
  /\ heap \in Seq(Slots)
  /\ pc \in [Procs -> WalkerPcs \cup ChildPcs]
  /\ offered \in SUBSET Slots
  /\ seen \in [Procs -> 0 .. Total] /\ told \in [Procs -> BOOLEAN]
  /\ finalizer \in [Procs -> BOOLEAN]
  /\ pos \in [Procs -> 0 .. Total] /\ limit \in [Procs -> 0 .. Total]
  /\ result \in [Procs -> Seq(Slots) \cup {None, Pending}]

Finalizers == {p \in Procs : result[p] \notin {None, Pending}}

(* Whoever is told to go on with the parent got the fold of every child, in  *)
(* the order of the visit, and there is never a second one: take_parent_cont *)
(* is called once per node.                                                  *)
ExactlyOneFinalizer ==
  /\ \A p, q \in Finalizers : p = q
  /\ \A p \in Finalizers : result[p] = [i \in 1 .. Total |-> i - 1]

(* The heap is touched by one thread at a time: the gate bit stands for the  *)
(* one sweeper, and the ticket of OnFinalize for the one bulk sweeper.       *)
HeapExclusive ==
  \A p, q \in Procs :
    /\ pc[p] \in {"sweep_slot", "load_total", "set_done", "bulk_slot"}
    /\ pc[q] \in {"sweep_slot", "load_total", "set_done", "bulk_slot"}
    => p = q

(* chain.rs:293, "slot_at: index {} beyond allocated buffers": no sweep gets *)
(* ahead of the overflow buffer that append_slot is about to install.        *)
NoSlotBeyondBuffers ==
  \A p \in Procs : pc[p] \in {"sweep_slot", "bulk_slot"} /\ pos[p] < limit[p] =>
                     pos[p] < capacity

(* In walk_cps set_total is never the last event, because child 0 is walked  *)
(* by the same thread afterwards: its Some branch is not taken.              *)
SetTotalNeverLast == InlineFirst => result[Walker] \in {None, Pending}

outcomeOf ==
  IF Finalizers = {} THEN <<-1>> ELSE result[CHOOSE p \in Finalizers : TRUE]
Promise == INSTANCE FoldPromise WITH
  delivered <- {k \in Slots : filled[k]},
  closed <- total > 0,
  outcome <- outcomeOf

(* The chain implements the promise of its node: the outcome is the fold of   *)
(* all children in order, comes up once, and does come up. (With weakMemory    *)
(* nothing keeps a load from being stale for ever, so the last holds without.) *)
KeepsFairPromise == Promise!Spec /\ (~WeakMemory => Promise!Fairness)

(* Every call returns: no thread is left spinning, and none is left waiting  *)
(* for the gate of another that finished (without weakMemory, as above).     *)
AllCallsReturn == ~WeakMemory => <>AllReturned
=============================================================================
