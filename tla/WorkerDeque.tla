----------------------------- MODULE WorkerDeque -----------------------------
(***************************************************************************)
(* WorkerDeque: the Chase-Lev deque of one worker under the PerWorker      *)
(* queue policy. The owner pushes and pops at the bottom, the other        *)
(* threads steal at the top; the last task is settled by a compare_exchange*)
(* on top. Slots are reused modulo the capacity and are read before it is  *)
(* known who owns their task.                                              *)
(*                                                                         *)
(* One step is one access to shared memory. The owner's stores to bottom   *)
(* wait in its store buffer, in order, until the memory takes them, a      *)
(* fence(SeqCst) or a compare_exchange drains them. A slot is written in   *)
(* two steps, so that a speculative read may see half of a write.          *)
(***************************************************************************)
EXTENDS Integers, Sequences

CONSTANTS
  Owner,             \* the worker whose deque this is
  Thieves,           \* the threads that steal from it
  Capacity,          \* a power of two in the code: WorkerDeque::new rounds up
  MaxTasks           \* bound: tasks the owner offers to the deque

Tasks == 1 .. MaxTasks
NoTask == 0                  \* an uninitialised slot; no task in hand
Torn == MaxTasks + 1         \* what a read during a write may see

ASSUME WorkerDequeAssumption ==
  /\ Owner \notin Thieves
  /\ Capacity \in Nat /\ Capacity >= 2
  /\ MaxTasks \in Nat

VARIABLES
  bottom, top,       \* the two AtomicIsize
  slots,             \* buffer, indexed by position & mask
  buffer,            \* the owner's stores to bottom that are not in memory yet
  pc,
  t, b, item,        \* the locals of push, pop and steal
  offered,           \* tasks offered so far (bounded by MaxTasks)
  taken,             \* tasks handed out by pop and steal
  inline             \* tasks push gave back: their owner runs them inline

memVars == <<bottom, top, slots, buffer>>
localVars == <<t, b, item>>
histVars == <<offered, taken, inline>>
vars == <<memVars, pc, localVars, histVars>>

Threads == Thieves \cup {Owner}

Init ==
  /\ bottom = 0 /\ top = 0
  /\ slots = [i \in 0 .. Capacity - 1 |-> NoTask]
  /\ buffer = <<>>
  /\ pc = [p \in Threads |-> "idle"]
  /\ t = [p \in Threads |-> 0] /\ b = [p \in Threads |-> 0]
  /\ item = [p \in Threads |-> NoTask]
  /\ offered = 0 /\ taken = {} /\ inline = {}

Goto(p, from, to) ==
  /\ pc[p] = from
  /\ pc' = [pc EXCEPT ![p] = to]

Slot(position) == position % Capacity          \* position & mask

-----------------------------------------------------------------------------
(* The memory. Only the owner writes slots and bottom, so its reads of them    *)
(* share a step with the load of top.                                        *)

\* what the owner reads of its own stores
OwnBottom == IF buffer = <<>> THEN bottom ELSE buffer[Len(buffer)]

StoreBottom(v) == buffer' = Append(buffer, v) /\ UNCHANGED bottom

Drain == bottom' = OwnBottom /\ buffer' = <<>>

Flush ==
  /\ buffer # <<>>
  /\ bottom' = Head(buffer)
  /\ buffer' = Tail(buffer)
  /\ UNCHANGED <<top, slots, pc, localVars, histVars>>

\* compare_exchange(t, t + 1) on top; it drains the caller's buffer
CasTop(p) == top = t[p] /\ top' = top + 1

-----------------------------------------------------------------------------
(* push *)

FullTooLate(tp) == OwnBottom - tp > Capacity    \* mutant: overwrites the oldest task
Full(tp) == OwnBottom - tp > Capacity - 1      \* b - t > mask

PushCheck ==
  /\ offered < MaxTasks
  /\ offered' = offered + 1
  /\ b' = [b EXCEPT ![Owner] = OwnBottom]
  /\ \/ /\ Full(top)
        /\ pc[Owner] = "idle"
        /\ inline' = inline \cup {offered + 1}
        /\ UNCHANGED <<pc, item>>
     \/ /\ ~Full(top)
        /\ Goto(Owner, "idle", "push_write")
        /\ item' = [item EXCEPT ![Owner] = offered + 1]
        /\ UNCHANGED inline
  /\ UNCHANGED <<memVars, t, taken>>

PushWrite ==
  /\ Goto(Owner, "push_write", "push_written")
  /\ slots' = [slots EXCEPT ![Slot(b[Owner])] = Torn]
  /\ UNCHANGED <<bottom, top, buffer, localVars, histVars>>

PushWritten ==
  /\ Goto(Owner, "push_written", "push_publish")
  /\ slots' = [slots EXCEPT ![Slot(b[Owner])] = item[Owner]]
  /\ UNCHANGED <<bottom, top, buffer, localVars, histVars>>

\* fence(Release) orders the slot before the store
PushPublish ==
  /\ Goto(Owner, "push_publish", "idle")
  /\ StoreBottom(b[Owner] + 1)
  /\ item' = [item EXCEPT ![Owner] = NoTask]
  /\ UNCHANGED <<top, slots, t, b, histVars>>

-----------------------------------------------------------------------------
(* pop *)

PopReserve ==
  /\ Goto(Owner, "idle", "pop_fence")
  /\ b' = [b EXCEPT ![Owner] = OwnBottom - 1]
  /\ StoreBottom(OwnBottom - 1)
  /\ UNCHANGED <<top, slots, t, item, histVars>>

\* fence(SeqCst): the reservation is in memory before top is read
NoFence == UNCHANGED <<bottom, buffer>>        \* mutant
SeqCstFence == Drain

PopFence ==
  /\ Goto(Owner, "pop_fence", "pop_load")
  /\ SeqCstFence
  /\ UNCHANGED <<top, slots, localVars, histVars>>

Take(x) == taken' = taken \cup {x}

\* the slot is read before it is known whether the task is won
PopLoad ==
  LET bb == b[Owner] IN
  /\ t' = [t EXCEPT ![Owner] = top]
  /\ item' = [item EXCEPT ![Owner] = IF top = bb THEN slots[Slot(bb)] ELSE NoTask]
  /\ \/ top < bb /\ Goto(Owner, "pop_load", "idle") /\ Take(slots[Slot(bb)])
     \/ top = bb /\ Goto(Owner, "pop_load", "pop_cas") /\ UNCHANGED taken
     \/ top > bb /\ Goto(Owner, "pop_load", "pop_empty") /\ UNCHANGED taken
  /\ UNCHANGED <<memVars, b, offered, inline>>

PopCas ==
  /\ Goto(Owner, "pop_cas", "pop_restore")
  /\ \/ CasTop(Owner) /\ Take(item[Owner])
     \/ top # t[Owner] /\ UNCHANGED <<top, taken>>
  /\ Drain
  /\ item' = [item EXCEPT ![Owner] = NoTask]
  /\ UNCHANGED <<slots, t, b, offered, inline>>

\* mutant: bottom is left where pop put it
PopEmptyForgotten ==
  /\ Goto(Owner, "pop_empty", "idle")
  /\ UNCHANGED <<memVars, localVars, histVars>>

\* bottom goes back above the task, won or lost
PopRestore ==
  /\ Goto(Owner, "pop_restore", "idle")
  /\ StoreBottom(t[Owner] + 1)
  /\ UNCHANGED <<top, slots, localVars, histVars>>

PopEmpty ==
  /\ Goto(Owner, "pop_empty", "idle")
  /\ StoreBottom(t[Owner])
  /\ UNCHANGED <<top, slots, localVars, histVars>>

-----------------------------------------------------------------------------
(* steal *)

StealTop(p) ==
  /\ Goto(p, "idle", "steal_bottom")
  /\ t' = [t EXCEPT ![p] = top]
  /\ UNCHANGED <<memVars, b, item, histVars>>

StealBottom(p) ==
  /\ Goto(p, "steal_bottom", IF t[p] >= bottom THEN "idle" ELSE "steal_read")
  /\ b' = [b EXCEPT ![p] = bottom]
  /\ UNCHANGED <<memVars, t, item, histVars>>

StealRead(p) ==
  /\ Goto(p, "steal_read", "steal_cas")
  /\ item' = [item EXCEPT ![p] = slots[Slot(t[p])]]
  /\ UNCHANGED <<memVars, t, b, histVars>>

\* compare_exchange_weak may also fail for no reason; then the loop goes round
StealCas(p) ==
  /\ Goto(p, "steal_cas", "idle")
  /\ \/ CasTop(p) /\ Take(item[p])
     \/ UNCHANGED <<top, taken>>
  /\ item' = [item EXCEPT ![p] = NoTask]
  /\ UNCHANGED <<bottom, slots, buffer, t, b, offered, inline>>

-----------------------------------------------------------------------------
OwnerStep == \/ PushCheck \/ PushWrite \/ PushWritten \/ PushPublish
             \/ PopReserve \/ PopFence \/ PopLoad \/ PopCas \/ PopRestore \/ PopEmpty
ThiefStep(p) == StealTop(p) \/ StealBottom(p) \/ StealRead(p) \/ StealCas(p)

Next == OwnerStep \/ Flush \/ \E p \in Thieves : ThiefStep(p)

Spec == Init /\ [][Next]_vars

-----------------------------------------------------------------------------
Values == Tasks \cup {NoTask, Torn}

(* Type correctness: positions, slots and locals stay in range; a pop may     *)
(* put bottom one below zero.                                                *)
TypeOK ==
  /\ bottom \in -1 .. MaxTasks /\ top \in 0 .. MaxTasks
  /\ slots \in [0 .. Capacity - 1 -> Values]
  /\ buffer \in Seq(-1 .. MaxTasks)
  /\ pc \in [Threads -> {"idle", "push_write", "push_written", "push_publish", "pop_fence",
                         "pop_load", "pop_cas", "pop_restore", "pop_empty",
                         "steal_bottom", "steal_read", "steal_cas"}]
  /\ t \in [Threads -> 0 .. MaxTasks] /\ b \in [Threads -> -1 .. MaxTasks]
  /\ item \in [Threads -> Values]
  /\ offered \in 0 .. MaxTasks /\ taken \in SUBSET Values /\ inline \in SUBSET Tasks

\* the position below which tasks are published, a reservation not yet settled
\* left out of account
LogicalBottom ==
  CASE pc[Owner] \in {"pop_fence", "pop_load", "pop_cas"} -> b[Owner] + 1
    [] pc[Owner] = "pop_restore" -> t[Owner] + 1
    [] pc[Owner] = "pop_empty" -> t[Owner]
    [] OTHER -> OwnBottom

\* the tasks present, oldest first
Content == [i \in 1 .. LogicalBottom - top |-> slots[Slot(top + i - 1)]]

(* The deque is linearizable: every push, pop and steal takes effect at once  *)
(* on a bounded sequence, at its publication or at the step that claims the   *)
(* task. No task is taken twice, torn, or out of order.                      *)
Abstract == INSTANCE TaskDeque WITH content <- Content, Bound <- Capacity
Linearizable == Abstract!Spec

(* Nothing is lost: what has been offered is in the deque, was handed out, or *)
(* went back to its owner to be run inline, and in one of these places only;  *)
(* and a failed pop means that nothing is left: the owner never goes to sleep, *)
(* or polls on, with one of its own tasks still in the deque.                 *)
NothingLost ==
  LET here == {Content[i] : i \in DOMAIN Content}
      inHand == IF pc[Owner] \in {"push_write", "push_written", "push_publish"}
                  THEN {item[Owner]} ELSE {}
      popFails == pc[Owner] = "pop_empty" \/ (pc[Owner] = "pop_cas" /\ top # t[Owner])
  IN /\ here \cup inHand \cup taken \cup inline = 1 .. offered
     /\ here \cap taken = {} /\ inline \cap (here \cup taken) = {}
     /\ popFails => taken \cup inline = 1 .. offered
=============================================================================
