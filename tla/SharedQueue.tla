----------------------------- MODULE SharedQueue -----------------------------
(***************************************************************************)
(* The Shared queue policy and the arena its tasks point into. All threads *)
(* push to and steal from one StealQueue, whose positions only grow; a     *)
(* task carries the index of a slab slot, a ChainNode in the Arena that    *)
(* many tasks refer to, or a continuation in the ContArena that one thread *)
(* moves out. Both stores are segment tables and both are finite: beyond   *)
(* their last segment a push or an alloc panics after it has counted       *)
(* itself.                                                                 *)
(*                                                                         *)
(* One step is one access to shared memory, in a sequentially consistent   *)
(* order.                                                                  *)
(***************************************************************************)
EXTENDS Integers, FiniteSets

CONSTANTS
  Threads,           \* every thread publishes and steals
  Kinds,             \* a subset of {"Arena", "ContArena"}: which slab is used
  SegmentSize, MaxSegments,
  MaxPushes,         \* bound: positions claimed in the queue
  MaxAllocs,         \* bound: indices claimed in the slab
  None               \* no index, no task, no segment

Positions == 0 .. MaxPushes - 1
SlabIndices == 0 .. MaxAllocs - 1
States == {"EMPTY", "AVAILABLE", "STOLEN", "RECLAIMED"}
Uninit == "uninit"
SlabValues == {Uninit, "live", "moved"}
Tasks == [pos : Positions, node : SlabIndices]
Slots == [state : States, value : Tasks \cup {None}]
EmptySlot == [state |-> "EMPTY", value |-> None]

ASSUME SharedQueueAssumption ==
  /\ Kinds \subseteq {"Arena", "ContArena"}
  /\ {SegmentSize, MaxSegments, MaxPushes, MaxAllocs} \subseteq Nat \ {0}
  /\ None \notin Nat \cup Tasks
  /\ None \notin [0 .. SegmentSize - 1 -> Slots]
  /\ None \notin [0 .. SegmentSize - 1 -> SlabValues]

VARIABLES
  kind,
  bottom, top, segments,      \* StealQueue
  next, slab,                 \* SegmentedSlab
  pc,
  node,              \* the slab index a publisher gives its tasks
  pos,               \* the position a push, or a steal, is about
  last,              \* the position of a publisher's last push, until it tries to reclaim it
  got,               \* the task a thief has moved out of its slot
  taken,             \* history: who got which task
  dropped            \* what dropping the stores did

queueVars == <<bottom, top, segments>>
slabVars == <<next, slab>>
localVars == <<node, pos, last, got>>
ghostVars == <<taken, dropped>>
vars == <<kind, queueVars, slabVars, pc, localVars, ghostVars>>

Q == INSTANCE SegmentTable WITH table <- segments, Blank <- EmptySlot, Null <- None
S == INSTANCE SegmentTable WITH table <- slab, Blank <- Uninit, Null <- None

Init ==
  /\ kind \in Kinds
  /\ bottom = 0 /\ top = 0 /\ Q!Init
  /\ next = 0 /\ S!Init
  /\ pc = [p \in Threads |-> "idle"]
  /\ node = [p \in Threads |-> None] /\ pos = [p \in Threads |-> None]
  /\ last = [p \in Threads |-> None] /\ got = [p \in Threads |-> None]
  /\ taken = {} /\ dropped = "no"

Goto(p, from, to) ==
  /\ pc[p] = from
  /\ pc' = [pc EXCEPT ![p] = to]

-----------------------------------------------------------------------------
(* SegmentedSlab::alloc *)

\* a continuation in hand goes into a task before the next one is made
AllocClaim(p) ==
  /\ next < MaxAllocs /\ (kind = "Arena" \/ node[p] = None)
  /\ Goto(p, "idle", IF S!InTable(next) THEN "alloc_segment" ELSE "panicked")
  /\ next' = next + 1
  /\ node' = [node EXCEPT ![p] = next]
  /\ UNCHANGED <<kind, queueVars, slab, pos, last, got, ghostVars>>

AllocSegment(p) ==
  /\ Goto(p, "alloc_segment", IF S!Found(node[p]) THEN "alloc_write" ELSE "alloc_install")
  /\ UNCHANGED <<kind, queueVars, slabVars, localVars, ghostVars>>

AllocInstall(p) ==
  /\ Goto(p, "alloc_install", "alloc_write")
  /\ S!Install(node[p])
  /\ UNCHANGED <<kind, queueVars, next, localVars, ghostVars>>

\* mutant: the index is handed out and the value never written
AllocForgetsValue(p) ==
  /\ Goto(p, "alloc_write", "idle")
  /\ UNCHANGED <<kind, queueVars, slabVars, localVars, ghostVars>>
AllocWrite(p) ==
  /\ Goto(p, "alloc_write", "idle")
  /\ S!Write(node[p], "live")
  /\ UNCHANGED <<kind, queueVars, next, localVars, ghostVars>>

-----------------------------------------------------------------------------
(* StealQueue::push and try_reclaim *)

PushClaim(p) ==
  /\ node[p] # None /\ bottom < MaxPushes
  /\ Goto(p, "idle", IF Q!InTable(bottom) THEN "push_segment" ELSE "panicked")
  /\ bottom' = bottom + 1
  /\ pos' = [pos EXCEPT ![p] = bottom]
  /\ UNCHANGED <<kind, top, segments, slabVars, node, last, got, ghostVars>>

PushSegment(p) ==
  /\ Goto(p, "push_segment", IF Q!Found(pos[p]) THEN "push_write" ELSE "push_install")
  /\ UNCHANGED <<kind, queueVars, slabVars, localVars, ghostVars>>

PushInstall(p) ==
  /\ Goto(p, "push_install", "push_write")
  /\ Q!Install(pos[p])
  /\ UNCHANGED <<kind, bottom, top, slabVars, localVars, ghostVars>>

\* Slot::write: the value, then the state
PushWrite(p) ==
  /\ Goto(p, "push_write", "push_mark")
  /\ Q!Write(pos[p], [EmptySlot EXCEPT !.value = [pos |-> pos[p], node |-> node[p]]])
  /\ UNCHANGED <<kind, bottom, top, slabVars, localVars, ghostVars>>

Mark(position, state) == Q!Write(position, [Q!Read(position) EXCEPT !.state = state])

\* a continuation goes with its one task, a node stays for the next child
PushMark(p) ==
  /\ Goto(p, "push_mark", "idle")
  /\ Mark(pos[p], "AVAILABLE")
  /\ last' = [last EXCEPT ![p] = pos[p]]
  /\ pos' = [pos EXCEPT ![p] = None]
  /\ node' = [node EXCEPT ![p] = IF kind = "Arena" THEN @ ELSE None]
  /\ UNCHANGED <<kind, bottom, top, slabVars, got, ghostVars>>

\* the compare_exchange that takes a slot: it leaves AVAILABLE once
TakenTwice(slot) == slot.state # "EMPTY"              \* mutant
MayTake(slot) == slot.state = "AVAILABLE"

\* ContArena::take moves the continuation out; Arena::get borrows the node
UseNode(n) ==
  /\ IF kind = "Arena" THEN UNCHANGED slab ELSE S!Write(n, "moved")
  /\ UNCHANGED next

TryReclaim(p) ==
  /\ last[p] # None /\ pc[p] = "idle"
  /\ last' = [last EXCEPT ![p] = None]
  /\ IF MayTake(Q!Read(last[p]))
       THEN /\ Mark(last[p], "RECLAIMED")
            /\ taken' = taken \cup {<<last[p], p>>}
            /\ UseNode(Q!Read(last[p]).value.node)
       ELSE UNCHANGED <<segments, taken, slabVars>>
  /\ UNCHANGED <<kind, bottom, top, pc, node, pos, got, dropped>>

-----------------------------------------------------------------------------
(* StealQueue::steal *)

StealTop(p) ==
  /\ pc[p] \in {"idle", "steal"}
  /\ pc' = [pc EXCEPT ![p] = "steal_bottom"]
  /\ pos' = [pos EXCEPT ![p] = top]
  /\ UNCHANGED <<kind, queueVars, slabVars, node, last, got, ghostVars>>

\* None when nothing was pushed above top; get_slot asserts that the segment may exist
StealBottom(p) ==
  /\ Goto(p, "steal_bottom", IF bottom <= pos[p] THEN "idle"
                             ELSE IF Q!InTable(pos[p]) THEN "steal_segment" ELSE "panicked")
  /\ pos' = [pos EXCEPT ![p] = IF pc'[p] = "idle" THEN None ELSE @]
  /\ UNCHANGED <<kind, queueVars, slabVars, node, last, got, ghostVars>>

StealSegment(p) ==
  /\ Goto(p, "steal_segment", IF Q!Found(pos[p]) THEN "steal_state" ELSE "steal_install")
  /\ UNCHANGED <<kind, queueVars, slabVars, localVars, ghostVars>>

StealInstall(p) ==
  /\ Goto(p, "steal_install", "steal_state")
  /\ Q!Install(pos[p])
  /\ UNCHANGED <<kind, bottom, top, slabVars, localVars, ghostVars>>

\* mutants: top passes a slot that is being written; it never passes a dead one
EmptySkipped(state) == IF state = "AVAILABLE" THEN "steal_claim" ELSE "steal_skip"
DeadNotSkipped(state) == IF state = "AVAILABLE" THEN "steal_claim" ELSE "steal"
AfterState(state) ==
  CASE state = "EMPTY"     -> "steal"                 \* yield_now, again
    [] state = "AVAILABLE" -> "steal_claim"
    [] OTHER               -> "steal_skip"            \* RECLAIMED or STOLEN

StealState(p) ==
  /\ Goto(p, "steal_state", AfterState(Q!Read(pos[p]).state))
  /\ UNCHANGED <<kind, queueVars, slabVars, localVars, ghostVars>>

\* mutant: a fetch_add on top
AdvanceBlindly(p) ==
  /\ top' = top + 1
  /\ UNCHANGED <<kind, bottom, segments, slabVars, localVars, ghostVars>>
\* compare_exchange_weak on top
Advance(p) ==
  /\ top = pos[p] /\ top' = top + 1
  /\ UNCHANGED <<kind, bottom, segments, slabVars, localVars, ghostVars>>
StealSkip(p) == Goto(p, "steal_skip", "steal") /\ Advance(p)
StealClaim(p) == Goto(p, "steal_claim", "steal_slot") /\ Advance(p)
\* it may also fail for no reason
ClaimFails(p) ==
  /\ pc[p] \in {"steal_skip", "steal_claim"}
  /\ pc' = [pc EXCEPT ![p] = "steal"]
  /\ UNCHANGED <<kind, queueVars, slabVars, localVars, ghostVars>>

\* try_steal
StealSlot(p) ==
  /\ \/ /\ Goto(p, "steal_slot", "steal_read")
        /\ MayTake(Q!Read(pos[p])) /\ Mark(pos[p], "STOLEN")
     \/ /\ Goto(p, "steal_slot", "steal")
        /\ ~MayTake(Q!Read(pos[p])) /\ UNCHANGED segments
  /\ UNCHANGED <<kind, bottom, top, slabVars, localVars, ghostVars>>

StealRead(p) ==
  /\ Goto(p, "steal_read", "run")
  /\ got' = [got EXCEPT ![p] = Q!Read(pos[p]).value]
  /\ taken' = taken \cup {<<got'[p].pos, p>>}
  /\ pos' = [pos EXCEPT ![p] = None]
  /\ UNCHANGED <<kind, queueVars, slabVars, node, last, dropped>>

RunTask(p) ==
  /\ Goto(p, "run", "idle")
  /\ UseNode(got[p].node)
  /\ got' = [got EXCEPT ![p] = None]
  /\ UNCHANGED <<kind, queueVars, node, pos, last, ghostVars>>

-----------------------------------------------------------------------------
(* The end of the fold: the stores go out of scope. *)

Panicked == \E p \in Threads : pc[p] = "panicked"
Waiting == {x \in Positions : Q!At(x).state = "AVAILABLE"}

\* Arena drops the value of every index below next, in order; beyond the last
\* segment it panics, while the panic of the alloc unwinds. ContArena drops none.
ArenaDrop ==
  IF \E n \in 0 .. next - 1 : S!InTable(n) /\ S!At(n) # "live" THEN "undefined"
  ELSE IF \A n \in 0 .. next - 1 : S!InTable(n) THEN "clean" ELSE "abort"
ContArenaDrop == IF \E n \in 0 .. next - 1 : S!At(n) = "live" THEN "leak" ELSE "clean"

DropStores ==
  /\ \A p \in Threads : pc[p] \in {"idle", "panicked"}
  /\ Panicked \/ (Waiting = {} /\ (kind = "Arena" \/ \A p \in Threads : node[p] = None))
  /\ dropped' = IF kind = "Arena" THEN ArenaDrop ELSE ContArenaDrop
  /\ pc' = [p \in Threads |-> IF pc[p] = "idle" THEN "gone" ELSE pc[p]]
  /\ UNCHANGED <<kind, queueVars, slabVars, localVars, taken>>

Step(p) ==
  \/ AllocSegment(p) \/ AllocInstall(p) \/ AllocWrite(p)
  \/ PushSegment(p) \/ PushInstall(p) \/ PushWrite(p) \/ PushMark(p)
  \/ StealTop(p) \/ StealBottom(p) \/ StealSegment(p) \/ StealInstall(p)
  \/ StealState(p) \/ ClaimFails(p) \/ StealSlot(p) \/ StealRead(p) \/ RunTask(p)
Claim(p) == StealSkip(p) \/ StealClaim(p)

Next ==
  \/ DropStores
  \/ \E p \in Threads : AllocClaim(p) \/ PushClaim(p) \/ TryReclaim(p) \/ Step(p) \/ Claim(p)

Spec == Init /\ [][Next]_vars

\* Threads run; a compare_exchange_weak does not fail for no reason for ever.
FairSpec == Spec /\ \A p \in Threads : WF_vars(Step(p)) /\ SF_vars(Claim(p))

-----------------------------------------------------------------------------
OrNone(X) == X \cup {None}

(* Type correctness: counters, segments, slots and locals.                   *)
TypeOK ==
  /\ kind \in Kinds
  /\ bottom \in 0 .. MaxPushes /\ top \in 0 .. bottom /\ next \in 0 .. MaxAllocs
  /\ segments \in [Q!Indices -> OrNone([0 .. SegmentSize - 1 -> Slots])]
  /\ slab \in [S!Indices -> OrNone([0 .. SegmentSize - 1 -> SlabValues])]
  /\ node \in [Threads -> OrNone(SlabIndices)]
  /\ pos \in [Threads -> OrNone(0 .. MaxPushes)] /\ last \in [Threads -> OrNone(Positions)]
  /\ got \in [Threads -> OrNone(Tasks)] /\ taken \in SUBSET (Positions \X Threads)
  /\ dropped \in {"no", "clean", "abort", "undefined", "leak"}
  /\ pc \in [Threads -> {"idle", "panicked", "gone",
       "alloc_segment", "alloc_install", "alloc_write",
       "push_segment", "push_install", "push_write", "push_mark", "steal", "steal_bottom",
       "steal_segment", "steal_install", "steal_state", "steal_skip", "steal_claim", "steal_slot",
       "steal_read", "run"}]

(* Every pushed task goes to exactly one thread, whatever the order in which *)
(* thieves claim positions, lose their compare_exchanges, install segments   *)
(* and race with the publisher that wants its task back.                     *)
Won == {<<pos[p], p>> : p \in {q \in Threads : pc[q] = "steal_read"}}
Promise == INSTANCE TaskPool WITH Tasks <- Positions, waiting <- Waiting, taken <- taken \cup Won
HandedOutOnce == Promise!Spec

(* top passes no task that is still to be had, except one whose thief is     *)
(* about to settle it: a steal that returns None has left nothing behind.    *)
NothingStranded ==
  \A x \in Waiting : x >= top \/ \E p \in Threads : pc[p] = "steal_slot" /\ pos[p] = x

(* A task that can still run finds its node or continuation in the slab:     *)
(* written before the task was visible, not moved out, not in a segment that *)
(* lost the race to be installed.                                            *)
TaskFindsItsNode ==
  /\ \A x \in Waiting : Q!At(x).value # None /\ S!At(Q!At(x).value.node) = "live"
  /\ \A p \in Threads : pc[p] = "run" => S!At(got[p].node) = "live"

(* Dropping the stores never reads a slot without a value, whoever panicked  *)
(* where: a panic of the queue leaves the slab in order. Only a thread that  *)
(* panicked in alloc itself, on an index beyond the last segment, makes the  *)
(* drop of the Arena abort, and a continuation leaks only after a panic.     *)
FailedInAlloc(p) == pc[p] = "panicked" /\ node[p] # None /\ ~S!InTable(node[p])
DropIsClean ==
  /\ dropped # "undefined"
  /\ dropped = "abort" => \E p \in Threads : FailedInAlloc(p)
  /\ dropped = "leak" => Panicked

(* What is pushed is taken, also when a store has run out: as long as one    *)
(* thread is left that has not panicked, and the stores are there.           *)
EveryTaskIsTaken ==
  \A x \in Positions : (x \in Waiting) ~>
    \/ x \notin Waiting
    \/ dropped # "no"
    \/ \A p \in Threads : pc[p] = "panicked"
=============================================================================
