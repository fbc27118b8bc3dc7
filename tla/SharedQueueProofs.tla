-------------------------- MODULE SharedQueueProofs --------------------------
(***************************************************************************)
(* Proofs about the shared queue, for every number of threads, every size  *)
(* of a segment and every number of segments: its types, that no task is   *)
(* left behind top, that it is a pool that hands each task out once, that  *)
(* a task that runs finds its node or continuation in the slab, and that   *)
(* the stores of a fold that did not panic are dropped clean.              *)
(***************************************************************************)
EXTENDS SharedQueue, TLAPS

\* The two tables as the lemmas about segment tables see them.
QT == INSTANCE SegmentTableProofs WITH table <- segments, Blank <- EmptySlot, Null <- None
ST == INSTANCE SegmentTableProofs WITH table <- slab, Blank <- Uninit, Null <- None

Slot == QT!Array                       \* the slot at each position
Ready == QT!Room                       \* the positions that have a segment
InQueue == {x \in Nat : Q!InTable(x)}  \* the positions that can have one
Allocated == ST!Room                   \* likewise for the slab
InSlab == {n \in Nat : S!InTable(n)}

QueueType == segments \in [Q!Indices -> OrNone([0 .. SegmentSize - 1 -> Slots])]
SlabType == slab \in [S!Indices -> OrNone([0 .. SegmentSize - 1 -> SlabValues])]

-----------------------------------------------------------------------------
(* The queue as an array of slots. *)

\* the names of one instance in terms of the other
LEMMA QueueNames ==
  /\ QueueType <=> segments \in QT!Tables(Slots)
  /\ \A x : /\ QT!InTable(x) <=> Q!InTable(x)
            /\ QT!Found(x) <=> Q!Found(x)
            /\ QT!Read(x) = Q!Read(x) /\ QT!At(x) = Q!At(x)
            /\ QT!Install(x) <=> Q!Install(x)
            /\ \A v : QT!Write(x, v) <=> Q!Write(x, v)
  /\ EmptySlot \in Slots
BY DEF QueueType, OrNone, QT!Tables, Q!Indices, QT!Indices, Q!InTable, QT!InTable, Q!SegmentOf,
   QT!SegmentOf, Q!OffsetOf, QT!OffsetOf, Q!Found, QT!Found, Q!Read, QT!Read, Q!At, QT!At,
   Q!Install, QT!Install, Q!NewSegment, QT!NewSegment, Q!Write, QT!Write, EmptySlot, Slots, States

\* what the array holds
LEMMA QueueArray ==
  ASSUME QueueType
  PROVE  /\ Slot \in [Nat -> Slots]
         /\ Ready \subseteq InQueue
         /\ \A x \in InQueue : Q!Found(x) <=> x \in Ready
         /\ \A x \in Ready : Q!Read(x) = Slot[x]
         /\ \A x \in Nat \ Ready : Slot[x].state = "EMPTY"
         /\ Waiting = {x \in Positions : Slot[x].state = "AVAILABLE"}
<1>1. /\ Slot \in [Nat -> Slots]
      /\ \A x \in Nat \ Ready : Slot[x] = EmptySlot
      /\ \A x \in Ready : Q!Read(x) = Slot[x]
  BY QueueNames, QT!ArrayType, SharedQueueAssumption DEF Slot, Ready
<1>2. Ready = {x \in Nat : Q!InTable(x) /\ Q!Found(x)}
  BY QueueNames DEF Ready, QT!Room
<1>3. \A x \in Positions : x \in Nat /\ Q!At(x) = Slot[x]
  BY QueueNames, SharedQueueAssumption DEF Positions, Slot, QT!Array
<1> QED
  BY <1>1, <1>2, <1>3 DEF InQueue, Waiting, EmptySlot

\* a step that leaves the segments alone
LEMMA QueueSame ==
  ASSUME segments' = segments
  PROVE  /\ QueueType => QueueType'
         /\ Slot' = Slot /\ Ready' = Ready
BY DEF QueueType, Slot, Ready, QT!Array, QT!Room, QT!At, QT!InTable, QT!Found, QT!Read

\* a step that installs one
LEMMA QueueInstall ==
  ASSUME QueueType, NEW x \in InQueue, Q!Install(x)
  PROVE  /\ QueueType'
         /\ Slot' = Slot /\ Ready \cup {x} \subseteq Ready'
<1>1. QT!InTable(x) /\ QT!Install(x) /\ x \in Nat
  BY QueueNames DEF InQueue
<1>2. /\ segments' \in QT!Tables(Slots)
      /\ QT!Array' = QT!Array /\ QT!Room \cup {x} \subseteq QT!Room'
  BY <1>1, QueueNames, QT!InstallArray, SharedQueueAssumption
<1>3. QueueType'
  BY <1>2 DEF QueueType, OrNone, QT!Tables, Q!Indices, QT!Indices
<1> QED
  BY <1>2, <1>3 DEF Slot, Ready

\* a step that writes a slot
LEMMA QueueWrite ==
  ASSUME QueueType, NEW x \in Ready, NEW v \in Slots, Q!Write(x, v)
  PROVE  /\ QueueType'
         /\ Slot' = [Slot EXCEPT ![x] = v] /\ Ready' = Ready
<1>1. /\ segments' \in QT!Tables(Slots)
      /\ QT!Array' = [QT!Array EXCEPT ![x] = v] /\ QT!Room' = QT!Room
  BY QueueNames, QT!WriteArray, SharedQueueAssumption DEF Ready
<1>2. QueueType'
  BY <1>1 DEF QueueType, OrNone, QT!Tables, Q!Indices, QT!Indices
<1> QED
  BY <1>1, <1>2 DEF Slot, Ready

-----------------------------------------------------------------------------
(* The slab: only its segments matter here, they stay. *)

\* the names of one instance in terms of the other
LEMMA SlabNames ==
  /\ SlabType <=> slab \in ST!Tables(SlabValues)
  /\ \A x : /\ ST!InTable(x) <=> S!InTable(x)
            /\ ST!Found(x) <=> S!Found(x)
            /\ ST!Install(x) <=> S!Install(x)
            /\ \A v : ST!Write(x, v) <=> S!Write(x, v)
  /\ Uninit \in SlabValues
BY DEF SlabType, OrNone, ST!Tables, S!Indices, ST!Indices, S!InTable, ST!InTable, S!SegmentOf,
   ST!SegmentOf, S!OffsetOf, ST!OffsetOf, S!Found, ST!Found,
   S!Install, ST!Install, S!NewSegment, ST!NewSegment, S!Write, ST!Write, SlabValues

\* a load finds a segment where there is one
LEMMA SlabFound ==
  \A n \in InSlab : S!Found(n) <=> n \in Allocated
BY SlabNames DEF InSlab, Allocated, ST!Room

\* a step that leaves the slab alone
LEMMA SlabSame ==
  ASSUME slab' = slab
  PROVE  (SlabType => SlabType') /\ Allocated' = Allocated
BY DEF SlabType, Allocated, ST!Room, ST!InTable, ST!Found

\* a step that installs a segment
LEMMA SlabInstall ==
  ASSUME SlabType, NEW n \in InSlab, S!Install(n)
  PROVE  SlabType' /\ Allocated \cup {n} \subseteq Allocated'
<1>1. ST!InTable(n) /\ ST!Install(n) /\ n \in Nat
  BY SlabNames DEF InSlab
<1>2. slab' \in ST!Tables(SlabValues) /\ ST!Room \cup {n} \subseteq ST!Room'
  BY <1>1, SlabNames, ST!InstallArray, SharedQueueAssumption
<1>3. SlabType'
  BY <1>2 DEF SlabType, OrNone, ST!Tables, S!Indices, ST!Indices
<1> QED
  BY <1>2, <1>3 DEF Allocated

\* a step that writes a value
LEMMA SlabWrite ==
  ASSUME SlabType, NEW n \in Allocated, NEW v \in SlabValues, S!Write(n, v)
  PROVE  SlabType' /\ Allocated' = Allocated
<1>1. slab' \in ST!Tables(SlabValues) /\ ST!Room' = ST!Room
  BY SlabNames, ST!WriteArray, SharedQueueAssumption DEF Allocated
<1>2. SlabType'
  BY <1>1 DEF SlabType, OrNone, ST!Tables, S!Indices, ST!Indices
<1> QED
  BY <1>1, <1>2 DEF Allocated

-----------------------------------------------------------------------------
(* The invariant: what each thread knows of the slot it is about. *)

PushPcs == {"push_segment", "push_install", "push_write", "push_mark"}
ThiefPcs == {"steal_bottom", "steal_segment", "steal_install", "steal_state", "steal_skip",
             "steal_claim", "steal_slot", "steal_read"}
MovesNode == {"alloc_segment", "alloc_install"}

\* a position that was claimed belongs to its publisher until it is marked
Pushing(p) ==
  /\ node[p] # None
  /\ pos[p] \in InQueue /\ pos[p] < bottom /\ Slot[pos[p]].state = "EMPTY"
  /\ pc[p] \in {"push_write", "push_mark"} => pos[p] \in Ready
  /\ pc[p] = "push_mark" => Slot[pos[p]].value \in Tasks /\ Slot[pos[p]].value.pos = pos[p]
PushInv ==
  /\ \A p \in Threads : pc[p] \in PushPcs => Pushing(p)
  /\ \A p, q \in Threads :
       pc[p] \in PushPcs /\ pc[q] \in PushPcs /\ pos[p] = pos[q] => p = q

\* a thief passes a slot only when it has seen it filled
Stealing(p) ==
  /\ pos[p] \in Nat
  /\ pc[p] # "steal_bottom" => pos[p] \in InQueue /\ pos[p] < bottom
  /\ pc[p] \in {"steal_state", "steal_skip", "steal_claim", "steal_slot", "steal_read"} =>
       pos[p] \in Ready
  /\ pc[p] \in {"steal_skip", "steal_claim", "steal_slot", "steal_read"} =>
       Slot[pos[p]].state # "EMPTY"
  /\ pc[p] = "steal_skip" => Slot[pos[p]].state \in {"STOLEN", "RECLAIMED"}
  /\ pc[p] = "steal_read" => Slot[pos[p]].state = "STOLEN"
StealInv == \A p \in Threads : pc[p] \in ThiefPcs => Stealing(p)

\* a filled slot holds the task of its position, and stays filled
SlotInv ==
  /\ \A x \in Nat :
       /\ Slot[x].state # "EMPTY" =>
            x < bottom /\ Slot[x].value \in Tasks /\ Slot[x].value.pos = x
       /\ x < top => Slot[x].state # "EMPTY"
  /\ \A p \in Threads : last[p] # None => last[p] \in Ready /\ Slot[last[p]].state # "EMPTY"
  /\ \A x \in Positions, p \in Threads :
       <<x, p>> \in taken => Slot[x].state \in {"STOLEN", "RECLAIMED"}

\* a node that a task may carry has a segment
NodeOf(p) ==
  /\ pc[p] \in MovesNode => node[p] \in InSlab
  /\ pc[p] = "alloc_write" => node[p] # None
  /\ pc[p] \notin MovesNode \cup {"panicked"} /\ node[p] # None => node[p] \in Allocated
  /\ pc[p] = "run" => got[p] # None
  /\ got[p] # None => got[p].node \in Allocated
NodeInv ==
  /\ \A p \in Threads : NodeOf(p)
  /\ \A x \in Nat : Slot[x].value # None => Slot[x].value.node \in Allocated

\* NothingStranded, over the array
NoneBehind ==
  \A x \in Positions : Slot[x].state = "AVAILABLE" =>
    x >= top \/ \E p \in Threads : pc[p] = "steal_slot" /\ pos[p] = x

Inv == TypeOK /\ PushInv /\ StealInv /\ SlotInv /\ NodeInv /\ NoneBehind

\* the types of the two tables, as the lemmas about them ask for them
LEMMA TypeParts == TypeOK => QueueType /\ SlabType
BY DEF TypeOK, QueueType, SlabType

\* nothing is there when the fold starts
LEMMA InitInv == Init => Inv
<1> SUFFICES ASSUME Init PROVE Inv
  OBVIOUS
<1>1. segments = [i \in Q!Indices |-> None] /\ slab = [i \in S!Indices |-> None]
  BY DEF Init, Q!Init, S!Init
<1>2. TypeOK
  BY <1>1, SharedQueueAssumption DEF Init, TypeOK, OrNone
<1>3. QueueType
  BY <1>2, TypeParts
<1>4. \A x \in Nat : Slot[x] = EmptySlot
  <2> SUFFICES ASSUME NEW x \in Nat PROVE Q!At(x) = EmptySlot
    BY QueueNames DEF Slot, QT!Array
  <2>1. Q!SegmentOf(x) \in Nat
    BY SharedQueueAssumption DEF Q!SegmentOf
  <2> QED
    BY <1>1, <2>1, SharedQueueAssumption DEF Q!At, Q!InTable, Q!Found, Q!Indices
<1> QED
  BY <1>2, <1>4 DEF Inv, Init, PushInv, PushPcs, StealInv, ThiefPcs, SlotInv, NodeInv,
     NodeOf, MovesNode, NoneBehind, EmptySlot, Positions

-----------------------------------------------------------------------------
(* Each step preserves it. *)

\* Facts that every step starts from.
LEMMA Given ==
  ASSUME Inv
  PROVE  /\ QueueType /\ SlabType
         /\ Slot \in [Nat -> Slots] /\ Ready \subseteq InQueue /\ InQueue \subseteq Nat
         /\ bottom \in Nat /\ top \in Nat
         /\ Positions \subseteq Nat
<1>1. QueueType /\ SlabType
  BY TypeParts DEF Inv
<1>2. bottom \in Nat /\ top \in Nat
  BY SharedQueueAssumption DEF Inv, TypeOK
<1> QED
  BY <1>1, <1>2, QueueArray, SharedQueueAssumption DEF InQueue, Positions

\* what a thread brings to the invariant
Own(p) ==
  /\ pc[p] \in PushPcs =>
       Pushing(p) /\ \A q \in Threads \ {p} : pc[q] \in PushPcs => pos[q] # pos[p]
  /\ pc[p] \in ThiefPcs => Stealing(p)
  /\ NodeOf(p)

\* a step of p that leaves the slots, and what the others know, alone
Quiet(p) ==
  /\ Slot' = Slot /\ Ready \subseteq Ready' /\ Allocated \subseteq Allocated'
  /\ bottom' \in Nat /\ bottom <= bottom' /\ UNCHANGED <<top, last, taken>>
  /\ pc[p] # "steal_slot"
  /\ \A q \in Threads \ {p} : /\ pc'[q] = pc[q] /\ node'[q] = node[q]
                              /\ pos'[q] = pos[q] /\ got'[q] = got[q]

\* For such a step it is enough to look at p.
LEMMA QuietStep ==
  ASSUME Inv, NEW p \in Threads, Quiet(p), TypeOK', Own(p)'
  PROVE  Inv'
<1>1. PushInv'
  <2>1. \A q \in Threads \ {p} : pc[q] \in PushPcs => Pushing(q)'
    BY Given DEF Quiet, Inv, PushInv, Pushing
  <2>2. \A q \in Threads \ {p}, r \in Threads \ {p} :
          pc'[q] \in PushPcs /\ pc'[r] \in PushPcs /\ pos'[q] = pos'[r] => q = r
    BY DEF Quiet, Inv, PushInv
  <2> QED
    BY <2>1, <2>2 DEF Quiet, PushInv, Own
<1>2. StealInv'
  <2>1. \A q \in Threads \ {p} : pc[q] \in ThiefPcs => Stealing(q)'
    BY Given DEF Quiet, Inv, StealInv, Stealing
  <2> QED
    BY <2>1 DEF Quiet, StealInv, Own
<1>3. SlotInv'
  BY Given DEF Quiet, Inv, SlotInv
<1>4. NodeInv'
  <2>1. \A q \in Threads \ {p} : NodeOf(q)'
    BY DEF Quiet, Inv, NodeInv, NodeOf
  <2> QED
    BY <2>1 DEF Quiet, Inv, NodeInv, Own
<1>5. NoneBehind'
  BY DEF Quiet, Inv, NoneBehind
<1> QED
  BY <1>1, <1>2, <1>3, <1>4, <1>5 DEF Inv

\* SegmentedSlab::alloc: an index, its segment, its value
LEMMA AllocClaimStep ==
  ASSUME Inv, NEW p \in Threads, AllocClaim(p)
  PROVE  Inv'
<1>1. Slot' = Slot /\ Ready' = Ready /\ QueueType' /\ Allocated' = Allocated /\ SlabType'
  BY Given, QueueSame, SlabSame DEF AllocClaim, queueVars, slabVars
<1>2. TypeOK'
  <2>1. next \in SlabIndices /\ next' \in 0 .. MaxAllocs
    BY SharedQueueAssumption DEF Inv, TypeOK, AllocClaim, SlabIndices
  <2> QED
    BY <1>1, <2>1 DEF Inv, TypeOK, AllocClaim, Goto, QueueType, SlabType, OrNone, queueVars,
       ghostVars
<1>3. Quiet(p)
  BY <1>1, Given DEF Inv, TypeOK, Quiet, AllocClaim, Goto, queueVars, localVars, ghostVars
<1>4. Own(p)'
  BY <1>1, Given, SharedQueueAssumption DEF Inv, TypeOK, AllocClaim, Goto, InSlab, Own, PushPcs,
     ThiefPcs, NodeInv, NodeOf, MovesNode, queueVars, localVars
<1> QED
  BY <1>2, <1>3, <1>4, QuietStep

\* the segment is there, or has to be installed
LEMMA AllocSegmentStep ==
  ASSUME Inv, NEW p \in Threads, AllocSegment(p)
  PROVE  Inv'
<1>1. Slot' = Slot /\ Ready' = Ready /\ QueueType' /\ Allocated' = Allocated /\ SlabType'
  BY Given, QueueSame, SlabSame DEF AllocSegment, queueVars, slabVars
<1>2. TypeOK'
  BY <1>1, SlabFound, Given, SharedQueueAssumption DEF Inv, TypeOK, AllocSegment, Goto, InSlab,
     QueueType, SlabType, OrNone, Positions, SlabIndices, queueVars, slabVars, localVars,
     ghostVars
<1>3. Quiet(p)
  BY <1>1, Given DEF Inv, TypeOK, Quiet, AllocSegment, Goto, queueVars, localVars, ghostVars
<1>4. Own(p)'
  BY <1>1, SlabFound, Given, SharedQueueAssumption DEF Inv, TypeOK, AllocSegment, Goto, InSlab,
     Own, PushPcs, ThiefPcs, NodeInv, NodeOf, MovesNode, queueVars, localVars
<1> QED
  BY <1>2, <1>3, <1>4, QuietStep

\* its own segment, or that of a faster thread
LEMMA AllocInstallStep ==
  ASSUME Inv, NEW p \in Threads, AllocInstall(p)
  PROVE  Inv'
<1>1. node[p] \in InSlab
  BY DEF Inv, NodeInv, NodeOf, MovesNode, AllocInstall, Goto
<1>2. /\ Slot' = Slot /\ Ready' = Ready /\ QueueType' /\ SlabType'
      /\ Allocated \cup {node[p]} \subseteq Allocated'
  BY <1>1, Given, QueueSame, SlabInstall DEF AllocInstall, queueVars
<1>3. TypeOK'
  BY <1>1, <1>2, Given, SharedQueueAssumption DEF Inv, TypeOK, AllocInstall, Goto, QueueType,
     SlabType, OrNone, Positions, SlabIndices, queueVars, slabVars, localVars, ghostVars
<1>4. Quiet(p)
  BY <1>1, <1>2, Given DEF Inv, TypeOK, Quiet, AllocInstall, Goto, queueVars, localVars, ghostVars
<1>5. Own(p)'
  <2>1. /\ node' = node /\ got' = got /\ pc'[p] = "alloc_write" /\ pc[p] = "alloc_install"
        /\ node[p] # None
    BY <1>1, SharedQueueAssumption DEF Inv, TypeOK, InSlab, AllocInstall, Goto, localVars
  <2> QED
    BY <1>2, <2>1 DEF Inv, NodeInv, NodeOf, Own, PushPcs, ThiefPcs, MovesNode
<1> QED
  BY <1>3, <1>4, <1>5, QuietStep

\* the value is written
LEMMA AllocWriteStep ==
  ASSUME Inv, NEW p \in Threads, AllocWrite(p)
  PROVE  Inv'
<1>1. Slot' = Slot /\ Ready' = Ready /\ QueueType' /\ Allocated' = Allocated /\ SlabType'
  BY Given, QueueSame, SlabWrite DEF AllocWrite, Goto, Inv, NodeInv, NodeOf, MovesNode,
     SlabValues, queueVars
<1>2. TypeOK'
  BY <1>1, Given, SharedQueueAssumption DEF Inv, TypeOK, AllocWrite, Goto, QueueType, SlabType,
     OrNone, Positions, SlabIndices, queueVars, slabVars, localVars, ghostVars
<1>3. Quiet(p)
  BY <1>1, Given DEF Inv, TypeOK, Quiet, AllocWrite, Goto, queueVars, localVars, ghostVars
<1>4. Own(p)'
  BY <1>1, Given, SharedQueueAssumption DEF Inv, TypeOK, AllocWrite, Goto, Own, PushPcs, ThiefPcs,
     NodeInv, NodeOf, MovesNode, queueVars, localVars
<1> QED
  BY <1>2, <1>3, <1>4, QuietStep

\* StealQueue::push: a position, its segment, the value, the state
LEMMA PushClaimStep ==
  ASSUME Inv, NEW p \in Threads, PushClaim(p)
  PROVE  Inv'
<1>1. Slot' = Slot /\ Ready' = Ready /\ QueueType' /\ Allocated' = Allocated /\ SlabType'
  BY Given, QueueSame, SlabSame DEF PushClaim, queueVars, slabVars
<1>2. TypeOK'
  <2>1. bottom \in 0 .. MaxPushes /\ bottom' \in 0 .. MaxPushes /\ top' \in 0 .. bottom'
    BY SharedQueueAssumption DEF Inv, TypeOK, PushClaim
  <2> QED
    BY <1>1, <2>1 DEF Inv, TypeOK, PushClaim, Goto, QueueType, SlabType, OrNone, slabVars,
       ghostVars
<1>3. Quiet(p)
  BY <1>1, Given DEF Inv, TypeOK, Quiet, PushClaim, Goto, queueVars, localVars, ghostVars
<1>4. Own(p)'
  BY <1>1, Given, SharedQueueAssumption DEF Inv, TypeOK, PushClaim, Goto, InQueue, Own, PushInv,
     Pushing, PushPcs, ThiefPcs, SlotInv, NodeInv, NodeOf, MovesNode, queueVars, localVars
<1> QED
  BY <1>2, <1>3, <1>4, QuietStep

\* the segment of the position is there, or has to be installed
LEMMA PushSegmentStep ==
  ASSUME Inv, NEW p \in Threads, PushSegment(p)
  PROVE  Inv'
<1>1. Pushing(p) /\ (Q!Found(pos[p]) <=> pos[p] \in Ready)
  BY Given, QueueArray DEF Inv, PushInv, PushPcs, Pushing, PushSegment, Goto
<1>2. Slot' = Slot /\ Ready' = Ready /\ QueueType' /\ Allocated' = Allocated /\ SlabType'
  BY <1>1, Given, QueueSame, SlabSame DEF PushSegment, queueVars, slabVars
<1>3. TypeOK'
  BY <1>1, <1>2, Given, SharedQueueAssumption DEF Inv, TypeOK, PushSegment, Goto, QueueType,
     SlabType, OrNone, Positions, SlabIndices, queueVars, slabVars, localVars, ghostVars
<1>4. Quiet(p)
  BY <1>1, <1>2, Given DEF Inv, TypeOK, Quiet, PushSegment, Goto, queueVars, localVars, ghostVars
<1>5. Own(p)'
  BY <1>1, <1>2, Given, SharedQueueAssumption DEF Inv, TypeOK, PushSegment, Goto, Own, PushInv,
     Pushing, PushPcs, ThiefPcs, NodeInv, NodeOf, MovesNode, queueVars, localVars
<1> QED
  BY <1>3, <1>4, <1>5, QuietStep

\* a publisher installs it
LEMMA PushInstallStep ==
  ASSUME Inv, NEW p \in Threads, PushInstall(p)
  PROVE  Inv'
<1>1. Pushing(p)
  BY DEF Inv, PushInv, PushPcs, PushInstall, Goto
<1>2. Slot' = Slot /\ Ready \cup {pos[p]} \subseteq Ready' /\ QueueType'
      /\ Allocated' = Allocated /\ SlabType'
  BY <1>1, Given, QueueInstall, SlabSame DEF PushInstall, Pushing, slabVars
<1>3. TypeOK'
  BY <1>1, <1>2, Given, SharedQueueAssumption DEF Inv, TypeOK, PushInstall, Goto, QueueType,
     SlabType, OrNone, Positions, SlabIndices, queueVars, slabVars, localVars, ghostVars
<1>4. Quiet(p)
  BY <1>1, <1>2, Given DEF Inv, TypeOK, Quiet, PushInstall, Goto, queueVars, localVars, ghostVars
<1>5. Own(p)'
  BY <1>1, <1>2, Given, SharedQueueAssumption DEF Inv, TypeOK, PushInstall, Goto, Own, PushInv,
     Pushing, PushPcs, ThiefPcs, NodeInv, NodeOf, MovesNode, queueVars, localVars
<1> QED
  BY <1>3, <1>4, <1>5, QuietStep

\* Slot::write, the value: nobody can see it yet
LEMMA PushWriteStep ==
  ASSUME Inv, NEW p \in Threads, PushWrite(p)
  PROVE  Inv'
<1>1. /\ Pushing(p) /\ pos[p] \in Ready /\ [pos |-> pos[p], node |-> node[p]] \in Tasks
      /\ pc[p] = "push_write" /\ \A q \in Threads \ {p} : pc[q] \in PushPcs => pos[q] # pos[p]
  <2>1. Pushing(p) /\ pos[p] \in Ready /\ pc[p] = "push_write"
    BY DEF Inv, PushInv, PushPcs, Pushing, PushWrite, Goto
  <2>2. pos[p] \in Positions /\ node[p] \in SlabIndices
    BY <2>1, Given, SharedQueueAssumption DEF Pushing, Inv, TypeOK, OrNone, Positions
  <2>3. \A q \in Threads \ {p} : pc[q] \in PushPcs => pos[q] # pos[p]
    BY <2>1 DEF Inv, PushInv, PushPcs
  <2> QED
    BY <2>1, <2>2, <2>3 DEF Tasks
<1>2. /\ Slot' = [Slot EXCEPT ![pos[p]] =
                    [state |-> "EMPTY", value |-> [pos |-> pos[p], node |-> node[p]]]]
      /\ Ready' = Ready /\ QueueType' /\ Allocated' = Allocated /\ SlabType'
  BY <1>1, Given, QueueWrite, SlabSame DEF PushWrite, Goto, Pushing, EmptySlot, Slots, States,
   slabVars
<1>3. TypeOK'
  BY <1>1, <1>2, Given, SharedQueueAssumption DEF Inv, TypeOK, PushWrite, Goto, Pushing,
     QueueType, SlabType, OrNone, Positions, SlabIndices, queueVars, slabVars, localVars,
     ghostVars
<1>4. PushInv'
  <2>1. \A q \in Threads : /\ pos'[q] = pos[q] /\ node'[q] = node[q]
                           /\ pc'[q] = IF q = p THEN "push_mark" ELSE pc[q]
    BY DEF Inv, TypeOK, PushWrite, Goto, localVars
  <2>2. \A x \in Nat \ {pos[p]} : Slot'[x] = Slot[x]
    BY <1>2, Given
  <2>3. Pushing(p)'
    BY <1>1, <1>2, <2>1, Given DEF Pushing, PushWrite
  <2>4. \A q \in Threads \ {p} : pc'[q] \in PushPcs => Pushing(q)'
    BY <1>1, <1>2, <2>1, <2>2, Given DEF Pushing, PushWrite, Inv, PushInv
  <2> QED
    BY <2>1, <2>3, <2>4, <1>1 DEF Inv, PushInv, PushPcs
<1>5. StealInv'
  BY <1>1, <1>2, Given DEF Inv, TypeOK, PushWrite, Goto, Pushing, StealInv, Stealing, ThiefPcs,
     queueVars, slabVars, localVars, ghostVars
<1>6. SlotInv'
  BY <1>1, <1>2, Given, SharedQueueAssumption DEF Inv, TypeOK, PushWrite, Goto, Pushing,
     SlotInv, Positions, queueVars, slabVars, localVars, ghostVars
<1>7. NodeInv'
  BY <1>1, <1>2, Given, SharedQueueAssumption DEF Inv, TypeOK, PushWrite, Goto, Pushing,
     NodeInv, NodeOf, MovesNode, queueVars, slabVars, localVars, ghostVars
<1>8. NoneBehind'
  BY <1>1, <1>2, Given DEF Inv, TypeOK, PushWrite, Goto, Pushing, NoneBehind, Positions,
     queueVars, slabVars, localVars, ghostVars
<1> QED
  BY <1>3, <1>4, <1>5, <1>6, <1>7, <1>8 DEF Inv

\* Slot::write, the state: the task can be had from here on
LEMMA PushMarkStep ==
  ASSUME Inv, NEW p \in Threads, PushMark(p)
  PROVE  Inv'
<1>1. /\ Pushing(p) /\ pos[p] \in Ready /\ pos[p] \in Positions /\ pc[p] = "push_mark"
      /\ Slot[pos[p]].value \in Tasks /\ Slot[pos[p]].value.pos = pos[p]
      /\ \A q \in Threads \ {p} : pc[q] \in PushPcs => pos[q] # pos[p]
  <2>1. Pushing(p) /\ pos[p] \in Ready /\ pc[p] = "push_mark"
    BY DEF Inv, PushInv, PushPcs, Pushing, PushMark, Goto
  <2>2. pos[p] \in Positions
    <3>1. pos[p] \in Nat /\ pos[p] < bottom /\ bottom \in 0 .. MaxPushes
      BY <2>1, Given DEF Pushing, Inv, TypeOK
    <3> QED
      BY <3>1, SharedQueueAssumption DEF Positions
  <2>3. \A q \in Threads \ {p} : pc[q] \in PushPcs => pos[q] # pos[p]
    BY <2>1 DEF Inv, PushInv, PushPcs
  <2> QED
    BY <2>1, <2>2, <2>3 DEF Pushing
<1>2. /\ Slot' = [Slot EXCEPT ![pos[p]].state = "AVAILABLE"]
      /\ Slot'[pos[p]].state = "AVAILABLE" /\ Slot'[pos[p]].value = Slot[pos[p]].value
      /\ Ready' = Ready /\ QueueType' /\ Allocated' = Allocated /\ SlabType'
  BY <1>1, Given, QueueArray, QueueWrite, SlabSame DEF PushMark, Mark, Slots, States, slabVars
<1>3. TypeOK'
  BY <1>1, <1>2, Given, SharedQueueAssumption DEF Inv, TypeOK, PushMark, Goto, Pushing, PushPcs,
     QueueType, SlabType, OrNone, Positions, SlabIndices, queueVars, slabVars, localVars,
     ghostVars
<1>4. PushInv'
  BY <1>1, <1>2, Given DEF Inv, TypeOK, PushMark, Goto, Pushing, PushPcs, PushInv, queueVars,
     slabVars, localVars, ghostVars
<1>5. StealInv'
  BY <1>1, <1>2, Given DEF Inv, TypeOK, PushMark, Goto, Pushing, PushPcs, StealInv, Stealing,
     ThiefPcs, queueVars, slabVars, localVars, ghostVars
<1>6. SlotInv'
  <2>1. \A x \in Nat : Slot'[x].value = Slot[x].value /\ (x # pos[p] => Slot'[x] = Slot[x])
    BY <1>2, Given DEF Slots
  <2>2. /\ UNCHANGED <<bottom, top, taken>> /\ pos[p] < bottom
        /\ \A q \in Threads : last'[q] = IF q = p THEN pos[p] ELSE last[q]
    BY <1>1 DEF Inv, TypeOK, PushMark, Pushing, ghostVars
  <2>3. \A q \in Threads : <<pos[p], q>> \notin taken
    BY <1>1 DEF Inv, SlotInv, Pushing
  <2> QED
    BY <1>1, <1>2, <2>1, <2>2, <2>3, Given DEF Inv, SlotInv
<1>7. NodeInv'
  BY <1>1, <1>2, Given, SharedQueueAssumption DEF Inv, TypeOK, PushMark, Goto, Pushing, PushPcs,
     NodeInv, NodeOf, MovesNode, queueVars, slabVars, localVars, ghostVars
<1>8. NoneBehind'
  <2>1. pos[p] >= top
    BY <1>1, Given DEF Pushing, Inv, SlotInv
  <2>2. \A q \in Threads : pc[q] = "steal_slot" => pc'[q] = pc[q] /\ pos'[q] = pos[q]
    BY DEF Inv, TypeOK, PushMark, Goto
  <2>3. \A x \in Positions : x # pos[p] => Slot'[x] = Slot[x]
    BY <1>2, Given
  <2> QED
    BY <2>1, <2>2, <2>3 DEF Inv, NoneBehind, PushMark
<1> QED
  BY <1>3, <1>4, <1>5, <1>6, <1>7, <1>8 DEF Inv

\* StealQueue::steal: the loads
LEMMA StealTopStep ==
  ASSUME Inv, NEW p \in Threads, StealTop(p)
  PROVE  Inv'
<1>1. Slot' = Slot /\ Ready' = Ready /\ QueueType' /\ Allocated' = Allocated /\ SlabType'
  BY Given, QueueSame, SlabSame DEF StealTop, queueVars, slabVars
<1>2. TypeOK'
  <2>1. top \in 0 .. MaxPushes
    BY SharedQueueAssumption DEF Inv, TypeOK
  <2> QED
    BY <1>1, <2>1 DEF Inv, TypeOK, StealTop, QueueType, SlabType, OrNone, queueVars, slabVars,
       ghostVars
<1>3. Quiet(p)
  BY <1>1, Given DEF Inv, TypeOK, Quiet, StealTop, Goto, queueVars, localVars, ghostVars
<1>4. Own(p)'
  BY <1>1, Given, SharedQueueAssumption DEF Inv, TypeOK, StealTop, Goto, Own, PushPcs, StealInv,
     Stealing, ThiefPcs, NodeInv, NodeOf, MovesNode, queueVars, localVars
<1> QED
  BY <1>2, <1>3, <1>4, QuietStep

\* the load of bottom: the queue is empty, or its slot exists
LEMMA StealBottomStep ==
  ASSUME Inv, NEW p \in Threads, StealBottom(p)
  PROVE  Inv'
<1>1. Slot' = Slot /\ Ready' = Ready /\ QueueType' /\ Allocated' = Allocated /\ SlabType'
  BY Given, QueueSame, SlabSame DEF StealBottom, queueVars, slabVars
<1>2. TypeOK'
  BY <1>1, Given, SharedQueueAssumption DEF Inv, TypeOK, StealBottom, Goto, InQueue, QueueType,
     SlabType, OrNone, Positions, SlabIndices, queueVars, slabVars, localVars, ghostVars
<1>3. Quiet(p)
  BY <1>1, Given DEF Inv, TypeOK, Quiet, StealBottom, Goto, queueVars, localVars, ghostVars
<1>4. Own(p)'
  BY <1>1, Given, SharedQueueAssumption DEF Inv, TypeOK, StealBottom, Goto, InQueue, Own, PushPcs,
     StealInv, Stealing, ThiefPcs, NodeInv, NodeOf, MovesNode, queueVars, localVars
<1> QED
  BY <1>2, <1>3, <1>4, QuietStep

\* the thief looks for the segment
LEMMA StealSegmentStep ==
  ASSUME Inv, NEW p \in Threads, StealSegment(p)
  PROVE  Inv'
<1>1. Stealing(p) /\ (Q!Found(pos[p]) <=> pos[p] \in Ready)
  BY Given, QueueArray DEF Inv, StealInv, Stealing, ThiefPcs, StealSegment, Goto
<1>2. Slot' = Slot /\ Ready' = Ready /\ QueueType' /\ Allocated' = Allocated /\ SlabType'
  BY <1>1, Given, QueueSame, SlabSame DEF StealSegment, queueVars, slabVars
<1>3. TypeOK'
  BY <1>1, <1>2, Given, SharedQueueAssumption DEF Inv, TypeOK, StealSegment, Goto, QueueType,
     SlabType, OrNone, Positions, SlabIndices, queueVars, slabVars, localVars, ghostVars
<1>4. Quiet(p)
  BY <1>1, <1>2, Given DEF Inv, TypeOK, Quiet, StealSegment, Goto, queueVars, localVars, ghostVars
<1>5. Own(p)'
  BY <1>1, <1>2, Given, SharedQueueAssumption DEF Inv, TypeOK, StealSegment, Goto, Own, PushPcs,
     StealInv, Stealing, ThiefPcs, NodeInv, NodeOf, MovesNode, queueVars, localVars
<1> QED
  BY <1>3, <1>4, <1>5, QuietStep

\* a thief may be the one to install it
LEMMA StealInstallStep ==
  ASSUME Inv, NEW p \in Threads, StealInstall(p)
  PROVE  Inv'
<1>1. Stealing(p) /\ pos[p] \in InQueue
  BY DEF Inv, StealInv, Stealing, ThiefPcs, StealInstall, Goto
<1>2. Slot' = Slot /\ Ready \cup {pos[p]} \subseteq Ready' /\ QueueType'
      /\ Allocated' = Allocated /\ SlabType'
  BY <1>1, Given, QueueInstall, SlabSame DEF StealInstall, slabVars
<1>3. TypeOK'
  BY <1>1, <1>2, Given, SharedQueueAssumption DEF Inv, TypeOK, StealInstall, Goto, QueueType,
     SlabType, OrNone, Positions, SlabIndices, queueVars, slabVars, localVars, ghostVars
<1>4. Quiet(p)
  BY <1>1, <1>2, Given DEF Inv, TypeOK, Quiet, StealInstall, Goto, queueVars, localVars, ghostVars
<1>5. Own(p)'
  BY <1>1, <1>2, Given, SharedQueueAssumption DEF Inv, TypeOK, StealInstall, Goto, Own, PushPcs,
     StealInv, Stealing, ThiefPcs, NodeInv, NodeOf, MovesNode, queueVars, localVars
<1> QED
  BY <1>3, <1>4, <1>5, QuietStep

\* the load of the state
LEMMA StealStateStep ==
  ASSUME Inv, NEW p \in Threads, StealState(p)
  PROVE  Inv'
<1>1. Stealing(p) /\ pos[p] \in Ready /\ Q!Read(pos[p]) = Slot[pos[p]]
      /\ Slot[pos[p]].state \in States
  BY Given, QueueArray DEF Inv, StealInv, Stealing, ThiefPcs, StealState, Goto, Slots
<1>2. Slot' = Slot /\ Ready' = Ready /\ QueueType' /\ Allocated' = Allocated /\ SlabType'
  BY <1>1, Given, QueueSame, SlabSame DEF StealState, queueVars, slabVars
<1>3. TypeOK'
  BY <1>1, <1>2, Given, SharedQueueAssumption DEF Inv, TypeOK, StealState, Goto, AfterState,
     States, QueueType, SlabType, OrNone, Positions, SlabIndices, queueVars, slabVars, localVars,
     ghostVars
<1>4. Quiet(p)
  BY <1>1, <1>2, Given DEF Inv, TypeOK, Quiet, StealState, Goto, queueVars, localVars, ghostVars
<1>5. Own(p)'
  BY <1>1, <1>2, Given, SharedQueueAssumption DEF Inv, TypeOK, StealState, Goto, AfterState,
     States, Own, PushPcs, StealInv, Stealing, ThiefPcs, NodeInv, NodeOf, MovesNode, queueVars,
     localVars
<1> QED
  BY <1>3, <1>4, <1>5, QuietStep

\* the compare_exchange of top
LEMMA StealSkipStep ==
  ASSUME Inv, NEW p \in Threads, StealSkip(p)
  PROVE  Inv'
<1>1. /\ Stealing(p) /\ pos[p] = top /\ top < bottom
      /\ Slot[top].state # "EMPTY" /\ Slot[top].state # "AVAILABLE"
  BY DEF Inv, StealInv, Stealing, ThiefPcs, StealSkip, Advance, Goto
<1>2. Slot' = Slot /\ Ready' = Ready /\ QueueType' /\ Allocated' = Allocated /\ SlabType'
  BY Given, QueueSame, SlabSame DEF StealSkip, Advance, slabVars
<1>3. TypeOK'
  <2>1. top' \in 0 .. bottom' /\ bottom' = bottom
    BY <1>1, Given DEF StealSkip, Advance
  <2> QED
    BY <1>2, <2>1 DEF Inv, TypeOK, StealSkip, Goto, Advance, QueueType, SlabType, slabVars,
       localVars, ghostVars
<1>4. PushInv'
  BY <1>1, <1>2, Given DEF Inv, TypeOK, StealSkip, Goto, Advance, PushInv, Pushing, PushPcs,
     queueVars, slabVars, localVars, ghostVars
<1>5. StealInv'
  BY <1>1, <1>2, Given DEF Inv, TypeOK, StealSkip, Goto, Advance, StealInv, Stealing, ThiefPcs,
     queueVars, slabVars, localVars, ghostVars
<1>6. SlotInv'
  <2>1. \A x \in Nat : x < top' => x < top \/ x = top
    BY <1>1, Given DEF StealSkip, Advance
  <2> QED
    BY <1>1, <1>2, <2>1 DEF Inv, SlotInv, StealSkip, Advance, localVars, ghostVars
<1>7. NodeInv'
  BY <1>1, <1>2, Given, SharedQueueAssumption DEF Inv, TypeOK, StealSkip, Goto, Advance,
     NodeInv, NodeOf, MovesNode, queueVars, slabVars, localVars, ghostVars
<1>8. NoneBehind'
  BY <1>1, <1>2, Given DEF Inv, TypeOK, StealSkip, Goto, Advance, NoneBehind, Positions,
     queueVars, slabVars, localVars, ghostVars
<1> QED
  BY <1>3, <1>4, <1>5, <1>6, <1>7, <1>8 DEF Inv

\* a thief claims the slot at top; from here on it must settle it
LEMMA StealClaimStep ==
  ASSUME Inv, NEW p \in Threads, StealClaim(p)
  PROVE  Inv'
<1>1. Stealing(p) /\ pos[p] = top /\ top < bottom /\ Slot[top].state # "EMPTY"
  BY DEF Inv, StealInv, Stealing, ThiefPcs, StealClaim, Advance, Goto
<1>2. Slot' = Slot /\ Ready' = Ready /\ QueueType' /\ Allocated' = Allocated /\ SlabType'
  BY Given, QueueSame, SlabSame DEF StealClaim, Advance, slabVars
<1>3. TypeOK'
  <2>1. top' \in 0 .. bottom' /\ bottom' = bottom
    BY <1>1, Given DEF StealClaim, Advance
  <2> QED
    BY <1>2, <2>1 DEF Inv, TypeOK, StealClaim, Goto, Advance, QueueType, SlabType, slabVars,
       localVars, ghostVars
<1>4. PushInv'
  BY <1>1, <1>2, Given DEF Inv, TypeOK, StealClaim, Goto, Advance, PushInv, Pushing, PushPcs,
     queueVars, slabVars, localVars, ghostVars
<1>5. StealInv'
  BY <1>1, <1>2, Given DEF Inv, TypeOK, StealClaim, Goto, Advance, StealInv, Stealing, ThiefPcs,
     queueVars, slabVars, localVars, ghostVars
<1>6. SlotInv'
  <2>1. \A x \in Nat : x < top' => x < top \/ x = top
    BY <1>1, Given DEF StealClaim, Advance
  <2> QED
    BY <1>1, <1>2, <2>1 DEF Inv, SlotInv, StealClaim, Advance, localVars, ghostVars
<1>7. NodeInv'
  BY <1>1, <1>2, Given, SharedQueueAssumption DEF Inv, TypeOK, StealClaim, Goto, Advance,
     NodeInv, NodeOf, MovesNode, queueVars, slabVars, localVars, ghostVars
<1>8. NoneBehind'
  BY <1>1, <1>2, Given DEF Inv, TypeOK, StealClaim, Goto, Advance, NoneBehind, Positions,
     queueVars, slabVars, localVars, ghostVars
<1> QED
  BY <1>3, <1>4, <1>5, <1>6, <1>7, <1>8 DEF Inv

\* another thread was faster
LEMMA ClaimFailsStep ==
  ASSUME Inv, NEW p \in Threads, ClaimFails(p)
  PROVE  Inv'
<1>1. Slot' = Slot /\ Ready' = Ready /\ QueueType' /\ Allocated' = Allocated /\ SlabType'
  BY Given, QueueSame, SlabSame DEF ClaimFails, queueVars, slabVars
<1>2. TypeOK'
  BY <1>1, Given, SharedQueueAssumption DEF Inv, TypeOK, ClaimFails, Goto, QueueType, SlabType,
     OrNone, Positions, SlabIndices, queueVars, slabVars, localVars, ghostVars
<1>3. Quiet(p)
  BY <1>1, Given DEF Inv, TypeOK, Quiet, ClaimFails, Goto, queueVars, localVars, ghostVars
<1>4. Own(p)'
  BY <1>1, Given, SharedQueueAssumption DEF Inv, TypeOK, ClaimFails, Goto, Own, PushPcs, StealInv,
     Stealing, ThiefPcs, NodeInv, NodeOf, MovesNode, queueVars, localVars
<1> QED
  BY <1>2, <1>3, <1>4, QuietStep

\* the thief reads the slot it has taken
LEMMA StealReadStep ==
  ASSUME Inv, NEW p \in Threads, StealRead(p)
  PROVE  Inv'
<1>1. Stealing(p) /\ pos[p] \in Ready /\ Q!Read(pos[p]) = Slot[pos[p]]
      /\ Slot[pos[p]].state = "STOLEN"
      /\ Slot[pos[p]].value \in Tasks /\ Slot[pos[p]].value.pos = pos[p]
      /\ Slot[pos[p]].value.node \in Allocated /\ pos[p] \in Positions
  BY Given, QueueArray, SharedQueueAssumption DEF Inv, StealInv, Stealing, ThiefPcs, SlotInv,
     NodeInv, NodeOf, StealRead, Goto, Tasks
<1>2. Slot' = Slot /\ Ready' = Ready /\ QueueType' /\ Allocated' = Allocated /\ SlabType'
  BY <1>1, Given, QueueSame, SlabSame DEF StealRead, queueVars, slabVars
<1>3. TypeOK'
  <2>1. got' = [got EXCEPT ![p] = Slot[pos[p]].value] /\ got'[p].pos = pos[p]
    BY <1>1 DEF Inv, TypeOK, StealRead
  <2>2. taken' \in SUBSET (Positions \X Threads)
    BY <1>1, <2>1 DEF Inv, TypeOK, StealRead
  <2> QED
    BY <1>1, <1>2, <2>1, <2>2 DEF Inv, TypeOK, StealRead, Goto, QueueType, SlabType, OrNone,
       queueVars, slabVars
<1>4. PushInv'
  BY <1>1, <1>2, Given DEF Inv, TypeOK, StealRead, Goto, PushInv, Pushing, PushPcs, queueVars,
     slabVars, localVars, ghostVars
<1>5. StealInv'
  BY <1>1, <1>2, Given DEF Inv, TypeOK, StealRead, Goto, StealInv, Stealing, ThiefPcs,
     queueVars, slabVars, localVars, ghostVars
<1>6. SlotInv'
  <2>1. UNCHANGED <<bottom, top, last>> /\ taken' = taken \cup {<<got'[p].pos, p>>}
    BY DEF StealRead, queueVars, slabVars
  <2>3. got'[p].pos = pos[p]
    BY <1>1 DEF Inv, TypeOK, StealRead
  <2>2. \A x \in Positions, q \in Threads :
          <<x, q>> \in taken' => Slot[x].state \in {"STOLEN", "RECLAIMED"}
    BY <1>1, <2>1, <2>3 DEF Inv, SlotInv
  <2> QED
    BY <1>2, <2>1, <2>2 DEF Inv, SlotInv
<1>7. NodeInv'
  BY <1>1, <1>2, Given, SharedQueueAssumption DEF Inv, TypeOK, StealRead, Goto, NodeInv, NodeOf,
     MovesNode, queueVars, slabVars, localVars, ghostVars
<1>8. NoneBehind'
  BY <1>1, <1>2, Given DEF Inv, TypeOK, StealRead, Goto, NoneBehind, Positions, queueVars,
     slabVars, localVars, ghostVars
<1> QED
  BY <1>3, <1>4, <1>5, <1>6, <1>7, <1>8 DEF Inv

\* a task is used: its continuation is moved out, its node only borrowed
LEMMA UseNodeSlab ==
  ASSUME Inv, NEW n \in Allocated, UseNode(n)
  PROVE  Allocated' = Allocated /\ SlabType' /\ next' = next
BY Given, SlabSame, SlabWrite DEF UseNode, SlabValues

\* the task runs
LEMMA RunTaskStep ==
  ASSUME Inv, NEW p \in Threads, RunTask(p)
  PROVE  Inv'
<1>1. Slot' = Slot /\ Ready' = Ready /\ QueueType'
  BY Given, QueueSame DEF RunTask, queueVars
<1>2. Allocated' = Allocated /\ SlabType' /\ next' = next
  BY UseNodeSlab DEF Inv, NodeInv, NodeOf, RunTask, Goto
<1>3. TypeOK'
  BY <1>1, <1>2, Given, SharedQueueAssumption DEF Inv, TypeOK, RunTask, Goto, QueueType, SlabType,
     OrNone, Positions, SlabIndices, queueVars, slabVars, localVars, ghostVars
<1>4. Quiet(p)
  BY <1>1, <1>2, Given DEF Inv, TypeOK, Quiet, RunTask, Goto, queueVars, localVars, ghostVars
<1>5. Own(p)'
  BY <1>1, <1>2, Given, SharedQueueAssumption DEF Inv, TypeOK, RunTask, Goto, Own, PushPcs,
     ThiefPcs, NodeInv, NodeOf, MovesNode, queueVars, localVars
<1> QED
  BY <1>3, <1>4, <1>5, QuietStep

\* A slot that is taken: the conjuncts about slots and the threads at them.
LEMMA TakenSlot ==
  ASSUME Inv, NEW x \in Ready, NEW state \in {"STOLEN", "RECLAIMED"},
         MayTake(Q!Read(x)), Mark(x, state)
  PROVE  /\ QueueType' /\ Ready' = Ready /\ Slot \in [Nat -> Slots]
         /\ Slot[x].state = "AVAILABLE" /\ x \in Positions
         /\ Slot' = [Slot EXCEPT ![x].state = state]
         /\ Slot'[x].state = state /\ Slot'[x].value = Slot[x].value
         /\ \A y \in Nat \ {x} : Slot'[y] = Slot[y]
<1>1. Slot \in [Nat -> Slots] /\ x \in Nat /\ Q!Read(x) = Slot[x]
  BY Given, QueueArray
<1>2. Slot[x].state = "AVAILABLE"
  BY <1>1 DEF MayTake
<1>3. x \in Positions
  BY <1>1, <1>2, Given, SharedQueueAssumption DEF Inv, SlotInv, TypeOK, Positions
<1>4. [Slot[x] EXCEPT !.state = state] \in Slots
  BY <1>1 DEF Slots, States
<1>5. QueueType' /\ Ready' = Ready /\ Slot' = [Slot EXCEPT ![x] = [Slot[x] EXCEPT !.state = state]]
  BY <1>1, <1>4, Given, QueueWrite DEF Mark
<1> QED
  BY <1>1, <1>2, <1>3, <1>5 DEF Slots

\* StealQueue::try_reclaim: the slot is taken back, or was lost to a thief
LEMMA TryReclaimStep ==
  ASSUME Inv, NEW p \in Threads, TryReclaim(p)
  PROVE  Inv'
<1>1. last[p] \in Ready /\ last[p] \in Positions /\ Q!Read(last[p]) = Slot[last[p]]
  BY Given, QueueArray DEF Inv, SlotInv, TryReclaim, TypeOK, OrNone
<1>2. /\ last' = [last EXCEPT ![p] = None]
      /\ UNCHANGED <<kind, bottom, top, pc, node, pos, got, dropped>>
  BY DEF TryReclaim
<1>3. CASE MayTake(Q!Read(last[p]))
  <2>1. /\ Mark(last[p], "RECLAIMED") /\ taken' = taken \cup {<<last[p], p>>}
        /\ UseNode(Slot[last[p]].value.node)
    BY <1>1, <1>3 DEF TryReclaim
  <2> DEFINE x == last[p]
  <2>2. /\ QueueType' /\ Ready' = Ready /\ Slot \in [Nat -> Slots]
        /\ Slot[x].state = "AVAILABLE" /\ x \in Positions
        /\ Slot'[x].state = "RECLAIMED" /\ Slot'[x].value = Slot[x].value
        /\ \A y \in Nat \ {x} : Slot'[y] = Slot[y]
    BY <1>1, <1>3, <2>1, TakenSlot
  <2>3. Slot[x].value \in Tasks /\ Slot[x].value.node \in Allocated
    BY <1>1, <2>2, Given, SharedQueueAssumption DEF Inv, SlotInv, NodeInv, NodeOf
  <2>4. Allocated' = Allocated /\ SlabType' /\ next' = next
    BY <2>1, <2>3, UseNodeSlab
  <2> HIDE DEF x
  <2>5. TypeOK'
    BY <1>2, <2>1, <2>2, <2>4 DEF Inv, TypeOK, QueueType, SlabType, OrNone, x
  <2>6. PushInv'
    BY <1>2, <2>2, Given DEF Inv, PushInv, Pushing, PushPcs
  <2>7. StealInv'
    BY <1>2, <2>2, Given DEF Inv, StealInv, Stealing, ThiefPcs
  <2>8. SlotInv'
    BY <1>2, <2>1, <2>2, <2>3, Given DEF Inv, SlotInv, x
  <2>9. NodeInv'
    BY <1>2, <2>2, <2>4, Given DEF Inv, NodeInv, NodeOf
  <2>10. NoneBehind'
    BY <1>2, <2>2, Given DEF Inv, NoneBehind
  <2> QED
    BY <2>5, <2>6, <2>7, <2>8, <2>9, <2>10 DEF Inv
<1>4. CASE ~MayTake(Q!Read(last[p]))
  <2>1. UNCHANGED <<segments, taken, slabVars>>
    BY <1>4 DEF TryReclaim
  <2>2. /\ Slot' = Slot /\ Ready' = Ready /\ QueueType'
        /\ Allocated' = Allocated /\ SlabType'
    BY <2>1, Given, QueueSame, SlabSame DEF slabVars
  <2>3. TypeOK'
    BY <1>2, <2>1, <2>2 DEF Inv, TypeOK, QueueType, SlabType, OrNone, slabVars
  <2>4. PushInv' /\ StealInv' /\ NoneBehind'
    BY <1>2, <2>2 DEF Inv, PushInv, Pushing, PushPcs, StealInv, Stealing, ThiefPcs, NoneBehind
  <2>5. SlotInv' /\ NodeInv'
    BY <1>2, <2>1, <2>2 DEF Inv, TypeOK, SlotInv, NodeInv, NodeOf
  <2> QED
    BY <2>3, <2>4, <2>5 DEF Inv
<1> QED
  BY <1>3, <1>4

\* Slot::try_steal: the thief takes the slot, or starts again
LEMMA StealSlotStep ==
  ASSUME Inv, NEW p \in Threads, StealSlot(p)
  PROVE  Inv'
<1>1. Stealing(p) /\ pos[p] \in Ready /\ Q!Read(pos[p]) = Slot[pos[p]] /\ pc[p] = "steal_slot"
  BY Given, QueueArray DEF Inv, StealInv, Stealing, ThiefPcs, StealSlot, Goto
<1>2. UNCHANGED <<kind, bottom, top, next, slab, node, pos, last, got, taken, dropped>>
  BY DEF StealSlot, slabVars, localVars, ghostVars
<1>3. Allocated' = Allocated /\ SlabType'
  BY <1>2, Given, SlabSame
<1>4. CASE MayTake(Q!Read(pos[p]))
  <2> DEFINE x == pos[p]
  <2>1. pc' = [pc EXCEPT ![p] = "steal_read"] /\ Mark(x, "STOLEN")
    BY <1>4 DEF StealSlot, Goto
  <2>2. /\ QueueType' /\ Ready' = Ready /\ Slot \in [Nat -> Slots]
        /\ Slot[x].state = "AVAILABLE" /\ x \in Positions
        /\ Slot'[x].state = "STOLEN" /\ Slot'[x].value = Slot[x].value
        /\ \A y \in Nat \ {x} : Slot'[y] = Slot[y]
    BY <1>1, <1>4, <2>1, TakenSlot
  <2> HIDE DEF x
  <2>3. TypeOK'
    BY <1>2, <1>3, <2>1, <2>2 DEF Inv, TypeOK, QueueType, SlabType
  <2>4. PushInv'
    <3>1. /\ \A q \in Threads : pc'[q] = IF q = p THEN "steal_read" ELSE pc[q]
          /\ node' = node /\ pos' = pos /\ bottom' = bottom
      BY <1>2, <2>1 DEF Inv, TypeOK
    <3>2. \A q \in Threads : pc'[q] \in PushPcs => pc'[q] = pc[q] /\ pc[q] \in PushPcs
      BY <3>1 DEF PushPcs
    <3>3. \A q \in Threads : Pushing(q) => Slot'[pos[q]] = Slot[pos[q]]
      BY <2>2, Given DEF Pushing
    <3>4. \A q \in Threads : pc'[q] \in PushPcs => Pushing(q)'
      BY <2>2, <3>1, <3>2, <3>3 DEF Inv, PushInv, Pushing
    <3> QED
      BY <3>1, <3>2, <3>4 DEF Inv, PushInv
  <2>5. StealInv'
    BY <1>1, <1>2, <2>1, <2>2, Given DEF Inv, TypeOK, StealInv, Stealing, ThiefPcs, x
  <2>6. SlotInv'
    BY <1>2, <2>2, Given DEF Inv, SlotInv
  <2>7. NodeInv'
    BY <1>1, <1>2, <1>3, <2>1, <2>2, Given DEF Inv, TypeOK, NodeInv, NodeOf, MovesNode
  <2>8. NoneBehind'
    <3>1. \A q \in Threads :
            pc[q] = "steal_slot" /\ pos[q] # x => pc'[q] = pc[q] /\ pos'[q] = pos[q]
      BY <1>2, <2>1 DEF Inv, TypeOK, x
    <3>2. \A y \in Positions : Slot'[y].state = "AVAILABLE" => y # x /\ Slot[y] = Slot'[y]
      BY <2>2, Given
    <3> QED
      BY <1>2, <3>1, <3>2 DEF Inv, NoneBehind
  <2> QED
    BY <2>3, <2>4, <2>5, <2>6, <2>7, <2>8 DEF Inv
<1>5. CASE ~MayTake(Q!Read(pos[p]))
  <2>1. pc' = [pc EXCEPT ![p] = "steal"] /\ segments' = segments
    BY <1>5 DEF StealSlot, Goto
  <2>2. Slot' = Slot /\ Ready' = Ready /\ QueueType'
    BY <2>1, Given, QueueSame
  <2>3. TypeOK'
    BY <1>2, <1>3, <2>1, <2>2 DEF Inv, TypeOK, QueueType, SlabType
  <2>4. PushInv' /\ StealInv' /\ SlotInv'
    BY <1>2, <2>1, <2>2 DEF Inv, TypeOK, PushInv, Pushing, PushPcs, StealInv, Stealing, ThiefPcs,
       SlotInv
  <2>5. NodeInv'
    BY <1>1, <1>2, <1>3, <2>1, <2>2 DEF Inv, TypeOK, NodeInv, NodeOf, MovesNode
  <2>6. NoneBehind'
    BY <1>1, <1>2, <1>5, <2>1, <2>2 DEF Inv, TypeOK, NoneBehind, MayTake
  <2> QED
    BY <2>3, <2>4, <2>5, <2>6 DEF Inv
<1> QED
  BY <1>4, <1>5

\* the end of the fold
LEMMA DropStoresStep ==
  ASSUME Inv, DropStores
  PROVE  Inv'
<1>1. Slot' = Slot /\ Ready' = Ready /\ QueueType' /\ Allocated' = Allocated /\ SlabType'
  BY Given, QueueSame, SlabSame DEF DropStores, queueVars, slabVars
<1>2. \A p \in Threads : pc[p] \in {"idle", "panicked"} /\ pc'[p] \in {"gone", "panicked"}
                         /\ (pc'[p] = "panicked" <=> pc[p] = "panicked")
  BY DEF DropStores
<1>3. dropped' \in {"clean", "abort", "undefined", "leak"}
  BY DEF DropStores, ArenaDrop, ContArenaDrop
<1>4. TypeOK'
  BY <1>1, <1>3 DEF Inv, TypeOK, DropStores, QueueType, SlabType, queueVars, slabVars, localVars
<1>5. PushInv' /\ StealInv'
  BY <1>2 DEF PushInv, PushPcs, StealInv, ThiefPcs
<1>6. SlotInv' /\ NodeInv'
  BY <1>1, <1>2 DEF Inv, SlotInv, NodeInv, NodeOf, MovesNode, DropStores, queueVars, localVars
<1>7. NoneBehind'
  BY <1>1, <1>2 DEF Inv, NoneBehind, DropStores, queueVars
<1> QED
  BY <1>4, <1>5, <1>6, <1>7 DEF Inv

\* nothing happens
LEMMA StutterStep ==
  ASSUME Inv, UNCHANGED vars
  PROVE  Inv'
<1>1. Slot' = Slot /\ Ready' = Ready /\ Allocated' = Allocated
  BY QueueSame, SlabSame DEF vars, queueVars, slabVars
<1>2. TypeOK'
  BY DEF Inv, vars, queueVars, slabVars, localVars, ghostVars, TypeOK
<1>3. PushInv' /\ StealInv' /\ NoneBehind'
  BY <1>1 DEF Inv, vars, queueVars, localVars, PushInv, Pushing, StealInv, Stealing, NoneBehind
<1>4. SlotInv' /\ NodeInv'
  BY <1>1 DEF Inv, vars, queueVars, localVars, ghostVars, SlotInv, NodeInv, NodeOf
<1> QED
  BY <1>2, <1>3, <1>4 DEF Inv

\* a step of any thread, or the drop of the stores
LEMMA NextInv == Inv /\ [Next]_vars => Inv'
<1> SUFFICES ASSUME Inv, [Next]_vars PROVE Inv'
  OBVIOUS
<1>1. CASE UNCHANGED vars
  BY <1>1, StutterStep
<1>2. CASE DropStores
  BY <1>2, DropStoresStep
<1>3. ASSUME NEW p \in Threads, AllocClaim(p) \/ PushClaim(p) \/ TryReclaim(p) \/ Claim(p)
      PROVE  Inv'
  BY <1>3, AllocClaimStep, PushClaimStep, TryReclaimStep, StealSkipStep, StealClaimStep DEF Claim
<1>4. ASSUME NEW p \in Threads, Step(p)
      PROVE  Inv'
  BY <1>4, AllocSegmentStep, AllocInstallStep, AllocWriteStep, PushSegmentStep, PushInstallStep,
     PushWriteStep, PushMarkStep, StealTopStep, StealBottomStep, StealSegmentStep, StealInstallStep,
     StealStateStep, ClaimFailsStep, StealSlotStep, StealReadStep, RunTaskStep DEF Step
<1> QED
  BY <1>1, <1>2, <1>3, <1>4 DEF Next

\* so the invariant holds throughout
LEMMA Invariant == Spec => []Inv
<1> QED
  BY InitInv, NextInv, PTL DEF Spec

-----------------------------------------------------------------------------
(* The theorems. *)

\* Counters, slots and locals stay in their ranges: a push, a steal or an
\* alloc never uses a position whose segment is not there.
THEOREM TypeCorrect == Spec => []TypeOK
BY Invariant, PTL DEF Inv

\* A thief that gives up leaves no task behind top, however many thieves and
\* publishers race for slots, segments and the counter.
THEOREM NothingIsStranded == Spec => []NothingStranded
<1>1. Inv => NothingStranded
  BY Given, QueueArray DEF Inv, NoneBehind, NothingStranded
<1> QED
  BY <1>1, Invariant, PTL

\* the tasks to be had, before and after a step
LEMMA WaitingArray ==
  QueueType => Waiting = {x \in Positions : Slot[x].state = "AVAILABLE"}
BY QueueArray

\* likewise after a step
LEMMA WaitingPrime ==
  QueueType' => Waiting' = {x \in Positions : Slot'[x].state = "AVAILABLE"}
<1>1. (QueueType => Waiting = {x \in Positions : Slot[x].state = "AVAILABLE"})'
  BY WaitingArray, PTL
<1> QED
  BY <1>1 DEF Positions

\* a thread that neither takes a task nor ends a steal wins nothing
LEMMA WonSame ==
  ASSUME \A q \in Threads : /\ pc'[q] = "steal_read" <=> pc[q] = "steal_read"
                            /\ pc[q] = "steal_read" => pos'[q] = pos[q]
  PROVE  Won' = Won
BY DEF Won

\* a step of the queue that the pool does not see
LEMMA Unseen ==
  ASSUME Inv, Inv', Won' = Won, taken' = taken,
         \A x \in Positions : Slot'[x].state = "AVAILABLE" <=> Slot[x].state = "AVAILABLE"
  PROVE  UNCHANGED Promise!vars
<1>1. Waiting' = Waiting
  BY WaitingArray, WaitingPrime, TypeParts, Given DEF Inv, TypeOK, QueueType
<1> QED
  BY <1>1 DEF Promise!vars

\* the pool starts empty
LEMMA InitPool == Init => Promise!Init
<1> SUFFICES ASSUME Init PROVE Promise!Init
  OBVIOUS
<1>1. QueueType /\ Slot \in [Nat -> Slots]
  BY InitInv, Given
<1>2. \A x \in Nat : Slot[x].state = "EMPTY"
  BY InitInv, SharedQueueAssumption DEF Inv, SlotInv, Init
<1>3. Waiting = {}
  BY <1>1, <1>2, WaitingArray, SharedQueueAssumption DEF Positions
<1>4. taken = {} /\ Won = {}
  BY DEF Init, Won
<1> QED
  BY <1>3, <1>4 DEF Promise!Init

\* a push becomes visible
LEMMA PushMarkPuts ==
  ASSUME Inv, Inv', NEW p \in Threads, PushMark(p)
  PROVE  Promise!Put(pos[p]) /\ pos[p] \in Positions
<1>1. /\ pos[p] \in Ready /\ pos[p] \in Positions /\ pc[p] = "push_mark"
      /\ Slot[pos[p]].state = "EMPTY"
  <2>1. Pushing(p) /\ pc[p] = "push_mark"
    BY DEF Inv, PushInv, PushPcs, PushMark, Goto
  <2>2. pos[p] \in Ready /\ pos[p] \in Nat /\ pos[p] < bottom /\ bottom \in 0 .. MaxPushes
    BY <2>1, Given DEF Pushing, Inv, TypeOK
  <2> QED
    BY <2>1, <2>2, SharedQueueAssumption DEF Pushing, Positions
<1>2. Slot' = [Slot EXCEPT ![pos[p]].state = "AVAILABLE"]
  BY <1>1, Given, QueueArray, QueueWrite DEF PushMark, Mark, Slots, States
<1>3. Waiting' = Waiting \cup {pos[p]} /\ pos[p] \notin Waiting
  <2>1. \A x \in Nat : Slot'[x].state = IF x = pos[p] THEN "AVAILABLE" ELSE Slot[x].state
    BY <1>1, <1>2, Given DEF Slots
  <2>2. /\ Waiting = {x \in Positions : Slot[x].state = "AVAILABLE"}
        /\ Waiting' = {x \in Positions : Slot'[x].state = "AVAILABLE"}
    BY WaitingArray, WaitingPrime, Given DEF Inv, TypeOK, QueueType
  <2> QED
    BY <1>1, <2>1, <2>2, Given
<1>4. \A q \in Threads : <<pos[p], q>> \notin taken
  BY <1>1 DEF Inv, SlotInv
<1>5. \A q \in Threads : <<pos[p], q>> \notin Won
  BY <1>1 DEF Won, Inv, StealInv, Stealing, ThiefPcs
<1>6. Won' = Won /\ taken' = taken
  <2>1. Won' = Won
    BY WonSame DEF PushMark, Goto, Inv, TypeOK
  <2> QED
    BY <2>1 DEF PushMark, ghostVars
<1> QED
  BY <1>1, <1>3, <1>4, <1>5, <1>6 DEF Promise!Put

\* a publisher takes its task back, or comes too late
LEMMA TryReclaimTakes ==
  ASSUME Inv, Inv', NEW p \in Threads, TryReclaim(p)
  PROVE  \/ Promise!Take(last[p], p) /\ last[p] \in Positions
         \/ UNCHANGED Promise!vars
<1>1. last[p] \in Ready /\ last[p] \in Positions /\ Q!Read(last[p]) = Slot[last[p]]
  BY Given, QueueArray DEF Inv, SlotInv, TryReclaim, TypeOK, OrNone
<1>2. Won' = Won
  BY WonSame DEF TryReclaim
<1>3. CASE MayTake(Q!Read(last[p]))
  <2>1. Mark(last[p], "RECLAIMED") /\ taken' = taken \cup {<<last[p], p>>}
    BY <1>3 DEF TryReclaim
  <2>2. /\ Slot[last[p]].state = "AVAILABLE" /\ Slot'[last[p]].state = "RECLAIMED"
        /\ \A y \in Nat \ {last[p]} : Slot'[y] = Slot[y]
    BY <1>1, <1>3, <2>1, TakenSlot
  <2>3. last[p] \in Waiting /\ Waiting' = Waiting \ {last[p]}
    BY <1>1, <2>2, Given, WaitingArray, WaitingPrime, TypeParts DEF Inv, TypeOK, QueueType
  <2> QED
    BY <1>1, <1>2, <2>1, <2>3 DEF Promise!Take
<1>4. CASE ~MayTake(Q!Read(last[p]))
  <2>1. taken' = taken /\ segments' = segments
    BY <1>4 DEF TryReclaim
  <2> QED
    BY <1>2, <2>1, QueueSame, Unseen
<1> QED
  BY <1>3, <1>4

\* a thief takes the task of the slot it claimed, or another thread has it
LEMMA StealSlotTakes ==
  ASSUME Inv, Inv', NEW p \in Threads, StealSlot(p)
  PROVE  \/ Promise!Take(pos[p], p) /\ pos[p] \in Positions
         \/ UNCHANGED Promise!vars
<1>1. pos[p] \in Ready /\ Q!Read(pos[p]) = Slot[pos[p]] /\ pc[p] = "steal_slot"
  BY Given, QueueArray DEF Inv, StealInv, Stealing, ThiefPcs, StealSlot, Goto
<1>2. taken' = taken /\ pos' = pos
  BY DEF StealSlot, localVars, ghostVars
<1>3. CASE MayTake(Q!Read(pos[p]))
  <2>1. pc' = [pc EXCEPT ![p] = "steal_read"] /\ Mark(pos[p], "STOLEN")
    BY <1>3 DEF StealSlot, Goto
  <2>2. /\ Slot[pos[p]].state = "AVAILABLE" /\ Slot'[pos[p]].state = "STOLEN"
        /\ pos[p] \in Positions /\ \A y \in Nat \ {pos[p]} : Slot'[y] = Slot[y]
    BY <1>1, <1>3, <2>1, TakenSlot
  <2>3. pos[p] \in Waiting /\ Waiting' = Waiting \ {pos[p]}
    BY <2>2, Given, WaitingArray, WaitingPrime, TypeParts DEF Inv, TypeOK, QueueType
  <2>4. Won' = Won \cup {<<pos[p], p>>}
    BY <1>2, <2>1 DEF Won, Inv, TypeOK
  <2> QED
    BY <1>2, <2>2, <2>3, <2>4 DEF Promise!Take
<1>4. CASE ~MayTake(Q!Read(pos[p]))
  <2>1. pc' = [pc EXCEPT ![p] = "steal"] /\ segments' = segments
    BY <1>4 DEF StealSlot, Goto
  <2>2. Won' = Won
    BY <1>1, <1>2, <2>1, WonSame DEF Inv, TypeOK
  <2> QED
    BY <1>2, <2>1, <2>2, QueueSame, Unseen
<1> QED
  BY <1>3, <1>4

\* what it has taken becomes its task to run
LEMMA StealReadUnseen ==
  ASSUME Inv, Inv', NEW p \in Threads, StealRead(p)
  PROVE  UNCHANGED Promise!vars
<1>1. pos[p] \in Ready /\ Q!Read(pos[p]) = Slot[pos[p]] /\ pc[p] = "steal_read"
      /\ pos[p] \in Nat /\ Slot[pos[p]].state = "STOLEN"
  BY Given, QueueArray DEF Inv, StealInv, Stealing, ThiefPcs, StealRead, Goto
<1>2. got'[p].pos = pos[p]
  BY <1>1 DEF StealRead, Inv, SlotInv, TypeOK
<1>3. taken' = taken \cup {<<pos[p], p>>} /\ segments' = segments
  BY <1>2 DEF StealRead, queueVars
<1>4. Won = Won' \cup {<<pos[p], p>>}
  <2>1. \A q \in Threads \ {p} : pc'[q] = pc[q] /\ pos'[q] = pos[q]
    BY DEF StealRead, Goto, Inv, TypeOK
  <2>2. pc'[p] = "run"
    BY DEF StealRead, Goto, Inv, TypeOK
  <2> QED
    BY <1>1, <2>1, <2>2 DEF Won
<1>5. Waiting' = Waiting
  BY <1>3, QueueSame, WaitingArray, WaitingPrime, TypeParts DEF Inv, TypeOK, QueueType
<1> QED
  BY <1>3, <1>4, <1>5 DEF Promise!vars

\* the rest of the steps
LEMMA OthersUnseen ==
  ASSUME Inv, Inv', NEW p \in Threads,
         \/ AllocClaim(p) \/ AllocSegment(p) \/ AllocInstall(p) \/ AllocWrite(p) \/ PushClaim(p)
         \/ PushSegment(p) \/ StealTop(p) \/ StealBottom(p) \/ StealSegment(p) \/ StealState(p)
         \/ Claim(p) \/ ClaimFails(p) \/ RunTask(p)
  PROVE  UNCHANGED Promise!vars
<1>1. segments' = segments /\ taken' = taken
  BY DEF AllocClaim, AllocSegment, AllocInstall, AllocWrite, PushClaim, PushSegment, StealTop,
     StealBottom, StealSegment, StealState, Claim, StealSkip, StealClaim, Advance, ClaimFails,
     RunTask, queueVars, ghostVars
<1>2. /\ pc[p] # "steal_read" /\ pc'[p] # "steal_read"
      /\ \A q \in Threads \ {p} : pc'[q] = pc[q] /\ pos'[q] = pos[q]
  BY DEF Inv, TypeOK, Goto, AllocClaim, AllocSegment, AllocInstall, AllocWrite, PushClaim,
     PushSegment, StealTop, StealBottom, StealSegment, StealState, AfterState, Claim, StealSkip,
     StealClaim, Advance, ClaimFails, RunTask, localVars
<1>3. Won' = Won
  BY <1>2, WonSame
<1> QED
  BY <1>1, <1>3, QueueSame, Unseen

\* a segment is installed, or an unmarked slot written
LEMMA SlotsUnseen ==
  ASSUME Inv, Inv', NEW p \in Threads, PushInstall(p) \/ StealInstall(p) \/ PushWrite(p)
  PROVE  UNCHANGED Promise!vars
<1>1. taken' = taken /\ pos' = pos /\ pc[p] # "steal_read" /\ pc'[p] # "steal_read"
      /\ \A q \in Threads \ {p} : pc'[q] = pc[q]
  BY DEF PushInstall, StealInstall, PushWrite, Goto, Inv, TypeOK, localVars, ghostVars
<1>2. Won' = Won
  BY <1>1, WonSame
<1>3. CASE PushInstall(p) \/ StealInstall(p)
  <2>1. pos[p] \in InQueue /\ Q!Install(pos[p])
    BY <1>3 DEF Inv, PushInv, PushPcs, Pushing, StealInv, ThiefPcs, Stealing, PushInstall,
       StealInstall, Goto
  <2> QED
    BY <1>1, <1>2, <2>1, Given, QueueInstall, Unseen
<1>4. CASE PushWrite(p)
  <2>1. /\ pos[p] \in Ready /\ Slot[pos[p]].state = "EMPTY" /\ Pushing(p)
        /\ pos[p] \in Nat /\ pos[p] < bottom /\ bottom \in 0 .. MaxPushes
    BY <1>4, Given DEF Inv, PushInv, PushPcs, Pushing, PushWrite, Goto, TypeOK
  <2>2. pos[p] \in Positions /\ node[p] \in SlabIndices
    BY <2>1, SharedQueueAssumption DEF Pushing, Positions, Inv, TypeOK, OrNone
  <2> DEFINE v == [EmptySlot EXCEPT !.value = [pos |-> pos[p], node |-> node[p]]]
  <2>3. v \in Slots /\ v.state = "EMPTY"
    BY <2>2 DEF Slots, States, Tasks, EmptySlot
  <2>4. Q!Write(pos[p], v)
    BY <1>4 DEF PushWrite
  <2> HIDE DEF v
  <2>5. Slot' = [Slot EXCEPT ![pos[p]] = v]
    BY <2>1, <2>3, <2>4, Given, QueueWrite
  <2> QED
    BY <1>1, <1>2, <2>1, <2>3, <2>5, Given, Unseen
<1> QED
  BY <1>3, <1>4

\* the drop of the stores changes no slot
LEMMA DropUnseen ==
  ASSUME Inv, Inv', DropStores
  PROVE  UNCHANGED Promise!vars
<1>1. segments' = segments /\ taken' = taken
  BY DEF DropStores, queueVars
<1>2. Won' = Won
  BY WonSame DEF DropStores
<1> QED
  BY <1>1, <1>2, QueueSame, Unseen

\* nothing happens
LEMMA StutterUnseen ==
  ASSUME Inv, Inv', UNCHANGED vars
  PROVE  UNCHANGED Promise!vars
<1>1. segments' = segments /\ taken' = taken /\ Won' = Won
  BY WonSame DEF vars, queueVars, localVars, ghostVars
<1> QED
  BY <1>1, QueueSame, Unseen

\* a step of the queue is a step of the pool, or none
LEMMA NextPool == Inv /\ Inv' /\ [Next]_vars => [Promise!Next]_(Promise!vars)
<1> SUFFICES ASSUME Inv, Inv', [Next]_vars PROVE [Promise!Next]_(Promise!vars)
  OBVIOUS
<1>1. CASE UNCHANGED vars
  BY <1>1, StutterUnseen
<1>2. CASE DropStores
  BY <1>2, DropUnseen
<1>3. ASSUME NEW p \in Threads, PushMark(p)
      PROVE  Promise!Next
  BY <1>3, PushMarkPuts DEF Promise!Next
<1>4. ASSUME NEW p \in Threads, TryReclaim(p) \/ StealSlot(p)
      PROVE  [Promise!Next]_(Promise!vars)
  BY <1>4, TryReclaimTakes, StealSlotTakes DEF Promise!Next
<1>5. ASSUME NEW p \in Threads, AllocClaim(p) \/ PushClaim(p) \/ Claim(p) \/ Step(p),
             ~PushMark(p), ~StealSlot(p)
      PROVE  UNCHANGED Promise!vars
  BY <1>5, StealReadUnseen, OthersUnseen, SlotsUnseen DEF Step
<1> QED
  BY <1>1, <1>2, <1>3, <1>4, <1>5 DEF Next, Step

\* The shared queue is a pool: each push is handed to one thread at most, to
\* the thief that marked its slot or to the publisher that marked it first.
THEOREM EachTaskOnce == Spec => HandedOutOnce
<1> QED
  BY Invariant, InitPool, NextPool, PTL DEF Spec, HandedOutOnce, Promise!Spec

-----------------------------------------------------------------------------
(* What the tasks point to: the values of the slab, and who has the index of  *)
(* one. A node of the Arena may be in many hands, a continuation of the       *)
(* ContArena is in one place only.                                            *)

Value == ST!Array                      \* the value at each index
AllocPcs == {"alloc_segment", "alloc_install", "alloc_write"}
PendingPcs == AllocPcs \cup {"panicked"}   \* its value is to be written, or never will be

\* the slot of a task that can still run, or that its thief is about to read
InPlay(x) ==
  \/ Slot[x].state = "AVAILABLE"
  \/ \E p \in Threads : pc[p] = "steal_read" /\ pos[p] = x

\* index n is in a publisher's hand, in a task of the queue, or in one that runs
Holds(place, who, n) ==
  \/ place = "hand" /\ who \in Threads /\ node[who] = n /\ n # None
  \/ place = "slot" /\ who \in Nat /\ InPlay(who) /\ Slot[who].value.node = n
  \/ place = "run" /\ who \in Threads /\ pc[who] = "run" /\ got[who].node = n

\* every index was counted
FreshInv ==
  /\ \A p \in Threads : /\ node[p] # None => node[p] \in Nat /\ node[p] < next
                        /\ got[p] # None => got[p].node < next
  /\ \A x \in Nat : Slot[x].value # None => Slot[x].value.node < next

\* a task that is pushed carries the node of its publisher, and is read by one thief
CarryInv ==
  /\ \A p \in Threads : pc[p] = "push_mark" => Slot[pos[p]].value.node = node[p]
  /\ \A p, q \in Threads :
       pc[p] = "steal_read" /\ pc[q] = "steal_read" /\ pos[p] = pos[q] => p = q

\* what can be used is there
LiveInv ==
  /\ \A p \in Threads :
       node[p] # None /\ pc[p] \notin PendingPcs => Value[node[p]] = "live"
  /\ \A x \in Nat : InPlay(x) => Value[Slot[x].value.node] = "live"
  /\ \A p \in Threads : pc[p] = "run" => Value[got[p].node] = "live"

\* a continuation is in one place, and is in some place until it is moved out
UniqueInv ==
  kind = "ContArena" =>
    \A a, b, x, y, n : Holds(a, x, n) /\ Holds(b, y, n) => a = b /\ x = y
HeldInv ==
  kind = "ContArena" => \A n \in Nat : Value[n] = "live" => \E a, x : Holds(a, x, n)

\* p has counted n and not written it: it is about to, or there is no segment for it
Owes(p, n) == node[p] = n /\ (pc[p] \in AllocPcs \/ (pc[p] = "panicked" /\ n \notin InSlab))

\* what was counted is written, or about to be, unless it has no segment
WrittenInv ==
  /\ \A n \in Nat : n < next => Value[n] # Uninit \/ \E p \in Threads : Owes(p, n)
  /\ kind = "Arena" => \A n \in Nat : Value[n] # "moved"

SlabInv == FreshInv /\ CarryInv /\ LiveInv /\ UniqueInv /\ HeldInv /\ WrittenInv /\ DropIsClean

\* what the slab holds, and what a step does to it
LEMMA SlabArray ==
  ASSUME SlabType
  PROVE  /\ Value \in [Nat -> SlabValues] /\ \A n \in Nat : S!At(n) = Value[n]
         /\ slab' = slab => Value' = Value
         /\ \A n \in InSlab : S!Install(n) => Value' = Value
         /\ \A n \in Allocated, v \in SlabValues : S!Write(n, v) => Value' = [Value EXCEPT ![n] = v]
<1>1. slab \in ST!Tables(SlabValues) /\ Uninit \in SlabValues
  BY SlabNames
<1>2. Value \in [Nat -> SlabValues]
  BY <1>1, ST!ArrayType, SharedQueueAssumption DEF Value
<1>3. \A n \in Nat : S!At(n) = Value[n]
  BY DEF Value, ST!Array, ST!At, S!At, ST!InTable, S!InTable, ST!Found, S!Found, ST!Read, S!Read,
     ST!SegmentOf, S!SegmentOf, ST!OffsetOf, S!OffsetOf
<1>4. slab' = slab => Value' = Value
  BY DEF Value, ST!Array, ST!At, ST!InTable, ST!Found, ST!Read
<1>5. ASSUME NEW n \in InSlab, S!Install(n) PROVE Value' = Value
  <2>1. ST!InTable(n) /\ ST!Install(n) /\ n \in Nat
    BY <1>5, SlabNames DEF InSlab
  <2> QED
    BY <1>1, <2>1, ST!InstallArray, SharedQueueAssumption DEF Value
<1>6. ASSUME NEW n \in Allocated, NEW v \in SlabValues, S!Write(n, v)
      PROVE  Value' = [Value EXCEPT ![n] = v]
  BY <1>1, <1>6, SlabNames, ST!WriteArray, SharedQueueAssumption DEF Value, Allocated
<1> QED
  BY <1>2, <1>3, <1>4, <1>5, <1>6

\* The places of the indices, when nothing about them changes.
LEMMA HoldsSame ==
  ASSUME node' = node, \A p \in Threads : (pc'[p] = "run" <=> pc[p] = "run"), got' = got,
         \A x \in Nat : (InPlay(x)' <=> InPlay(x)) /\ (InPlay(x) => Slot'[x].value = Slot[x].value)
  PROVE  \A a, x, n : Holds(a, x, n)' <=> Holds(a, x, n)
BY DEF Holds

\* Nothing is dropped, and whoever has panicked keeps the index it had.
LEMMA SameDrop ==
  ASSUME DropIsClean, dropped' = dropped,
         \A p \in Threads : pc[p] = "panicked" => pc'[p] = "panicked" /\ node'[p] = node[p]
  PROVE  DropIsClean'
<1>1. \A p \in Threads : FailedInAlloc(p) => FailedInAlloc(p)'
  BY DEF FailedInAlloc, S!InTable, S!SegmentOf
<1>2. Panicked => Panicked'
  BY DEF Panicked
<1> QED
  BY <1>1, <1>2 DEF DropIsClean

\* A step that moves no index and writes no value.
LEMMA QuietSlab ==
  ASSUME SlabInv, UNCHANGED <<kind, next, node, got>>, Value' = Value,
         \A x \in Nat : (InPlay(x)' <=> InPlay(x)) /\ (InPlay(x) => Slot'[x].value = Slot[x].value),
         \A x \in Nat : Slot'[x].value # Slot[x].value /\ Slot'[x].value # None =>
                          Slot'[x].value.node < next,
         \A p \in Threads : /\ pc'[p] = "run" <=> pc[p] = "run"
                            /\ pc[p] \in AllocPcs => pc'[p] \in AllocPcs
                            /\ pc[p] = "panicked" => pc'[p] = "panicked",
         CarryInv', dropped' = dropped \/ DropIsClean'
  PROVE  SlabInv'
<1>1. \A a, x, n : Holds(a, x, n)' <=> Holds(a, x, n)
  BY HoldsSame
<1>2. FreshInv'
  BY DEF SlabInv, FreshInv
<1>3. LiveInv'
  BY DEF SlabInv, LiveInv, PendingPcs
<1>4. UniqueInv' /\ HeldInv'
  BY <1>1 DEF SlabInv, UniqueInv, HeldInv
<1>5. WrittenInv'
  BY DEF SlabInv, WrittenInv, Owes, InSlab
<1>6. DropIsClean'
  BY SameDrop DEF SlabInv
<1> QED
  BY <1>2, <1>3, <1>4, <1>5, <1>6 DEF SlabInv

\* A step of p that changes no slot either.
LEMMA LocalSlab ==
  ASSUME Inv, SlabInv, NEW p \in Threads, UNCHANGED <<kind, next, node, got, dropped>>,
         Value' = Value, Slot' = Slot,
         \A q \in Threads \ {p} : pc'[q] = pc[q] /\ pos'[q] = pos[q],
         pc[p] \notin {"run", "steal_read", "panicked"},
         pc'[p] \notin {"run", "steal_read", "push_mark"},
         pc[p] \in AllocPcs => pc'[p] \in AllocPcs
  PROVE  SlabInv'
<1>1. \A x \in Nat : InPlay(x)' <=> InPlay(x)
  BY DEF InPlay
<1>2. CarryInv'
  BY DEF SlabInv, CarryInv
<1> QED
  BY <1>1, <1>2, QuietSlab

\* the steps of which this is true
LEMMA OthersSlab ==
  ASSUME Inv, SlabInv, NEW p \in Threads,
         \/ AllocSegment(p) \/ AllocInstall(p) \/ PushClaim(p) \/ PushSegment(p) \/ PushInstall(p)
         \/ StealTop(p) \/ StealBottom(p) \/ StealSegment(p) \/ StealInstall(p) \/ StealState(p)
         \/ Claim(p) \/ ClaimFails(p)
  PROVE  SlabInv'
<1>1. UNCHANGED <<kind, next, node, got, dropped>>
  BY DEF AllocSegment, AllocInstall, PushClaim, PushSegment, PushInstall, StealTop, StealBottom,
     StealSegment, StealInstall, StealState, Claim, StealSkip, StealClaim, Advance, ClaimFails,
     queueVars, slabVars, localVars, ghostVars
<1>2. Value' = Value
  <2>1. CASE AllocInstall(p)
    <3>1. node[p] \in InSlab /\ S!Install(node[p])
      BY <2>1 DEF Inv, NodeInv, NodeOf, MovesNode, AllocInstall, Goto
    <3> QED
      BY <3>1, Given, SlabArray
  <2>2. CASE ~AllocInstall(p)
    <3>1. slab' = slab
      BY <2>2 DEF AllocSegment, PushClaim, PushSegment, PushInstall, StealTop, StealBottom,
         StealSegment, StealInstall, StealState, Claim, StealSkip, StealClaim, Advance, ClaimFails,
         slabVars
    <3> QED
      BY <3>1, Given, SlabArray
  <2> QED
    BY <2>1, <2>2
<1>3. Slot' = Slot
  <2>1. CASE PushInstall(p) \/ StealInstall(p)
    <3>1. pos[p] \in InQueue /\ Q!Install(pos[p])
      BY <2>1 DEF Inv, PushInv, PushPcs, Pushing, StealInv, ThiefPcs, Stealing, PushInstall,
         StealInstall, Goto
    <3> QED
      BY <3>1, Given, QueueInstall
  <2>2. CASE ~(PushInstall(p) \/ StealInstall(p))
    <3>1. segments' = segments
      BY <2>2 DEF AllocSegment, AllocInstall, PushClaim, PushSegment, StealTop, StealBottom,
         StealSegment, StealState, Claim, StealSkip, StealClaim, Advance, ClaimFails, queueVars
    <3> QED
      BY <3>1, QueueSame
  <2> QED
    BY <2>1, <2>2
<1>4. /\ \A q \in Threads \ {p} : pc'[q] = pc[q] /\ pos'[q] = pos[q]
      /\ pc[p] \notin {"run", "steal_read", "panicked"}
      /\ pc'[p] \notin {"run", "steal_read", "push_mark"}
      /\ pc[p] \in AllocPcs => pc'[p] \in AllocPcs
  BY DEF Inv, TypeOK, Goto, AllocSegment, AllocInstall, PushClaim, PushSegment, PushInstall,
     StealTop, StealBottom, StealSegment, StealInstall, StealState, AfterState, Claim, StealSkip,
     StealClaim, Advance, ClaimFails, localVars, AllocPcs, PendingPcs
<1> QED
  BY <1>1, <1>2, <1>3, <1>4, LocalSlab

\* the value of a slot that nobody can see yet
LEMMA PushWriteSlab ==
  ASSUME Inv, SlabInv, NEW p \in Threads, PushWrite(p)
  PROVE  SlabInv'
<1> DEFINE task == [pos |-> pos[p], node |-> node[p]]
<1>1. /\ Pushing(p) /\ pos[p] \in Ready /\ pc[p] = "push_write" /\ task \in Tasks
      /\ node[p] \in Nat /\ node[p] < next
  <2>1. Pushing(p) /\ pos[p] \in Ready /\ pc[p] = "push_write"
    BY DEF Inv, PushInv, PushPcs, Pushing, PushWrite, Goto
  <2>2. pos[p] \in Positions /\ node[p] \in SlabIndices
    BY <2>1, Given, SharedQueueAssumption DEF Pushing, Inv, TypeOK, OrNone, Positions
  <2> QED
    BY <2>1, <2>2 DEF Tasks, SlabInv, FreshInv, Pushing
<1>2. Slot' = [Slot EXCEPT ![pos[p]] = [state |-> "EMPTY", value |-> task]]
  BY <1>1, Given, QueueWrite DEF PushWrite, Goto, Pushing, EmptySlot, Slots, States
<1>3. Slot[pos[p]].state = "EMPTY" /\ pos[p] \in Nat
  BY <1>1, Given DEF Pushing
<1>4. /\ UNCHANGED <<kind, next, node, got, pos, dropped, slab>>
      /\ pc' = [pc EXCEPT ![p] = "push_mark"]
  BY DEF PushWrite, Goto, slabVars, localVars, ghostVars
<1>5. Value' = Value
  BY <1>4, Given, SlabArray
<1>6. /\ Slot'[pos[p]] = [state |-> "EMPTY", value |-> task]
      /\ \A x \in Nat \ {pos[p]} : Slot'[x] = Slot[x]
  BY <1>2, <1>3, Given
<1>7. \A q \in Threads : pc[q] = "steal_read" => Slot[pos[q]].state = "STOLEN" /\ pos[q] # pos[p]
  BY <1>3 DEF Inv, StealInv, Stealing, ThiefPcs
<1>8. \A q \in Threads : pc'[q] = IF q = p THEN "push_mark" ELSE pc[q]
  BY <1>4 DEF Inv, TypeOK
<1>9. \A x \in Nat : /\ x = pos[p] => ~InPlay(x) /\ ~InPlay(x)'
                     /\ x # pos[p] => (InPlay(x)' <=> InPlay(x))
  BY <1>1, <1>3, <1>4, <1>6, <1>7, <1>8 DEF InPlay
<1>10. CarryInv'
  <2>1. \A q \in Threads \ {p} : pc[q] = "push_mark" => pos[q] # pos[p] /\ pos[q] \in Nat
    BY <1>1, Given DEF Inv, PushInv, PushPcs, Pushing
  <2> QED
    BY <1>4, <1>6, <1>8, <2>1 DEF SlabInv, CarryInv
<1>11. \A q \in Threads : /\ pc'[q] = "run" <=> pc[q] = "run"
                          /\ pc[q] \in AllocPcs => pc'[q] \in AllocPcs
                          /\ pc[q] = "panicked" => pc'[q] = "panicked"
  BY <1>1, <1>8 DEF AllocPcs
<1>12. \A x \in Nat : /\ InPlay(x)' <=> InPlay(x)
                      /\ InPlay(x) => Slot'[x].value = Slot[x].value
                      /\ Slot'[x].value # Slot[x].value => Slot'[x].value.node < next
  BY <1>1, <1>3, <1>6, <1>9
<1> QED
  BY <1>4, <1>5, <1>10, <1>11, <1>12, QuietSlab

\* a task taken is a task in play until it is read
LEMMA StealSlotSlab ==
  ASSUME Inv, SlabInv, NEW p \in Threads, StealSlot(p)
  PROVE  SlabInv'
<1>1. /\ pos[p] \in Ready /\ pos[p] \in Nat /\ pc[p] = "steal_slot"
      /\ UNCHANGED <<kind, next, node, got, pos, dropped, slab>>
  BY Given DEF Inv, StealInv, Stealing, ThiefPcs, StealSlot, Goto, slabVars, localVars, ghostVars
<1>2. Value' = Value
  BY <1>1, Given, SlabArray
<1>3. CASE MayTake(Q!Read(pos[p]))
  <2>1. pc' = [pc EXCEPT ![p] = "steal_read"] /\ Mark(pos[p], "STOLEN")
    BY <1>3 DEF StealSlot, Goto
  <2>2. /\ Slot[pos[p]].state = "AVAILABLE"
        /\ Slot'[pos[p]].state = "STOLEN" /\ Slot'[pos[p]].value = Slot[pos[p]].value
        /\ \A x \in Nat \ {pos[p]} : Slot'[x] = Slot[x]
    BY <1>1, <1>3, <2>1, TakenSlot
  <2>3. \A q \in Threads : pc'[q] = IF q = p THEN "steal_read" ELSE pc[q]
    BY <2>1 DEF Inv, TypeOK
  <2>4. \A x \in Nat : (InPlay(x)' <=> InPlay(x)) /\ Slot'[x].value = Slot[x].value
    BY <1>1, <2>2, <2>3 DEF InPlay
  <2>5. CarryInv'
    <3>1. \A q \in Threads : pc[q] = "push_mark" => pos[q] \in Nat
      BY Given DEF Inv, PushInv, PushPcs, Pushing
    <3>2. \A q \in Threads : pc[q] = "steal_read" => pos[q] # pos[p]
      BY <2>2 DEF Inv, StealInv, Stealing, ThiefPcs
    <3> QED
      BY <1>1, <2>2, <2>3, <3>1, <3>2 DEF SlabInv, CarryInv
  <2>6. \A q \in Threads : /\ pc'[q] = "run" <=> pc[q] = "run"
                           /\ pc[q] \in AllocPcs => pc'[q] \in AllocPcs
                           /\ pc[q] = "panicked" => pc'[q] = "panicked"
    BY <1>1, <2>3 DEF AllocPcs
  <2> QED
    BY <1>1, <1>2, <2>4, <2>5, <2>6, QuietSlab
<1>4. CASE ~MayTake(Q!Read(pos[p]))
  <2>1. pc' = [pc EXCEPT ![p] = "steal"] /\ segments' = segments
    BY <1>4 DEF StealSlot, Goto
  <2> QED
    BY <1>1, <1>2, <2>1, QueueSame, LocalSlab DEF Inv, TypeOK, AllocPcs, PendingPcs
<1> QED
  BY <1>3, <1>4

\* no thread moves
LEMMA SameSlab ==
  ASSUME Inv, SlabInv, UNCHANGED <<kind, segments, slab, next, node, pos, got>>,
         \A p \in Threads : pc'[p] = pc[p] \/ (pc[p] = "idle" /\ pc'[p] = "gone"),
         dropped' = dropped \/ DropIsClean'
  PROVE  SlabInv'
<1>1. Slot' = Slot /\ Value' = Value
  BY Given, QueueSame, SlabArray
<1>2. \A x \in Nat : (InPlay(x)' <=> InPlay(x))
  BY <1>1 DEF InPlay
<1>3. CarryInv'
  BY <1>1 DEF SlabInv, CarryInv
<1>4. \A q \in Threads : /\ pc'[q] = "run" <=> pc[q] = "run"
                         /\ pc[q] \in AllocPcs => pc'[q] \in AllocPcs
                         /\ pc[q] = "panicked" => pc'[q] = "panicked"
  BY DEF AllocPcs
<1> QED
  BY <1>1, <1>2, <1>3, <1>4, QuietSlab

\* the publisher's task was taken before it asked
LEMMA ReclaimFailsSlab ==
  ASSUME Inv, SlabInv, NEW p \in Threads, TryReclaim(p), ~MayTake(Q!Read(last[p]))
  PROVE  SlabInv'
<1>1. UNCHANGED <<kind, segments, slab, next, node, pos, got, pc, dropped>>
  BY DEF TryReclaim, slabVars
<1> QED
  BY <1>1, SameSlab

\* nothing happens
LEMMA StutterSlab ==
  ASSUME Inv, SlabInv, UNCHANGED vars
  PROVE  SlabInv'
<1>1. UNCHANGED <<kind, segments, slab, next, node, pos, got, pc, dropped>>
  BY DEF vars, queueVars, slabVars, localVars, ghostVars
<1> QED
  BY <1>1, SameSlab

\* When the fold is over, every index of the Arena was written but those that a
\* thread failed on in alloc; and if nobody panicked, no task and no hand has an
\* index of the ContArena, so that no continuation is left.
LEMMA DropSlab ==
  ASSUME Inv, SlabInv, DropStores
  PROVE  SlabInv'
<1>1. /\ UNCHANGED <<kind, segments, slab, next, node, pos, got>>
      /\ pc' = [q \in Threads |-> IF pc[q] = "idle" THEN "gone" ELSE pc[q]]
      /\ \A q \in Threads : pc[q] \in {"idle", "panicked"}
  BY DEF DropStores, queueVars, slabVars, localVars
<1>2. next \in Nat /\ \A n \in 0 .. next - 1 : n \in Nat /\ n < next /\ S!At(n) = Value[n]
  <2>1. next \in Nat
    BY SharedQueueAssumption DEF Inv, TypeOK
  <2>2. \A n \in Nat : S!At(n) = Value[n]
    BY Given, SlabArray
  <2> QED
    BY <2>1, <2>2
<1>3. CASE kind = "Arena"
  <2>1. ASSUME NEW n \in Nat, n < next, n \in InSlab
        PROVE  Value[n] = "live"
    <3>1. \A q \in Threads : ~Owes(q, n)
      BY <1>1, <2>1 DEF Owes, AllocPcs
    <3>2. Value[n] # Uninit /\ Value[n] # "moved"
      BY <1>3, <2>1, <3>1 DEF SlabInv, WrittenInv
    <3> QED
      BY <3>2, Given, SlabArray DEF SlabValues
  <2>2. ASSUME NEW n \in Nat, n < next, n \notin InSlab
        PROVE  \E q \in Threads : FailedInAlloc(q)'
    <3>1. Value[n] = Uninit
      BY <2>2, Given, SlabArray DEF S!At, InSlab
    <3>2. PICK q \in Threads : Owes(q, n)
      BY <2>2, <3>1 DEF SlabInv, WrittenInv
    <3>3. pc[q] = "panicked" /\ node[q] = n /\ n # None
      BY <1>1, <2>2, <3>2, SharedQueueAssumption DEF Owes, AllocPcs
    <3> QED
      BY <1>1, <2>2, <3>3 DEF FailedInAlloc, InSlab
  <2>3. \A n \in 0 .. next - 1 : S!InTable(n) => S!At(n) = "live"
    BY <1>2, <2>1 DEF InSlab
  <2>4. dropped' = IF \A n \in 0 .. next - 1 : S!InTable(n) THEN "clean" ELSE "abort"
    BY <1>3, <2>3 DEF DropStores, ArenaDrop
  <2>5. dropped' = "abort" => \E q \in Threads : FailedInAlloc(q)'
    BY <1>2, <2>2, <2>4 DEF InSlab
  <2> QED
    BY <2>4, <2>5, <1>1, SameSlab DEF DropIsClean
<1>4. CASE kind # "Arena"
  <2>1. kind = "ContArena" /\ dropped' \in {"leak", "clean"}
    BY <1>4, SharedQueueAssumption DEF Inv, TypeOK, DropStores, ContArenaDrop
  <2>2. ASSUME ~Panicked PROVE dropped' = "clean"
    <3>1. Waiting = {} /\ \A q \in Threads : node[q] = None /\ pc[q] = "idle"
      BY <1>1, <1>4, <2>2 DEF DropStores, Panicked
    <3>2. \A x \in Nat : Slot[x].state # "AVAILABLE"
      <4>1. \A x \in Nat : Slot[x].state = "AVAILABLE" => x \in Positions
        BY SharedQueueAssumption DEF Inv, SlotInv, TypeOK, Positions
      <4> QED
        BY <3>1, <4>1, Given, WaitingArray
    <3>3. \A a, x, n : ~Holds(a, x, n)
      BY <3>1, <3>2 DEF Holds, InPlay
    <3>4. \A n \in 0 .. next - 1 : S!At(n) # "live"
      BY <1>2, <2>1, <3>3 DEF SlabInv, HeldInv
    <3> QED
      BY <1>4, <3>4 DEF DropStores, ContArenaDrop
  <2>3. Panicked => Panicked'
    BY <1>1 DEF Panicked
  <2> QED
    BY <1>1, <2>1, <2>2, <2>3, SameSlab DEF DropIsClean
<1> QED
  BY <1>3, <1>4

\* What is held was counted.
LEMMA HeldIsCounted ==
  ASSUME Inv, SlabInv
  PROVE  \A a, x, n : Holds(a, x, n) => n \in Nat /\ n < next
<1>1. \A x \in Nat : InPlay(x) => Slot[x].value \in Tasks /\ Slot[x].value # None
  <2>1. \A x \in Nat : InPlay(x) => Slot[x].state # "EMPTY"
    BY DEF InPlay, Inv, StealInv, Stealing, ThiefPcs
  <2> QED
    BY <2>1, SharedQueueAssumption DEF Inv, SlotInv
<1>2. \A x \in Nat : InPlay(x) => Slot[x].value.node \in Nat /\ Slot[x].value.node < next
  BY <1>1, SharedQueueAssumption DEF SlabInv, FreshInv, Tasks, SlabIndices
<1>3. \A q \in Threads : pc[q] = "run" => got[q] # None /\ got[q] \in Tasks
  BY DEF Inv, TypeOK, OrNone, NodeInv, NodeOf
<1>4. \A q \in Threads : pc[q] = "run" => got[q].node \in Nat /\ got[q].node < next
  BY <1>3, SharedQueueAssumption DEF SlabInv, FreshInv, Tasks, SlabIndices
<1>5. \A q \in Threads : node[q] # None => node[q] \in Nat /\ node[q] < next
  BY DEF SlabInv, FreshInv
<1> QED
  BY <1>2, <1>4, <1>5 DEF Holds

\* A continuation that is moved out leaves its place.
LEMMA IndexUsed ==
  ASSUME UniqueInv, HeldInv, kind' = kind, Value \in [Nat -> SlabValues],
         NEW a, NEW x, NEW n \in Nat, Holds(a, x, n),
         kind = "ContArena" =>
           /\ \A c, z, m : Holds(c, z, m)' <=> Holds(c, z, m) /\ ~(c = a /\ z = x)
           /\ Value' = [Value EXCEPT ![n] = "moved"],
         \A m : Holds(a, x, m) => m = n
  PROVE  /\ UniqueInv' /\ HeldInv'
         /\ kind = "ContArena" => \A c, z, m : Holds(c, z, m)' => m # n
<1>1. kind = "ContArena" => \A c, z, m : Holds(c, z, m)' => m # n
  BY DEF UniqueInv
<1>2. UniqueInv'
  BY DEF UniqueInv
<1>3. HeldInv'
  BY DEF HeldInv
<1> QED
  BY <1>1, <1>2, <1>3

\* a new index is in the hand that asked for it
LEMMA AllocClaimSlab ==
  ASSUME Inv, SlabInv, NEW p \in Threads, AllocClaim(p)
  PROVE  SlabInv'
<1>1. /\ UNCHANGED <<kind, segments, slab, pos, got, dropped>> /\ next' = next + 1 /\ next \in Nat
      /\ node' = [node EXCEPT ![p] = next] /\ node \in [Threads -> OrNone(SlabIndices)]
      /\ pc[p] = "idle" /\ pc'[p] \in {"alloc_segment", "panicked"}
      /\ \A q \in Threads \ {p} : pc'[q] = pc[q] /\ node'[q] = node[q]
      /\ pc'[p] = "alloc_segment" => S!InTable(next)
      /\ kind = "ContArena" => node[p] = None
  BY SharedQueueAssumption DEF AllocClaim, Goto, Inv, TypeOK, queueVars, ghostVars
<1>2. Slot' = Slot /\ Value' = Value
  BY <1>1, Given, QueueSame, SlabArray
<1>3. \A x \in Nat : InPlay(x)' <=> InPlay(x)
  BY <1>1, <1>2 DEF InPlay
<1>4. next # None /\ node'[p] = next
  BY <1>1, SharedQueueAssumption
<1>5. pc'[p] = "panicked" => next \notin InSlab
  BY <1>1 DEF AllocClaim, Goto, Inv, TypeOK, InSlab
<1>6. FreshInv'
  <2>1. \A q \in Threads : got[q] # None => got[q].node \in Nat
    BY SharedQueueAssumption DEF Inv, TypeOK, OrNone, Tasks, SlabIndices
  <2>2. \A x \in Nat : Slot[x].value # None => Slot[x].value.node \in Nat
    BY Given, SharedQueueAssumption DEF Slots, Tasks, SlabIndices
  <2>3. \A q \in Threads : node'[q] # None => node'[q] \in Nat /\ node'[q] < next'
    BY <1>1, <1>4 DEF SlabInv, FreshInv
  <2> QED
    BY <1>1, <1>2, <2>1, <2>2, <2>3 DEF SlabInv, FreshInv
<1>7. CarryInv'
  BY <1>1, <1>2 DEF SlabInv, CarryInv
<1>8. LiveInv'
  BY <1>1, <1>2, <1>3 DEF SlabInv, LiveInv, AllocPcs, PendingPcs
<1>9. UniqueInv' /\ HeldInv'
  <2> SUFFICES ASSUME kind = "ContArena" PROVE UniqueInv' /\ HeldInv'
    BY <1>1 DEF UniqueInv, HeldInv
  <2>1. \A a, x, n : Holds(a, x, n)' <=> Holds(a, x, n) \/ (a = "hand" /\ x = p /\ n = next)
    BY <1>1, <1>2, <1>3, <1>4 DEF Holds
  <2>2. \A a, x : ~Holds(a, x, next)
    BY <1>1, HeldIsCounted
  <2>3. UniqueInv'
    BY <2>1, <2>2 DEF SlabInv, UniqueInv
  <2>4. HeldInv'
    BY <1>1, <1>2, <2>1 DEF SlabInv, HeldInv
  <2> QED
    BY <2>3, <2>4
<1>10. WrittenInv'
  <2>1. ASSUME NEW n \in Nat, n < next'
        PROVE  Value'[n] # Uninit \/ \E q \in Threads : Owes(q, n)'
    <3>1. CASE n = next
      BY <1>1, <1>4, <1>5, <3>1 DEF Owes, AllocPcs
    <3>2. CASE n < next
      <4>1. \A q \in Threads : Owes(q, n) => q # p
        BY <1>1 DEF Owes, AllocPcs
      <4> QED
        BY <1>1, <1>2, <3>2, <4>1 DEF SlabInv, WrittenInv, Owes, InSlab
    <3> QED
      BY <1>1, <2>1, <3>1, <3>2
  <2> QED
    BY <1>1, <1>2, <2>1 DEF SlabInv, WrittenInv
<1>11. DropIsClean'
  BY <1>1, SameDrop DEF SlabInv
<1> QED
  BY <1>6, <1>7, <1>8, <1>9, <1>10, <1>11 DEF SlabInv

\* its value
LEMMA AllocWriteSlab ==
  ASSUME Inv, SlabInv, NEW p \in Threads, AllocWrite(p)
  PROVE  SlabInv'
<1>1. /\ UNCHANGED <<kind, segments, next, pos, node, got, dropped>>
      /\ node[p] # None /\ node[p] \in Allocated /\ node[p] \in Nat
      /\ S!Write(node[p], "live")
      /\ pc[p] = "alloc_write" /\ pc' = [pc EXCEPT ![p] = "idle"]
  BY DEF AllocWrite, Goto, Inv, NodeInv, NodeOf, MovesNode, SlabInv, FreshInv, queueVars, localVars,
     ghostVars
<1>2. \A q \in Threads : pc'[q] = IF q = p THEN "idle" ELSE pc[q]
  BY <1>1 DEF Inv, TypeOK
<1>3. Slot' = Slot
  BY <1>1, QueueSame
<1>4. Value' = [Value EXCEPT ![node[p]] = "live"] /\ Value \in [Nat -> SlabValues]
  BY <1>1, Given, SlabArray DEF SlabValues
<1>5. \A n : Value'[n] = IF n = node[p] THEN "live" ELSE Value[n]
  BY <1>1, <1>4
<1>6. \A x \in Nat : InPlay(x)' <=> InPlay(x)
  BY <1>1, <1>2, <1>3 DEF InPlay
<1>7. \A a, x, n : Holds(a, x, n)' <=> Holds(a, x, n)
  BY <1>1, <1>2, <1>3, <1>6 DEF Holds
<1>8. FreshInv'
  BY <1>1, <1>3 DEF SlabInv, FreshInv
<1>9. CarryInv'
  BY <1>1, <1>2, <1>3 DEF SlabInv, CarryInv
<1>10. LiveInv'
  BY <1>1, <1>2, <1>3, <1>5, <1>6 DEF SlabInv, LiveInv, AllocPcs, PendingPcs
<1>11. UniqueInv'
  BY <1>1, <1>7 DEF SlabInv, UniqueInv
<1>12. HeldInv'
  <2>1. Holds("hand", p, node[p])
    BY <1>1 DEF Holds
  <2> QED
    BY <1>1, <1>5, <1>7, <2>1 DEF SlabInv, HeldInv
<1>13. WrittenInv'
  BY <1>1, <1>2, <1>5 DEF SlabInv, WrittenInv, Owes, InSlab, Uninit
<1>14. DropIsClean'
  BY <1>1, <1>2, SameDrop DEF SlabInv
<1> QED
  BY <1>8, <1>9, <1>10, <1>11, <1>12, <1>13, <1>14 DEF SlabInv

\* the index in p's hand has no value yet, or never will
Pending(p) == pc[p] \in PendingPcs

\* LiveInv by places: an index that is held has its value, but for a pending one.
LEMMA HeldIsLive ==
  LiveInv <=> \A a, x, n : Holds(a, x, n) /\ ~(a = "hand" /\ Pending(x)) => Value[n] = "live"
<1>1. ASSUME LiveInv, NEW a, NEW x, NEW n, Holds(a, x, n), ~(a = "hand" /\ Pending(x))
      PROVE  Value[n] = "live"
  BY <1>1 DEF LiveInv, Holds, Pending
<1>2. ASSUME \A a, x, n : Holds(a, x, n) /\ ~(a = "hand" /\ Pending(x)) => Value[n] = "live"
      PROVE  LiveInv
  <2>1. \A p \in Threads : node[p] # None /\ pc[p] \notin PendingPcs => Value[node[p]] = "live"
    BY <1>2 DEF Holds, Pending
  <2>2. \A x \in Nat : InPlay(x) => Value[Slot[x].value.node] = "live"
    BY <1>2 DEF Holds
  <2>3. \A p \in Threads : pc[p] = "run" => Value[got[p].node] = "live"
    BY <1>2 DEF Holds
  <2> QED
    BY <2>1, <2>2, <2>3 DEF LiveInv
<1> QED
  BY <1>1, <1>2

\* A step that moves one index.
LEMMA MoveSlab ==
  ASSUME SlabInv, UNCHANGED <<kind, next, dropped>>, Value' = Value,
         NEW a, NEW x, NEW b, NEW y, NEW n, Holds(a, x, n), Holds(b, y, n)', Value[n] = "live",
         \A m : Holds(a, x, m) => m = n,
         \A c, z, m : Holds(c, z, m)' => Holds(c, z, m) \/ m = n,
         kind = "ContArena" =>
           \A c, z, m : Holds(c, z, m)' <=> \/ Holds(c, z, m) /\ ~(c = a /\ z = x)
                                            \/ c = b /\ z = y /\ m = n,
         \A q \in Threads : /\ \/ pc'[q] = pc[q]
                               \/ pc[q] \notin PendingPcs /\ pc'[q] \notin PendingPcs
                            /\ Pending(q) => node'[q] = node[q],
         FreshInv', CarryInv'
  PROVE  SlabInv'
<1>1. \A q \in Threads : pc[q] = "panicked" => pc'[q] = "panicked" /\ node'[q] = node[q]
  BY DEF Pending, PendingPcs
<1>2. LiveInv'
  <2>1. ASSUME NEW c, NEW z, NEW m, Holds(c, z, m)',
               ~(c = "hand" /\ pc'[z] \in PendingPcs)
        PROVE  Value'[m] = "live"
    <3>1. CASE m # n
      <4>1. Holds(c, z, m)
        BY <2>1, <3>1
      <4>2. ~(c = "hand" /\ Pending(z))
        BY <2>1, <4>1 DEF Pending, Holds
      <4> QED
        BY <4>1, <4>2, HeldIsLive DEF SlabInv
    <3> QED
      BY <3>1
  <2>2. \A q \in Threads : node'[q] # None /\ pc'[q] \notin PendingPcs => Value'[node'[q]] = "live"
    BY <2>1 DEF Holds
  <2>3. ASSUME NEW z \in Nat, InPlay(z)' PROVE Value'[Slot'[z].value.node] = "live"
    <3>1. PICK m : m = Slot'[z].value.node
      OBVIOUS
    <3>2. Holds("slot", z, m)'
      BY <2>3, <3>1 DEF Holds
    <3> QED
      BY <2>1, <3>1, <3>2
  <2>4. \A q \in Threads : pc'[q] = "run" => Value'[got'[q].node] = "live"
    BY <2>1 DEF Holds
  <2> QED
    BY <2>2, <2>3, <2>4 DEF LiveInv
<1>3. UniqueInv' /\ HeldInv'
  <2> SUFFICES ASSUME kind = "ContArena" PROVE UniqueInv' /\ HeldInv'
    BY DEF UniqueInv, HeldInv
  <2>1. UniqueInv'
    BY DEF SlabInv, UniqueInv
  <2>2. HeldInv'
    BY DEF SlabInv, HeldInv
  <2> QED
    BY <2>1, <2>2
<1>4. WrittenInv'
  BY <1>1 DEF SlabInv, WrittenInv, Owes, InSlab, Pending, PendingPcs
<1>5. DropIsClean'
  BY <1>1, SameDrop DEF SlabInv
<1> QED
  BY <1>2, <1>3, <1>4, <1>5 DEF SlabInv

\* A step that uses one: the continuation leaves the slab, the node stays.
LEMMA UseSlab ==
  ASSUME Inv, SlabInv, UNCHANGED <<kind, next, dropped, node>>,
         NEW a \in {"slot", "run"}, NEW x, NEW n \in Allocated, Holds(a, x, n), UseNode(n),
         \A m : Holds(a, x, m) => m = n,
         \A c, z, m : Holds(c, z, m)' <=> Holds(c, z, m) /\ ~(c = a /\ z = x),
         \A q \in Threads :
           pc'[q] = pc[q] \/ (pc[q] \notin PendingPcs /\ pc'[q] \notin PendingPcs),
         FreshInv', CarryInv'
  PROVE  SlabInv'
<1>1. \A q \in Threads : pc[q] = "panicked" => pc'[q] = "panicked" /\ node'[q] = node[q]
  BY DEF PendingPcs
<1>2. n \in Nat
  BY DEF Allocated, ST!Room
<1>3. /\ Value \in [Nat -> SlabValues]
      /\ kind = "Arena" => Value' = Value
      /\ kind = "ContArena" => Value' = [Value EXCEPT ![n] = "moved"]
  BY Given, SlabArray, SharedQueueAssumption DEF UseNode, SlabValues
<1>4. kind \in {"Arena", "ContArena"}
  BY SharedQueueAssumption DEF Inv, TypeOK
<1>5. /\ UniqueInv' /\ HeldInv'
      /\ kind = "ContArena" => \A c, z, m : Holds(c, z, m)' => m # n
  BY <1>2, <1>3, IndexUsed DEF SlabInv
<1>6. LiveInv'
  <2>1. \A c, z, m : Holds(c, z, m)' => Value'[m] = Value[m]
    BY <1>2, <1>3, <1>4, <1>5, HeldIsCounted
  <2>2. \A c, z, m : Holds(c, z, m)' /\ ~(c = "hand" /\ pc'[z] \in PendingPcs) => Value'[m] = "live"
    BY <2>1, HeldIsLive DEF SlabInv, Pending, Holds
  <2> QED
    BY <2>2 DEF LiveInv, Holds, PendingPcs
<1>7. WrittenInv'
  BY <1>1, <1>2, <1>3, <1>4 DEF SlabInv, WrittenInv, Owes, InSlab, Uninit, PendingPcs
<1>8. DropIsClean'
  BY <1>1, SameDrop DEF SlabInv
<1> QED
  BY <1>5, <1>6, <1>7, <1>8 DEF SlabInv

\* what a slot in play holds
LEMMA PlayedTask ==
  ASSUME Inv, SlabInv, NEW x \in Nat, InPlay(x)
  PROVE  /\ Slot[x].value \in Tasks /\ Slot[x].value # None /\ Slot[x].value.node \in Nat
         /\ Slot[x].value.node < next /\ Slot[x].value.node \in Allocated
         /\ Value[Slot[x].value.node] = "live"
<1>1. Slot[x].state # "EMPTY"
  BY DEF InPlay, Inv, StealInv, Stealing, ThiefPcs
<1>2. Slot[x].value \in Tasks /\ Slot[x].value # None
  BY <1>1, SharedQueueAssumption DEF Inv, SlotInv
<1> QED
  BY <1>2, SharedQueueAssumption DEF SlabInv, FreshInv, LiveInv, Inv, NodeInv, Tasks, SlabIndices

\* a publisher's index goes into the task it marks
LEMMA PushMarkSlab ==
  ASSUME Inv, SlabInv, NEW p \in Threads, PushMark(p)
  PROVE  SlabInv'
<1>1. /\ pc[p] = "push_mark" /\ Pushing(p) /\ pos[p] \in Ready /\ pos[p] \in Nat
      /\ Slot[pos[p]].state = "EMPTY"
      /\ node[p] # None /\ node[p] \in Nat /\ node[p] < next
  BY Given DEF Inv, PushInv, PushPcs, Pushing, PushMark, Goto, SlabInv, FreshInv
<1>2. PICK x \in Nat, n \in Nat : x = pos[p] /\ n = node[p]
  BY <1>1
<1>3. /\ UNCHANGED <<kind, next, slab, got, dropped>>
      /\ pc' = [pc EXCEPT ![p] = "idle"] /\ pos' = [pos EXCEPT ![p] = None]
      /\ node' = [node EXCEPT ![p] = IF kind = "Arena" THEN @ ELSE None]
      /\ Mark(x, "AVAILABLE")
  BY <1>2 DEF PushMark, Goto, slabVars, ghostVars
<1>4. /\ Slot'[x].state = "AVAILABLE" /\ Slot'[x].value = Slot[x].value
      /\ \A y \in Nat \ {x} : Slot'[y] = Slot[y]
  <2>1. Slot' = [Slot EXCEPT ![x].state = "AVAILABLE"]
    BY <1>1, <1>2, <1>3, Given, QueueArray, QueueWrite DEF Mark, Slots, States
  <2> QED
    BY <2>1, Given DEF Slots
<1>5. Value' = Value
  BY <1>3, Given, SlabArray
<1>6. /\ \A q \in Threads \ {p} : pc'[q] = pc[q] /\ pos'[q] = pos[q] /\ node'[q] = node[q]
      /\ pc'[p] = "idle" /\ pos'[p] = None
      /\ node'[p] = IF kind = "Arena" THEN node[p] ELSE None
  BY <1>3 DEF Inv, TypeOK
<1>7. \A y \in Nat : InPlay(y)' <=> InPlay(y) \/ y = x
  BY <1>1, <1>2, <1>4, <1>6 DEF InPlay
<1>8. Slot[x].value.node = n
  BY <1>1, <1>2 DEF SlabInv, CarryInv
<1>9. Value[n] = "live" /\ Holds("hand", p, n) /\ \A m : Holds("hand", p, m) => m = n
  BY <1>1, <1>2 DEF SlabInv, LiveInv, AllocPcs, PendingPcs, Holds
<1>10. /\ \A c, z, m : Holds(c, z, m)' => Holds(c, z, m) \/ m = n
       /\ kind = "ContArena" =>
            \A c, z, m : Holds(c, z, m)' <=> \/ Holds(c, z, m) /\ ~(c = "hand" /\ z = p)
                                             \/ c = "slot" /\ z = x /\ m = n
  <2>1. \A z, m : Holds("slot", z, m)' <=> Holds("slot", z, m) \/ (z = x /\ m = n)
    BY <1>2, <1>4, <1>7, <1>8 DEF Holds
  <2>2. \A z, m : Holds("run", z, m)' <=> Holds("run", z, m)
    BY <1>1, <1>3, <1>6 DEF Holds
  <2>3. \A z, m : Holds("hand", z, m)' => Holds("hand", z, m)
    BY <1>6 DEF Holds
  <2>4. kind = "ContArena" =>
          \A z, m : Holds("hand", z, m)' <=> Holds("hand", z, m) /\ z # p
    BY <1>6 DEF Holds
  <2>5. \A c, z, m : Holds(c, z, m) \/ Holds(c, z, m)' => c \in {"hand", "slot", "run"}
    BY DEF Holds
  <2> QED
    BY <2>1, <2>2, <2>3, <2>4, <2>5
<1>11. FreshInv'
  BY <1>1, <1>2, <1>3, <1>4, <1>6 DEF SlabInv, FreshInv
<1>12. CarryInv'
  <2>1. \A q \in Threads : pc[q] = "push_mark" => pos[q] \in Nat
    BY Given DEF Inv, PushInv, PushPcs, Pushing
  <2> QED
    BY <1>4, <1>6, <2>1 DEF SlabInv, CarryInv
<1>13. Holds("slot", x, n)'
  BY <1>2, <1>4, <1>7, <1>8 DEF Holds
<1>14. \A q \in Threads :
         /\ \/ pc'[q] = pc[q]
            \/ pc[q] \notin PendingPcs /\ pc'[q] \notin PendingPcs
         /\ Pending(q) => node'[q] = node[q]
  BY <1>1, <1>6 DEF Pending, AllocPcs, PendingPcs
<1>15. UNCHANGED <<kind, next, dropped>>
  BY <1>3
<1> QED
  BY <1>5, <1>9, <1>10, <1>11, <1>12, <1>13, <1>14, <1>15, MoveSlab

\* a thief moves the task out of its slot
LEMMA StealReadSlab ==
  ASSUME Inv, SlabInv, NEW p \in Threads, StealRead(p)
  PROVE  SlabInv'
<1>1. pc[p] = "steal_read" /\ pos[p] \in Ready /\ pos[p] \in Nat /\ Slot[pos[p]].state = "STOLEN"
  BY Given DEF Inv, StealInv, Stealing, ThiefPcs, StealRead, Goto
<1>2. PICK x \in Nat : x = pos[p]
  BY <1>1
<1>3. InPlay(x)
  BY <1>1, <1>2 DEF InPlay
<1>4. PICK n \in Nat : n = Slot[x].value.node
  BY <1>3, PlayedTask
<1>5. /\ UNCHANGED <<kind, next, slab, segments, node, dropped>>
      /\ \A q \in Threads \ {p} : pc'[q] = pc[q] /\ pos'[q] = pos[q] /\ got'[q] = got[q]
      /\ pc'[p] = "run" /\ got'[p] = Slot[x].value
  BY <1>1, <1>2, Given, QueueArray DEF StealRead, Goto, Inv, TypeOK, queueVars, slabVars
<1>6. Slot' = Slot /\ Value' = Value
  BY <1>5, Given, QueueSame, SlabArray
<1>7. \A y \in Nat : InPlay(y)' <=> InPlay(y) /\ y # x
  <2>1. \A q \in Threads \ {p} : pc[q] = "steal_read" => pos[q] # x
    BY <1>1, <1>2 DEF SlabInv, CarryInv
  <2> QED
    BY <1>1, <1>2, <1>5, <1>6, <2>1 DEF InPlay
<1>8. Value[n] = "live" /\ Holds("slot", x, n) /\ \A m : Holds("slot", x, m) => m = n
  BY <1>3, <1>4, PlayedTask DEF Holds
<1>9. \A c, z, m : Holds(c, z, m)' <=> \/ Holds(c, z, m) /\ ~(c = "slot" /\ z = x)
                                       \/ c = "run" /\ z = p /\ m = n
  <2>1. \A z, m : Holds("slot", z, m)' <=> Holds("slot", z, m) /\ z # x
    BY <1>6, <1>7 DEF Holds
  <2>2. \A z, m : Holds("run", z, m)' <=> Holds("run", z, m) \/ (z = p /\ m = n)
    BY <1>1, <1>4, <1>5 DEF Holds
  <2>3. \A z, m : Holds("hand", z, m)' <=> Holds("hand", z, m)
    BY <1>5 DEF Holds
  <2>4. \A c, z, m : Holds(c, z, m) \/ Holds(c, z, m)' => c \in {"hand", "slot", "run"}
    BY DEF Holds
  <2> QED
    BY <2>1, <2>2, <2>3, <2>4
<1>10. FreshInv'
  BY <1>5, <1>6 DEF SlabInv, FreshInv
<1>11. CarryInv'
  BY <1>5, <1>6 DEF SlabInv, CarryInv
<1> QED
  BY <1>1, <1>5, <1>6, <1>8, <1>9, <1>10, <1>11, MoveSlab DEF Pending, AllocPcs, PendingPcs

\* the task a thief runs
LEMMA RunTaskSlab ==
  ASSUME Inv, SlabInv, NEW p \in Threads, RunTask(p)
  PROVE  SlabInv'
<1>1. /\ pc[p] = "run" /\ got[p] # None /\ got[p].node \in Allocated /\ UseNode(got[p].node)
      /\ UNCHANGED <<kind, segments, node, pos, dropped>>
      /\ \A q \in Threads \ {p} : pc'[q] = pc[q] /\ got'[q] = got[q]
      /\ pc'[p] = "idle" /\ got'[p] = None
  BY DEF RunTask, Goto, Inv, TypeOK, NodeInv, NodeOf, queueVars, ghostVars
<1>2. PICK n \in Allocated : n = got[p].node
  BY <1>1
<1>3. Slot' = Slot /\ next' = next
  BY <1>1, QueueSame DEF UseNode
<1>4. \A x \in Nat : InPlay(x)' <=> InPlay(x)
  BY <1>1, <1>3 DEF InPlay
<1>5. Holds("run", p, n) /\ \A m : Holds("run", p, m) => m = n
  BY <1>1, <1>2 DEF Holds
<1>6. \A c, z, m : Holds(c, z, m)' <=> Holds(c, z, m) /\ ~(c = "run" /\ z = p)
  BY <1>1, <1>3, <1>4 DEF Holds
<1>7. FreshInv'
  BY <1>1, <1>3 DEF SlabInv, FreshInv
<1>8. CarryInv'
  BY <1>1, <1>3 DEF SlabInv, CarryInv
<1> QED
  BY <1>1, <1>2, <1>3, <1>5, <1>6, <1>7, <1>8, UseSlab DEF AllocPcs, PendingPcs

\* the task a publisher takes back
LEMMA ReclaimSlab ==
  ASSUME Inv, SlabInv, NEW p \in Threads, TryReclaim(p), MayTake(Q!Read(last[p]))
  PROVE  SlabInv'
<1>1. last[p] \in Ready /\ last[p] \in Nat /\ Q!Read(last[p]) = Slot[last[p]]
  BY Given, QueueArray DEF Inv, SlotInv, TryReclaim
<1>2. PICK x \in Nat : x = last[p]
  BY <1>1
<1>3. /\ Slot[x].state = "AVAILABLE" /\ Slot'[x].state = "RECLAIMED"
      /\ Slot'[x].value = Slot[x].value /\ \A y \in Nat \ {x} : Slot'[y] = Slot[y]
  BY <1>1, <1>2, TakenSlot DEF TryReclaim
<1>4. InPlay(x)
  BY <1>3 DEF InPlay
<1>5. PICK n \in Allocated : n = Slot[x].value.node
  BY <1>4, PlayedTask
<1>6. UNCHANGED <<kind, next, node, pos, got, pc, dropped>> /\ UseNode(n)
  BY <1>1, <1>2, <1>5 DEF TryReclaim, UseNode
<1>7. \A y \in Nat : InPlay(y)' <=> InPlay(y) /\ y # x
  <2>1. \A q \in Threads : pc[q] = "steal_read" => pos[q] # x
    BY <1>3 DEF Inv, StealInv, Stealing, ThiefPcs
  <2> QED
    BY <1>3, <1>6, <2>1 DEF InPlay
<1>8. Holds("slot", x, n) /\ \A m : Holds("slot", x, m) => m = n
  BY <1>4, <1>5 DEF Holds
<1>9. \A c, z, m : Holds(c, z, m)' <=> Holds(c, z, m) /\ ~(c = "slot" /\ z = x)
  BY <1>3, <1>6, <1>7 DEF Holds
<1>10. FreshInv'
  BY <1>3, <1>6 DEF SlabInv, FreshInv
<1>11. CarryInv'
  <2>1. \A q \in Threads : pc[q] = "push_mark" => pos[q] \in Nat
    BY Given DEF Inv, PushInv, PushPcs, Pushing
  <2> QED
    BY <1>3, <1>6, <2>1 DEF SlabInv, CarryInv
<1> QED
  BY <1>6, <1>5, <1>8, <1>9, <1>10, <1>11, UseSlab

\* the slab is empty when the fold starts
LEMMA InitSlab == Init => SlabInv
<1> SUFFICES ASSUME Init PROVE SlabInv
  OBVIOUS
<1>1. Inv
  BY InitInv
<1>2. slab = [i \in S!Indices |-> None]
  BY DEF Init, S!Init
<1>3. \A n \in Nat : Value[n] = Uninit
  <2> SUFFICES ASSUME NEW n \in Nat PROVE S!At(n) = Uninit
    BY <1>1, Given, SlabArray
  <2>1. S!SegmentOf(n) \in Nat
    BY SharedQueueAssumption DEF S!SegmentOf
  <2> QED
    BY <1>2, <2>1, SharedQueueAssumption DEF S!At, S!InTable, S!Found, S!Indices
<1>4. \A x \in Nat : ~InPlay(x) /\ Slot[x].value = None
  <2>1. segments = [i \in Q!Indices |-> None]
    BY DEF Init, Q!Init
  <2>2. \A x \in Nat : Q!SegmentOf(x) \in Nat
    BY SharedQueueAssumption DEF Q!SegmentOf
  <2>3. \A x \in Nat : Q!At(x) = EmptySlot
    BY <2>1, <2>2, SharedQueueAssumption DEF Q!At, Q!InTable, Q!Found, Q!Indices
  <2>4. \A x \in Nat : Slot[x] = EmptySlot
    BY <2>3, QueueNames DEF Slot, QT!Array
  <2> QED
    BY <2>4 DEF Init, InPlay, EmptySlot
<1>5. \A a, x, n : ~Holds(a, x, n)
  BY <1>4 DEF Init, Holds
<1> QED
  BY <1>3, <1>4, <1>5 DEF Init, SlabInv, FreshInv, CarryInv, LiveInv, UniqueInv, HeldInv,
     WrittenInv, DropIsClean, Uninit

\* and each step keeps track of it
LEMMA NextSlab == Inv /\ SlabInv /\ [Next]_vars => SlabInv'
<1> SUFFICES ASSUME Inv, SlabInv, [Next]_vars PROVE SlabInv'
  OBVIOUS
<1>1. CASE UNCHANGED vars
  BY <1>1, StutterSlab
<1>2. CASE DropStores
  BY <1>2, DropSlab
<1>3. ASSUME NEW p \in Threads, TryReclaim(p)
      PROVE  SlabInv'
  BY <1>3, ReclaimSlab, ReclaimFailsSlab
<1>4. ASSUME NEW p \in Threads, AllocClaim(p) \/ AllocWrite(p)
      PROVE  SlabInv'
  BY <1>4, AllocClaimSlab, AllocWriteSlab
<1>5. ASSUME NEW p \in Threads, PushWrite(p) \/ PushMark(p)
      PROVE  SlabInv'
  BY <1>5, PushWriteSlab, PushMarkSlab
<1>6. ASSUME NEW p \in Threads, StealSlot(p) \/ StealRead(p) \/ RunTask(p)
      PROVE  SlabInv'
  BY <1>6, StealSlotSlab, StealReadSlab, RunTaskSlab
<1>7. ASSUME NEW p \in Threads,
             \/ AllocSegment(p) \/ AllocInstall(p) \/ PushClaim(p) \/ PushSegment(p)
             \/ PushInstall(p) \/ StealTop(p) \/ StealBottom(p) \/ StealSegment(p)
             \/ StealInstall(p) \/ StealState(p) \/ Claim(p) \/ ClaimFails(p)
      PROVE  SlabInv'
  BY <1>7, OthersSlab
<1> QED
  BY <1>1, <1>2, <1>3, <1>4, <1>5, <1>6, <1>7 DEF Next, Step

\* always
LEMMA SlabInvariant == Spec => []SlabInv
<1> QED
  BY Invariant, InitSlab, NextSlab, PTL DEF Spec

\* A task that can still run finds its node or continuation: written before the
\* task was visible, and moved out, if it is a continuation, only by the thread
\* that got its one task.
THEOREM EveryTaskFindsItsNode == Spec => []TaskFindsItsNode
<1>1. Inv /\ SlabInv => TaskFindsItsNode
  <2> SUFFICES ASSUME Inv, SlabInv PROVE TaskFindsItsNode
    OBVIOUS
  <2>1. ASSUME NEW x \in Waiting
        PROVE  Q!At(x).value # None /\ S!At(Q!At(x).value.node) = "live"
    <3>1. x \in Nat /\ Slot[x].state = "AVAILABLE" /\ Q!At(x) = Slot[x]
      BY Given, WaitingArray, QueueNames DEF Waiting, Slot, QT!Array
    <3>2. InPlay(x)
      BY <3>1 DEF InPlay
    <3> QED
      BY <3>1, <3>2, PlayedTask, Given, SlabArray
  <2>2. ASSUME NEW p \in Threads, pc[p] = "run" PROVE S!At(got[p].node) = "live"
    <3>1. got[p].node \in Nat
      BY <2>2 DEF Inv, NodeInv, NodeOf, Allocated, ST!Room
    <3> QED
      BY <2>2, <3>1, Given, SlabArray DEF SlabInv, LiveInv
  <2> QED
    BY <2>1, <2>2 DEF TaskFindsItsNode
<1> QED
  BY <1>1, Invariant, SlabInvariant, PTL

\* Whoever panicked where, the stores are dropped without reading a slot that
\* holds no value: the drop of the Arena aborts if a thread panicked in alloc,
\* for want of a segment, and for no other reason. A continuation is left behind
\* only if a thread panicked.
THEOREM DropsAreClean == Spec => []DropIsClean
<1>1. SlabInv => DropIsClean
  BY DEF SlabInv
<1> QED
  BY <1>1, SlabInvariant, PTL
=============================================================================
