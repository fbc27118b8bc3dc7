-------------------------- MODULE WorkerDequeProofs --------------------------
(***************************************************************************)
(* Proofs about WorkerDeque, for any number of thieves and tasks and every *)
(* capacity from two: types, that no task is lost, and that pushes, pops   *)
(* and steals take effect at once on the bounded sequence of TaskDeque,    *)
(* through the owner's store buffer.                                       *)
(***************************************************************************)
EXTENDS WorkerDeque, SequenceTheorems, TLAPS

OwnerPcs == {"idle", "push_write", "push_written", "push_publish", "pop_fence", "pop_load",
             "pop_cas", "pop_restore", "pop_empty"}
ThiefPcs == {"idle", "steal_bottom", "steal_read", "steal_cas"}
PushPcs == {"push_write", "push_written", "push_publish"}

\* the positions of the tasks that are present, and the task at a position
End == LogicalBottom
Live == top .. End - 1
At(k) == slots[Slot(k)]

\* the task of a push that is not published yet
InHand == IF pc[Owner] \in PushPcs THEN {offered} ELSE {}

-----------------------------------------------------------------------------
(* The invariant. *)

\* no value of bottom, in memory or on its way, promises more than there is
BoundsInv ==
  /\ top <= End /\ End <= offered /\ End - top <= Capacity
  /\ bottom <= End /\ \A k \in 1 .. Len(buffer) : buffer[k] <= End

OwnerInv ==
  /\ pc[Owner] \in OwnerPcs
  /\ pc[Owner] \in PushPcs =>
       b[Owner] = End /\ End - top < Capacity /\ End < offered /\ item[Owner] = offered
  /\ pc[Owner] = "push_publish" => At(End) = offered
  /\ pc[Owner] = "pop_fence" => OwnBottom = b[Owner]
  /\ pc[Owner] \in {"pop_load", "pop_cas"} => buffer = <<>> /\ bottom = b[Owner]
  /\ pc[Owner] = "pop_cas" => t[Owner] = b[Owner] /\ item[Owner] = At(t[Owner])
  /\ pc[Owner] \in {"pop_cas", "pop_empty"} => t[Owner] <= top

\* a thief whose top is still the top has the first task in view
ThiefOK(p) ==
  /\ pc[p] \in ThiefPcs
  /\ pc[p] # "idle" => t[p] <= top
  /\ pc[p] \in {"steal_read", "steal_cas"} /\ t[p] = top => top < End
  /\ pc[p] = "steal_cas" /\ t[p] = top => item[p] = At(top)
ThiefInv == \A p \in Thieves : ThiefOK(p)

\* a task is in one place
TaskInv ==
  /\ \A k \in Live : At(k) \in Tasks /\ At(k) \notin taken \cup inline \cup InHand
  /\ \A j, k \in Live : At(j) = At(k) => j = k
  /\ taken \cap inline = {} /\ InHand \cap (taken \cup inline) = {}
  /\ \A x \in taken \cup inline \cup InHand : x \in 1 .. offered
  /\ \A k \in Live : At(k) <= offered
  /\ \A x \in 1 .. offered : x \in taken \cup inline \cup InHand \/ \E k \in Live : At(k) = x

Inv == TypeOK /\ BoundsInv /\ OwnerInv /\ ThiefInv /\ TaskInv

-----------------------------------------------------------------------------
(* What a step does to the tasks. *)

Same == UNCHANGED <<top, End, taken>> /\ \A k \in Live : At(k)' = At(k)

Quiet == Same /\ UNCHANGED <<offered, inline, InHand>>
Offer ==
  /\ Same /\ offered' = offered + 1 /\ InHand = {}
  /\ \/ InHand' = {offered + 1} /\ UNCHANGED inline
     \/ InHand' = {} /\ inline' = inline \cup {offered + 1}
Publish ==
  /\ UNCHANGED <<top, slots, taken, offered, inline>>
  /\ End' = End + 1 /\ End - top < Capacity /\ End < offered
  /\ InHand = {offered} /\ InHand' = {} /\ At(End) = offered
TakeLast ==
  /\ UNCHANGED <<top, slots, offered, inline, InHand>>
  /\ End' = End - 1 /\ top < End - 1 /\ taken' = taken \cup {At(End - 1)}
TakeFirst ==
  /\ UNCHANGED <<slots, End, offered, inline, InHand>>
  /\ top' = top + 1 /\ top < End /\ taken' = taken \cup {At(top)}

Kinds == Quiet \/ Offer \/ Publish \/ TakeLast \/ TakeFirst

-----------------------------------------------------------------------------
(* Facts about positions and sequences. *)

LEMMA Sizes == Capacity \in Nat /\ Capacity >= 2 /\ MaxTasks \in Nat
BY WorkerDequeAssumption

\* positions less than a capacity apart are in different slots
LEMMA Slots ==
  /\ \A k \in Int : Slot(k) \in 0 .. Capacity - 1
  /\ \A j, k \in Int : j < k /\ k - j < Capacity => Slot(j) # Slot(k)
<1>1. \A k \in Int : Slot(k) \in 0 .. Capacity - 1
  BY Sizes DEF Slot
<1>2. \A k \in Int : k \div Capacity \in Int /\ k = Capacity * (k \div Capacity) + (k % Capacity)
  BY Sizes
<1>3. \A q \in Int : (q >= 1 => Capacity * q >= Capacity) /\ (q <= 0 => Capacity * q <= 0)
  BY Sizes
<1>4. ASSUME NEW j \in Int, NEW k \in Int, j < k, k - j < Capacity, Slot(j) = Slot(k)
      PROVE  FALSE
  <2> DEFINE q == k \div Capacity - j \div Capacity
  <2>1. q \in Int /\ Capacity * q = Capacity * (k \div Capacity) - Capacity * (j \div Capacity)
    BY <1>2, Sizes
  <2>2. k - j = Capacity * q
    BY <1>1, <1>2, <1>4, <2>1, Sizes DEF Slot
  <2> HIDE DEF q
  <2>3. q >= 1 \/ q <= 0
    BY <2>1
  <2> QED
    BY <1>3, <1>4, <2>1, <2>2, <2>3, Sizes
<1> QED
  BY <1>1, <1>4

\* the types of the positions
LEMMA Positions ==
  ASSUME TypeOK
  PROVE  /\ top \in Nat /\ bottom \in Int /\ OwnBottom \in -1 .. MaxTasks /\ OwnBottom \in Int
         /\ End \in Int /\ b[Owner] \in Int /\ t[Owner] \in Nat /\ offered \in Nat
         /\ Len(buffer) \in Nat
<1>1. /\ top \in Nat /\ bottom \in Int /\ b[Owner] \in Int /\ t[Owner] \in Nat /\ offered \in Nat
      /\ Len(buffer) \in Nat
  <2>1. /\ top \in 0 .. MaxTasks /\ bottom \in -1 .. MaxTasks /\ offered \in 0 .. MaxTasks
        /\ b[Owner] \in -1 .. MaxTasks /\ t[Owner] \in 0 .. MaxTasks
        /\ buffer \in Seq(-1 .. MaxTasks)
    BY DEF TypeOK, Threads
  <2> QED
    BY <2>1, Sizes
<1>2. OwnBottom \in -1 .. MaxTasks
  <2>1. CASE buffer = <<>>
    BY <2>1 DEF OwnBottom, TypeOK
  <2>2. CASE buffer # <<>>
    <3>1. buffer \in Seq(-1 .. MaxTasks) /\ Len(buffer) \in 1 .. Len(buffer)
      BY <2>2, EmptySeq DEF TypeOK
    <3>2. buffer[Len(buffer)] \in -1 .. MaxTasks
      BY <3>1, ElementOfSeq
    <3> QED
      BY <2>2, <3>2 DEF OwnBottom
  <2> QED
    BY <2>1, <2>2
<1>3. OwnBottom \in Int
  BY <1>2, Sizes
<1>4. End \in Int
  BY <1>1, <1>3 DEF End, LogicalBottom
<1> QED
  BY <1>1, <1>2, <1>3, <1>4

\* a store to bottom goes to the end of the buffer
LEMMA Stored ==
  ASSUME TypeOK, NEW v \in -1 .. MaxTasks, StoreBottom(v)
  PROVE  /\ buffer' \in Seq(-1 .. MaxTasks) /\ bottom' = bottom /\ OwnBottom' = v
         /\ \A m \in Int : (\A k \in 1 .. Len(buffer) : buffer[k] <= m) /\ v <= m =>
              \A k \in 1 .. Len(buffer') : buffer'[k] <= m
<1>1. buffer' = Append(buffer, v) /\ bottom' = bottom /\ buffer \in Seq(-1 .. MaxTasks)
  BY DEF StoreBottom, TypeOK
<1>2. /\ buffer' \in Seq(-1 .. MaxTasks) /\ buffer' # <<>> /\ Len(buffer') = Len(buffer) + 1
      /\ \A k \in 1 .. Len(buffer) : buffer'[k] = buffer[k]
      /\ buffer'[Len(buffer) + 1] = v /\ Len(buffer) \in Nat
  BY <1>1, AppendProperties
<1>3. OwnBottom' = v
  BY <1>2 DEF OwnBottom
<1>4. ASSUME NEW m \in Int, \A k \in 1 .. Len(buffer) : buffer[k] <= m, v <= m,
             NEW k \in 1 .. Len(buffer')
      PROVE  buffer'[k] <= m
  <2>1. CASE k = Len(buffer) + 1
    BY <1>2, <1>4, <2>1
  <2>2. CASE k # Len(buffer) + 1
    BY <1>2, <1>4, <2>2
  <2> QED
    BY <2>1, <2>2
<1> QED
  BY <1>1, <1>2, <1>3, <1>4

-----------------------------------------------------------------------------
(* What follows from the kind of a step. *)

LEMMA KindBounds ==
  ASSUME Inv, Kinds
  PROVE  /\ top' <= End' /\ End' <= offered' /\ End' - top' <= Capacity
         /\ End' \in Int /\ top' \in Int
<1>1. /\ top \in Int /\ End \in Int /\ offered \in Int /\ Capacity \in Int
      /\ top <= End /\ End <= offered /\ End - top <= Capacity
  BY Positions, Sizes DEF Inv, BoundsInv
<1>2. CASE Quiet \/ Offer
  BY <1>1, <1>2 DEF Quiet, Offer, Same
<1>3. CASE Publish
  BY <1>1, <1>3 DEF Publish
<1>4. CASE TakeLast
  BY <1>1, <1>4 DEF TakeLast
<1>5. CASE TakeFirst
  BY <1>1, <1>5 DEF TakeFirst
<1> QED
  BY <1>2, <1>3, <1>4, <1>5 DEF Kinds

LEMMA KindThief ==
  ASSUME Inv, Kinds, NEW p \in Thieves, pc'[p] = pc[p], t'[p] = t[p], item'[p] = item[p]
  PROVE  ThiefOK(p)'
<1>1. /\ top \in Int /\ End \in Int /\ t[p] \in Int
      /\ ThiefOK(p) /\ top <= End
  <2>1. t[p] \in 0 .. MaxTasks /\ ThiefOK(p) /\ top <= End
    BY DEF Inv, ThiefInv, TypeOK, Threads, BoundsInv
  <2> QED
    BY <2>1, Positions, Sizes DEF Inv
<1>2. CASE Quiet \/ Offer
  BY <1>1, <1>2 DEF Quiet, Offer, Same, ThiefOK, Live, At
<1>3. CASE Publish
  BY <1>1, <1>3 DEF Publish, ThiefOK, At, Slot
<1>4. CASE TakeLast
  BY <1>1, <1>4 DEF TakeLast, ThiefOK, At, Slot
<1>5. CASE TakeFirst
  BY <1>1, <1>5 DEF TakeFirst, ThiefOK, At, Slot
<1> QED
  BY <1>2, <1>3, <1>4, <1>5 DEF Kinds

LEMMA KindTasks ==
  ASSUME Inv, Kinds, offered' \in 0 .. MaxTasks
  PROVE  TaskInv'
<1>1. /\ top \in Int /\ End \in Int /\ offered \in Nat /\ TaskInv /\ top <= End
  BY Positions DEF Inv, BoundsInv
<1>2. CASE Quiet
  <2>1. Live' = Live
    BY <1>2 DEF Quiet, Same, Live
  <2> QED
    BY <1>1, <1>2, <2>1 DEF Quiet, Same, TaskInv
<1>3. CASE Offer
  <2>1. Live' = Live
    BY <1>3 DEF Offer, Same, Live
  <2>2. \A x \in taken \cup inline : x # offered + 1 /\ x \in 1 .. offered + 1
    BY <1>1, <1>3 DEF Offer, TaskInv
  <2>3. \A k \in Live : At(k) # offered + 1 /\ At(k) <= offered + 1
    BY <1>1, Sizes DEF TaskInv, Tasks
  <2>4. \A x \in 1 .. offered + 1 : x \in 1 .. offered \/ x = offered + 1
    BY <1>1
  <2> QED
    BY <1>1, <1>3, <2>1, <2>2, <2>3, <2>4 DEF Offer, Same, TaskInv
<1>4. CASE Publish
  <2>1. Live' = Live \cup {End} /\ End \notin Live /\ \A k : At(k)' = At(k)
    BY <1>1, <1>4 DEF Publish, Live, At, Slot
  <2>2. offered \in Tasks /\ offered \in 1 .. offered
    BY <1>1, <1>4, Sizes DEF Publish, TaskInv, Tasks, Inv, TypeOK
  <2> QED
    BY <1>1, <1>4, <2>1, <2>2 DEF Publish, TaskInv
<1>5. CASE TakeLast
  <2>1. Live = Live' \cup {End - 1} /\ End - 1 \notin Live' /\ \A k : At(k)' = At(k)
    BY <1>1, <1>5 DEF TakeLast, Live, At, Slot
  <2>2. At(End - 1) \in 1 .. offered
    BY <1>1, <2>1, Sizes DEF TaskInv, Tasks
  <2> QED
    BY <1>1, <1>5, <2>1, <2>2 DEF TakeLast, TaskInv
<1>6. CASE TakeFirst
  <2>1. Live = Live' \cup {top} /\ top \notin Live' /\ \A k : At(k)' = At(k)
    BY <1>1, <1>6 DEF TakeFirst, Live, At, Slot
  <2>2. At(top) \in 1 .. offered
    BY <1>1, <2>1, Sizes DEF TaskInv, Tasks
  <2> QED
    BY <1>1, <1>6, <2>1, <2>2 DEF TakeFirst, TaskInv
<1> QED
  BY <1>2, <1>3, <1>4, <1>5, <1>6 DEF Kinds

LEMMA KindInv ==
  ASSUME Inv, TypeOK', Kinds, OwnerInv',
         bottom' <= End', \A k \in 1 .. Len(buffer') : buffer'[k] <= End',
         \A p \in Thieves : ThiefOK(p)' \/ UNCHANGED <<pc[p], t[p], item[p]>>
  PROVE  Inv'
<1>1. TaskInv'
  BY KindTasks DEF TypeOK
<1>2. ThiefInv'
  BY KindThief DEF ThiefInv
<1>3. BoundsInv'
  BY KindBounds DEF BoundsInv
<1> QED
  BY <1>1, <1>2, <1>3 DEF Inv

-----------------------------------------------------------------------------
(* The steps of the owner. A thief keeps its place and its locals. *)

LEMMA NotAThief == \A p \in Thieves : p # Owner /\ p \in Threads /\ Owner \in Threads
BY WorkerDequeAssumption DEF Threads

LEMMA PushCheckStep == ASSUME Inv, PushCheck PROVE Kinds /\ Inv'
<1>1. /\ pc[Owner] = "idle" /\ offered < MaxTasks /\ offered' = offered + 1
      /\ b' = [b EXCEPT ![Owner] = OwnBottom]
      /\ UNCHANGED <<memVars, t, taken>>
  BY DEF PushCheck, Goto
<1>2. End = OwnBottom /\ OwnBottom' = OwnBottom
  BY <1>1 DEF End, LogicalBottom, OwnBottom, memVars
<1>3. \/ /\ pc'[Owner] = "idle" /\ inline' = inline \cup {offered + 1} /\ UNCHANGED <<pc, item>>
      \/ /\ pc' = [pc EXCEPT ![Owner] = "push_write"] /\ pc'[Owner] = "push_write"
         /\ item' = [item EXCEPT ![Owner] = offered + 1] /\ UNCHANGED inline
         /\ End - top < Capacity
  <2>1. CASE Full(top)
    BY <1>1, <2>1 DEF PushCheck
  <2>2. CASE ~Full(top)
    <3>1. End - top < Capacity
      BY <1>2, <2>2, Positions, Sizes DEF Full, Inv
    <3> QED
      BY <1>1, <2>2, <3>1 DEF PushCheck, Goto, Inv, TypeOK, Threads
  <2> QED
    BY <2>1, <2>2
<1>4. End' = End
  BY <1>2, <1>3 DEF End, LogicalBottom
<1>5. Kinds
  <2>1. Same /\ InHand = {}
    BY <1>1, <1>4 DEF Same, At, Slot, memVars, InHand, PushPcs
  <2>2. \/ InHand' = {offered + 1} /\ UNCHANGED inline
        \/ InHand' = {} /\ inline' = inline \cup {offered + 1}
    BY <1>1, <1>3 DEF InHand, PushPcs
  <2> QED
    BY <1>1, <2>1, <2>2 DEF Kinds, Offer
<1>6. offered + 1 \in Tasks /\ offered' \in 0 .. MaxTasks
  BY <1>1, Positions, Sizes DEF Tasks, Inv
<1>7. TypeOK'
  <2>1. b' \in [Threads -> -1 .. MaxTasks]
    BY <1>1, Positions DEF Inv, TypeOK
  <2>2. item' \in [Threads -> Values] /\ inline' \in SUBSET Tasks
    BY <1>3, <1>6 DEF Inv, TypeOK, Values
  <2>3. pc' \in [Threads -> {"idle", "push_write", "push_written", "push_publish", "pop_fence",
                             "pop_load", "pop_cas", "pop_restore", "pop_empty",
                             "steal_bottom", "steal_read", "steal_cas"}]
    BY <1>3 DEF Inv, TypeOK
  <2> QED
    BY <1>1, <1>6, <2>1, <2>2, <2>3 DEF Inv, TypeOK, memVars
<1>8. OwnerInv'
  <2>1. b'[Owner] = OwnBottom
    BY <1>1, NotAThief DEF Inv, TypeOK, Threads
  <2>2. CASE pc'[Owner] = "idle"
    BY <2>2 DEF OwnerInv, OwnerPcs, PushPcs
  <2>3. CASE pc'[Owner] # "idle"
    <3>1. /\ pc'[Owner] = "push_write" /\ item'[Owner] = offered + 1 /\ End - top < Capacity
      BY <1>3, <2>3 DEF Inv, TypeOK, Threads
    <3>2. End' < offered'
      BY <1>1, <1>4, Positions DEF Inv, BoundsInv
    <3> QED
      BY <1>1, <1>2, <1>4, <2>1, <3>1, <3>2 DEF OwnerInv, OwnerPcs, PushPcs, memVars
  <2> QED
    BY <2>2, <2>3
<1>9. \A p \in Thieves : UNCHANGED <<pc[p], t[p], item[p]>>
  BY <1>1, <1>3, NotAThief DEF Inv, TypeOK
<1>10. bottom' <= End' /\ \A k \in 1 .. Len(buffer') : buffer'[k] <= End'
  BY <1>1, <1>4 DEF Inv, BoundsInv, memVars
<1> QED
  BY <1>5, <1>7, <1>8, <1>9, <1>10, KindInv

\* between the check and the publication the slot at the end is the owner's
LEMMA SlotWritten ==
  ASSUME Inv, pc[Owner] \in PushPcs, NEW v, slots' = [slots EXCEPT ![Slot(b[Owner])] = v],
         top' = top, End' = End
  PROVE  /\ \A k \in Live : At(k)' = At(k)
         /\ At(End)' = v
<1>1. /\ b[Owner] = End /\ End - top < Capacity /\ top \in Int /\ End \in Int
      /\ slots \in [0 .. Capacity - 1 -> Values]
  BY Positions DEF Inv, OwnerInv, TypeOK
<1>2. Slot(End) \in 0 .. Capacity - 1 /\ \A k \in Live : Slot(k) \in 0 .. Capacity - 1
  BY <1>1, Slots DEF Live
<1>3. ASSUME NEW k \in Live PROVE k \in Int /\ k < End /\ End - k < Capacity
  BY <1>1, Sizes DEF Live
<1>4. ASSUME NEW k \in Live PROVE Slot(k) # Slot(End)
  BY <1>1, <1>3, Slots
<1> QED
  BY <1>1, <1>2, <1>4 DEF At, Slot

LEMMA PushWriteStep == ASSUME Inv, PushWrite PROVE Kinds /\ Inv'
<1>1. /\ pc[Owner] = "push_write" /\ pc' = [pc EXCEPT ![Owner] = "push_written"]
      /\ pc'[Owner] = "push_written" /\ slots' = [slots EXCEPT ![Slot(b[Owner])] = Torn]
      /\ UNCHANGED <<bottom, top, buffer, localVars, histVars>>
  BY DEF PushWrite, Goto, Inv, TypeOK, Threads
<1>2. End = OwnBottom /\ End' = OwnBottom' /\ OwnBottom' = OwnBottom
  BY <1>1 DEF End, LogicalBottom, OwnBottom
<1>3. Kinds
  <2>1. \A k \in Live : At(k)' = At(k)
    BY <1>1, <1>2, SlotWritten DEF PushPcs
  <2>2. InHand' = InHand
    BY <1>1 DEF InHand, PushPcs, histVars
  <2> QED
    BY <1>1, <1>2, <2>1, <2>2 DEF Kinds, Quiet, Same, histVars
<1>4. TypeOK'
  <2>1. Torn \in Values
    BY DEF Values
  <2> QED
    BY <1>1, <2>1 DEF Inv, TypeOK, localVars, histVars
<1>5. OwnerInv'
  BY <1>1, <1>2 DEF Inv, OwnerInv, OwnerPcs, PushPcs, localVars, histVars
<1>6. \A p \in Thieves : UNCHANGED <<pc[p], t[p], item[p]>>
  BY <1>1, NotAThief DEF Inv, TypeOK, localVars
<1> QED
  BY <1>1, <1>2, <1>3, <1>4, <1>5, <1>6, KindInv DEF Inv, BoundsInv

LEMMA PushWrittenStep == ASSUME Inv, PushWritten PROVE Kinds /\ Inv'
<1>1. /\ pc[Owner] = "push_written" /\ pc' = [pc EXCEPT ![Owner] = "push_publish"]
      /\ pc'[Owner] = "push_publish" /\ slots' = [slots EXCEPT ![Slot(b[Owner])] = item[Owner]]
      /\ UNCHANGED <<bottom, top, buffer, localVars, histVars>>
  BY DEF PushWritten, Goto, Inv, TypeOK, Threads
<1>2. End = OwnBottom /\ End' = OwnBottom' /\ OwnBottom' = OwnBottom
  BY <1>1 DEF End, LogicalBottom, OwnBottom
<1>3. item[Owner] = offered /\ item[Owner] \in Values
  BY <1>1 DEF Inv, OwnerInv, PushPcs, TypeOK, Threads
<1>4. (\A k \in Live : At(k)' = At(k)) /\ At(End)' = offered
  BY <1>1, <1>2, <1>3, SlotWritten DEF PushPcs
<1>5. Kinds
  <2>1. InHand' = InHand
    BY <1>1 DEF InHand, PushPcs, histVars
  <2> QED
    BY <1>1, <1>2, <1>4, <2>1 DEF Kinds, Quiet, Same, histVars
<1>6. TypeOK'
  BY <1>1, <1>3 DEF Inv, TypeOK, localVars, histVars
<1>7. OwnerInv'
  BY <1>1, <1>2, <1>4 DEF Inv, OwnerInv, OwnerPcs, PushPcs, localVars, histVars, At
<1>8. \A p \in Thieves : UNCHANGED <<pc[p], t[p], item[p]>>
  BY <1>1, NotAThief DEF Inv, TypeOK, localVars
<1> QED
  BY <1>1, <1>2, <1>5, <1>6, <1>7, <1>8, KindInv DEF Inv, BoundsInv

LEMMA PushPublishStep == ASSUME Inv, PushPublish PROVE Kinds /\ Inv'
<1>1. /\ pc[Owner] = "push_publish" /\ pc' = [pc EXCEPT ![Owner] = "idle"]
      /\ pc'[Owner] = "idle" /\ StoreBottom(b[Owner] + 1)
      /\ item' = [item EXCEPT ![Owner] = NoTask]
      /\ UNCHANGED <<top, slots, t, b, histVars>>
  BY DEF PushPublish, Goto, Inv, TypeOK, Threads
<1>2. b[Owner] = End /\ End - top < Capacity /\ End < offered /\ At(End) = offered
  BY <1>1 DEF Inv, OwnerInv, PushPcs
<1>3. b[Owner] + 1 \in -1 .. MaxTasks
  <2>1. b[Owner] \in -1 .. MaxTasks /\ offered \in 0 .. MaxTasks
    BY DEF Inv, TypeOK, Threads
  <2> QED
    BY <1>2, <2>1, Positions, Sizes DEF Inv
<1>4. /\ buffer' \in Seq(-1 .. MaxTasks) /\ bottom' = bottom /\ OwnBottom' = End + 1
      /\ \A m \in Int : (\A k \in 1 .. Len(buffer) : buffer[k] <= m) /\ End + 1 <= m =>
           \A k \in 1 .. Len(buffer') : buffer'[k] <= m
  BY <1>1, <1>2, <1>3, Stored DEF Inv
<1>5. End' = End + 1
  BY <1>1, <1>4 DEF End, LogicalBottom
<1>6. Kinds
  <2>1. InHand = {offered} /\ InHand' = {}
    BY <1>1 DEF InHand, PushPcs
  <2> QED
    BY <1>1, <1>2, <1>5, <2>1 DEF Kinds, Publish, histVars
<1>7. TypeOK'
  BY <1>1, <1>4 DEF Inv, TypeOK, Values, histVars
<1>8. OwnerInv'
  BY <1>1 DEF OwnerInv, OwnerPcs, PushPcs
<1>9. \A p \in Thieves : UNCHANGED <<pc[p], t[p], item[p]>>
  BY <1>1, NotAThief DEF Inv, TypeOK
<1>10. bottom' <= End' /\ \A k \in 1 .. Len(buffer') : buffer'[k] <= End'
  <2>1. End \in Int /\ bottom \in Int /\ Len(buffer) \in Nat
    BY Positions DEF Inv
  <2>2. \A k \in 1 .. Len(buffer) : buffer[k] \in Int
    BY Sizes DEF Inv, TypeOK
  <2>3. bottom <= End + 1 /\ \A k \in 1 .. Len(buffer) : buffer[k] <= End + 1
    BY <2>1, <2>2 DEF Inv, BoundsInv
  <2> QED
    BY <1>4, <1>5, <2>1, <2>3
<1> QED
  BY <1>6, <1>7, <1>8, <1>9, <1>10, KindInv

\* a store that promises no more than there is
LEMMA StoredBounds ==
  ASSUME Inv, NEW v \in -1 .. MaxTasks, StoreBottom(v), v <= End, End' = End
  PROVE  bottom' <= End' /\ \A k \in 1 .. Len(buffer') : buffer'[k] <= End'
<1>1. /\ bottom' = bottom
      /\ \A m \in Int : (\A k \in 1 .. Len(buffer) : buffer[k] <= m) /\ v <= m =>
           \A k \in 1 .. Len(buffer') : buffer'[k] <= m
  BY Stored DEF Inv
<1>2. End \in Int /\ bottom <= End /\ \A k \in 1 .. Len(buffer) : buffer[k] <= End
  BY Positions DEF Inv, BoundsInv
<1> QED
  BY <1>1, <1>2

LEMMA PopReserveStep == ASSUME Inv, PopReserve PROVE Kinds /\ Inv'
<1>1. /\ pc[Owner] = "idle" /\ pc' = [pc EXCEPT ![Owner] = "pop_fence"]
      /\ pc'[Owner] = "pop_fence" /\ b' = [b EXCEPT ![Owner] = OwnBottom - 1]
      /\ b'[Owner] = OwnBottom - 1 /\ StoreBottom(OwnBottom - 1)
      /\ UNCHANGED <<top, slots, t, item, histVars>>
  BY DEF PopReserve, Goto, Inv, TypeOK, Threads
<1>2. End = OwnBottom /\ End' = b'[Owner] + 1
  BY <1>1 DEF End, LogicalBottom
<1>3. OwnBottom - 1 \in -1 .. MaxTasks /\ OwnBottom - 1 <= End /\ End' = End
  <2>1. top <= End /\ top \in Nat /\ OwnBottom \in -1 .. MaxTasks /\ OwnBottom \in Int
    BY Positions DEF Inv, BoundsInv
  <2> QED
    BY <1>1, <1>2, <2>1, Sizes
<1>4. buffer' \in Seq(-1 .. MaxTasks) /\ bottom' = bottom /\ OwnBottom' = OwnBottom - 1
  BY <1>1, <1>3, Stored DEF Inv
<1>5. Kinds
  <2>1. InHand' = InHand /\ \A k \in Live : At(k)' = At(k)
    BY <1>1 DEF InHand, PushPcs, At, Slot, histVars
  <2> QED
    BY <1>1, <1>3, <2>1 DEF Kinds, Quiet, Same, histVars
<1>6. TypeOK'
  BY <1>1, <1>3, <1>4 DEF Inv, TypeOK, histVars
<1>7. OwnerInv'
  BY <1>1, <1>4 DEF OwnerInv, OwnerPcs, PushPcs
<1>8. \A p \in Thieves : UNCHANGED <<pc[p], t[p], item[p]>>
  BY <1>1, NotAThief DEF Inv, TypeOK
<1>9. bottom' <= End' /\ \A k \in 1 .. Len(buffer') : buffer'[k] <= End'
  BY <1>1, <1>3, StoredBounds
<1> QED
  BY <1>5, <1>6, <1>7, <1>8, <1>9, KindInv

LEMMA PopFenceStep == ASSUME Inv, PopFence PROVE Kinds /\ Inv'
<1>1. /\ pc[Owner] = "pop_fence" /\ pc' = [pc EXCEPT ![Owner] = "pop_load"]
      /\ pc'[Owner] = "pop_load" /\ bottom' = OwnBottom /\ buffer' = <<>>
      /\ UNCHANGED <<top, slots, localVars, histVars>>
  BY DEF PopFence, Goto, SeqCstFence, Drain, Inv, TypeOK, Threads
<1>2. /\ End = b[Owner] + 1 /\ End' = End /\ OwnBottom = b[Owner] /\ b[Owner] \in Int
      /\ OwnBottom \in -1 .. MaxTasks
  BY <1>1, Positions DEF End, LogicalBottom, Inv, OwnerInv, localVars
<1>3. Kinds
  <2>1. InHand' = InHand /\ \A k \in Live : At(k)' = At(k)
    BY <1>1 DEF InHand, PushPcs, At, Slot, histVars
  <2> QED
    BY <1>1, <1>2, <2>1 DEF Kinds, Quiet, Same, histVars
<1>4. TypeOK'
  BY <1>1, <1>2, EmptySeq DEF Inv, TypeOK, localVars, histVars
<1>5. OwnerInv'
  BY <1>1, <1>2 DEF OwnerInv, OwnerPcs, PushPcs, localVars
<1>6. \A p \in Thieves : UNCHANGED <<pc[p], t[p], item[p]>>
  BY <1>1, NotAThief DEF Inv, TypeOK, localVars
<1>7. bottom' <= End' /\ \A k \in 1 .. Len(buffer') : buffer'[k] <= End'
  BY <1>1, <1>2, EmptySeq
<1> QED
  BY <1>3, <1>4, <1>5, <1>6, <1>7, KindInv

LEMMA PopLoadStep == ASSUME Inv, PopLoad PROVE Kinds /\ Inv'
<1> DEFINE bb == b[Owner]
<1>1. /\ pc[Owner] = "pop_load" /\ t' = [t EXCEPT ![Owner] = top] /\ t'[Owner] = top
      /\ item' = [item EXCEPT ![Owner] = IF top = bb THEN slots[Slot(bb)] ELSE NoTask]
      /\ item'[Owner] = (IF top = bb THEN At(bb) ELSE NoTask)
      /\ UNCHANGED <<memVars, b, offered, inline>>
  BY DEF PopLoad, Goto, Inv, TypeOK, At, Threads
<1>2. /\ End = bb + 1 /\ buffer = <<>> /\ bottom = bb /\ OwnBottom = bb
      /\ bb \in Int /\ top \in Nat /\ top <= bb + 1
  BY <1>1, Positions DEF End, LogicalBottom, Inv, OwnerInv, BoundsInv, OwnBottom
<1>3. buffer' = <<>> /\ bottom' = bb /\ OwnBottom' = bb /\ top' = top /\ slots' = slots /\ b' = b
  BY <1>1, <1>2 DEF memVars, OwnBottom
<1>4. item' \in [Threads -> Values] /\ t' \in [Threads -> 0 .. MaxTasks]
  <2>1. top = bb => slots[Slot(bb)] \in Values
    BY <1>2, Slots DEF Inv, TypeOK
  <2>2. NoTask \in Values /\ top \in 0 .. MaxTasks
    BY DEF Values, Inv, TypeOK
  <2> QED
    BY <1>1, <2>1, <2>2 DEF Inv, TypeOK
<1>5. \A k \in Live : At(k)' = At(k)
  BY <1>3 DEF At, Slot
<1> HIDE DEF bb
<1>6. CASE top < bb
  <2>1. /\ pc' = [pc EXCEPT ![Owner] = "idle"] /\ pc'[Owner] = "idle"
        /\ taken' = taken \cup {At(bb)}
    BY <1>2, <1>6 DEF PopLoad, Goto, Take, At, Inv, TypeOK, Threads, bb
  <2>2. End' = bb
    BY <1>3, <2>1 DEF End, LogicalBottom
  <2>3. bb \in Live
    BY <1>2, <1>6 DEF Live
  <2>4. Kinds
    <3>1. InHand' = InHand
      BY <1>1, <2>1 DEF InHand, PushPcs
    <3>2. End - 1 = bb /\ End' = End - 1 /\ top < End - 1
      BY <1>2, <1>6, <2>2
    <3> QED
      BY <1>1, <1>3, <2>1, <3>1, <3>2 DEF Kinds, TakeLast
  <2>5. TypeOK'
    <3>1. At(bb) \in Values
      BY <2>3 DEF Inv, TaskInv, Values
    <3> QED
      BY <1>1, <1>2, <1>3, <1>4, <2>1, <3>1 DEF Inv, TypeOK
  <2>6. OwnerInv'
    BY <2>1 DEF OwnerInv, OwnerPcs, PushPcs
  <2>7. \A p \in Thieves : UNCHANGED <<pc[p], t[p], item[p]>>
    BY <1>1, <2>1, NotAThief DEF Inv, TypeOK
  <2>8. bottom' <= End' /\ \A k \in 1 .. Len(buffer') : buffer'[k] <= End'
    BY <1>2, <1>3, <2>2, EmptySeq
  <2> QED
    BY <2>4, <2>5, <2>6, <2>7, <2>8, KindInv
<1>7. CASE ~(top < bb)
  <2>1. /\ UNCHANGED taken
        /\ \/ top = bb /\ pc' = [pc EXCEPT ![Owner] = "pop_cas"] /\ pc'[Owner] = "pop_cas"
           \/ /\ top = bb + 1 /\ pc' = [pc EXCEPT ![Owner] = "pop_empty"]
              /\ pc'[Owner] = "pop_empty"
    BY <1>2, <1>7 DEF PopLoad, Goto, Inv, TypeOK, Threads, bb
  <2>2. End' = End
    BY <1>1, <1>2, <1>3, <2>1 DEF End, LogicalBottom, bb
  <2>3. Kinds
    <3>1. InHand' = InHand
      BY <1>1, <2>1 DEF InHand, PushPcs
    <3> QED
      BY <1>1, <1>3, <1>5, <2>1, <2>2, <3>1 DEF Kinds, Quiet, Same
  <2>4. TypeOK'
    BY <1>1, <1>2, <1>3, <1>4, <2>1 DEF Inv, TypeOK
  <2>5. OwnerInv'
    <3>1. top <= top
      BY <1>2
    <3> QED
      BY <1>1, <1>2, <1>3, <2>1, <3>1 DEF OwnerInv, OwnerPcs, PushPcs, At, Slot, bb
  <2>6. \A p \in Thieves : UNCHANGED <<pc[p], t[p], item[p]>>
    BY <1>1, <2>1, NotAThief DEF Inv, TypeOK
  <2>7. bottom' <= End' /\ \A k \in 1 .. Len(buffer') : buffer'[k] <= End'
    BY <1>2, <1>3, <2>2, EmptySeq
  <2> QED
    BY <2>3, <2>4, <2>5, <2>6, <2>7, KindInv
<1> QED
  BY <1>6, <1>7

LEMMA PopCasStep == ASSUME Inv, PopCas PROVE Kinds /\ Inv'
<1>1. /\ pc[Owner] = "pop_cas" /\ pc' = [pc EXCEPT ![Owner] = "pop_restore"]
      /\ pc'[Owner] = "pop_restore" /\ bottom' = OwnBottom /\ buffer' = <<>>
      /\ item' = [item EXCEPT ![Owner] = NoTask]
      /\ UNCHANGED <<slots, t, b, offered, inline>>
  BY DEF PopCas, Goto, Drain, Inv, TypeOK, Threads
<1>2. /\ t[Owner] = b[Owner] /\ item[Owner] = At(t[Owner]) /\ t[Owner] <= top
      /\ End = t[Owner] + 1 /\ End' = End /\ OwnBottom = b[Owner] /\ t[Owner] \in Nat
      /\ OwnBottom \in -1 .. MaxTasks
  BY <1>1, Positions DEF Inv, OwnerInv, End, LogicalBottom, OwnBottom
<1>3. \/ top = t[Owner] /\ top' = top + 1 /\ taken' = taken \cup {At(top)} /\ top < End
      \/ UNCHANGED <<top, taken>>
  BY <1>2 DEF PopCas, CasTop, Take
<1>4. Kinds
  <2>1. InHand' = InHand /\ \A k : At(k)' = At(k)
    BY <1>1 DEF InHand, PushPcs, At, Slot
  <2> QED
    BY <1>1, <1>2, <1>3, <2>1 DEF Kinds, Quiet, Same, TakeFirst
<1>5. TypeOK'
  <2>1. top' \in 0 .. MaxTasks /\ taken' \in SUBSET Values
    <3>1. CASE UNCHANGED <<top, taken>>
      BY <3>1 DEF Inv, TypeOK
    <3>2. CASE top' = top + 1 /\ taken' = taken \cup {At(top)} /\ top < End
      <4>1. top \in Live /\ top + 1 \in 0 .. MaxTasks
        <5>1. /\ top \in Nat /\ End \in Int /\ End <= offered /\ offered \in 0 .. MaxTasks
          BY Positions DEF Inv, BoundsInv, TypeOK
        <5> QED
          BY <3>2, <5>1, Sizes DEF Live
      <4>2. At(top) \in Values
        BY <4>1 DEF Inv, TaskInv, Values
      <4> QED
        BY <3>2, <4>1, <4>2 DEF Inv, TypeOK
    <3> QED
      BY <1>3, <3>1, <3>2
  <2>2. NoTask \in Values
    BY DEF Values
  <2> QED
    BY <1>1, <1>2, <2>1, <2>2, EmptySeq DEF Inv, TypeOK
<1>6. OwnerInv'
  BY <1>1 DEF OwnerInv, OwnerPcs, PushPcs
<1>7. \A p \in Thieves : UNCHANGED <<pc[p], t[p], item[p]>>
  BY <1>1, NotAThief DEF Inv, TypeOK
<1>8. bottom' <= End' /\ \A k \in 1 .. Len(buffer') : buffer'[k] <= End'
  BY <1>1, <1>2, EmptySeq
<1> QED
  BY <1>4, <1>5, <1>6, <1>7, <1>8, KindInv

\* the two ways back from a pop that did not take the last task for itself
LEMMA PopBack ==
  ASSUME Inv, pc[Owner] \in {"pop_restore", "pop_empty"}, StoreBottom(End),
         Goto(Owner, pc[Owner], "idle"),
         UNCHANGED <<top, slots, localVars, histVars>>
  PROVE  Kinds /\ Inv'
<1>1. pc' = [pc EXCEPT ![Owner] = "idle"] /\ pc'[Owner] = "idle"
  BY DEF Goto, Inv, TypeOK, Threads
<1>2. End \in -1 .. MaxTasks /\ End \in Int
  <2>1. top <= End /\ top \in Nat /\ End <= offered /\ offered \in 0 .. MaxTasks /\ End \in Int
    BY Positions DEF Inv, BoundsInv, TypeOK
  <2> QED
    BY <2>1, Sizes
<1>3. buffer' \in Seq(-1 .. MaxTasks) /\ bottom' = bottom /\ OwnBottom' = End
  BY <1>2, Stored DEF Inv
<1>4. End' = End
  BY <1>1, <1>3 DEF End, LogicalBottom
<1>5. Kinds
  <2>1. InHand' = InHand /\ \A k \in Live : At(k)' = At(k)
    BY <1>1 DEF InHand, PushPcs, At, Slot, histVars
  <2> QED
    BY <1>1, <1>4, <2>1 DEF Kinds, Quiet, Same, histVars
<1>6. TypeOK'
  BY <1>1, <1>3 DEF Inv, TypeOK, localVars, histVars
<1>7. OwnerInv'
  BY <1>1 DEF OwnerInv, OwnerPcs, PushPcs
<1>8. \A p \in Thieves : UNCHANGED <<pc[p], t[p], item[p]>>
  BY <1>1, NotAThief DEF Inv, TypeOK, localVars
<1>9. bottom' <= End' /\ \A k \in 1 .. Len(buffer') : buffer'[k] <= End'
  BY <1>2, <1>4, StoredBounds
<1> QED
  BY <1>5, <1>6, <1>7, <1>8, <1>9, KindInv

LEMMA PopRestoreStep == ASSUME Inv, PopRestore PROVE Kinds /\ Inv'
<1>1. pc[Owner] = "pop_restore" /\ End = t[Owner] + 1
  BY DEF PopRestore, Goto, End, LogicalBottom
<1> QED
  BY <1>1, PopBack DEF PopRestore

LEMMA PopEmptyStep == ASSUME Inv, PopEmpty PROVE Kinds /\ Inv'
<1>1. pc[Owner] = "pop_empty" /\ End = t[Owner]
  BY DEF PopEmpty, Goto, End, LogicalBottom
<1> QED
  BY <1>1, PopBack DEF PopEmpty

\* the oldest store reaches the memory
LEMMA FlushStep == ASSUME Inv, Flush PROVE Kinds /\ Inv'
<1>1. /\ buffer # <<>> /\ bottom' = Head(buffer) /\ buffer' = Tail(buffer)
      /\ UNCHANGED <<top, slots, pc, localVars, histVars>> /\ buffer \in Seq(-1 .. MaxTasks)
  BY DEF Flush, Inv, TypeOK
<1>2. /\ Head(buffer) = buffer[1] /\ Len(buffer) \in Nat /\ Len(buffer) >= 1
      /\ Tail(buffer) \in Seq(-1 .. MaxTasks) /\ Len(Tail(buffer)) = Len(buffer) - 1
      /\ \A k \in 1 .. Len(buffer) - 1 : Tail(buffer)[k] = buffer[k + 1]
      /\ buffer[1] \in -1 .. MaxTasks
  <2>1. Len(buffer) \in Nat /\ Len(buffer) >= 1 /\ Head(buffer) = buffer[1]
    BY <1>1
  <2>2. /\ Tail(buffer) \in Seq(-1 .. MaxTasks) /\ Len(Tail(buffer)) = Len(buffer) - 1
        /\ \A k \in 1 .. Len(Tail(buffer)) : Tail(buffer)[k] = buffer[k + 1]
        /\ Head(buffer) \in -1 .. MaxTasks
    BY <1>1, HeadTailProperties
  <2> QED
    BY <2>1, <2>2
<1>3. OwnBottom' = OwnBottom
  <2>1. CASE Len(buffer) = 1
    <3>1. buffer' = <<>>
      BY <1>1, <1>2, <2>1, EmptySeq
    <3> QED
      BY <1>1, <1>2, <2>1, <3>1 DEF OwnBottom
  <2>2. CASE Len(buffer) # 1
    <3>1. Len(buffer) - 1 \in 1 .. Len(buffer) - 1 /\ Len(buffer') = Len(buffer) - 1
      BY <1>1, <1>2, <2>2
    <3>2. buffer'[Len(buffer')] = buffer[(Len(buffer) - 1) + 1]
      BY <1>1, <1>2, <3>1
    <3>3. buffer' # <<>> /\ (Len(buffer) - 1) + 1 = Len(buffer)
      BY <1>2, <3>1, EmptySeq
    <3> QED
      BY <1>1, <3>2, <3>3 DEF OwnBottom
  <2> QED
    BY <2>1, <2>2
<1>4. End' = End
  BY <1>1, <1>3 DEF End, LogicalBottom, localVars
<1>5. Kinds
  <2>1. InHand' = InHand /\ \A k \in Live : At(k)' = At(k)
    BY <1>1 DEF InHand, PushPcs, At, Slot, histVars
  <2> QED
    BY <1>1, <1>4, <2>1 DEF Kinds, Quiet, Same, histVars
<1>6. TypeOK'
  BY <1>1, <1>2 DEF Inv, TypeOK, localVars, histVars
<1>7. OwnerInv'
  <2>1. pc[Owner] \notin {"pop_load", "pop_cas"}
    BY <1>1 DEF Inv, OwnerInv
  <2> QED
    BY <1>1, <1>3, <1>4, <2>1 DEF Inv, OwnerInv, At, Slot, localVars, histVars
<1>8. \A p \in Thieves : UNCHANGED <<pc[p], t[p], item[p]>>
  BY <1>1 DEF localVars
<1>9. bottom' <= End' /\ \A k \in 1 .. Len(buffer') : buffer'[k] <= End'
  BY <1>1, <1>2, <1>4 DEF Inv, BoundsInv
<1> QED
  BY <1>5, <1>6, <1>7, <1>8, <1>9, KindInv

-----------------------------------------------------------------------------
(* The steps of the thieves. *)

\* the owner and the stores to bottom have no part in them
LEMMA ThiefMoves ==
  ASSUME Inv, UNCHANGED <<bottom, slots, buffer, offered, inline>>,
         UNCHANGED <<pc[Owner], t[Owner], b[Owner], item[Owner]>>,
         top' \in {top, top + 1}
  PROVE  /\ End' = End /\ InHand' = InHand /\ OwnerInv' /\ \A k : At(k)' = At(k)
         /\ bottom' <= End' /\ \A k \in 1 .. Len(buffer') : buffer'[k] <= End'
<1>1. OwnBottom' = OwnBottom
  BY DEF OwnBottom
<1>2. End' = End
  BY <1>1 DEF End, LogicalBottom
<1>3. InHand' = InHand /\ \A k : At(k)' = At(k)
  BY DEF InHand, At, Slot
<1>4. OwnerInv'
  <2>1. /\ top \in Nat /\ t[Owner] \in Nat /\ End \in Int
    BY Positions DEF Inv
  <2>2. (End - top < Capacity => End - top' < Capacity) /\ (t[Owner] <= top => t[Owner] <= top')
    <3>1. CASE top' = top
      BY <2>1, <3>1
    <3>2. CASE top' = top + 1
      BY <2>1, <3>2, Sizes
    <3> QED
      BY <3>1, <3>2
  <2>3. \A k : At(k)' = At(k)
    BY <1>3
  <2> QED
    BY <1>1, <1>2, <2>2, <2>3 DEF Inv, OwnerInv
<1> QED
  BY <1>2, <1>3, <1>4 DEF Inv, BoundsInv

LEMMA ThiefSteps == ASSUME Inv, NEW p \in Thieves, ThiefStep(p) PROVE Kinds /\ Inv'
<1> USE DEF Inv
<1>1. /\ p # Owner /\ p \in Threads /\ top \in Nat /\ top \in 0 .. MaxTasks /\ End \in Int
      /\ bottom \in Int /\ t[p] \in Nat /\ bottom <= End /\ ThiefOK(p)
  <2>1. p # Owner /\ p \in Threads
    BY NotAThief
  <2>2. t[p] \in 0 .. MaxTasks /\ top \in 0 .. MaxTasks
    BY <2>1 DEF TypeOK
  <2>3. t[p] \in Nat
    BY <2>2, Sizes
  <2> QED
    BY <2>1, <2>2, <2>3, Positions DEF BoundsInv, ThiefInv
<1>2. CASE StealTop(p)
  <2>1. /\ pc' = [pc EXCEPT ![p] = "steal_bottom"] /\ t' = [t EXCEPT ![p] = top]
        /\ UNCHANGED <<bottom, top, slots, buffer, b, item, offered, taken, inline>>
    BY <1>2 DEF StealTop, Goto, memVars, histVars
  <2>2. /\ UNCHANGED <<pc[Owner], t[Owner], b[Owner], item[Owner]>>
        /\ pc'[p] = "steal_bottom" /\ t'[p] = top
        /\ \A q \in Thieves : q # p => UNCHANGED <<pc[q], t[q], item[q]>>
    BY <1>1, <2>1, NotAThief DEF TypeOK
  <2>3. /\ End' = End /\ InHand' = InHand /\ OwnerInv' /\ \A k : At(k)' = At(k)
        /\ bottom' <= End' /\ \A k \in 1 .. Len(buffer') : buffer'[k] <= End'
    BY <2>1, <2>2, ThiefMoves
  <2>4. Kinds
    BY <2>1, <2>3 DEF Kinds, Quiet, Same
  <2>5. TypeOK'
    BY <1>1, <2>1 DEF TypeOK
  <2>6. ThiefOK(p)'
    BY <1>1, <2>1, <2>2 DEF ThiefOK, ThiefPcs
  <2> QED
    BY <2>2, <2>3, <2>4, <2>5, <2>6, KindInv
<1>3. CASE StealBottom(p)
  <2>1. /\ pc' = [pc EXCEPT ![p] = IF t[p] >= bottom THEN "idle" ELSE "steal_read"]
        /\ pc[p] = "steal_bottom" /\ b' = [b EXCEPT ![p] = bottom]
        /\ UNCHANGED <<bottom, top, slots, buffer, t, item, offered, taken, inline>>
    BY <1>3 DEF StealBottom, Goto, memVars, histVars
  <2>2. /\ UNCHANGED <<pc[Owner], t[Owner], b[Owner], item[Owner]>>
        /\ pc'[p] = (IF t[p] >= bottom THEN "idle" ELSE "steal_read")
        /\ \A q \in Thieves : q # p => UNCHANGED <<pc[q], t[q], item[q]>>
    BY <1>1, <2>1, NotAThief DEF TypeOK
  <2>3. /\ End' = End /\ InHand' = InHand /\ OwnerInv' /\ \A k : At(k)' = At(k)
        /\ bottom' <= End' /\ \A k \in 1 .. Len(buffer') : buffer'[k] <= End'
    BY <2>1, <2>2, ThiefMoves
  <2>4. Kinds
    BY <2>1, <2>3 DEF Kinds, Quiet, Same
  <2>5. TypeOK'
    BY <1>1, <2>1 DEF TypeOK
  <2>6. ThiefOK(p)'
    <3>1. CASE t[p] >= bottom
      BY <2>2, <3>1 DEF ThiefOK, ThiefPcs
    <3>2. CASE ~(t[p] >= bottom)
      <4>1. t[p] < End /\ t[p] <= top
        BY <1>1, <2>1, <3>2 DEF ThiefOK
      <4> QED
        BY <2>1, <2>2, <2>3, <3>2, <4>1 DEF ThiefOK, ThiefPcs
    <3> QED
      BY <3>1, <3>2
  <2> QED
    BY <2>2, <2>3, <2>4, <2>5, <2>6, KindInv
<1>4. CASE StealRead(p)
  <2>1. /\ pc' = [pc EXCEPT ![p] = "steal_cas"] /\ pc[p] = "steal_read"
        /\ item' = [item EXCEPT ![p] = slots[Slot(t[p])]]
        /\ UNCHANGED <<bottom, top, slots, buffer, t, b, offered, taken, inline>>
    BY <1>4 DEF StealRead, Goto, memVars, histVars
  <2>2. /\ UNCHANGED <<pc[Owner], t[Owner], b[Owner], item[Owner]>>
        /\ pc'[p] = "steal_cas" /\ item'[p] = At(t[p])
        /\ \A q \in Thieves : q # p => UNCHANGED <<pc[q], t[q], item[q]>>
    BY <1>1, <2>1, NotAThief DEF TypeOK, At
  <2>3. /\ End' = End /\ InHand' = InHand /\ OwnerInv' /\ \A k : At(k)' = At(k)
        /\ bottom' <= End' /\ \A k \in 1 .. Len(buffer') : buffer'[k] <= End'
    BY <2>1, <2>2, ThiefMoves
  <2>4. Kinds
    BY <2>1, <2>3 DEF Kinds, Quiet, Same
  <2>5. TypeOK'
    <3>1. slots[Slot(t[p])] \in Values
      BY <1>1, Slots DEF TypeOK
    <3> QED
      BY <1>1, <2>1, <3>1 DEF TypeOK
  <2>6. ThiefOK(p)'
    BY <1>1, <2>1, <2>2, <2>3 DEF ThiefOK, ThiefPcs
  <2> QED
    BY <2>2, <2>3, <2>4, <2>5, <2>6, KindInv
<1>5. CASE StealCas(p)
  <2>1. /\ pc' = [pc EXCEPT ![p] = "idle"] /\ pc[p] = "steal_cas"
        /\ item' = [item EXCEPT ![p] = NoTask]
        /\ UNCHANGED <<bottom, slots, buffer, t, b, offered, inline>>
        /\ \/ top = t[p] /\ top' = top + 1 /\ taken' = taken \cup {item[p]}
           \/ UNCHANGED <<top, taken>>
    BY <1>5 DEF StealCas, Goto, CasTop, Take
  <2>2. /\ UNCHANGED <<pc[Owner], t[Owner], b[Owner], item[Owner]>>
        /\ pc'[p] = "idle"
        /\ \A q \in Thieves : q # p => UNCHANGED <<pc[q], t[q], item[q]>>
    BY <1>1, <2>1, NotAThief DEF TypeOK
  <2>3. /\ End' = End /\ InHand' = InHand /\ OwnerInv' /\ \A k : At(k)' = At(k)
        /\ bottom' <= End' /\ \A k \in 1 .. Len(buffer') : buffer'[k] <= End'
    BY <2>1, <2>2, ThiefMoves
  \* if the compare_exchange succeeds, what was read is the first task
  <2>4. \/ top' = top + 1 /\ taken' = taken \cup {At(top)} /\ top < End
        \/ UNCHANGED <<top, taken>>
    BY <1>1, <2>1 DEF ThiefOK
  <2>5. Kinds
    BY <2>1, <2>3, <2>4 DEF Kinds, Quiet, Same, TakeFirst
  <2>6. TypeOK'
    <3>1. top' \in 0 .. MaxTasks /\ taken' \in SUBSET Values
      <4>1. CASE UNCHANGED <<top, taken>>
        BY <4>1 DEF TypeOK
      <4>2. CASE top' = top + 1 /\ taken' = taken \cup {At(top)} /\ top < End
        <5>1. top \in Live /\ top + 1 \in 0 .. MaxTasks
          <6>1. End <= offered /\ offered \in 0 .. MaxTasks
            BY DEF BoundsInv, TypeOK
          <6> QED
            BY <1>1, <4>2, <6>1, Sizes DEF Live
        <5>2. At(top) \in Values
          BY <5>1 DEF TaskInv, Values
        <5> QED
          BY <4>2, <5>1, <5>2 DEF TypeOK
      <4> QED
        BY <2>4, <4>1, <4>2
    <3>2. NoTask \in Values
      BY DEF Values
    <3> QED
      BY <1>1, <2>1, <3>1, <3>2 DEF TypeOK
  <2>7. ThiefOK(p)'
    BY <2>2 DEF ThiefOK, ThiefPcs
  <2> QED
    BY <2>2, <2>3, <2>5, <2>6, <2>7, KindInv
<1> QED
  BY <1>2, <1>3, <1>4, <1>5 DEF ThiefStep

-----------------------------------------------------------------------------
(* The invariant holds, and every step is of one of the kinds. *)

LEMMA InitInv == Init => Inv
<1> SUFFICES ASSUME Init PROVE Inv
  OBVIOUS
<1>1. End = 0 /\ OwnBottom = 0
  BY DEF Init, End, LogicalBottom, OwnBottom, Threads
<1>2. Live = {} /\ InHand = {}
  BY <1>1 DEF Init, Live, InHand, PushPcs, Threads
<1>3. TypeOK
  BY Sizes, EmptySeq DEF Init, TypeOK, Values
<1>4. BoundsInv
  BY <1>1, Sizes, EmptySeq DEF Init, BoundsInv
<1>5. OwnerInv /\ ThiefInv
  BY NotAThief DEF Init, OwnerInv, OwnerPcs, PushPcs, ThiefInv, ThiefOK, ThiefPcs, Threads
<1>6. TaskInv
  BY <1>2 DEF Init, TaskInv
<1> QED
  BY <1>3, <1>4, <1>5, <1>6 DEF Inv

LEMMA Steps == ASSUME Inv, [Next]_vars PROVE Kinds /\ Inv'
<1>1. CASE OwnerStep
  BY <1>1, PushCheckStep, PushWriteStep, PushWrittenStep, PushPublishStep, PopReserveStep,
     PopFenceStep, PopLoadStep, PopCasStep, PopRestoreStep, PopEmptyStep DEF OwnerStep
<1>2. CASE UNCHANGED vars
  <2> USE <1>2 DEF vars, memVars, localVars, histVars
  <2>1. OwnBottom' = OwnBottom
    BY DEF OwnBottom
  <2>2. End' = End
    BY <2>1 DEF End, LogicalBottom
  <2>3. Kinds
    BY <2>2 DEF Kinds, Quiet, Same, InHand, At, Slot
  <2>4. TypeOK'
    BY DEF Inv, TypeOK
  <2>5. OwnerInv'
    BY <2>1, <2>2 DEF Inv, OwnerInv, At, Slot
  <2> QED
    BY <2>2, <2>3, <2>4, <2>5, KindInv DEF Inv, BoundsInv
<1> QED
  BY <1>1, <1>2, FlushStep, ThiefSteps DEF Next

LEMMA Invariant == Spec => []Inv
<1>1. Inv /\ [Next]_vars => Inv'
  BY Steps
<1> QED
  BY <1>1, InitInv, PTL DEF Spec

(* Positions, slots and locals stay in range; bottom is never more than one  *)
(* below zero, in memory or in the buffer.                                   *)
THEOREM TypeCorrect == Spec => []TypeOK
<1>1. Inv => TypeOK
  BY DEF Inv
<1> QED
  BY <1>1, Invariant, PTL

-----------------------------------------------------------------------------
(* Nothing is lost. *)

\* the tasks from one position to another are a sequence
LEMMA Window ==
  ASSUME NEW lo \in Int, NEW hi \in Int, lo <= hi, NEW f,
         \A k \in lo .. hi - 1 : f[Slot(k)] \in Tasks
  PROVE  LET w == [i \in 1 .. hi - lo |-> f[Slot(lo + i - 1)]] IN
         /\ w \in Seq(Tasks) /\ Len(w) = hi - lo /\ DOMAIN w = 1 .. hi - lo
         /\ \A i \in 1 .. hi - lo : w[i] = f[Slot(lo + i - 1)]
<1> DEFINE n == hi - lo
           w == [i \in 1 .. n |-> f[Slot(lo + i - 1)]]
<1>1. n \in Nat
  OBVIOUS
<1>2. ASSUME NEW i \in 1 .. n PROVE f[Slot(lo + i - 1)] \in Tasks
  <2>1. lo + i - 1 \in lo .. hi - 1
    OBVIOUS
  <2> QED
    BY <2>1
<1>3. w \in [1 .. n -> Tasks]
  BY <1>2
<1> HIDE DEF n
<1>4. w \in Seq(Tasks) /\ Len(w) = n
  BY <1>1, <1>3
<1> QED
  BY <1>1, <1>4 DEF n

LEMMA ContentIs ==
  ASSUME Inv
  PROVE  /\ Content \in Seq(Tasks) /\ Len(Content) = End - top /\ DOMAIN Content = 1 .. End - top
         /\ \A i \in 1 .. End - top : Content[i] = At(top + i - 1)
<1>1. top \in Int /\ End \in Int /\ top <= End /\ \A k \in top .. End - 1 : slots[Slot(k)] \in Tasks
  BY Positions DEF Inv, BoundsInv, TaskInv, Live, At
<1> QED
  BY <1>1, Window DEF Content, End, At

(* Every task that was offered is in the deque, was handed out or went back  *)
(* to its owner, and a pop that fails leaves nothing behind, for any number  *)
(* of thieves and with the owner's stores to bottom under way.               *)
THEOREM NoTaskLost == Spec => []NothingLost
<1>1. ASSUME Inv PROVE NothingLost
  <2> DEFINE here == {Content[i] : i \in DOMAIN Content}
  <2>1. top \in Nat /\ End \in Int /\ top <= End /\ offered \in Nat
    BY <1>1, Positions DEF Inv, BoundsInv
  <2>2. here = {At(k) : k \in Live}
    <3>1. ASSUME NEW k \in Live PROVE At(k) \in here
      <4>1. k - top + 1 \in 1 .. End - top /\ top + (k - top + 1) - 1 = k
        BY <2>1 DEF Live
      <4>2. Content[k - top + 1] = At(top + (k - top + 1) - 1)
        BY <1>1, <4>1, ContentIs
      <4>3. Content[k - top + 1] = At(k)
        BY <4>1, <4>2
      <4> QED
        BY <1>1, <4>1, <4>3, ContentIs
    <3>2. ASSUME NEW i \in DOMAIN Content PROVE Content[i] \in {At(k) : k \in Live}
      <4>1. i \in 1 .. End - top /\ Content[i] = At(top + i - 1)
        BY <1>1, <3>2, ContentIs
      <4>2. top + i - 1 \in Live
        BY <2>1, <4>1 DEF Live
      <4> QED
        BY <4>1, <4>2
    <3> QED
      BY <3>1, <3>2
  <2>3. TaskInv /\ OwnerInv
    BY <1>1 DEF Inv
  <2>4. InHand = IF pc[Owner] \in PushPcs THEN {item[Owner]} ELSE {}
    BY <2>3 DEF OwnerInv, InHand
  <2>5. /\ here \cup InHand \cup taken \cup inline = 1 .. offered
        /\ here \cap taken = {} /\ inline \cap (here \cup taken) = {}
    <3>1. \A k \in Live : At(k) \in 1 .. offered
      BY <2>1, <2>3, Sizes DEF TaskInv, Tasks
    <3> HIDE DEF here
    <3> QED
      BY <2>2, <2>3, <3>1 DEF TaskInv
  <2>6. ASSUME pc[Owner] = "pop_empty" \/ (pc[Owner] = "pop_cas" /\ top # t[Owner])
        PROVE  taken \cup inline = 1 .. offered
    <3>1. End <= top
      <4>1. t[Owner] \in Nat /\ t[Owner] <= top
        BY <1>1, <2>3, <2>6, Positions DEF Inv, OwnerInv
      <4>2. CASE pc[Owner] = "pop_empty"
        BY <4>1, <4>2 DEF End, LogicalBottom
      <4>3. CASE pc[Owner] = "pop_cas" /\ top # t[Owner]
        <5>1. End = t[Owner] + 1
          BY <2>3, <4>3 DEF End, LogicalBottom, OwnerInv
        <5> QED
          BY <2>1, <4>1, <4>3, <5>1
      <4> QED
        BY <2>6, <4>2, <4>3
    <3>2. here = {} /\ InHand = {}
      BY <2>1, <2>2, <2>6, <3>1 DEF Live, InHand, PushPcs
    <3> QED
      BY <2>5, <3>2
  <2> QED
    BY <2>4, <2>5, <2>6 DEF NothingLost, PushPcs
<1> QED
  BY <1>1, Invariant, PTL

-----------------------------------------------------------------------------
(* The deque implements TaskDeque. *)

LEMMA KindImplements ==
  ASSUME Inv, Inv', Kinds
  PROVE  [Abstract!Next]_(Abstract!vars)
<1>1. /\ Content \in Seq(Tasks) /\ Len(Content) = End - top
      /\ \A i \in 1 .. End - top : Content[i] = At(top + i - 1)
  BY ContentIs
<1>2. top \in Nat /\ End \in Int /\ top <= End /\ TaskInv
  BY Positions DEF Inv, BoundsInv
<1>3. /\ Content' \in Seq(Tasks) /\ Len(Content') = End' - top'
      /\ \A i \in 1 .. End' - top' : Content'[i] = slots'[Slot(top' + i - 1)]
  <2>1. /\ top' \in Int /\ End' \in Int /\ top' <= End'
        /\ \A k \in top' .. End' - 1 : slots'[Slot(k)] \in Tasks
    BY KindBounds DEF Inv, TaskInv, Live, At, Slot
  <2> QED
    BY <2>1, Window DEF Content, End, Slot
<1>4. CASE Quiet \/ Offer
  <2>1. Same
    BY <1>4 DEF Quiet, Offer
  <2>2. \A i \in 1 .. Len(Content) : Content'[i] = Content[i]
    <3>1. ASSUME NEW i \in 1 .. Len(Content) PROVE Content'[i] = Content[i]
      <4>1. top + i - 1 \in Live /\ i \in 1 .. End - top
        BY <1>1, <1>2 DEF Live
      <4> QED
        BY <1>1, <1>3, <2>1, <4>1 DEF Same, At, Slot
    <3> QED
      BY <3>1
  <2>3. Content' = Content
    BY <1>1, <1>3, <2>1, <2>2, SeqEqual DEF Same
  <2> QED
    BY <2>1, <2>3 DEF Same, Abstract!vars
<1>5. CASE Publish
  <2>1. offered \in Tasks
    BY <1>2, <1>5, Sizes DEF Publish, TaskInv, Inv, TypeOK, Tasks
  <2>2. /\ Append(Content, offered) \in Seq(Tasks)
        /\ Len(Append(Content, offered)) = Len(Content) + 1
        /\ \A i \in 1 .. Len(Content) : Append(Content, offered)[i] = Content[i]
        /\ Append(Content, offered)[Len(Content) + 1] = offered
    BY <1>1, <2>1, AppendProperties
  <2>3. Len(Content') = Len(Content) + 1
    BY <1>1, <1>2, <1>3, <1>5 DEF Publish
  <2>4. ASSUME NEW i \in 1 .. Len(Content') PROVE Content'[i] = Append(Content, offered)[i]
    <3>1. Content'[i] = At(top + i - 1)
      BY <1>3, <1>5, <2>4 DEF Publish, At, Slot
    <3>2. CASE i = Len(Content) + 1
      <4>1. top + i - 1 = End
        BY <1>1, <1>2, <3>2
      <4> QED
        BY <1>5, <2>2, <3>1, <3>2, <4>1 DEF Publish
    <3>3. CASE i # Len(Content) + 1
      BY <1>1, <1>2, <2>2, <2>3, <3>1, <3>3
    <3> QED
      BY <3>2, <3>3
  <2>5. Content' = Append(Content, offered)
    BY <1>3, <2>2, <2>3, <2>4, SeqEqual
  <2>6. Abstract!PushBottom(offered)
    BY <1>1, <1>5, <2>5 DEF Publish, Abstract!PushBottom
  <2> QED
    BY <2>1, <2>6 DEF Abstract!Next
<1>6. CASE TakeLast
  <2> DEFINE n == Len(Content) - 1
  <2>1. n \in Nat /\ n >= 1 /\ n + 1 = Len(Content) /\ Len(Content') = n /\ Content # <<>>
    BY <1>1, <1>2, <1>3, <1>6, EmptySeq DEF TakeLast
  <2>2. \A i \in 1 .. n : Content[i] \in Tasks
    BY <1>1, <2>1
  <2> HIDE DEF n
  <2>3. /\ SubSeq(Content, 1, n) \in Seq(Tasks)
        /\ Len(SubSeq(Content, 1, n)) = (IF 1 <= n THEN n - 1 + 1 ELSE 0)
        /\ \A i \in 1 .. n - 1 + 1 : SubSeq(Content, 1, n)[i] = Content[1 + i - 1]
    BY <2>1, <2>2, SubSeqProperties
  <2>4. Len(SubSeq(Content, 1, n)) = n /\ \A i \in 1 .. n : SubSeq(Content, 1, n)[i] = Content[i]
    <3>1. n - 1 + 1 = n /\ \A i \in 1 .. n : 1 + i - 1 = i
      BY <2>1
    <3> QED
      BY <2>1, <2>3, <3>1
  <2>5. \A i \in 1 .. n : Content'[i] = Content[i]
    BY <1>1, <1>3, <1>6, <2>1 DEF TakeLast, At, Slot
  <2>6. Content' = SubSeq(Content, 1, n)
    BY <1>3, <2>1, <2>3, <2>4, <2>5, SeqEqual
  <2>7. Content[Len(Content)] = At(End - 1)
    <3>1. Len(Content) \in 1 .. End - top /\ top + Len(Content) - 1 = End - 1
      BY <1>1, <1>2, <2>1
    <3> QED
      BY <1>1, <3>1
  <2>8. Abstract!PopBottom
    BY <1>6, <2>1, <2>6, <2>7 DEF TakeLast, Abstract!PopBottom, n
  <2> QED
    BY <2>8 DEF Abstract!Next
<1>7. CASE TakeFirst
  <2>1. Content # <<>> /\ Len(Content') = Len(Content) - 1 /\ Len(Content) \in Nat
    BY <1>1, <1>2, <1>3, <1>7, EmptySeq DEF TakeFirst
  <2>2. /\ Head(Content) = Content[1] /\ Tail(Content) \in Seq(Tasks)
        /\ Len(Tail(Content)) = Len(Content) - 1
        /\ \A i \in 1 .. Len(Tail(Content)) : Tail(Content)[i] = Content[i + 1]
    BY <1>1, <2>1, HeadTailProperties
  <2>3. ASSUME NEW i \in 1 .. Len(Content') PROVE Content'[i] = Tail(Content)[i]
    <3>1. i + 1 \in 1 .. End - top /\ top + 1 + i - 1 = top + (i + 1) - 1
      BY <1>1, <1>2, <2>1, <2>3
    <3>2. Content'[i] = At(top + 1 + i - 1)
      BY <1>3, <1>7, <2>3 DEF TakeFirst, At, Slot
    <3> QED
      BY <1>1, <2>1, <2>2, <3>1, <3>2
  <2>4. Content' = Tail(Content)
    BY <1>3, <2>1, <2>2, <2>3, SeqEqual
  <2>5. Head(Content) = At(top)
    <3>1. 1 \in 1 .. End - top /\ top + 1 - 1 = top
      BY <1>2, <1>7 DEF TakeFirst
    <3> QED
      BY <1>1, <2>2, <3>1
  <2>6. Abstract!StealTop
    BY <1>7, <2>1, <2>4, <2>5 DEF TakeFirst, Abstract!StealTop
  <2> QED
    BY <2>6 DEF Abstract!Next
<1> QED
  BY <1>4, <1>5, <1>6, <1>7 DEF Kinds

(* The deque is linearizable, for any number of thieves: on the tasks that   *)
(* are published, less a reservation not yet settled, every step is one of   *)
(* TaskDeque or changes nothing. A speculative read of a slot that is being  *)
(* written is never the task of a steal that succeeds.                       *)
THEOREM DequeLinearizable == Spec => Linearizable
<1>1. ASSUME Init PROVE Abstract!Init
  <2>1. Inv /\ End = 0 /\ top = 0
    BY <1>1, InitInv DEF Init, End, LogicalBottom, OwnBottom, Threads
  <2>2. Content \in Seq(Tasks) /\ Len(Content) = 0
    BY <2>1, ContentIs
  <2>3. Content = <<>>
    BY <2>2, EmptySeq
  <2> QED
    BY <1>1, <2>3 DEF Init, Abstract!Init
<1>2. Inv /\ Inv' /\ [Next]_vars => [Abstract!Next]_(Abstract!vars)
  BY Steps, KindImplements
<1> QED
  BY <1>1, <1>2, Invariant, PTL DEF Spec, Linearizable, Abstract!Spec
=============================================================================
