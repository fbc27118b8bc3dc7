-------------------------- MODULE PerWorkerProofs --------------------------
(***************************************************************************)
(* Proofs about the PerWorker queue policy in a fold, for every number of  *)
(* workers, every width of the mask and every capacity, under each wake    *)
(* policy: its types, that each task runs once, and that no thread sleeps  *)
(* or leaves on a deque with tasks.                                        *)
(***************************************************************************)
EXTENDS PerWorker, FiniteSetTheorems, SequenceTheorems, WellFoundedInduction, TLAPS

Walking == {"walk", "set_bit", "notify"}
Depths == 1 .. MaxTasks + 1

\* the walks that are not over, and the tasks that wait in a deque
Walks == {w \in Threads \X Depths : w[2] <= depth[w[1]]}
Queued == {x \in Tasks : x <= pushed /\ runs[x] = 0}

-----------------------------------------------------------------------------
(* The invariant. *)

\* a task is in one place of one deque until it runs
PlaceInv ==
  /\ \A x \in Tasks : runs[x] \in {0, 1} /\ (x > pushed => runs[x] = 0)
  /\ \A i \in Threads : \A k \in 1 .. Len(deque[i]) : deque[i][k] \in Queued
  /\ \A i, j \in Threads : \A k \in 1 .. Len(deque[i]), l \in 1 .. Len(deque[j]) :
       deque[i][k] = deque[j][l] => i = j /\ k = l
  /\ \A x \in Queued : \E i \in Threads : \E k \in 1 .. Len(deque[i]) : deque[i][k] = x

\* a thread looks elsewhere with its own deque empty
LoopInv ==
  /\ \A i \in Threads : pc[i] \in Walking <=> depth[i] > 0
  /\ \A i \in Threads : pc[i] \notin Walking \cup {"acquire"} => deque[i] = <<>>
  /\ \A i \in Threads : pc[i] \in {"steal", "clear"} => bits[i] # {}

\* the fold is over when nothing is left, and not before
CountInv ==
  /\ unfinished = Cardinality(Walks) + Cardinality(Queued)
  /\ unfinished <= pushed + 1
  /\ done => unfinished = 0
  /\ \A i \in Threads : wake_state[i] + (IF pc[i] \in {"set_bit", "notify"} THEN 1 ELSE 0) <= pushed

Inv == TypeOK /\ PlaceInv /\ LoopInv /\ CountInv

-----------------------------------------------------------------------------
(* Facts about threads, sequences and counts. *)

\* what the constants are, and that bits are threads' numbers
LEMMA Constants ==
  /\ Workers \in Nat /\ Workers >= 1 /\ Capacity \in Nat /\ Capacity >= 1 /\ MaxTasks \in Nat
  /\ K \in Nat /\ K >= 1 /\ Caller \in Threads /\ Threads \subseteq Nat
  /\ TypeOK => \A i \in Threads : Bit(i) \in Threads
<1>1. /\ Workers \in Nat /\ Workers >= 1 /\ Capacity \in Nat /\ Capacity >= 1 /\ MaxTasks \in Nat
      /\ K \in Nat /\ K >= 1 /\ Caller \in Threads /\ Threads \subseteq Nat
  BY PerWorkerAssumption DEF Caller, Threads
<1>2. ASSUME TypeOK, NEW i \in Threads PROVE Bit(i) \in Threads
  <2>1. width \in Nat /\ width >= 1 /\ i \in Nat /\ i <= Workers
    BY <1>1, <1>2, PerWorkerAssumption DEF TypeOK, Threads
  <2>2. i % width \in Nat /\ i % width <= i
    BY <2>1
  <2> QED
    BY <1>1, <2>1, <2>2 DEF Bit, Threads
<1> QED
  BY <1>1, <1>2

\* the number of tasks
LEMMA TaskNumbers == Tasks \subseteq Nat /\ \A n \in Nat : n + 1 <= MaxTasks => n + 1 \in Tasks
BY Constants DEF Tasks

\* the owner's end of a deque
LEMMA PopEnd ==
  ASSUME NEW T, NEW s \in Seq(T), s # <<>>
  PROVE  /\ Front(s) \in Seq(T) /\ Len(Front(s)) = Len(s) - 1 /\ Len(s) >= 1
         /\ \A k \in 1 .. Len(s) - 1 : Front(s)[k] = s[k]
         /\ Last(s) = s[Len(s)] /\ Last(s) \in T
<1> DEFINE n == Len(s) - 1
<1>1. Len(s) \in Nat /\ Len(s) >= 1 /\ \A k \in 1 .. Len(s) : s[k] \in T
  OBVIOUS
<1>2. n \in Int /\ n >= 0 /\ \A k \in 1 .. n : s[k] \in T
  BY <1>1
<1>3. Front(s) = SubSeq(s, 1, n)
  BY DEF Front
<1> HIDE DEF n
<1>4. /\ SubSeq(s, 1, n) \in Seq(T)
      /\ Len(SubSeq(s, 1, n)) = (IF 1 <= n THEN n - 1 + 1 ELSE 0)
      /\ \A k \in 1 .. n - 1 + 1 : SubSeq(s, 1, n)[k] = s[1 + k - 1]
  BY <1>2, SubSeqProperties
<1>5. Len(Front(s)) = n /\ \A k \in 1 .. n : Front(s)[k] = s[k]
  <2>1. n - 1 + 1 = n /\ \A k \in 1 .. n : 1 + k - 1 = k
    BY <1>2
  <2> QED
    BY <1>2, <1>3, <1>4, <2>1
<1> QED
  BY <1>1, <1>3, <1>4, <1>5 DEF Last, n

\* the thieves' end
LEMMA StealEnd ==
  ASSUME NEW T, NEW s \in Seq(T), s # <<>>
  PROVE  /\ Tail(s) \in Seq(T) /\ Len(Tail(s)) = Len(s) - 1 /\ Len(s) >= 1
         /\ \A k \in 1 .. Len(s) - 1 : Tail(s)[k] = s[k + 1]
         /\ Head(s) = s[1] /\ Head(s) \in T
OBVIOUS

\* the sets that are counted are finite
LEMMA Finite ==
  ASSUME TypeOK
  PROVE  /\ IsFiniteSet(Walks) /\ Cardinality(Walks) \in Nat
         /\ IsFiniteSet(Queued) /\ Cardinality(Queued) \in Nat
<1>1. IsFiniteSet(Threads) /\ IsFiniteSet(Depths) /\ IsFiniteSet(Tasks)
  BY FS_Interval, Constants DEF Threads, Depths, Tasks
<1>2. IsFiniteSet(Threads \X Depths)
  BY <1>1, FS_Product
<1>3. Walks \in SUBSET (Threads \X Depths) /\ Queued \in SUBSET Tasks
  BY DEF Walks, Queued
<1> QED
  BY <1>1, <1>2, <1>3, FS_Subset, FS_CardinalityType

\* a thread has no more walks than there are
LEMMA DepthCounted ==
  ASSUME TypeOK, NEW i \in Threads
  PROVE  depth[i] <= Cardinality(Walks)
<1> DEFINE f == [d \in 1 .. depth[i] |-> <<i, d>>]
<1>1. depth[i] \in Nat /\ depth[i] <= MaxTasks + 1
  BY Constants DEF TypeOK
<1>2. f \in Injection(1 .. depth[i], Walks)
  BY <1>1, Constants DEF Injection, IsInjective, Walks, Depths
<1>3. Cardinality(1 .. depth[i]) <= Cardinality(Walks)
  BY <1>2, Finite, FS_Injection
<1>4. \A n \in Nat : Cardinality(1 .. n) = n
  BY FS_Interval
<1>5. Cardinality(1 .. depth[i]) = depth[i]
  BY <1>1, <1>4
<1> QED
  BY <1>3, <1>5

\* one walk more
LEMMA WalkStarts ==
  ASSUME TypeOK, TypeOK', NEW i \in Threads, depth' = [depth EXCEPT ![i] = @ + 1]
  PROVE  Cardinality(Walks') = Cardinality(Walks) + 1
<1>1. /\ depth[i] \in Nat /\ depth[i] + 1 \in Depths /\ depth'[i] = depth[i] + 1
      /\ \A j \in Threads : j # i => depth'[j] = depth[j]
  <2>1. /\ depth'[i] = depth[i] + 1 /\ \A j \in Threads : j # i => depth'[j] = depth[j]
        /\ depth[i] \in 0 .. MaxTasks + 1 /\ depth'[i] \in 0 .. MaxTasks + 1
    BY DEF TypeOK
  <2> QED
    BY <2>1, Constants DEF Depths
<1>2. <<i, depth[i] + 1>> \notin Walks
  BY <1>1 DEF Walks
<1>3. Walks' = Walks \cup {<<i, depth[i] + 1>>}
  BY <1>1, Constants DEF Walks, Depths
<1> QED
  BY <1>2, <1>3, Finite, FS_AddElement

\* one less
LEMMA WalkEnds ==
  ASSUME TypeOK, NEW i \in Threads, depth[i] > 0, depth' = [depth EXCEPT ![i] = @ - 1]
  PROVE  Cardinality(Walks') = Cardinality(Walks) - 1
<1>1. /\ depth[i] \in Depths /\ depth'[i] = depth[i] - 1
      /\ \A j \in Threads : j # i => depth'[j] = depth[j]
  BY Constants DEF TypeOK, Depths
<1>2. <<i, depth[i]>> \in Walks
  BY <1>1, Constants DEF Walks, Depths
<1>3. Walks' = Walks \ {<<i, depth[i]>>}
  BY <1>1, Constants DEF Walks, Depths
<1> QED
  BY <1>2, <1>3, Finite, FS_RemoveElement

\* one task less that waits
LEMMA TaskRuns ==
  ASSUME TypeOK, NEW x \in Queued
  PROVE  /\ Cardinality(Queued \ {x}) = Cardinality(Queued) - 1
         /\ Cardinality(Queued) \in Nat /\ Cardinality(Queued) >= 1
<1>1. IsFiniteSet(Queued) /\ Cardinality(Queued) \in Nat
  BY Finite
<1>2. Cardinality(Queued \ {x}) = Cardinality(Queued) - 1
  BY <1>1, FS_RemoveElement
<1>3. Cardinality(Queued) # 0
  BY <1>1, FS_EmptySet
<1> QED
  BY <1>1, <1>2, <1>3

\* nothing left: all deques are empty and nobody walks
LEMMA NothingLeft ==
  ASSUME Inv, done
  PROVE  \A i \in Threads : deque[i] = <<>> /\ depth[i] = 0
<1>1. Cardinality(Walks) = 0 /\ Cardinality(Queued) = 0
  BY Finite DEF Inv, CountInv
<1>2. Queued = {}
  BY <1>1, Finite, FS_EmptySet DEF Inv
<1>3. \A i \in Threads : Len(deque[i]) = 0
  BY <1>2 DEF Inv, TypeOK, PlaceInv
<1>4. \A i \in Threads : depth[i] <= 0
  BY <1>1, DepthCounted DEF Inv
<1>5. \A i \in Threads : deque[i] = <<>>
  BY <1>3 DEF Inv, TypeOK
<1>6. \A i \in Threads : depth[i] \in Nat
  BY Constants DEF Inv, TypeOK
<1> QED
  BY <1>4, <1>5, <1>6

\* trailing_zeros names one of the bits
LEMMA TargetBit ==
  ASSUME NEW i \in Threads, TypeOK, bits[i] # {}
  PROVE  Target(i) \in bits[i] /\ Target(i) \in Threads
<1>1. bits[i] \subseteq Threads /\ bits[i] \subseteq Nat
  BY Constants DEF TypeOK
<1>2. OpToRel(<, Nat) = {p \in Nat \X Nat : p[1] < p[2]}
  BY Zenon DEF OpToRel
<1>3. PICK m \in bits[i] : \A n \in bits[i] : m <= n
  <2> DEFINE R == {p \in Nat \X Nat : p[1] < p[2]}
  <2>1. IsWellFoundedOn(R, Nat)
    BY <1>2, NatLessThanWellFounded, Zenon
  <2> HIDE DEF R
  <2>2. PICK m \in bits[i] : \A n \in bits[i] : <<n, m>> \notin R
    BY <1>1, <2>1, WFMin
  <2>3. m \in Nat /\ \A n \in bits[i] : n \in Nat /\ ~(n < m)
    BY <1>1, <2>2 DEF R
  <2>4. \A n \in bits[i] : m <= n
    BY <2>3
  <2> QED
    BY <2>2, <2>4
<1>4. Min(bits[i]) \in bits[i]
  BY <1>3 DEF Min
<1> QED
  BY <1>1, <1>4 DEF Target

LEMMA InitInv == Init => Inv
<1> SUFFICES ASSUME Init PROVE Inv
  OBVIOUS
<1>1. TypeOK
  <2>1. depth \in [Threads -> 0 .. MaxTasks + 1] /\ unfinished \in 0 .. MaxTasks + 1
    BY Constants DEF Init
  <2>2. \A i \in Threads : deque[i] \in Seq(Tasks) /\ Len(deque[i]) <= Capacity
    BY Constants DEF Init
  <2>3. wake_state \in [Threads -> 0 .. MaxTasks] /\ pushed \in 0 .. MaxTasks
    BY Constants DEF Init
  <2> QED
    BY <2>1, <2>2, <2>3 DEF Init, TypeOK
<1>2. Queued = {} /\ \A i \in Threads : deque[i] = <<>>
  BY Constants DEF Init, Queued, Tasks
<1>3. PlaceInv
  BY <1>2 DEF Init, PlaceInv
<1>4. LoopInv
  BY <1>2 DEF Init, LoopInv, Walking
<1>5. CountInv
  <2>1. Walks = {<<Caller, 1>>}
    BY Constants DEF Init, Walks, Depths
  <2>2. Cardinality(Walks) = 1 /\ Cardinality(Queued) = 0
    BY <1>2, <2>1, FS_Singleton, FS_EmptySet
  <2> QED
    BY <2>2 DEF Init, CountInv
<1> QED
  BY <1>1, <1>3, <1>4, <1>5 DEF Inv

-----------------------------------------------------------------------------
(* Steps that move no task and end no walk. *)

LEMMA Quiet ==
  ASSUME Inv, TypeOK', LoopInv', UNCHANGED <<deque, walkVars, done>>,
         \A i \in Threads :
           wake_state'[i] + (IF pc'[i] \in {"set_bit", "notify"} THEN 1 ELSE 0) <= pushed
  PROVE  Inv'
<1>1. Walks' = Walks /\ Queued' = Queued
  BY DEF Walks, Queued, walkVars
<1>2. PlaceInv'
  BY <1>1 DEF Inv, PlaceInv, walkVars
<1>3. CountInv'
  BY <1>1 DEF Inv, CountInv, walkVars
<1> QED
  BY <1>2, <1>3 DEF Inv

LEMMA SetBitStep == ASSUME Inv, NEW i \in Threads, SetBit(i) PROVE Inv'
<1> USE DEF SetBit, Goto, Inv, configVars, eventVars, loopVars, walkVars
<1>1. TypeOK'
  BY Constants DEF TypeOK
<1>2. LoopInv'
  BY DEF TypeOK, LoopInv, Walking
<1>3. \A j \in Threads :
        wake_state'[j] + (IF pc'[j] \in {"set_bit", "notify"} THEN 1 ELSE 0) <= pushed
  BY DEF TypeOK, CountInv
<1> QED
  BY <1>1, <1>2, <1>3, Quiet

LEMMA NextVisitStep == ASSUME Inv, NEW i \in Threads, NextVisit(i) PROVE Inv'
<1>1. /\ pc[i] = "walk" /\ wake_state' = [wake_state EXCEPT ![i] = 0]
      /\ UNCHANGED <<queueVars, configVars, eventVars, pc, loopVars, walkVars>>
  BY DEF NextVisit, ResetWake
<1>2. 0 \in 0 .. MaxTasks /\ pushed \in Nat
  BY Constants DEF Inv, TypeOK
<1>3. wake_state' \in [Threads -> 0 .. MaxTasks]
  BY <1>1, <1>2 DEF Inv, TypeOK
<1> USE DEF Inv, queueVars, configVars, eventVars, loopVars, walkVars
<1>4. TypeOK'
  BY <1>1, <1>3 DEF TypeOK
<1>5. LoopInv'
  BY <1>1 DEF LoopInv
<1>6. \A j \in Threads :
        wake_state'[j] + (IF pc'[j] \in {"set_bit", "notify"} THEN 1 ELSE 0) <= pushed
  <2>1. /\ wake_state'[i] = 0 /\ pc' = pc
        /\ \A j \in Threads : j # i => wake_state'[j] = wake_state[j]
    BY <1>1 DEF TypeOK
  <2>2. \A j \in Threads :
          wake_state[j] + (IF pc[j] \in {"set_bit", "notify"} THEN 1 ELSE 0) <= pushed
    BY DEF CountInv
  <2> QED
    BY <1>1, <1>2, <2>1, <2>2
<1> QED
  BY <1>1, <1>4, <1>5, <1>6, Quiet

\* a wake moves the waker on and sleepers to the top of the loop
LEMMA WakeMoves ==
  ASSUME Inv, NEW i \in Threads, NEW to \in {"walk", "acquire"}, NEW woken,
         woken \subseteq Asleep, Wake(i, to, woken)
  PROVE  /\ pc' \in [Threads -> {"walk", "set_bit", "notify", "acquire", "load", "steal", "clear",
                                 "prepare", "wait", "asleep", "returned"}]
         /\ token' \in [Threads -> BOOLEAN]
         /\ pc'[i] = to
         /\ \A j \in Threads : j # i => \/ pc'[j] = pc[j]
                                        \/ (pc[j] = "asleep" /\ pc'[j] = "acquire")
<1>1. pc \in [Threads -> {"walk", "set_bit", "notify", "acquire", "load", "steal", "clear",
                          "prepare", "wait", "asleep", "returned"}]
  BY DEF Inv, TypeOK
<1> QED
  BY <1>1 DEF Wake, Asleep

LEMMA NotifyStep == ASSUME Inv, NEW i \in Threads, Notify(i) PROVE Inv'
<1> USE DEF Notify, Inv, queueVars, configVars, loopVars, walkVars
<1>1. /\ wake_state[i] + 1 <= pushed /\ pushed <= MaxTasks /\ {wake_state[i], pushed} \subseteq Nat
      /\ AfterPush(wake_state[i]) \in 0 .. pushed
  <2>1. wake_state[i] + 1 <= pushed /\ pushed \in 0 .. MaxTasks /\ wake_state[i] \in 0 .. MaxTasks
    BY DEF TypeOK, CountInv
  <2>2. policy \in {"EveryPush", "OncePerBatch", "EveryK"}
    BY PerWorkerAssumption DEF TypeOK
  <2> QED
    BY <2>1, <2>2, Constants DEF AfterPush
<1>2. /\ pc' \in [Threads -> {"walk", "set_bit", "notify", "acquire", "load", "steal", "clear",
                              "prepare", "wait", "asleep", "returned"}]
      /\ token' \in [Threads -> BOOLEAN]
      /\ pc'[i] = "walk"
      /\ \A j \in Threads : j # i => \/ pc'[j] = pc[j]
                                     \/ (pc[j] = "asleep" /\ pc'[j] = "acquire")
  <2>1. CASE ShouldNotify(wake_state[i]) /\ Asleep # {}
    <3>1. PICK j \in Asleep : Wake(i, "walk", {j})
      BY <2>1
    <3> QED
      BY <3>1, WakeMoves DEF Asleep
  <2>2. CASE ~(ShouldNotify(wake_state[i]) /\ Asleep # {})
    BY <2>2 DEF TypeOK, Goto
  <2> QED
    BY <2>1, <2>2
<1>3. /\ wake_state' \in [Threads -> 0 .. MaxTasks] /\ wake_state'[i] <= pushed
      /\ \A j \in Threads : j # i => wake_state'[j] = wake_state[j]
  <2> DEFINE to == AfterPush(wake_state[i])
  <2>1. wake_state' = [wake_state EXCEPT ![i] = to]
    OBVIOUS
  <2>2. to \in 0 .. MaxTasks /\ to <= pushed
    BY <1>1, Constants
  <2> QED
    BY <2>1, <2>2 DEF TypeOK
<1>4. TypeOK'
  BY <1>2, <1>3 DEF TypeOK
<1>5. LoopInv'
  BY <1>2 DEF TypeOK, LoopInv, Walking
<1>6. \A j \in Threads :
        wake_state'[j] + (IF pc'[j] \in {"set_bit", "notify"} THEN 1 ELSE 0) <= pushed
  <2>1. wake_state'[i] + 0 <= pushed
    BY <1>1, <1>3
  <2>2. ASSUME NEW j \in Threads, j # i
        PROVE  wake_state'[j] + (IF pc'[j] \in {"set_bit", "notify"} THEN 1 ELSE 0) <= pushed
    BY <1>2, <1>3, <2>2 DEF TypeOK, CountInv
  <2> QED
    BY <1>2, <2>1, <2>2
<1> QED
  BY <1>4, <1>5, <1>6, Quiet

LEMMA ReturnStep == ASSUME Inv, NEW i \in Threads, Return(i) PROVE Inv'
<1> USE DEF Return, Goto, Inv, queueVars, configVars, eventVars, loopVars, walkVars
<1>1. TypeOK'
  BY DEF TypeOK
<1>2. deque[i] = <<>>
  BY NothingLeft
<1>3. LoopInv'
  BY <1>2 DEF TypeOK, LoopInv, Walking
<1>4. \A j \in Threads :
        wake_state'[j] + (IF pc'[j] \in {"set_bit", "notify"} THEN 1 ELSE 0) <= pushed
  BY DEF TypeOK, CountInv
<1> QED
  BY <1>1, <1>3, <1>4, Quiet

LEMMA LoadMaskStep == ASSUME Inv, NEW i \in Threads, LoadMask(i) PROVE Inv'
<1> DEFINE targets == work_available \ {Bit(i)}
           to == IF targets = {} THEN GiveUp(i) ELSE "steal"
<1>1. /\ pc[i] = "load" /\ pc' = [pc EXCEPT ![i] = to] /\ bits' = [bits EXCEPT ![i] = targets]
      /\ second' = [second EXCEPT ![i] = @ /\ targets # {}]
      /\ UNCHANGED <<queueVars, configVars, wake_state, eventVars, walkVars>>
  BY DEF LoadMask, Goto, StealFrom
<1>2. to \in {"acquire", "wait", "prepare", "steal"} /\ (to = "steal" => targets # {})
  BY DEF GiveUp
<1>3. targets \subseteq Threads
  BY DEF Inv, TypeOK
<1> HIDE DEF to, targets
<1> USE DEF Inv, queueVars, configVars, eventVars, walkVars
<1>4. TypeOK'
  BY <1>1, <1>2, <1>3 DEF TypeOK
<1>5. LoopInv'
  BY <1>1, <1>2 DEF TypeOK, LoopInv, Walking
<1>6. \A j \in Threads :
        wake_state'[j] + (IF pc'[j] \in {"set_bit", "notify"} THEN 1 ELSE 0) <= pushed
  BY <1>1, <1>2 DEF TypeOK, CountInv
<1> QED
  BY <1>1, <1>4, <1>5, <1>6, Quiet

LEMMA ClearBitStep == ASSUME Inv, NEW i \in Threads, ClearBit(i) PROVE Inv'
<1> DEFINE targets == bits[i] \ {Target(i)}
           to == IF targets = {} THEN GiveUp(i) ELSE "steal"
<1>1. /\ pc[i] = "clear" /\ pc' = [pc EXCEPT ![i] = to] /\ bits' = [bits EXCEPT ![i] = targets]
      /\ second' = [second EXCEPT ![i] = @ /\ targets # {}]
      /\ work_available' = work_available \ {Target(i)}
      /\ UNCHANGED <<deque, configVars, wake_state, eventVars, walkVars>>
  BY DEF ClearBit, Goto, StealFrom
<1>2. to \in {"acquire", "wait", "prepare", "steal"} /\ (to = "steal" => targets # {})
  BY DEF GiveUp
<1>3. targets \subseteq Threads
  BY DEF Inv, TypeOK
<1> HIDE DEF to, targets
<1> USE DEF Inv, configVars, eventVars, walkVars
<1>4. TypeOK'
  BY <1>1, <1>2, <1>3 DEF TypeOK
<1>5. LoopInv'
  BY <1>1, <1>2 DEF TypeOK, LoopInv, Walking
<1>6. \A j \in Threads :
        wake_state'[j] + (IF pc'[j] \in {"set_bit", "notify"} THEN 1 ELSE 0) <= pushed
  BY <1>1, <1>2 DEF TypeOK, CountInv
<1> QED
  BY <1>1, <1>4, <1>5, <1>6, Quiet

LEMMA PrepareStep == ASSUME Inv, NEW i \in Threads, Prepare(i) PROVE Inv'
<1> USE DEF Prepare, Goto, Inv, queueVars, configVars, walkVars
<1>1. TypeOK'
  BY DEF TypeOK
<1>2. LoopInv'
  BY DEF TypeOK, LoopInv, Walking
<1>3. \A j \in Threads :
        wake_state'[j] + (IF pc'[j] \in {"set_bit", "notify"} THEN 1 ELSE 0) <= pushed
  BY DEF TypeOK, CountInv
<1> QED
  BY <1>1, <1>2, <1>3, Quiet

LEMMA WaitStep == ASSUME Inv, NEW i \in Threads, Wait(i) PROVE Inv'
<1> USE DEF Wait, Goto, Inv, queueVars, configVars, loopVars, walkVars
<1>1. TypeOK'
  BY DEF TypeOK
<1>2. LoopInv'
  BY DEF TypeOK, LoopInv, Walking
<1>3. \A j \in Threads :
        wake_state'[j] + (IF pc'[j] \in {"set_bit", "notify"} THEN 1 ELSE 0) <= pushed
  BY DEF TypeOK, CountInv
<1> QED
  BY <1>1, <1>2, <1>3, Quiet

-----------------------------------------------------------------------------
(* Steps that push, take or finish a task. *)

\* a task leaves its deque, by either end, and runs
LEMMA TaskTaken ==
  ASSUME Inv, NEW i \in Threads, NEW j \in Threads, deque[j] # <<>>,
         NEW end \in {0, 1}, NEW s \in Seq(Tasks), Len(s) = Len(deque[j]) - 1,
         \A k \in 1 .. Len(s) : s[k] = deque[j][k + end],
         NEW x, x = deque[j][IF end = 0 THEN Len(deque[j]) ELSE 1],
         deque' = [deque EXCEPT ![j] = s], Start(i, x), pc' = [pc EXCEPT ![i] = "walk"],
         second' = [second EXCEPT ![i] = FALSE], bits' = [bits EXCEPT ![i] = {}],
         UNCHANGED <<work_available, configVars, eventVars, pushed, unfinished>>
  PROVE  Inv'
<1>1. /\ deque \in [Threads -> Seq(Tasks)] /\ Len(deque[j]) \in Nat /\ Len(deque[j]) >= 1
      /\ Len(s) \in Nat
  BY DEF Inv, TypeOK
<1>2. x \in Queued /\ x \in Tasks /\ x <= pushed /\ runs[x] = 0
  BY <1>1 DEF Inv, PlaceInv, Queued
<1>3. /\ runs' = [runs EXCEPT ![x] = @ + 1] /\ depth' = [depth EXCEPT ![i] = @ + 1]
      /\ wake_state' = [wake_state EXCEPT ![i] = 0]
  BY DEF Start, ResetWake
<1>4. /\ runs' \in [Tasks -> Nat] /\ runs'[x] = 1
      /\ \A y \in Tasks : y # x => runs'[y] = runs[y]
  BY <1>2, <1>3 DEF Inv, TypeOK
<1>5. Queued' = Queued \ {x}
  BY <1>2, <1>4 DEF Queued
<1>6. /\ Cardinality(Queued') = Cardinality(Queued) - 1
      /\ Cardinality(Queued) \in Nat /\ Cardinality(Queued) >= 1
  BY <1>2, <1>5, TaskRuns DEF Inv
<1>7. depth[i] + 1 \in 0 .. MaxTasks + 1
  <2>1. depth[i] <= Cardinality(Walks) /\ Cardinality(Walks) \in Nat
    BY DepthCounted, Finite DEF Inv
  <2>2. depth[i] \in Nat /\ pushed \in 0 .. MaxTasks
    BY Constants DEF Inv, TypeOK
  <2>3. Cardinality(Walks) + Cardinality(Queued) <= pushed + 1
    BY DEF Inv, CountInv
  <2>4. depth[i] + 1 <= pushed + 1
    BY <1>6, <2>1, <2>2, <2>3, Constants
  <2> QED
    BY <2>2, <2>4, Constants
<1>8. TypeOK'
  <2>1. deque' \in [Threads -> Seq(Tasks)] /\ \A l \in Threads : Len(deque'[l]) <= Capacity
    <3>1. \A l \in Threads : Len(deque[l]) <= Capacity
      BY DEF Inv, TypeOK
    <3>2. Len(s) <= Capacity
      BY <1>1, <3>1, Constants
    <3> QED
      BY <1>1, <3>1, <3>2
  <2>2. depth' \in [Threads -> 0 .. MaxTasks + 1]
    BY <1>3, <1>7 DEF Inv, TypeOK
  <2>3. 0 \in 0 .. MaxTasks
    BY Constants
  <2>4. wake_state' \in [Threads -> 0 .. MaxTasks]
    BY <1>3, <2>3 DEF Inv, TypeOK
  <2> QED
    BY <1>4, <2>1, <2>2, <2>4 DEF Inv, TypeOK, configVars, eventVars
<1>9. /\ deque'[j] = s /\ \A l \in Threads : l # j => deque'[l] = deque[l]
  BY <1>1
<1>10. PlaceInv'
  <2>1. \A y \in Tasks : runs'[y] \in {0, 1} /\ (y > pushed' => runs'[y] = 0)
    <3>1. \A y \in Tasks : runs[y] \in {0, 1} /\ (y > pushed => runs[y] = 0)
      BY DEF Inv, PlaceInv
    <3>2. x \in Nat /\ pushed \in Nat
      <4>1. pushed \in 0 .. MaxTasks
        BY DEF Inv, TypeOK
      <4> QED
        BY <1>2, <4>1, Constants, TaskNumbers
    <3>3. ~(x > pushed)
      BY <1>2, <3>2
    <3> QED
      BY <1>4, <3>1, <3>3
  \* where a task of the new deques was
  <2> DEFINE at(l, k) == IF l = j THEN k + end ELSE k
  <2>2. ASSUME NEW l \in Threads, NEW k \in 1 .. Len(deque'[l])
        PROVE  /\ at(l, k) \in 1 .. Len(deque[l]) /\ deque'[l][k] = deque[l][at(l, k)]
               /\ deque'[l][k] # x
    <3>1. CASE l = j
      <4>1. at(l, k) \in 1 .. Len(deque[l]) /\ deque'[l][k] = deque[l][at(l, k)]
        BY <1>1, <1>9, <2>2, <3>1
      <4>2. at(l, k) # (IF end = 0 THEN Len(deque[j]) ELSE 1)
        BY <1>1, <1>9, <2>2, <3>1
      <4>3. (IF end = 0 THEN Len(deque[j]) ELSE 1) \in 1 .. Len(deque[j])
        BY <1>1
      <4> QED
        BY <4>1, <4>2, <4>3, <3>1 DEF Inv, PlaceInv
    <3>2. CASE l # j
      <4>1. (IF end = 0 THEN Len(deque[j]) ELSE 1) \in 1 .. Len(deque[j])
        BY <1>1
      <4>2. k \in 1 .. Len(deque[l]) /\ deque'[l][k] = deque[l][k] /\ at(l, k) = k
        BY <1>9, <2>2, <3>2
      <4> QED
        BY <3>2, <4>1, <4>2 DEF Inv, PlaceInv
    <3> QED
      BY <3>1, <3>2
  <2>3. \A l \in Threads : \A k \in 1 .. Len(deque'[l]) : deque'[l][k] \in Queued'
    BY <1>5, <2>2 DEF Inv, PlaceInv
  <2>4. ASSUME NEW l \in Threads, NEW m \in Threads, NEW k \in 1 .. Len(deque'[l]),
               NEW n \in 1 .. Len(deque'[m]), deque'[l][k] = deque'[m][n]
        PROVE  l = m /\ k = n
    <3>1. l = m /\ at(l, k) = at(m, n)
      <4> HIDE DEF at
      <4>1. /\ at(l, k) \in 1 .. Len(deque[l]) /\ at(m, n) \in 1 .. Len(deque[m])
            /\ deque[l][at(l, k)] = deque[m][at(m, n)]
        BY <2>2, <2>4
      <4> QED
        BY <4>1 DEF Inv, PlaceInv
    <3>2. k \in Int /\ n \in Int
      OBVIOUS
    <3> QED
      BY <3>1, <3>2
  <2>5. ASSUME NEW y \in Queued'
        PROVE  \E l \in Threads : \E k \in 1 .. Len(deque'[l]) : deque'[l][k] = y
    <3>1. PICK l \in Threads : \E k \in 1 .. Len(deque[l]) : deque[l][k] = y
      BY <1>5 DEF Inv, PlaceInv
    <3>2. PICK k \in 1 .. Len(deque[l]) : deque[l][k] = y
      BY <3>1
    <3>3. CASE l = j
      <4>1. k # (IF end = 0 THEN Len(deque[j]) ELSE 1)
        BY <1>5, <3>2, <3>3
      <4>2. k - end \in 1 .. Len(s) /\ k - end + end = k
        BY <1>1, <3>2, <3>3, <4>1
      <4>3. s[k - end] = y
        BY <3>2, <3>3, <4>2
      <4>4. deque'[l] = s /\ k - end \in 1 .. Len(deque'[l]) /\ deque'[l][k - end] = y
        BY <1>9, <3>3, <4>2, <4>3
      <4> QED
        BY <4>4
    <3>4. CASE l # j
      BY <1>9, <3>2, <3>4
    <3> QED
      BY <3>3, <3>4
  <2> QED
    BY <2>1, <2>3, <2>4, <2>5 DEF PlaceInv
<1>11. LoopInv'
  <2>1. \A l \in Threads : deque[l] = <<>> => deque'[l] = <<>>
    BY <1>9
  <2>2. /\ depth'[i] = depth[i] + 1 /\ depth[i] \in Nat
        /\ \A l \in Threads : l # i => depth'[l] = depth[l]
    BY <1>3, Constants DEF Inv, TypeOK
  <2>3. /\ pc'[i] = "walk"
        /\ \A l \in Threads : l # i => pc'[l] = pc[l] /\ bits'[l] = bits[l]
    BY DEF Inv, TypeOK
  <2>4. depth'[i] > 0
    BY <2>2
  <2>5. \A l \in Threads : pc'[l] \in Walking <=> depth'[l] > 0
    BY <2>2, <2>3, <2>4 DEF Inv, LoopInv, Walking
  <2>6. \A l \in Threads : pc'[l] \notin Walking \cup {"acquire"} => deque'[l] = <<>>
    BY <2>1, <2>3 DEF Inv, LoopInv, Walking
  <2>7. \A l \in Threads : pc'[l] \in {"steal", "clear"} => bits'[l] # {}
    BY <2>3 DEF Inv, LoopInv
  <2> QED
    BY <2>5, <2>6, <2>7 DEF LoopInv
<1>12. CountInv'
  <2>1. Cardinality(Walks') = Cardinality(Walks) + 1
    BY <1>3, <1>8, WalkStarts DEF Inv
  <2>2. unfinished' = Cardinality(Walks') + Cardinality(Queued')
    BY <1>6, <2>1, Finite DEF Inv, CountInv
  <2>3. /\ wake_state'[i] = 0 /\ \A l \in Threads : l # i => wake_state'[l] = wake_state[l]
        /\ pc'[i] = "walk" /\ \A l \in Threads : l # i => pc'[l] = pc[l]
    BY <1>3 DEF Inv, TypeOK
  <2>4. pushed \in Nat
    BY Constants DEF Inv, TypeOK
  <2>5. \A l \in Threads :
          wake_state'[l] + (IF pc'[l] \in {"set_bit", "notify"} THEN 1 ELSE 0) <= pushed'
    BY <2>3, <2>4 DEF Inv, CountInv
  <2> QED
    BY <2>2, <2>5 DEF Inv, CountInv, eventVars
<1> QED
  BY <1>8, <1>10, <1>11, <1>12 DEF Inv

LEMMA PopOwnStep == ASSUME Inv, NEW i \in Threads, PopOwn(i) PROVE Inv'
<1>1. CASE HasOwn(i)
  <2>1. /\ Execute(i, "acquire", Last(deque[i]))
        /\ deque' = [deque EXCEPT ![i] = Front(deque[i])] /\ deque[i] # <<>>
    BY <1>1 DEF PopOwn, HasOwn
  <2>2. deque[i] \in Seq(Tasks)
    BY DEF Inv, TypeOK
  <2>3. /\ Front(deque[i]) \in Seq(Tasks) /\ Len(Front(deque[i])) = Len(deque[i]) - 1
        /\ \A k \in 1 .. Len(Front(deque[i])) : Front(deque[i])[k] = deque[i][k + 0]
        /\ Last(deque[i]) = deque[i][Len(deque[i])]
    BY <2>1, <2>2, PopEnd
  <2> QED
    BY <2>1, <2>3, TaskTaken DEF Execute, Goto
<1>2. CASE ~HasOwn(i)
  <2>1. /\ pc[i] = "acquire" /\ pc' = [pc EXCEPT ![i] = "load"] /\ deque[i] = <<>>
        /\ UNCHANGED <<queueVars, configVars, wake_state, eventVars, loopVars, walkVars>>
    BY <1>2 DEF PopOwn, HasOwn, Goto
  <2> USE DEF Inv, queueVars, configVars, eventVars, loopVars, walkVars
  <2>2. TypeOK'
    BY <2>1 DEF TypeOK
  <2>3. LoopInv'
    BY <2>1 DEF TypeOK, LoopInv, Walking
  <2>4. \A j \in Threads :
          wake_state'[j] + (IF pc'[j] \in {"set_bit", "notify"} THEN 1 ELSE 0) <= pushed
    BY <2>1 DEF TypeOK, CountInv
  <2> QED
    BY <2>1, <2>2, <2>3, <2>4, Quiet
<1> QED
  BY <1>1, <1>2

LEMMA StealStep == ASSUME Inv, NEW i \in Threads, Steal(i) PROVE Inv'
<1>1. pc[i] = "steal" /\ bits[i] # {}
  BY DEF Steal, Goto, Inv, LoopInv
<1>2. Target(i) \in Threads
  BY <1>1, TargetBit DEF Inv
<1>3. CASE deque[Target(i)] # <<>>
  <2> DEFINE victim == Target(i)
  <2>1. /\ Execute(i, "steal", Head(deque[victim]))
        /\ deque' = [deque EXCEPT ![victim] = Tail(deque[victim])]
    BY <1>3 DEF Steal
  <2> HIDE DEF victim
  <2>2. victim \in Threads /\ deque[victim] \in Seq(Tasks) /\ deque[victim] # <<>>
    BY <1>2, <1>3 DEF Inv, TypeOK, victim
  <2>3. /\ Tail(deque[victim]) \in Seq(Tasks) /\ Len(Tail(deque[victim])) = Len(deque[victim]) - 1
        /\ \A k \in 1 .. Len(Tail(deque[victim])) : Tail(deque[victim])[k] = deque[victim][k + 1]
        /\ Head(deque[victim]) = deque[victim][IF 1 = 0 THEN Len(deque[victim]) ELSE 1]
    BY <2>2, StealEnd
  <2>4. 1 \in {0, 1}
    OBVIOUS
  <2> QED
    BY <2>1, <2>2, <2>3, <2>4, TaskTaken DEF Execute, Goto
<1>4. CASE deque[Target(i)] = <<>>
  <2>1. /\ pc' = [pc EXCEPT ![i] = "clear"]
        /\ UNCHANGED <<queueVars, configVars, wake_state, eventVars, loopVars, walkVars>>
    BY <1>4 DEF Steal, Goto
  <2> USE DEF Inv, queueVars, configVars, eventVars, loopVars, walkVars
  <2>2. TypeOK'
    BY <2>1 DEF TypeOK
  <2>3. LoopInv'
    BY <1>1, <2>1 DEF TypeOK, LoopInv, Walking
  <2>4. \A j \in Threads :
          wake_state'[j] + (IF pc'[j] \in {"set_bit", "notify"} THEN 1 ELSE 0) <= pushed
    BY <2>1 DEF TypeOK, CountInv
  <2> QED
    BY <2>1, <2>2, <2>3, <2>4, Quiet
<1> QED
  BY <1>3, <1>4

\* a pushed task waits at the owner's end
LEMMA TaskQueued ==
  ASSUME Inv, NEW i \in Threads, Push(i), ~Full(i)
  PROVE  Inv'
<1> DEFINE x == pushed + 1
<1>1. /\ pushed < MaxTasks /\ pushed' = x /\ unfinished' = unfinished + 1
      /\ Len(deque[i]) < Capacity /\ pc[i] = "walk" /\ pc' = [pc EXCEPT ![i] = "set_bit"]
      /\ deque' = [deque EXCEPT ![i] = Append(deque[i], x)]
      /\ UNCHANGED <<runs, depth, wake_state, work_available, configVars, eventVars, loopVars>>
  <2>1. Len(deque[i]) \in Nat /\ Capacity \in Nat
    BY Constants DEF Inv, TypeOK
  <2> QED
    BY <2>1 DEF Push, Full, Goto
<1>2. x \in Tasks /\ x \in Nat /\ pushed \in Nat /\ x <= MaxTasks /\ x > pushed
  <2>1. pushed \in 0 .. MaxTasks
    BY DEF Inv, TypeOK
  <2> QED
    BY <1>1, <2>1, Constants, TaskNumbers
<1>3. /\ runs[x] = 0 /\ x \notin Queued
  BY <1>2 DEF Inv, PlaceInv, Queued
<1> HIDE DEF x
<1>4. Queued' = Queued \cup {x}
  <2>1. ASSUME NEW y \in Tasks PROVE y <= x <=> (y <= pushed \/ y = x)
    BY <1>2, TaskNumbers DEF x
  <2> QED
    BY <1>1, <1>2, <1>3, <2>1 DEF Queued
<1>5. Cardinality(Queued') = Cardinality(Queued) + 1 /\ Cardinality(Queued) \in Nat
  BY ONLY <1>3, <1>4, Inv, Finite, FS_AddElement DEF Inv
<1>6. /\ deque \in [Threads -> Seq(Tasks)] /\ Len(deque[i]) \in Nat
      /\ deque'[i] = Append(deque[i], x) /\ Len(deque'[i]) = Len(deque[i]) + 1
      /\ deque'[i] \in Seq(Tasks) /\ deque'[i][Len(deque[i]) + 1] = x
      /\ \A k \in 1 .. Len(deque[i]) : deque'[i][k] = deque[i][k]
      /\ \A l \in Threads : l # i => deque'[l] = deque[l]
  BY <1>1, <1>2 DEF Inv, TypeOK
<1>7. unfinished \in Nat /\ unfinished + 1 \in 0 .. MaxTasks + 1 /\ unfinished + 1 <= x + 1
  <2>1. unfinished \in 0 .. MaxTasks + 1 /\ unfinished <= x
    BY DEF Inv, TypeOK, CountInv, x
  <2> QED
    BY <1>2, <2>1, Constants
<1>8. TypeOK'
  <2>1. \A l \in Threads : Len(deque'[l]) <= Capacity
    BY <1>1, <1>6, Constants DEF Inv, TypeOK
  <2>2. deque' \in [Threads -> Seq(Tasks)]
    BY <1>1, <1>6
  <2>3. pushed' \in 0 .. MaxTasks
    BY <1>1, <1>2, Constants
  <2> QED
    BY <1>1, <1>7, <2>1, <2>2, <2>3 DEF Inv, TypeOK, configVars, eventVars, loopVars
<1>9. ~done
  <2>1. depth[i] > 0 /\ depth[i] \in Nat
    BY <1>1, Constants DEF Inv, TypeOK, LoopInv, Walking
  <2> QED
    BY <2>1, NothingLeft
<1>10. PlaceInv'
  <2>1. \A y \in Tasks : runs'[y] \in {0, 1} /\ (y > pushed' => runs'[y] = 0)
    <3>1. \A y \in Tasks : y > x => y > pushed
      BY <1>2, TaskNumbers
    <3> QED
      BY <1>1, <3>1 DEF Inv, PlaceInv
  <2>2. ASSUME NEW l \in Threads, NEW k \in 1 .. Len(deque'[l])
        PROVE  \/ /\ k \in 1 .. Len(deque[l]) /\ deque'[l][k] = deque[l][k] /\ deque'[l][k] # x
                  /\ deque'[l][k] \in Queued
               \/ l = i /\ k = Len(deque[i]) + 1 /\ deque'[l][k] = x
    <3>1. CASE k \in 1 .. Len(deque[l])
      <4>1. deque'[l][k] = deque[l][k] /\ deque[l][k] \in Queued
        BY <1>6, <3>1 DEF Inv, PlaceInv
      <4> QED
        BY <1>3, <3>1, <4>1
    <3>2. CASE k \notin 1 .. Len(deque[l])
      <4>1. l = i
        BY <1>6, <2>2, <3>2
      <4> QED
        BY <1>6, <2>2, <3>2, <4>1
    <3> QED
      BY <3>1, <3>2
  <2>3. \A l \in Threads : \A k \in 1 .. Len(deque'[l]) : deque'[l][k] \in Queued'
    BY <1>4, <2>2
  <2>4. \A l, m \in Threads : \A k \in 1 .. Len(deque'[l]), n \in 1 .. Len(deque'[m]) :
          deque'[l][k] = deque'[m][n] => l = m /\ k = n
    <3>1. \A l, m \in Threads : \A k \in 1 .. Len(deque[l]), n \in 1 .. Len(deque[m]) :
            deque[l][k] = deque[m][n] => l = m /\ k = n
      BY DEF Inv, PlaceInv
    <3> SUFFICES ASSUME NEW l \in Threads, NEW m \in Threads, NEW k \in 1 .. Len(deque'[l]),
                        NEW n \in 1 .. Len(deque'[m]), deque'[l][k] = deque'[m][n]
                 PROVE  l = m /\ k = n
      OBVIOUS
    <3> QED
      BY <2>2, <3>1
  <2>5. ASSUME NEW y \in Queued'
        PROVE  \E l \in Threads : \E k \in 1 .. Len(deque'[l]) : deque'[l][k] = y
    <3>1. CASE y = x
      <4>1. Len(deque[i]) + 1 \in 1 .. Len(deque'[i])
        BY <1>6
      <4> QED
        BY <1>6, <3>1, <4>1
    <3>2. CASE y # x
      <4>1. PICK l \in Threads : \E k \in 1 .. Len(deque[l]) : deque[l][k] = y
        BY <1>4, <3>2 DEF Inv, PlaceInv
      <4>2. PICK k \in 1 .. Len(deque[l]) : deque[l][k] = y
        BY <4>1
      <4>3. k \in 1 .. Len(deque'[l]) /\ deque'[l][k] = y
        BY <1>6, <4>2
      <4> QED
        BY <4>3
    <3> QED
      BY <3>1, <3>2
  <2> QED
    BY <2>1, <2>3, <2>4, <2>5 DEF PlaceInv
<1>11. LoopInv'
  BY <1>1, <1>6 DEF Inv, TypeOK, LoopInv, Walking, loopVars
<1>12. CountInv'
  <2>1. Walks' = Walks
    BY <1>1 DEF Walks
  <2>2. unfinished' = Cardinality(Walks') + Cardinality(Queued')
    BY <1>1, <1>5, <2>1, Finite DEF Inv, CountInv
  <2>3. ASSUME NEW l \in Threads
        PROVE  wake_state'[l] + (IF pc'[l] \in {"set_bit", "notify"} THEN 1 ELSE 0) <= pushed'
    <3>1. wake_state[l] \in Nat
      BY Constants DEF Inv, TypeOK
    <3>2. /\ wake_state'[l] = wake_state[l] /\ pushed' = pushed + 1
          /\ wake_state[l] + (IF pc[l] \in {"set_bit", "notify"} THEN 1 ELSE 0) <= pushed
      BY <1>1 DEF Inv, CountInv, x
    <3> QED
      BY <1>2, <3>1, <3>2
  <2> QED
    BY <1>1, <1>7, <1>9, <2>2, <2>3 DEF CountInv, eventVars
<1> QED
  BY <1>8, <1>10, <1>11, <1>12 DEF Inv

\* a full deque gives the task back, and its walk starts at once
LEMMA TaskInline ==
  ASSUME Inv, NEW i \in Threads, Push(i), Full(i)
  PROVE  Inv'
<1> DEFINE x == pushed + 1
<1>1. /\ pushed < MaxTasks /\ pushed' = x /\ unfinished' = unfinished + 1
      /\ pc[i] = "walk" /\ pc' = [pc EXCEPT ![i] = "walk"]
      /\ runs' = [runs EXCEPT ![x] = @ + 1] /\ depth' = [depth EXCEPT ![i] = @ + 1]
      /\ wake_state' = [wake_state EXCEPT ![i] = 0]
      /\ UNCHANGED <<deque, work_available, configVars, eventVars, loopVars>>
  BY DEF Push, Goto, Overflow, Start, ResetWake
<1>2. x \in Tasks /\ x \in Nat /\ pushed \in Nat /\ x <= MaxTasks /\ x > pushed
  <2>1. pushed \in 0 .. MaxTasks
    BY DEF Inv, TypeOK
  <2> QED
    BY <1>1, <2>1, Constants, TaskNumbers
<1>3. /\ runs[x] = 0 /\ x \notin Queued
  BY <1>2 DEF Inv, PlaceInv, Queued
<1> HIDE DEF x
<1>4. /\ runs' \in [Tasks -> Nat] /\ runs'[x] = 1
      /\ \A y \in Tasks : y # x => runs'[y] = runs[y]
  BY <1>1, <1>2, <1>3 DEF Inv, TypeOK
<1>5. Queued' = Queued
  <2>1. ASSUME NEW y \in Tasks, y # x PROVE y <= x <=> y <= pushed
    BY <1>2, <2>1, TaskNumbers DEF x
  <2> QED
    BY <1>1, <1>3, <1>4, <2>1 DEF Queued
<1>6. unfinished \in Nat /\ unfinished + 1 \in 0 .. MaxTasks + 1 /\ unfinished + 1 <= x + 1
  <2>1. unfinished \in 0 .. MaxTasks + 1 /\ unfinished <= x
    BY DEF Inv, TypeOK, CountInv, x
  <2> QED
    BY <1>2, <2>1, Constants
<1>7. depth[i] \in Nat /\ depth[i] > 0 /\ depth[i] + 1 \in 0 .. MaxTasks + 1
  <2>1. depth[i] <= Cardinality(Walks) /\ Cardinality(Walks) \in Nat /\ Cardinality(Queued) \in Nat
    BY DepthCounted, Finite DEF Inv
  <2>2. depth[i] \in Nat /\ depth[i] > 0
    BY <1>1, Constants DEF Inv, TypeOK, LoopInv, Walking
  <2>3. Cardinality(Walks) + Cardinality(Queued) <= pushed + 1
    BY DEF Inv, CountInv
  <2> QED
    BY <1>1, <1>2, <2>1, <2>2, <2>3, Constants
<1>8. TypeOK'
  <2>1. depth' \in [Threads -> 0 .. MaxTasks + 1]
    BY <1>1, <1>7 DEF Inv, TypeOK
  <2>2. 0 \in 0 .. MaxTasks /\ pushed' \in 0 .. MaxTasks
    BY <1>1, <1>2, Constants
  <2>3. wake_state' \in [Threads -> 0 .. MaxTasks]
    BY <1>1, <2>2 DEF Inv, TypeOK
  <2> QED
    BY <1>1, <1>4, <1>6, <2>1, <2>2, <2>3 DEF Inv, TypeOK, configVars, eventVars, loopVars
<1>9. ~done
  BY <1>7, NothingLeft
<1>10. PlaceInv'
  <2>1. \A y \in Tasks : runs'[y] \in {0, 1} /\ (y > pushed' => runs'[y] = 0)
    <3>1. (\A y \in Tasks : y > x => y > pushed) /\ ~(x > x)
      BY <1>2, TaskNumbers
    <3> QED
      BY <1>1, <1>4, <3>1 DEF Inv, PlaceInv
  <2> QED
    BY <1>1, <1>5, <2>1 DEF Inv, PlaceInv
<1>11. LoopInv'
  BY <1>1, <1>7 DEF Inv, TypeOK, LoopInv, Walking, loopVars
<1>12. CountInv'
  <2>1. Cardinality(Walks') = Cardinality(Walks) + 1
    BY <1>1, <1>8, WalkStarts DEF Inv
  <2>2. unfinished' = Cardinality(Walks') + Cardinality(Queued')
    BY <1>1, <1>5, <2>1, Finite DEF Inv, CountInv
  <2>3. ASSUME NEW l \in Threads
        PROVE  wake_state'[l] + (IF pc'[l] \in {"set_bit", "notify"} THEN 1 ELSE 0) <= pushed'
    <3>1. wake_state[l] \in Nat /\ wake_state'[l] \in {0, wake_state[l]} /\ pc'[l] = pc[l]
      BY <1>1, Constants DEF Inv, TypeOK
    <3>2. /\ pushed' = pushed + 1
          /\ wake_state[l] + (IF pc[l] \in {"set_bit", "notify"} THEN 1 ELSE 0) <= pushed
      BY <1>1 DEF Inv, CountInv, x
    <3> QED
      BY <1>2, <3>1, <3>2
  <2> QED
    BY <1>1, <1>6, <1>9, <2>2, <2>3 DEF CountInv, eventVars
<1> QED
  BY <1>8, <1>10, <1>11, <1>12 DEF Inv

LEMMA FinishStep == ASSUME Inv, NEW i \in Threads, Finish(i) PROVE Inv'
<1> DEFINE to == IF depth[i] = 1 THEN "acquire" ELSE "walk"
<1>1. /\ pc[i] = "walk" /\ depth' = [depth EXCEPT ![i] = @ - 1]
      /\ unfinished' = unfinished - 1 /\ done' = (unfinished' = 0)
      /\ UNCHANGED <<queueVars, configVars, wake_state, loopVars, pushed, runs>>
  BY DEF Finish
<1>2. depth[i] \in 1 .. MaxTasks + 1 /\ depth[i] \in Nat /\ depth[i] > 0
  BY <1>1, Constants DEF Inv, TypeOK, LoopInv, Walking
<1>3. /\ Cardinality(Walks) \in Nat /\ Cardinality(Queued) \in Nat /\ Cardinality(Walks) >= 1
  BY <1>2, DepthCounted, Finite DEF Inv
<1>4. unfinished \in 1 .. MaxTasks + 1
  <2>1. unfinished \in 0 .. MaxTasks + 1 /\ unfinished = Cardinality(Walks) + Cardinality(Queued)
    BY DEF Inv, TypeOK, CountInv
  <2> QED
    BY <1>3, <2>1, Constants
<1>5. /\ pc' \in [Threads -> {"walk", "set_bit", "notify", "acquire", "load", "steal", "clear",
                              "prepare", "wait", "asleep", "returned"}]
      /\ token' \in [Threads -> BOOLEAN]
      /\ pc'[i] = to
      /\ \A j \in Threads : j # i => \/ pc'[j] = pc[j]
                                     \/ (pc[j] = "asleep" /\ pc'[j] = "acquire")
  <2>1. CASE done'
    <3>1. Wake(i, to, Asleep)
      BY <2>1 DEF Finish, EndFold
    <3>2. to \in {"walk", "acquire"}
      OBVIOUS
    <3> HIDE DEF to
    <3> QED
      BY <3>1, <3>2, WakeMoves
  <2>2. CASE ~done'
    BY <2>2 DEF Finish, Goto, Inv, TypeOK
  <2> QED
    BY <2>1, <2>2
<1>6. TypeOK'
  <2>1. depth' \in [Threads -> 0 .. MaxTasks + 1]
    <3>1. depth[i] - 1 \in 0 .. MaxTasks + 1
      BY <1>2, Constants
    <3> QED
      BY <1>1, <3>1 DEF Inv, TypeOK
  <2>2. unfinished' \in 0 .. MaxTasks + 1 /\ done' \in BOOLEAN
    BY <1>1, <1>4, Constants
  <2> QED
    BY <1>1, <1>5, <2>1, <2>2 DEF Inv, TypeOK, queueVars, configVars, loopVars
<1>7. Queued' = Queued
  BY <1>1 DEF Queued
<1>8. PlaceInv'
  BY <1>1, <1>7 DEF Inv, PlaceInv, queueVars
<1>9. LoopInv'
  <2>1. depth'[i] = depth[i] - 1 /\ \A j \in Threads : j # i => depth'[j] = depth[j]
    BY <1>1 DEF Inv, TypeOK
  <2>2. depth'[i] > 0 <=> to = "walk"
    BY <1>2, <2>1
  <2> HIDE DEF to
  <2>3. to \in {"walk", "acquire"}
    BY DEF to
  <2> QED
    BY <1>1, <1>5, <2>1, <2>2, <2>3 DEF Inv, LoopInv, Walking, queueVars, loopVars
<1>10. CountInv'
  <2>1. Cardinality(Walks') = Cardinality(Walks) - 1
    BY <1>1, <1>2, WalkEnds DEF Inv
  <2>2. unfinished' = Cardinality(Walks') + Cardinality(Queued')
    BY <1>1, <1>3, <1>7, <2>1 DEF Inv, CountInv
  <2>3. pushed' = pushed /\ unfinished' <= pushed' + 1
    BY <1>1, <1>4, Constants DEF Inv, TypeOK, CountInv
  <2>4. ASSUME NEW l \in Threads
        PROVE  wake_state'[l] + (IF pc'[l] \in {"set_bit", "notify"} THEN 1 ELSE 0) <= pushed'
    <3>1. /\ wake_state[l] \in Nat /\ wake_state'[l] = wake_state[l] /\ pushed' = pushed
          /\ wake_state[l] + (IF pc[l] \in {"set_bit", "notify"} THEN 1 ELSE 0) <= pushed
      BY <1>1, Constants DEF Inv, TypeOK, CountInv
    <3>2. pc'[l] = pc[l] \/ pc'[l] \notin {"set_bit", "notify"}
      BY <1>5
    <3>3. pushed \in Nat
      BY Constants DEF Inv, TypeOK
    <3> QED
      BY <3>1, <3>2, <3>3
  <2> QED
    BY <1>1, <2>2, <2>3, <2>4 DEF CountInv
<1> QED
  BY <1>6, <1>8, <1>9, <1>10 DEF Inv

-----------------------------------------------------------------------------
(* The theorems. *)

LEMMA Invariant == Spec => []Inv
<1>1. Init => Inv
  BY InitInv
<1>2. Inv /\ [Next]_vars => Inv'
  <2> SUFFICES ASSUME Inv, [Next]_vars PROVE Inv'
    OBVIOUS
  <2>1. ASSUME NEW i \in Threads, Push(i) PROVE Inv'
    BY <2>1, TaskQueued, TaskInline
  <2>2. ASSUME NEW i \in Threads, Step(i) PROVE Inv'
    BY <2>2, SetBitStep, NotifyStep, ReturnStep, PopOwnStep, LoadMaskStep, StealStep,
       ClearBitStep, PrepareStep, WaitStep DEF Step
  <2>3. CASE UNCHANGED vars
    <3> USE DEF vars, queueVars, configVars, walkVars, eventVars, loopVars
    <3>1. TypeOK' /\ LoopInv'
      BY <2>3 DEF Inv, TypeOK, LoopInv
    <3>2. \A i \in Threads :
            wake_state'[i] + (IF pc'[i] \in {"set_bit", "notify"} THEN 1 ELSE 0) <= pushed
      BY <2>3 DEF Inv, CountInv
    <3> QED
      BY <2>3, <3>1, <3>2, Quiet
  <2> QED
    BY <2>1, <2>2, <2>3, NextVisitStep, FinishStep DEF Next
<1> QED
  BY <1>1, <1>2, PTL DEF Spec

(* Every variable keeps its type: no deque grows past its capacity, and the  *)
(* bits of the mask are always numbers of threads, so that a thief never     *)
(* looks into a deque that is not there, whatever the width of the mask.     *)
THEOREM TypeCorrect == Spec => []TypeOK
<1>1. Inv => TypeOK
  BY DEF Inv
<1> QED
  BY <1>1, Invariant, PTL

(* Every task of a fold that was pushed waits in exactly one deque or ran    *)
(* exactly once, whatever the thieves do, under each wake policy.            *)
THEOREM TasksRunOnce == Spec => []RunOnce
<1>1. ASSUME Inv PROVE RunOnce
  <2> SUFFICES ASSUME NEW x \in 1 .. pushed
               PROVE  Cardinality({i \in Threads : Contains(deque[i], x)}) + runs[x] = 1
    BY DEF RunOnce
  <2> DEFINE places == {i \in Threads : Contains(deque[i], x)}
  <2>1. x \in Tasks /\ x <= pushed /\ runs[x] \in {0, 1}
    BY <1>1, Constants DEF Inv, TypeOK, PlaceInv, Tasks
  <2>2. CASE runs[x] = 1
    <3>1. x \notin Queued
      BY <2>2 DEF Queued
    <3>2. places = {}
      BY <1>1, <3>1 DEF Inv, PlaceInv, Contains
    <3> QED
      BY <2>2, <3>2, FS_EmptySet
  <2>3. CASE runs[x] = 0
    <3>1. x \in Queued
      BY <2>1, <2>3 DEF Queued
    <3>2. PICK i \in Threads : \E k \in 1 .. Len(deque[i]) : deque[i][k] = x
      BY <1>1, <3>1 DEF Inv, PlaceInv
    <3>3. places = {i}
      BY <1>1, <3>2 DEF Inv, PlaceInv, Contains
    <3>4. Cardinality(places) = 1
      BY <3>3, FS_Singleton
    <3> QED
      BY <2>3, <3>4
  <2> QED
    BY <2>1, <2>2, <2>3
<1> QED
  BY <1>1, Invariant, PTL

(* A thread that is about to sleep, sleeps or has left the fold has no task  *)
(* in its deque: tasks whose bit a late thief cleared, or which never had a  *)
(* bit of their own, are always those of a thread that will look.            *)
THEOREM HiddenTasks == Spec => []HiddenTasksHaveAwakeOwners
<1>1. Inv => HiddenTasksHaveAwakeOwners
  BY DEF Inv, LoopInv, Walking, HiddenTasksHaveAwakeOwners
<1> QED
  BY <1>1, Invariant, PTL
=============================================================================
