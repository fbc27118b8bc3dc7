-------------------------- MODULE FoldChainProofs --------------------------
(***************************************************************************)
(* Proofs about the accumulator of a node, for every number of children    *)
(* and every size of its first buffer, in every setting: its types, that   *)
(* one thread at a time is in the heap, that no sweep runs ahead of the    *)
(* buffers, and, where OnFinalize is not combined with stale loads, that   *)
(* it keeps the promise of its node with exactly one finalizer.            *)
(***************************************************************************)
EXTENDS FoldChain, FiniteSetTheorems, TLAPS

\* the threads that hold the gate of `sweep`
GatePcs == {"check_done", "load_appended", "sweep_slot", "load_total", "set_done", "release",
            "release_some"}
BeforeTotal == {"append", "ensure", "set_total"}
BeforeTicket == {"task", "ticket"}
Ticketed == {k \in Slots : pc[k] \notin BeforeTicket}

\* the first n children are accumulated
HeapIs(n) == Len(heap) = n /\ \A i \in 1 .. n : heap[i] = i - 1
InOrder == [i \in 1 .. Total |-> i - 1]

\* bulk_finalize does not miss what was appended
Ordered == OnArrival \/ ~WeakMemory

-----------------------------------------------------------------------------
(* The invariant. *)

\* the walker: buffers are ahead of the slots, the total is that of the visit
WalkerInv ==
  /\ total \in {0, Total}
  /\ total = 0 <=> pc[Walker] \in BeforeTotal
  /\ pc[Walker] \notin {"append", "ensure"} => appended = Total /\ capacity >= Total
  /\ capacity >= 1
  /\ pc[Walker] = "append" => appended <= capacity
  /\ pc[Walker] = "ensure" => appended >= 1 /\ appended <= capacity + 1

\* child 0 waits for the walker
OfferInv ==
  /\ 0 \in offered => pc[Walker] \notin {"append", "ensure"}
  /\ 0 \in offered /\ InlineFirst => pc[Walker] = "returned" /\ result[Walker] = None
  /\ \A k \in Slots : /\ filled[k] <=> pc[k] # "task"
                      /\ filled[k] => k \in offered

\* one event is the last, under either policy
TicketInv ==
  /\ events = Cardinality(Ticketed)
  /\ \A p \in Procs : finalizer[p] => total = Total /\ events = Total
  /\ \A p, q \in Procs : finalizer[p] /\ finalizer[q] => p = q
  /\ \A p \in Procs : /\ pc[p] \in BulkPcs => ~OnArrival /\ finalizer[p]
                      /\ pc[p] \in SweepPcs \cup {"fin_loop"} => OnArrival

\* the gate bit stands for one thread
GateInv ==
  /\ \A p \in Procs : pc[p] \in GatePcs => sweeping
  /\ \A p, q \in Procs : pc[p] \in GatePcs /\ pc[q] \in GatePcs => p = q

\* the heap is as far as the cursor says, or the thread in it
HeapOf(p) ==
  /\ pc[p] \in GatePcs \cup BulkPcs => HeapIs(pos[p])
  /\ pc[p] = "check_done" => pos[p] = cursor
  /\ pc[p] \in BeforeTotal \cup BeforeTicket => pos[p] = 0
HeapInv ==
  /\ \A k \in Slots : k < Len(heap) => filled[k]
  /\ OnArrival /\ ~sweeping => HeapIs(cursor)
  /\ ~OnArrival /\ (\A p \in Procs : ~finalizer[p]) => HeapIs(0)
  /\ \A p \in Procs : HeapOf(p)

\* who has the result, or is about to
Winner(p) == pc[p] = "release_some" \/ result[p] \notin {None, Pending}
DoneOf(p) ==
  /\ pc[p] \in {"load_appended", "sweep_slot", "load_total", "set_done"} => ~done
  /\ pc[p] \in {"set_done", "release_some"} => pos[p] = Total /\ total = Total
  /\ Winner(p) => IF OnArrival THEN done ELSE finalizer[p]
  /\ pc[p] = "bulk_slot" /\ ~WeakMemory => limit[p] = Total
  /\ result[p] \notin {None, Pending} /\ Ordered => result[p] = InOrder
DoneInv ==
  /\ \A p \in Procs : DoneOf(p)
  /\ \A p, q \in Procs : Winner(p) /\ Winner(q) => p = q

Inv == TypeOK /\ WalkerInv /\ OfferInv /\ TicketInv /\ GateInv /\ HeapInv /\ DoneInv

-----------------------------------------------------------------------------
(* Facts about children, tickets and heaps. *)

\* children and the walker are processes, and differ
LEMMA Processes ==
  /\ Total \in Nat /\ Total >= 1 /\ InitialCap \in Nat /\ InitialCap >= 1
  /\ Slots \subseteq Procs /\ Walker \in Procs /\ Walker \notin Slots
  /\ Slots \subseteq Nat /\ 0 \in Slots
BY ChainAssumption DEF Slots, Procs, Walker

\* there are as many tickets as children, and one that is not taken leaves room
LEMMA Tickets ==
  /\ IsFiniteSet(Ticketed) /\ Cardinality(Ticketed) \in 0 .. Total
  /\ \A k \in Slots \ Ticketed :
       /\ Cardinality(Ticketed) + 1 <= Total
       /\ Cardinality(Ticketed \cup {k}) = Cardinality(Ticketed) + 1
<1>1. IsFiniteSet(Slots) /\ Cardinality(Slots) = Total
  BY FS_Interval, ChainAssumption DEF Slots
<1>2. Ticketed \subseteq Slots
  BY DEF Ticketed
<1>3. IsFiniteSet(Ticketed) /\ Cardinality(Ticketed) \in 0 .. Total
  BY <1>1, <1>2, FS_Subset, FS_CardinalityType, ChainAssumption
<1>4. \A k \in Slots \ Ticketed : Cardinality(Ticketed \cup {k}) = Cardinality(Ticketed) + 1
  BY <1>3, FS_AddElement
<1>5. \A k \in Slots \ Ticketed : Cardinality(Ticketed \cup {k}) <= Total
  BY <1>1, <1>2, FS_Subset
<1> QED
  BY <1>3, <1>4, <1>5

\* the next child goes onto the heap
LEMMA NextOnHeap ==
  ASSUME heap \in Seq(Slots), NEW n \in Slots, HeapIs(n), heap' = Append(heap, n)
  PROVE  heap' \in Seq(Slots) /\ HeapIs(n + 1)' /\ Len(heap') = n + 1
BY Processes DEF HeapIs

\* likewise with its slot, for a thread whose position is at the end of the heap
LEMMA FilledOnHeap ==
  ASSUME heap \in Seq(Slots), pos \in [Procs -> 0 .. Total], NEW p \in Procs, HeapIs(pos[p]),
         \A k \in Slots : k < Len(heap) => filled[k],
         \/ /\ pos[p] \in Slots /\ filled[pos[p]] /\ heap' = Append(heap, pos[p])
            /\ pos' = [pos EXCEPT ![p] = pos[p] + 1]
         \/ heap' = heap /\ pos' = pos
  PROVE  /\ heap' \in Seq(Slots) /\ pos' \in [Procs -> 0 .. Total] /\ HeapIs(pos[p])'
         /\ \A k \in Slots : k < Len(heap') => filled[k]
         /\ \A q \in Procs \ {p} : pos'[q] = pos[q]
<1>1. CASE heap' = heap /\ pos' = pos
  BY <1>1 DEF HeapIs
<1>2. CASE /\ pos[p] \in Slots /\ filled[pos[p]] /\ heap' = Append(heap, pos[p])
           /\ pos' = [pos EXCEPT ![p] = pos[p] + 1]
  <2>1. pos'[p] = pos[p] + 1 /\ pos' \in [Procs -> 0 .. Total]
    BY <1>2, Processes DEF Slots
  <2>2. /\ heap' \in Seq(Slots) /\ Len(heap') = pos[p] + 1
        /\ \A i \in 1 .. pos[p] + 1 : heap'[i] = i - 1
    BY <1>2, NextOnHeap DEF HeapIs
  <2>3. \A k \in Slots : k < pos[p] + 1 => k < pos[p] \/ k = pos[p]
    BY <1>2, Processes
  <2> QED
    BY <1>2, <2>1, <2>2, <2>3 DEF HeapIs
<1> QED
  BY <1>1, <1>2

\* a full heap is the result
LEMMA FullHeap ==
  ASSUME heap \in Seq(Slots), HeapIs(Total)
  PROVE  heap = InOrder
BY Processes DEF HeapIs, InOrder

\* a sequence of children is neither None nor Pending
LEMMA Results ==
  /\ None \notin Seq(Slots) /\ Pending \notin Seq(Slots) /\ None # Pending
  /\ InOrder \in Seq(Slots)
<1>1. \A s \in Seq(Slots) : Len(s) = 1 => s[1] \in Slots
  OBVIOUS
<1>2. -1 \notin Slots /\ -2 \notin Slots
  BY Processes
<1>3. Len(None) = 1 /\ None[1] = -2 /\ Len(Pending) = 1 /\ Pending[1] = -1
  BY DEF None, Pending
<1>4. InOrder \in Seq(Slots)
  BY Processes DEF InOrder, Slots
<1> QED
  BY <1>1, <1>2, <1>3, <1>4

LEMMA InitInv == Init => Inv
<1> SUFFICES ASSUME Init PROVE Inv
  OBVIOUS
<1>1. TypeOK
  BY Processes DEF Init, TypeOK, WalkerPcs, ChildPcs
<1>2. WalkerInv /\ OfferInv /\ GateInv
  BY Processes DEF Init, WalkerInv, OfferInv, GateInv, GatePcs, BeforeTotal
<1>3. TicketInv
  <2>1. Ticketed = {}
    BY Processes DEF Init, Ticketed, BeforeTicket
  <2> QED
    BY <2>1, FS_EmptySet, Processes DEF Init, TicketInv, BulkPcs, SweepPcs
<1>4. HeapInv
  BY Processes DEF Init, HeapInv, HeapOf, HeapIs, GatePcs, BulkPcs
<1>5. DoneInv
  BY Processes DEF Init, DoneInv, DoneOf, Winner
<1> QED
  BY <1>1, <1>2, <1>3, <1>4, <1>5 DEF Inv

-----------------------------------------------------------------------------
(* A step of a sweep changes its own program counter, locals and result, and *)
(* perhaps cursor, gate, done and heap.                                      *)

Calls == {"fin_loop"} \cup SweepPcs \cup BulkPcs
Sweeping(p) ==
  /\ UNCHANGED <<setting, appended, capacity, filled, events, total, offered, finalizer>>
  /\ pc[p] \in Calls /\ pc'[p] \in Calls \cup {"returned"}
  /\ pc' = [pc EXCEPT ![p] = pc'[p]]
  /\ pc'[p] \in Calls => (pc'[p] \in BulkPcs <=> pc[p] \in BulkPcs)
  /\ \A q \in Procs \ {p} : /\ pc'[q] = pc[q] /\ pos'[q] = pos[q]
                            /\ limit'[q] = limit[q] /\ result'[q] = result[q]

LEMMA SweepKeeps ==
  ASSUME Inv, NEW p \in Procs, Sweeping(p)
  PROVE  WalkerInv' /\ OfferInv' /\ TicketInv'
<1>1. /\ \A q \in Procs : pc'[q] \in BeforeTotal \cup BeforeTicket \/
                          pc[q] \in BeforeTotal \cup BeforeTicket => pc'[q] = pc[q]
      /\ \A q \in Procs : pc[q] = "returned" => pc'[q] = pc[q] /\ result'[q] = result[q]
  BY DEF Sweeping, Calls, BeforeTotal, BeforeTicket, SweepPcs, BulkPcs
<1>2. WalkerInv'
  BY <1>1, Processes DEF Inv, WalkerInv, Sweeping, BeforeTotal
<1>3. OfferInv'
  BY <1>1, Processes DEF Inv, OfferInv, Sweeping, BeforeTotal, BeforeTicket, InlineFirst
<1>4. TicketInv'
  <2>1. Ticketed' = Ticketed
    BY <1>1, Processes DEF Ticketed, BeforeTicket
  <2>2. \A q \in Procs : /\ pc'[q] \in BulkPcs => pc[q] \in BulkPcs
                         /\ pc'[q] \in SweepPcs \cup {"fin_loop"} =>
                              pc[q] \in SweepPcs \cup {"fin_loop"}
    BY DEF Sweeping, Calls, SweepPcs, BulkPcs
  <2> QED
    BY <2>1, <2>2 DEF Inv, TicketInv, Sweeping, OnArrival
<1> QED
  BY <1>2, <1>3, <1>4

\* a step's program counter is one of a sweep's
LEMMA SweepPc ==
  ASSUME Inv, NEW p \in Procs, Sweeping(p)
  PROVE  pc' \in [Procs -> WalkerPcs \cup ChildPcs]
BY DEF Inv, TypeOK, Sweeping, Calls, WalkerPcs, CallPcs

\* what the loads of `appended` and of a slot's flag may return
LEMMA Loads ==
  ASSUME Inv, NEW p \in Procs
  PROVE  /\ \A a \in ReadAppended(p) : a \in 0 .. Total /\ (~WeakMemory => a = appended)
         /\ pos[p] < limit[p] =>
              pos[p] \in Slots /\ (TRUE \in ReadFilled(p, pos[p]) => filled[pos[p]])
<1>1. \A a \in ReadAppended(p) : a \in 0 .. Total /\ (~WeakMemory => a = appended)
  BY Processes DEF ReadAppended, Inv, TypeOK
<1>2. pos[p] < limit[p] => pos[p] \in Slots
  BY Processes DEF Inv, TypeOK, Slots
<1>3. TRUE \in ReadFilled(p, pos[p]) => filled[pos[p]]
  BY DEF ReadFilled
<1> QED
  BY <1>1, <1>2, <1>3

\* which policy a thread's place in a call tells of
LEMMA Policies ==
  ASSUME Inv, NEW p \in Procs
  PROVE  /\ pc[p] \in SweepPcs \cup {"fin_loop"} => OnArrival
         /\ pc[p] \in BulkPcs => ~OnArrival /\ finalizer[p] /\ appended = Total
BY Processes DEF Inv, TicketInv, WalkerInv, BeforeTotal

\* what such a step may do to the gate, the heap and the result
GateStep(p) ==
  /\ pc'[p] \in GatePcs => sweeping' /\ (pc[p] \in GatePcs \/ ~sweeping)
  /\ sweeping => sweeping' \/ pc[p] \in GatePcs
  /\ cursor' = cursor \/ pc[p] \in GatePcs
HeapStep(p) ==
  /\ heap' = heap \/ pc[p] \in GatePcs \cup BulkPcs
  /\ \A k \in Slots : k < Len(heap') => filled[k]
  /\ OnArrival /\ ~sweeping' => HeapIs(cursor)'
  /\ HeapOf(p)'
DoneStep(p) ==
  /\ done => done'
  /\ done' = done \/ pc[p] \in GatePcs \/ ~OnArrival
  /\ Winner(p)' => Winner(p) \/ \A q \in Procs : ~Winner(q)
  /\ DoneOf(p)'

\* For a step of a sweep it is enough to look at the thread that takes it.
LEMMA SweepStep ==
  ASSUME Inv, NEW p \in Procs, Sweeping(p), TypeOK', GateStep(p), HeapStep(p), DoneStep(p)
  PROVE  Inv'
<1>1. /\ OnArrival' = OnArrival /\ WeakMemory' = WeakMemory /\ Ordered' = Ordered
      /\ finalizer' = finalizer /\ filled' = filled /\ total' = total
      /\ \A q \in Procs \ {p} : /\ pc'[q] = pc[q] /\ pos'[q] = pos[q]
                                /\ limit'[q] = limit[q] /\ result'[q] = result[q]
  BY DEF Sweeping, OnArrival, WeakMemory, Ordered
<1>2. \A q \in Procs : pc[q] \in GatePcs => OnArrival
  BY DEF Inv, TicketInv, GatePcs, SweepPcs
<1>3. \A q \in Procs : pc[q] \in BulkPcs => ~OnArrival /\ finalizer[q]
  BY DEF Inv, TicketInv
<1>4. \A q \in Procs \ {p} :
        pc[q] \in GatePcs \cup BulkPcs => pc[p] \notin GatePcs \cup BulkPcs
  BY <1>2, <1>3 DEF Inv, GateInv, TicketInv
<1>5. GateInv'
  BY <1>1 DEF Inv, GateInv, GateStep
<1>6. HeapInv'
  <2>1. \A q \in Procs \ {p} : HeapOf(q)'
    <3> SUFFICES ASSUME NEW q \in Procs \ {p} PROVE HeapOf(q)'
      OBVIOUS
    <3>1. pc[q] \in GatePcs \cup BulkPcs => HeapIs(pos[q])'
      BY <1>1, <1>4 DEF HeapStep, Inv, HeapInv, HeapOf, HeapIs
    <3>2. pc[q] = "check_done" => pos[q] = cursor'
      BY <1>4 DEF GateStep, Inv, HeapInv, HeapOf, GatePcs
    <3> QED
      BY <1>1, <3>1, <3>2 DEF Inv, HeapInv, HeapOf
  <2>2. ~OnArrival /\ (\A q \in Procs : ~finalizer[q]) => HeapIs(0)'
    BY <1>2, <1>3 DEF HeapStep, HeapIs, Inv, HeapInv
  <2> QED
    BY <1>1, <2>1, <2>2 DEF HeapStep, HeapInv
<1>7. DoneInv'
  <2>1. \A q \in Procs \ {p} : DoneOf(q)'
    <3> SUFFICES ASSUME NEW q \in Procs \ {p} PROVE DoneOf(q)'
      OBVIOUS
    <3>1. pc[q] \in {"load_appended", "sweep_slot", "load_total", "set_done"} => ~done'
      BY <1>2, <1>4 DEF DoneStep, Inv, DoneInv, DoneOf, GatePcs
    <3>2. Winner(q)' <=> Winner(q)
      BY <1>1 DEF Winner
    <3> QED
      BY <1>1, <3>1, <3>2 DEF DoneStep, Inv, DoneInv, DoneOf
  <2>2. \A q \in Procs \ {p} : Winner(q)' <=> Winner(q)
    BY <1>1 DEF Winner
  <2> QED
    BY <2>1, <2>2 DEF DoneStep, DoneInv, Inv
<1> QED
  BY <1>5, <1>6, <1>7, SweepKeeps DEF Inv

\* LoadSweep: the gate is open, or the call fails
LEMMA LoadSweepStep ==
  ASSUME Inv, NEW p \in Procs, LoadSweep(p), UNCHANGED setting
  PROVE  Inv'
<1>1. /\ pc[p] = "load_sweep" /\ pc' = [pc EXCEPT ![p] = pc'[p]]
      /\ pc'[p] \in {"fin_loop", "returned", "cas"}
      /\ result' = result \/ result' = [result EXCEPT ![p] = None]
      /\ pos' = pos \/ pos' = [pos EXCEPT ![p] = cursor]
      /\ UNCHANGED <<chainVars, setting, offered, finalizer, limit, seen, told>>
  BY DEF LoadSweep, Fail, Goto, Return, Inv, TypeOK
<1>2. Sweeping(p)
  BY <1>1 DEF Inv, TypeOK, Sweeping, Calls, SweepPcs, BulkPcs, chainVars
<1>3. TypeOK'
  <2>1. pos' \in [Procs -> 0 .. Total]
    BY <1>1 DEF Inv, TypeOK
  <2>2. result' \in [Procs -> Seq(Slots) \cup {None, Pending}]
    BY <1>1 DEF Inv, TypeOK
  <2> QED
    BY <1>1, <1>2, <2>1, <2>2, SweepPc DEF Inv, TypeOK, chainVars
<1>4. GateStep(p)
  BY <1>1 DEF GateStep, GatePcs, chainVars
<1>5. HeapStep(p)
  BY <1>1 DEF Inv, HeapInv, HeapOf, HeapIs, HeapStep, OnArrival, GatePcs, BulkPcs, BeforeTotal,
     BeforeTicket, chainVars
<1>6. DoneStep(p)
  BY <1>1 DEF Inv, TypeOK, DoneInv, DoneOf, DoneStep, Winner, Ordered, OnArrival, WeakMemory,
     chainVars
<1> QED
  BY <1>2, <1>3, <1>4, <1>5, <1>6, SweepStep

\* the compare_exchange closes the gate
LEMMA CasGateStep ==
  ASSUME Inv, NEW p \in Procs, CasGate(p), UNCHANGED setting
  PROVE  Inv'
<1>1. /\ pc[p] = "cas" /\ pc' = [pc EXCEPT ![p] = pc'[p]] /\ OnArrival
      /\ \/ /\ ~sweeping /\ cursor = pos[p] /\ pc'[p] = "check_done" /\ sweeping'
            /\ result' = result
         \/ /\ pc'[p] \in {"fin_loop", "returned"} /\ sweeping' = sweeping
            /\ result' = result \/ result' = [result EXCEPT ![p] = None]
      /\ UNCHANGED <<appended, capacity, filled, events, total, cursor, done, heap, setting,
                     offered, seen, told, finalizer, pos, limit>>
  BY Policies DEF CasGate, GateClosed, Fail, Goto, Return, Inv, TypeOK, SweepPcs
<1>2. Sweeping(p)
  BY <1>1 DEF Inv, TypeOK, Sweeping, Calls, SweepPcs, BulkPcs
<1>3. TypeOK'
  BY <1>1, <1>2, SweepPc DEF Inv, TypeOK
<1>4. GateStep(p)
  BY <1>1 DEF GateStep, GatePcs
<1>5. HeapStep(p)
  BY <1>1 DEF Inv, HeapInv, HeapOf, HeapIs, HeapStep, GatePcs, BulkPcs, BeforeTotal, BeforeTicket
<1>6. DoneStep(p)
  BY <1>1 DEF Inv, TypeOK, DoneInv, DoneOf, DoneStep, Winner, Ordered, OnArrival, WeakMemory
<1> QED
  BY <1>2, <1>3, <1>4, <1>5, <1>6, SweepStep

\* the node may be done already
LEMMA CheckDoneStep ==
  ASSUME Inv, NEW p \in Procs, CheckDone(p), UNCHANGED setting
  PROVE  Inv'
<1>1. /\ pc[p] = "check_done" /\ pc' = [pc EXCEPT ![p] = pc'[p]] /\ OnArrival
      /\ HeapIs(pos[p]) /\ pos[p] = cursor /\ sweeping
      /\ \/ /\ ~done /\ pc'[p] = "load_appended" /\ sweeping' = sweeping /\ result' = result
         \/ /\ pc'[p] \in {"fin_loop", "returned"} /\ ~sweeping'
            /\ result' = result \/ result' = [result EXCEPT ![p] = None]
      /\ sweeping' \in BOOLEAN
      /\ UNCHANGED <<appended, capacity, filled, events, total, cursor, done, heap, setting,
                     offered, seen, told, finalizer, pos, limit>>
  BY Policies DEF CheckDone, AlreadyDone, Fail, Goto, Return, Inv, TypeOK, SweepPcs, GateInv,
     HeapInv, HeapOf, GatePcs
<1>2. Sweeping(p)
  BY <1>1 DEF Inv, TypeOK, Sweeping, Calls, SweepPcs, BulkPcs
<1>3. TypeOK'
  BY <1>1, <1>2, SweepPc DEF Inv, TypeOK
<1>4. GateStep(p)
  BY <1>1 DEF GateStep, GatePcs
<1>5. HeapStep(p)
  BY <1>1 DEF Inv, HeapInv, HeapOf, HeapIs, HeapStep, GatePcs, BulkPcs, BeforeTotal, BeforeTicket
<1>6. DoneStep(p)
  BY <1>1 DEF Inv, TypeOK, DoneInv, DoneOf, DoneStep, Winner, Ordered, OnArrival, WeakMemory
<1> QED
  BY <1>2, <1>3, <1>4, <1>5, <1>6, SweepStep

\* how far the slots go
LEMMA LoadAppendedStep ==
  ASSUME Inv, NEW p \in Procs, LoadAppended(p), UNCHANGED setting
  PROVE  Inv'
<1>1. /\ pc[p] = "load_appended" /\ pc' = [pc EXCEPT ![p] = "sweep_slot"]
      /\ HeapIs(pos[p]) /\ sweeping /\ ~done
      /\ \E a \in 0 .. Total :
           limit' = [limit EXCEPT ![p] = a] /\ seen' = [seen EXCEPT ![p] = a]
      /\ UNCHANGED <<chainVars, setting, offered, told, finalizer, pos, result>>
  BY Loads DEF LoadAppended, Goto, Inv, TypeOK, GateInv, HeapInv, HeapOf,
     DoneInv, DoneOf, GatePcs
<1>2. Sweeping(p)
  BY <1>1 DEF Inv, TypeOK, Sweeping, Calls, SweepPcs, BulkPcs, chainVars
<1>3. TypeOK'
  <2>1. limit' \in [Procs -> 0 .. Total] /\ seen' \in [Procs -> 0 .. Total]
    BY <1>1 DEF Inv, TypeOK
  <2> QED
    BY <1>1, <1>2, <2>1, SweepPc DEF Inv, TypeOK, chainVars
<1>4. GateStep(p)
  BY <1>1 DEF Inv, TypeOK, GateStep, GatePcs, chainVars
<1>5. HeapStep(p)
  BY <1>1 DEF Inv, TypeOK, HeapInv, HeapOf, HeapIs, HeapStep, OnArrival, BeforeTotal,
     BeforeTicket, chainVars
<1>6. DoneStep(p)
  BY <1>1 DEF Inv, TypeOK, DoneInv, DoneOf, DoneStep, Winner, Ordered, OnArrival, WeakMemory,
     chainVars
<1> QED
  BY <1>2, <1>3, <1>4, <1>5, <1>6, SweepStep

\* a filled slot is accumulated, or the sweep ends
LEMMA SweepSlotStep ==
  ASSUME Inv, NEW p \in Procs, SweepSlot(p), UNCHANGED setting
  PROVE  Inv'
<1>1. /\ pc[p] = "sweep_slot" /\ pc' = [pc EXCEPT ![p] = pc'[p]]
      /\ HeapIs(pos[p]) /\ sweeping /\ ~done
      /\ UNCHANGED <<appended, capacity, filled, events, total, cursor, sweeping, done, setting,
                     offered, seen, told, finalizer, limit, result>>
  BY DEF SweepSlot, Goto, Inv, TypeOK, GateInv, HeapInv, HeapOf, DoneInv, DoneOf, GatePcs
<1>2. \/ /\ pc'[p] = "sweep_slot" /\ pos[p] \in Slots /\ filled[pos[p]]
         /\ heap' = Append(heap, pos[p]) /\ pos' = [pos EXCEPT ![p] = pos[p] + 1]
      \/ pc'[p] = "load_total" /\ heap' = heap /\ pos' = pos
  BY Loads DEF SweepSlot, Accumulate, Goto, Inv, TypeOK
<1>3. /\ heap' \in Seq(Slots) /\ pos' \in [Procs -> 0 .. Total] /\ HeapIs(pos[p])'
      /\ \A k \in Slots : k < Len(heap') => filled[k]
      /\ \A q \in Procs \ {p} : pos'[q] = pos[q]
  BY <1>1, <1>2, FilledOnHeap DEF Inv, TypeOK, HeapInv
<1>4. Sweeping(p)
  BY <1>1, <1>2, <1>3 DEF Inv, TypeOK, Sweeping, Calls, SweepPcs, BulkPcs
<1>5. TypeOK'
  BY <1>1, <1>3, <1>4, SweepPc DEF Inv, TypeOK
<1>6. GateStep(p)
  BY <1>1 DEF GateStep, GatePcs
<1>7. HeapStep(p)
  BY <1>1, <1>2, <1>3 DEF HeapOf, HeapStep, GatePcs, BeforeTotal, BeforeTicket
<1>8. DoneStep(p)
  BY <1>1, <1>2 DEF Inv, DoneInv, DoneOf, DoneStep, Winner, Ordered, OnArrival, WeakMemory
<1> QED
  BY <1>4, <1>5, <1>6, <1>7, <1>8, SweepStep

\* is the cursor at the total?
LEMMA LoadTotalStep ==
  ASSUME Inv, NEW p \in Procs, LoadTotal(p), UNCHANGED setting
  PROVE  Inv'
<1>1. /\ pc[p] = "load_total" /\ pc' = [pc EXCEPT ![p] = pc'[p]]
      /\ HeapIs(pos[p]) /\ sweeping /\ ~done
      /\ UNCHANGED <<chainVars, setting, offered, localVars>>
  BY DEF LoadTotal, Goto, Inv, TypeOK, GateInv, HeapInv, HeapOf, DoneInv, DoneOf, GatePcs
<1>2. \/ pc'[p] = "release"
      \/ pc'[p] = "set_done" /\ pos[p] = Total /\ total = Total
  BY Processes DEF LoadTotal, ReadTotal, Complete, Goto, Inv, TypeOK, WalkerInv
<1>3. Sweeping(p)
  BY <1>1, <1>2 DEF Inv, TypeOK, Sweeping, Calls, SweepPcs, BulkPcs, chainVars, localVars
<1>4. TypeOK'
  BY <1>1, <1>3, SweepPc DEF Inv, TypeOK, chainVars, localVars
<1>5. GateStep(p)
  BY <1>1, <1>2 DEF GateStep, GatePcs, chainVars
<1>6. HeapStep(p)
  BY <1>1, <1>2 DEF Inv, HeapInv, HeapOf, HeapIs, HeapStep, OnArrival, BeforeTotal, BeforeTicket,
     chainVars, localVars
<1>7. DoneStep(p)
  BY <1>1, <1>2 DEF Inv, DoneInv, DoneOf, DoneStep, Winner, Ordered, OnArrival, WeakMemory,
     chainVars, localVars
<1> QED
  BY <1>3, <1>4, <1>5, <1>6, <1>7, SweepStep

\* the node is done: nobody has its result yet
LEMMA SetDoneStep ==
  ASSUME Inv, NEW p \in Procs, SetDone(p), UNCHANGED setting
  PROVE  Inv'
<1>1. /\ pc[p] = "set_done" /\ pc' = [pc EXCEPT ![p] = "release_some"] /\ done'
      /\ HeapIs(pos[p]) /\ sweeping /\ ~done /\ OnArrival /\ pos[p] = Total /\ total = Total
      /\ UNCHANGED <<appended, capacity, filled, events, total, cursor, sweeping, heap, setting,
                     offered, localVars>>
  BY Policies DEF SetDone, Goto, Inv, TypeOK, GateInv, HeapInv, HeapOf, DoneInv, DoneOf, GatePcs,
     SweepPcs
<1>2. Sweeping(p)
  BY <1>1 DEF Inv, TypeOK, Sweeping, Calls, SweepPcs, BulkPcs, localVars
<1>3. TypeOK'
  BY <1>1, <1>2, SweepPc DEF Inv, TypeOK, localVars, SetDone
<1>4. GateStep(p)
  BY <1>1 DEF GateStep, GatePcs
<1>5. HeapStep(p)
  BY <1>1 DEF Inv, TypeOK, HeapInv, HeapOf, HeapIs, HeapStep, BeforeTotal, BeforeTicket, localVars
<1>6. DoneStep(p)
  <2>1. \A q \in Procs : ~Winner(q)
    BY <1>1 DEF Inv, DoneInv, DoneOf
  <2>2. DoneOf(p)'
    BY <1>1, <2>1 DEF Inv, TypeOK, DoneOf, Winner, OnArrival, localVars
  <2> QED
    BY <1>1, <2>1, <2>2 DEF DoneStep, GatePcs
<1> QED
  BY <1>2, <1>3, <1>4, <1>5, <1>6, SweepStep

\* the gate opens, with the cursor
LEMMA ReleaseStep ==
  ASSUME Inv, NEW p \in Procs, Release(p), UNCHANGED setting
  PROVE  Inv'
<1>1. /\ pc[p] = "release" /\ pc' = [pc EXCEPT ![p] = pc'[p]]
      /\ pc'[p] \in {"fin_loop", "returned"}
      /\ result' = result \/ result' = [result EXCEPT ![p] = None]
      /\ HeapIs(pos[p]) /\ sweeping /\ ~sweeping' /\ sweeping' \in BOOLEAN /\ cursor' = pos[p]
      /\ UNCHANGED <<appended, capacity, filled, events, total, done, heap, setting,
                     offered, seen, told, finalizer, pos, limit>>
  BY DEF Release, OpenGate, Fail, Goto, Return, Inv, TypeOK, GateInv, HeapInv, HeapOf, GatePcs
<1>2. Sweeping(p)
  BY <1>1 DEF Inv, TypeOK, Sweeping, Calls, SweepPcs, BulkPcs
<1>3. TypeOK'
  BY <1>1, <1>2, SweepPc DEF Inv, TypeOK
<1>4. GateStep(p)
  BY <1>1 DEF GateStep, GatePcs
<1>5. HeapStep(p)
  BY <1>1 DEF Inv, HeapInv, HeapOf, HeapIs, HeapStep, GatePcs, BulkPcs, BeforeTotal, BeforeTicket
<1>6. DoneStep(p)
  BY <1>1 DEF Inv, TypeOK, DoneInv, DoneOf, DoneStep, Winner, Ordered, OnArrival, WeakMemory
<1> QED
  BY <1>2, <1>3, <1>4, <1>5, <1>6, SweepStep

\* the gate opens, and the heap is the result
LEMMA ReleaseSomeStep ==
  ASSUME Inv, NEW p \in Procs, ReleaseSome(p), UNCHANGED setting
  PROVE  Inv'
<1>1. /\ pc[p] = "release_some" /\ pc' = [pc EXCEPT ![p] = "returned"]
      /\ result' = [result EXCEPT ![p] = heap]
      /\ HeapIs(pos[p]) /\ sweeping /\ ~sweeping' /\ sweeping' \in BOOLEAN /\ cursor' = pos[p]
      /\ pos[p] = Total /\ done /\ OnArrival
      /\ UNCHANGED <<appended, capacity, filled, events, total, done, heap, setting,
                     offered, seen, told, finalizer, pos, limit>>
  BY Policies DEF ReleaseSome, OpenGate, Goto, Return, Inv, TypeOK, GateInv, HeapInv, HeapOf,
     DoneInv, DoneOf, Winner, GatePcs, SweepPcs
<1>2. heap \in Seq(Slots) /\ heap = InOrder
  BY <1>1, FullHeap DEF Inv, TypeOK
<1>3. Sweeping(p)
  BY <1>1 DEF Inv, TypeOK, Sweeping, Calls, SweepPcs, BulkPcs
<1>4. TypeOK'
  BY <1>1, <1>2, <1>3, SweepPc DEF Inv, TypeOK
<1>5. GateStep(p)
  BY <1>1 DEF Inv, TypeOK, GateStep, GatePcs
<1>6. HeapStep(p)
  BY <1>1 DEF Inv, TypeOK, HeapInv, HeapOf, HeapIs, HeapStep, GatePcs, BulkPcs, BeforeTotal,
     BeforeTicket
<1>7. DoneStep(p)
  BY <1>1, <1>2 DEF Inv, TypeOK, DoneOf, DoneStep, Winner, OnArrival
<1> QED
  BY <1>3, <1>4, <1>5, <1>6, <1>7, SweepStep

\* the finalizer tries again until the node is done
LEMMA FinalizerLoopStep ==
  ASSUME Inv, NEW p \in Procs, FinalizerLoop(p), UNCHANGED setting
  PROVE  Inv'
<1>1. /\ pc[p] = "fin_loop" /\ pc' = [pc EXCEPT ![p] = pc'[p]]
      /\ pc'[p] \in {"load_sweep", "returned"}
      /\ result' = result \/ result' = [result EXCEPT ![p] = None]
      /\ UNCHANGED <<chainVars, setting, offered, seen, told, finalizer, pos, limit>>
  BY DEF FinalizerLoop, Goto, Return, Inv, TypeOK
<1>2. Sweeping(p)
  BY <1>1 DEF Inv, TypeOK, Sweeping, Calls, SweepPcs, BulkPcs, chainVars
<1>3. TypeOK'
  BY <1>1, <1>2, SweepPc DEF Inv, TypeOK, chainVars
<1>4. GateStep(p)
  BY <1>1 DEF GateStep, GatePcs, chainVars
<1>5. HeapStep(p)
  BY <1>1 DEF Inv, HeapInv, HeapOf, HeapIs, HeapStep, OnArrival, GatePcs, BulkPcs, BeforeTotal,
     BeforeTicket, chainVars
<1>6. DoneStep(p)
  BY <1>1 DEF Inv, TypeOK, DoneInv, DoneOf, DoneStep, Winner, Ordered, OnArrival, WeakMemory,
     chainVars
<1> QED
  BY <1>2, <1>3, <1>4, <1>5, <1>6, SweepStep

\* bulk_finalize: the one finalizer sets done
LEMMA BulkDoneStep ==
  ASSUME Inv, NEW p \in Procs, BulkDone(p), UNCHANGED setting
  PROVE  Inv'
<1>1. /\ pc[p] = "bulk_done" /\ pc' = [pc EXCEPT ![p] = "bulk_appended"] /\ done'
      /\ done' \in BOOLEAN /\ HeapIs(pos[p]) /\ ~OnArrival
      /\ UNCHANGED <<appended, capacity, filled, events, total, cursor, sweeping, heap, setting,
                     offered, localVars>>
  BY Policies DEF BulkDone, Goto, Inv, TypeOK, HeapInv, HeapOf, BulkPcs
<1>2. Sweeping(p)
  BY <1>1 DEF Inv, TypeOK, Sweeping, Calls, SweepPcs, BulkPcs, localVars
<1>3. TypeOK'
  BY <1>1, <1>2, SweepPc DEF Inv, TypeOK, localVars
<1>4. GateStep(p)
  BY <1>1 DEF Inv, TypeOK, GateStep, GatePcs
<1>5. HeapStep(p)
  BY <1>1 DEF Inv, TypeOK, HeapInv, HeapOf, HeapIs, HeapStep, OnArrival, BeforeTotal,
     BeforeTicket, localVars
<1>6. DoneStep(p)
  BY <1>1 DEF Inv, TypeOK, DoneInv, DoneOf, DoneStep, Winner, Ordered, OnArrival, WeakMemory,
     localVars
<1> QED
  BY <1>2, <1>3, <1>4, <1>5, <1>6, SweepStep

\* how many slots it takes: all of them, unless the load may be stale
LEMMA BulkAppendedStep ==
  ASSUME Inv, NEW p \in Procs, BulkAppended(p), UNCHANGED setting
  PROVE  Inv'
<1>1. /\ pc[p] = "bulk_appended" /\ pc' = [pc EXCEPT ![p] = "bulk_slot"]
      /\ HeapIs(pos[p]) /\ ~OnArrival
      /\ \E a \in 0 .. Total : /\ limit' = [limit EXCEPT ![p] = a]
                               /\ seen' = [seen EXCEPT ![p] = a]
                               /\ ~WeakMemory => a = Total
      /\ UNCHANGED <<chainVars, setting, offered, told, finalizer, pos, result>>
  BY Loads, Policies DEF BulkAppended, Goto, Inv, TypeOK, HeapInv, HeapOf, BulkPcs
<1>2. Sweeping(p)
  BY <1>1 DEF Inv, TypeOK, Sweeping, Calls, SweepPcs, BulkPcs, chainVars
<1>3. TypeOK'
  <2>1. limit' \in [Procs -> 0 .. Total] /\ seen' \in [Procs -> 0 .. Total]
    BY <1>1 DEF Inv, TypeOK
  <2> QED
    BY <1>1, <1>2, <2>1, SweepPc DEF Inv, TypeOK, chainVars
<1>4. GateStep(p)
  BY <1>1 DEF Inv, TypeOK, GateStep, GatePcs, chainVars
<1>5. HeapStep(p)
  BY <1>1 DEF Inv, TypeOK, HeapInv, HeapOf, HeapIs, HeapStep, OnArrival, BeforeTotal,
     BeforeTicket, chainVars
<1>6. DoneStep(p)
  BY <1>1 DEF Inv, TypeOK, DoneInv, DoneOf, DoneStep, Winner, Ordered, OnArrival, WeakMemory,
     chainVars
<1> QED
  BY <1>2, <1>3, <1>4, <1>5, <1>6, SweepStep

\* the next slot, once it is filled
LEMMA BulkSlotStep ==
  ASSUME Inv, NEW p \in Procs, BulkSlot(p), UNCHANGED setting
  PROVE  Inv'
<1>1. /\ pc[p] = "bulk_slot" /\ pc' = [pc EXCEPT ![p] = "bulk_slot"]
      /\ HeapIs(pos[p]) /\ ~OnArrival
      /\ UNCHANGED <<appended, capacity, filled, events, total, cursor, sweeping, done, setting,
                     offered, seen, told, finalizer, limit, result>>
  BY Policies DEF BulkSlot, Goto, Inv, TypeOK, HeapInv, HeapOf, BulkPcs
<1>2. /\ pos[p] \in Slots /\ filled[pos[p]]
      /\ heap' = Append(heap, pos[p]) /\ pos' = [pos EXCEPT ![p] = pos[p] + 1]
  BY Loads DEF BulkSlot, Accumulate, Inv, TypeOK
<1>3. /\ heap' \in Seq(Slots) /\ pos' \in [Procs -> 0 .. Total] /\ HeapIs(pos[p])'
      /\ \A k \in Slots : k < Len(heap') => filled[k]
      /\ \A q \in Procs \ {p} : pos'[q] = pos[q]
  BY <1>1, <1>2, FilledOnHeap DEF Inv, TypeOK, HeapInv
<1>4. Sweeping(p)
  BY <1>1, <1>3 DEF Inv, TypeOK, Sweeping, Calls, SweepPcs, BulkPcs
<1>5. TypeOK'
  BY <1>1, <1>3, <1>4, SweepPc DEF Inv, TypeOK
<1>6. GateStep(p)
  BY <1>1 DEF Inv, TypeOK, GateStep, GatePcs
<1>7. HeapStep(p)
  BY <1>1, <1>3 DEF Inv, TypeOK, HeapOf, HeapStep, OnArrival, BulkPcs, BeforeTotal, BeforeTicket
<1>8. DoneStep(p)
  BY <1>1 DEF Inv, TypeOK, DoneInv, DoneOf, DoneStep, Winner, Ordered, OnArrival, WeakMemory
<1> QED
  BY <1>4, <1>5, <1>6, <1>7, <1>8, SweepStep

\* the heap is the result, and it is complete if the loads were in order
LEMMA BulkReturnStep ==
  ASSUME Inv, NEW p \in Procs, BulkReturn(p), UNCHANGED setting
  PROVE  Inv'
<1>1. /\ pc[p] = "bulk_slot" /\ pc' = [pc EXCEPT ![p] = "returned"]
      /\ result' = [result EXCEPT ![p] = heap]
      /\ HeapIs(pos[p]) /\ ~OnArrival /\ finalizer[p] /\ pos[p] >= limit[p]
      /\ ~WeakMemory => limit[p] = Total
      /\ UNCHANGED <<chainVars, setting, offered, seen, told, finalizer, pos, limit>>
  BY Policies DEF BulkReturn, Return, Goto, Inv, TypeOK, HeapInv, HeapOf, DoneInv, DoneOf, BulkPcs
<1>2. ~WeakMemory => heap = InOrder
  <2>1. ~WeakMemory => pos[p] = Total
    BY <1>1, Processes DEF Inv, TypeOK
  <2> QED
    BY <1>1, <2>1, FullHeap DEF Inv, TypeOK
<1>3. Sweeping(p)
  BY <1>1 DEF Inv, TypeOK, Sweeping, Calls, SweepPcs, BulkPcs, chainVars
<1>4. TypeOK'
  BY <1>1, <1>3, SweepPc DEF Inv, TypeOK, chainVars
<1>5. GateStep(p)
  BY <1>1 DEF Inv, TypeOK, GateStep, GatePcs, chainVars
<1>6. HeapStep(p)
  BY <1>1 DEF Inv, TypeOK, HeapInv, HeapOf, HeapIs, HeapStep, OnArrival, GatePcs, BulkPcs,
     BeforeTotal, BeforeTicket, chainVars
<1>7. DoneStep(p)
  <2>1. \A q \in Procs : Winner(q) => q = p
    BY <1>1 DEF Inv, DoneInv, DoneOf, TicketInv
  <2>2. DoneOf(p)'
    BY <1>1, <1>2 DEF Inv, TypeOK, DoneOf, Winner, Ordered, OnArrival, WeakMemory, chainVars
  <2> QED
    BY <1>1, <2>1, <2>2 DEF DoneStep, chainVars
<1> QED
  BY <1>3, <1>4, <1>5, <1>6, <1>7, SweepStep

-----------------------------------------------------------------------------
(* The walker and the children, until they have their ticket.                *)

Early == BeforeTotal \cup BeforeTicket
Coming(p) ==
  /\ UNCHANGED <<setting, cursor, sweeping, done, heap, pos, limit>>
  /\ pc[p] \in Early /\ pc'[p] \in Early \cup {"load_sweep", "bulk_done", "returned"}
  /\ result' = result \/ result' = [result EXCEPT ![p] = None]
  /\ \A q \in Procs \ {p} : pc'[q] = pc[q] /\ finalizer'[q] = finalizer[q]
  /\ finalizer[p] => finalizer'[p]
  /\ pc'[p] = "bulk_done" => ~OnArrival /\ finalizer'[p] /\ \A q \in Procs : ~finalizer[q]
  /\ \A k \in Slots : filled[k] => filled'[k]
  /\ total = Total => total' = Total

\* Such a step does not touch the gate or the heap.
LEMMA ComingStep ==
  ASSUME Inv, NEW p \in Procs, Coming(p), TypeOK'
  PROVE  GateInv' /\ HeapInv' /\ DoneInv'
<1>1. /\ OnArrival' = OnArrival /\ WeakMemory' = WeakMemory /\ Ordered' = Ordered
      /\ \A n : HeapIs(n)' = HeapIs(n)
  BY DEF Coming, OnArrival, WeakMemory, Ordered, HeapIs
<1>2. /\ pc[p] \notin GatePcs \cup BulkPcs \cup {"release_some"}
      /\ pc'[p] \notin GatePcs \cup {"bulk_slot"} /\ (pc'[p] \in BulkPcs => pc'[p] = "bulk_done")
  BY DEF Coming, Early, BeforeTotal, BeforeTicket, GatePcs, BulkPcs
<1>3. GateInv'
  BY <1>2 DEF Inv, GateInv, Coming
<1>4. HeapInv'
  <2>1. HeapOf(p)'
    <3>1. pc'[p] \in GatePcs \cup BulkPcs => HeapIs(pos[p])
      BY <1>2 DEF Inv, HeapInv, HeapOf, Coming, Early
    <3>2. pc'[p] # "check_done" /\ pos'[p] = 0
      BY <1>2 DEF Inv, HeapInv, HeapOf, Coming, Early, GatePcs
    <3> QED
      BY <1>1, <3>1, <3>2 DEF HeapOf, Coming
  <2>2. \A q \in Procs \ {p} : HeapOf(q)'
    BY <1>1 DEF Inv, HeapInv, HeapOf, Coming
  <2>3. \A k \in Slots : k < Len(heap') => filled'[k]
    BY DEF Inv, HeapInv, Coming
  <2>4. (\A q \in Procs : ~finalizer'[q]) => \A q \in Procs : ~finalizer[q]
    BY DEF Coming
  <2> QED
    BY <1>1, <2>1, <2>2, <2>3, <2>4 DEF Inv, HeapInv, Coming
<1>5. DoneInv'
  <2>1. \A q \in Procs : /\ Winner(q)' => Winner(q)
                         /\ result'[q] \notin {None, Pending} => result'[q] = result[q]
    <3>1. pc'[p] # "release_some" /\ result \in [Procs -> Seq(Slots) \cup {None, Pending}]
      BY <1>2 DEF GatePcs, Inv, TypeOK
    <3>2. \A q \in Procs : result'[q] \notin {None, Pending} => result'[q] = result[q]
      BY <3>1 DEF Coming
    <3> QED
      BY <3>1, <3>2 DEF Winner, Coming
  <2>2. \A q \in Procs : finalizer[q] => finalizer'[q]
    BY DEF Coming
  <2>3. \A q \in Procs : DoneOf(q)'
    BY <1>1, <1>2, <2>1, <2>2 DEF Inv, DoneInv, DoneOf, Coming, GatePcs
  <2> QED
    BY <2>1, <2>3 DEF Inv, DoneInv
<1> QED
  BY <1>3, <1>4, <1>5

\* a step that leaves the children's tickets alone
LEMMA TicketsStay ==
  ASSUME Inv, TypeOK', UNCHANGED <<setting, events, finalizer>>,
         \A k \in Slots : pc'[k] = pc[k] \/ {pc[k], pc'[k]} \subseteq BeforeTicket,
         \A p \in Procs : pc'[p] = pc[p] \/ pc'[p] \notin Calls,
         total # 0 => total' = total
  PROVE  TicketInv'
<1>1. Ticketed' = Ticketed
  BY DEF Ticketed, BeforeTicket
<1>2. \A p \in Procs : finalizer[p] => total' = Total
  BY Processes DEF Inv, TicketInv
<1> QED
  BY <1>1, <1>2 DEF Inv, TicketInv, OnArrival, Calls

\* a slot is handed out
LEMMA AppendSlotStep ==
  ASSUME Inv, AppendSlot, UNCHANGED setting
  PROVE  Inv'
<1>1. /\ pc[Walker] = "append" /\ pc' = [pc EXCEPT ![Walker] = "ensure"]
      /\ appended < Total /\ appended' = appended + 1
      /\ UNCHANGED <<capacity, filled, events, total, cursor, sweeping, done, heap, setting,
                     offered, localVars>>
  BY DEF AppendSlot, Goto
<1>2. TypeOK'
  <2>1. appended' \in 0 .. Total
    BY <1>1, Processes DEF Inv, TypeOK
  <2>2. pc' \in [Procs -> WalkerPcs \cup ChildPcs]
    BY <1>1 DEF Inv, TypeOK, WalkerPcs
  <2> QED
    BY <1>1, <2>1, <2>2 DEF Inv, TypeOK, localVars
<1>3. WalkerInv'
  BY <1>1, Processes DEF Inv, TypeOK, WalkerInv, BeforeTotal
<1>4. OfferInv'
  BY <1>1, Processes DEF Inv, TypeOK, OfferInv, InlineFirst, localVars
<1>5. TicketInv'
  BY <1>1, <1>2, Processes, TicketsStay DEF Inv, TypeOK, Calls, SweepPcs, BulkPcs, localVars
<1>6. Coming(Walker)
  BY <1>1 DEF Inv, TypeOK, Coming, Early, BeforeTotal, localVars
<1> QED
  BY <1>2, <1>3, <1>4, <1>5, <1>6, ComingStep, Processes DEF Inv

\* its buffer is there, and its task may be pushed
LEMMA EnsureOverflowStep ==
  ASSUME Inv, EnsureOverflow, UNCHANGED setting
  PROVE  Inv'
<1>1. /\ pc[Walker] = "ensure"
      /\ pc' = [pc EXCEPT ![Walker] = IF appended = Total THEN "set_total" ELSE "append"]
      /\ capacity' = IF appended - 1 < capacity THEN capacity ELSE 2 * capacity
      /\ offered' = OfferedAfter(appended - 1)
      /\ seen' = [seen EXCEPT ![appended - 1] = appended]
      /\ UNCHANGED <<appended, filled, events, total, cursor, sweeping, done, heap, setting,
                     told, finalizer, pos, limit, result>>
  BY DEF EnsureOverflow, Goto
<1>2. appended \in 1 .. Total /\ appended <= capacity + 1 /\ capacity >= 1 /\ capacity \in Nat
  BY <1>1 DEF Inv, TypeOK, WalkerInv
<1>3. offered \subseteq offered' /\ offered' \subseteq Slots
  <2>1. offered \subseteq Slots /\ appended - 1 \in Slots
    BY <1>2, Processes DEF Inv, TypeOK, Slots
  <2> QED
    BY <1>1, <2>1 DEF OfferedAfter
<1>4. TypeOK'
  <2>1. capacity' \in Nat
    BY <1>1, <1>2
  <2>2. pc' \in [Procs -> WalkerPcs \cup ChildPcs]
    BY <1>1 DEF Inv, TypeOK, WalkerPcs
  <2>3. seen' \in [Procs -> 0 .. Total]
    BY <1>1, <1>2, Processes DEF Inv, TypeOK
  <2>4. offered' \in SUBSET Slots
    BY <1>3
  <2> QED
    BY <1>1, <2>1, <2>2, <2>3, <2>4 DEF Inv, TypeOK
<1>5. WalkerInv'
  BY <1>1, <1>2, Processes DEF Inv, TypeOK, WalkerInv, BeforeTotal
<1>6. OfferInv'
  <2>1. 0 \notin offered
    BY <1>1 DEF Inv, OfferInv
  <2>2. 0 \in offered' => ~InlineFirst /\ appended = Total
    BY <1>1, <2>1 DEF OfferedAfter
  <2>3. \A k \in Slots : pc'[k] = pc[k]
    BY <1>1, Processes DEF Inv, TypeOK
  <2> QED
    BY <1>1, <1>3, <2>2, <2>3, Processes DEF Inv, TypeOK, OfferInv, InlineFirst
<1>7. TicketInv'
  BY <1>1, <1>4, Processes, TicketsStay DEF Inv, TypeOK, Calls, SweepPcs, BulkPcs
<1>8. Coming(Walker)
  BY <1>1 DEF Inv, TypeOK, Coming, Early, BeforeTotal
<1> QED
  BY <1>4, <1>5, <1>6, <1>7, <1>8, ComingStep, Processes DEF Inv

\* the walker goes on into child 0
LEMMA InlineChildStep ==
  ASSUME Inv, InlineChild, UNCHANGED setting
  PROVE  Inv'
<1>1. /\ pc[Walker] = "returned" /\ result[Walker] = None /\ offered' = offered \cup {0}
      /\ seen' = [seen EXCEPT ![0] = appended]
      /\ UNCHANGED <<chainVars, setting, pc, told, finalizer, pos, limit, result>>
  BY DEF InlineChild
<1>2. TypeOK'
  BY <1>1, Processes DEF Inv, TypeOK, chainVars
<1>3. WalkerInv' /\ GateInv'
  BY <1>1 DEF Inv, WalkerInv, GateInv, chainVars
<1>4. OfferInv'
  BY <1>1 DEF Inv, OfferInv, InlineFirst, chainVars
<1>5. TicketInv'
  BY <1>1, <1>2, TicketsStay DEF chainVars
<1>6. HeapInv'
  BY <1>1 DEF Inv, HeapInv, HeapOf, HeapIs, OnArrival, chainVars
<1>7. DoneInv'
  BY <1>1 DEF Inv, DoneInv, DoneOf, Winner, Ordered, OnArrival, WeakMemory, chainVars
<1> QED
  BY <1>2, <1>3, <1>4, <1>5, <1>6, <1>7 DEF Inv

\* a child delivers
LEMMA FillStep ==
  ASSUME Inv, NEW k \in Slots, Fill(k), UNCHANGED setting
  PROVE  Inv'
<1>1. /\ pc[k] = "task" /\ pc' = [pc EXCEPT ![k] = "ticket"] /\ k \in offered
      /\ filled' = [filled EXCEPT ![k] = TRUE]
      /\ UNCHANGED <<appended, capacity, events, total, cursor, sweeping, done, heap, setting,
                     offered, localVars>>
  BY DEF Fill, Goto
<1>2. TypeOK'
  BY <1>1, Processes DEF Inv, TypeOK, ChildPcs, CallPcs, localVars
<1>3. WalkerInv'
  BY <1>1, Processes DEF Inv, TypeOK, WalkerInv
<1>4. OfferInv'
  BY <1>1, Processes DEF Inv, TypeOK, OfferInv, InlineFirst, localVars
<1>5. TicketInv'
  BY <1>1, <1>2, Processes, TicketsStay
     DEF Inv, TypeOK, Calls, SweepPcs, BulkPcs, BeforeTicket, localVars
<1>6. Coming(k)
  BY <1>1, Processes DEF Inv, TypeOK, Coming, Early, BeforeTicket, localVars
<1> QED
  BY <1>2, <1>3, <1>4, <1>5, <1>6, ComingStep, Processes DEF Inv

\* where a ticket leads: a sweep, or back
LEMMA AfterTickets ==
  ASSUME Inv, NEW p \in Procs, NEW from \in Early, NEW last \in BOOLEAN,
         AfterTicket(p, from, last), UNCHANGED setting
  PROVE  /\ pc[p] = from /\ pc' = [pc EXCEPT ![p] = pc'[p]]
         /\ pc'[p] \in {"load_sweep", "bulk_done", "returned"}
         /\ pc'[p] = "load_sweep" => OnArrival
         /\ pc'[p] = "bulk_done" => ~OnArrival /\ last
         /\ result' = result \/ result' = [result EXCEPT ![p] = None]
         /\ result' \in [Procs -> Seq(Slots) \cup {None, Pending}]
BY DEF AfterTicket, Goto, Return, Inv, TypeOK

\* the total is known: the walker's own event, if all children had theirs
LEMMA SetTotalStep ==
  ASSUME Inv, SetTotal, UNCHANGED setting
  PROVE  Inv'
<1> DEFINE last == events >= appended
<1>0. last \in BOOLEAN
  OBVIOUS
<1>1. /\ total' = appended /\ told' = [told EXCEPT ![Walker] = TRUE]
      /\ seen' = [seen EXCEPT ![Walker] = appended]
      /\ finalizer' = [finalizer EXCEPT ![Walker] = last]
      /\ AfterTicket(Walker, "set_total", last)
      /\ UNCHANGED <<appended, capacity, filled, events, cursor, sweeping, done, heap, setting,
                     offered, pos, limit>>
  BY DEF SetTotal
<1> HIDE DEF last
<1>2. /\ pc[Walker] = "set_total" /\ pc' = [pc EXCEPT ![Walker] = pc'[Walker]]
      /\ pc'[Walker] \in {"load_sweep", "bulk_done", "returned"}
      /\ pc'[Walker] = "load_sweep" => OnArrival
      /\ pc'[Walker] = "bulk_done" => ~OnArrival /\ last
      /\ result' = result \/ result' = [result EXCEPT ![Walker] = None]
      /\ result' \in [Procs -> Seq(Slots) \cup {None, Pending}]
  BY <1>0, <1>1, AfterTickets, Processes DEF Early, BeforeTotal
<1>3. appended = Total /\ capacity >= Total /\ total = 0 /\ \A q \in Procs : ~finalizer[q]
  BY <1>2, Processes DEF Inv, WalkerInv, TicketInv, BeforeTotal
<1>4. TypeOK'
  <2>1. pc' \in [Procs -> WalkerPcs \cup ChildPcs]
    BY <1>2 DEF Inv, TypeOK, WalkerPcs, CallPcs, SweepPcs, BulkPcs
  <2>2. /\ total' \in 0 .. Total /\ seen' \in [Procs -> 0 .. Total]
        /\ told' \in [Procs -> BOOLEAN] /\ finalizer' \in [Procs -> BOOLEAN]
    BY <1>0, <1>1 DEF Inv, TypeOK
  <2> QED
    BY <1>1, <1>2, <2>1, <2>2 DEF Inv, TypeOK
<1>5. WalkerInv'
  BY <1>1, <1>2, <1>3, Processes DEF Inv, TypeOK, WalkerInv, BeforeTotal
<1>6. OfferInv'
  <2>1. InlineFirst => 0 \notin offered
    BY <1>2 DEF Inv, OfferInv
  <2> QED
    <3>1. /\ pc \in [Procs -> WalkerPcs \cup ChildPcs] /\ Slots \subseteq Procs \ {Walker}
          /\ setting' = setting /\ filled' = filled /\ offered' = offered
      BY <1>1, Processes DEF Inv, TypeOK
    <3>2. pc'[Walker] \notin {"append", "ensure"} /\ \A k \in Slots : pc'[k] = pc[k]
      BY <1>2, <3>1
    <3> QED
      BY <2>1, <3>1, <3>2 DEF Inv, OfferInv, InlineFirst
<1>7. TicketInv'
  <2>1. Ticketed' = Ticketed
    BY <1>2, Processes DEF Ticketed, Inv, TypeOK
  <2>2. last => events = Total
    BY <1>3, Processes DEF Inv, TypeOK, last
  <2>3. \A q \in Procs : finalizer'[q] => q = Walker /\ last
    BY <1>1, <1>3, Processes DEF Inv, TypeOK
  <2>4. finalizer'[Walker] = last
    BY <1>1, Processes DEF Inv, TypeOK
  <2>5. \A q \in Procs : q # Walker => pc'[q] = pc[q]
    BY <1>2, Processes DEF Inv, TypeOK
  <2>6. \A q \in Procs : pc'[q] \in BulkPcs => ~OnArrival /\ finalizer'[q]
    BY <1>2, <1>3, <2>4, <2>5 DEF Inv, TicketInv, BulkPcs
  <2>7. \A q \in Procs : pc'[q] \in SweepPcs \cup {"fin_loop"} => OnArrival
    BY <1>2, <2>5 DEF Inv, TicketInv, SweepPcs
  <2> QED
    BY <1>1, <1>3, <2>1, <2>2, <2>3, <2>6, <2>7 DEF Inv, TicketInv, OnArrival
<1>8. Coming(Walker)
  BY <1>1, <1>2, <1>3, Processes DEF Inv, TypeOK, Coming, Early, BeforeTotal
<1> QED
  BY <1>4, <1>5, <1>6, <1>7, <1>8, ComingStep, Processes DEF Inv

\* a child's ticket: the last one makes the finalizer
LEMMA TicketStep ==
  ASSUME Inv, NEW k \in Slots, Ticket(k), UNCHANGED setting
  PROVE  Inv'
<1>1. /\ events' = events + 1 /\ told' = [told EXCEPT ![k] = total > 0]
      /\ finalizer' = [finalizer EXCEPT ![k] = LastTicket]
      /\ AfterTicket(k, "ticket", LastTicket)
      /\ UNCHANGED <<appended, capacity, filled, total, cursor, sweeping, done, heap, setting,
                     offered, seen, pos, limit>>
  BY DEF Ticket
<1>2. /\ pc[k] = "ticket" /\ pc' = [pc EXCEPT ![k] = pc'[k]]
      /\ pc'[k] \in {"load_sweep", "bulk_done", "returned"}
      /\ pc'[k] = "load_sweep" => OnArrival
      /\ pc'[k] = "bulk_done" => ~OnArrival /\ LastTicket
      /\ result' = result \/ result' = [result EXCEPT ![k] = None]
      /\ result' \in [Procs -> Seq(Slots) \cup {None, Pending}]
  BY <1>1, AfterTickets, Processes DEF Early, BeforeTicket, LastTicket
<1>3. /\ k \notin Ticketed /\ Ticketed' = Ticketed \cup {k}
      /\ \A q \in Procs : q # k => pc'[q] = pc[q]
  <2>1. pc \in [Procs -> WalkerPcs \cup ChildPcs] /\ Slots \subseteq Procs
    BY Processes DEF Inv, TypeOK
  <2>2. pc'[k] \notin BeforeTicket /\ \A q \in Procs : q # k => pc'[q] = pc[q]
    BY <1>2, <2>1 DEF BeforeTicket
  <2> QED
    BY <1>2, <2>1, <2>2 DEF Ticketed, BeforeTicket
<1>4. events' \in 0 .. Total /\ events < Total /\ events' = Cardinality(Ticketed')
  <2>1. /\ events = Cardinality(Ticketed) /\ events \in 0 .. Total
        /\ Cardinality(Ticketed) + 1 <= Total
        /\ Cardinality(Ticketed \cup {k}) = Cardinality(Ticketed) + 1
    BY <1>3, Tickets DEF Inv, TypeOK, TicketInv
  <2>2. Cardinality(Ticketed') = Cardinality(Ticketed \cup {k})
    BY <1>3
  <2> QED
    BY <1>1, <2>1, <2>2, Processes
<1>5. \A q \in Procs : ~finalizer[q]
  BY <1>4, Processes DEF Inv, TypeOK, TicketInv
<1>6. LastTicket => total = Total /\ events' = Total
  BY <1>1, <1>4, Processes DEF LastTicket, Inv, TypeOK, WalkerInv
<1>7. TypeOK'
  <2>1. pc' \in [Procs -> WalkerPcs \cup ChildPcs]
    BY <1>2 DEF Inv, TypeOK, ChildPcs, CallPcs, SweepPcs, BulkPcs
  <2>2. told' \in [Procs -> BOOLEAN] /\ finalizer' \in [Procs -> BOOLEAN]
    <3>1. LastTicket \in BOOLEAN /\ (total > 0) \in BOOLEAN
      BY DEF LastTicket
    <3>2. told \in [Procs -> BOOLEAN] /\ finalizer \in [Procs -> BOOLEAN] /\ k \in Procs
      BY Processes DEF Inv, TypeOK
    <3> HIDE DEF LastTicket
    <3> QED
      BY <1>1, <3>1, <3>2
  <2> QED
    BY <1>1, <1>2, <1>4, <2>1, <2>2 DEF Inv, TypeOK
<1>8. WalkerInv'
  BY <1>1, <1>3, Processes DEF Inv, WalkerInv
<1>9. OfferInv'
  <2>1. pc'[k] # "task" /\ k \in Procs /\ k # Walker /\ Walker \in Procs
    BY <1>2, Processes
  <2>2. result'[Walker] = result[Walker]
    BY <1>2, <2>1 DEF Inv, TypeOK
  <2>3. pc'[Walker] = pc[Walker] /\ \A j \in Slots : pc'[j] = "task" <=> pc[j] = "task"
    BY <1>2, <1>3, <2>1, Processes
  <2> QED
    BY <1>1, <2>2, <2>3 DEF Inv, OfferInv, InlineFirst
<1>10. TicketInv'
  <2>1. \A q \in Procs : finalizer'[q] => q = k /\ LastTicket
    BY <1>1, <1>5, Processes DEF Inv, TypeOK
  <2>2. finalizer'[k] = LastTicket
    BY <1>1, Processes DEF Inv, TypeOK
  <2>3. \A q \in Procs : pc'[q] \in BulkPcs => ~OnArrival /\ finalizer'[q]
    BY <1>2, <1>3, <1>5, <2>2 DEF Inv, TicketInv, BulkPcs
  <2>4. \A q \in Procs : pc'[q] \in SweepPcs \cup {"fin_loop"} => OnArrival
    BY <1>2, <1>3 DEF Inv, TicketInv, SweepPcs
  <2> QED
    BY <1>1, <1>4, <1>6, <2>1, <2>3, <2>4 DEF TicketInv, OnArrival
<1>11. Coming(k)
  BY <1>1, <1>2, <1>3, <1>5, Processes DEF Inv, TypeOK, Coming, Early, BeforeTicket
<1> QED
  BY <1>7, <1>8, <1>9, <1>10, <1>11, ComingStep, Processes DEF Inv

-----------------------------------------------------------------------------
(* Every step keeps the invariant. *)
LEMMA NextInv == Inv /\ [Next]_vars => Inv'
<1> SUFFICES ASSUME Inv, [Next]_vars PROVE Inv'
  OBVIOUS
<1>1. CASE WalkerStep /\ UNCHANGED setting
  BY <1>1, AppendSlotStep, EnsureOverflowStep, SetTotalStep, InlineChildStep DEF WalkerStep
<1>2. CASE (\E k \in Slots : ChildStep(k)) /\ UNCHANGED setting
  BY <1>2, FillStep, TicketStep DEF ChildStep
<1>3. ASSUME NEW p \in Procs, TrySweep(p), UNCHANGED setting PROVE Inv'
  BY <1>3, LoadSweepStep, CasGateStep, CheckDoneStep, LoadAppendedStep, SweepSlotStep,
     LoadTotalStep, SetDoneStep, ReleaseStep, ReleaseSomeStep, FinalizerLoopStep DEF TrySweep
<1>4. ASSUME NEW p \in Procs, BulkFinalize(p), UNCHANGED setting PROVE Inv'
  BY <1>4, BulkDoneStep, BulkAppendedStep, BulkSlotStep, BulkReturnStep DEF BulkFinalize
<1>5. CASE UNCHANGED vars
  <2>1. Ticketed' = Ticketed
    BY <1>5 DEF vars, Ticketed
  <2>2. TypeOK' /\ WalkerInv' /\ OfferInv' /\ TicketInv' /\ GateInv'
    BY <1>5, <2>1 DEF vars, chainVars, localVars, Inv, TypeOK, WalkerInv, OfferInv, TicketInv,
       GateInv, InlineFirst, OnArrival
  <2>3. HeapInv' /\ DoneInv'
    BY <1>5 DEF vars, chainVars, localVars, Inv, HeapInv, HeapOf, HeapIs, DoneInv, DoneOf, Winner,
       Ordered, OnArrival, WeakMemory
  <2> QED
    BY <2>2, <2>3 DEF Inv
<1> QED
  BY <1>1, <1>2, <1>3, <1>4, <1>5 DEF Next, Step, Sweep, Terminated

LEMMA Invariant == Spec => []Inv
BY InitInv, NextInv, PTL DEF Spec

-----------------------------------------------------------------------------
(* What follows. *)

\* Counters, cursor, positions and results stay within the children.
THEOREM TypeCorrect == Spec => []TypeOK
<1>1. Inv => TypeOK
  BY DEF Inv
<1> QED
  BY <1>1, Invariant, PTL

\* One thread at a time is in the heap, which the chain keeps in an UnsafeCell:
\* the gate bit and the last ticket stand in for a lock, in every setting.
THEOREM OneThreadInHeap == Spec => []HeapExclusive
<1>1. Inv => HeapExclusive
  <2> SUFFICES ASSUME Inv, NEW p \in Procs, NEW q \in Procs,
                      pc[p] \in {"sweep_slot", "load_total", "set_done", "bulk_slot"},
                      pc[q] \in {"sweep_slot", "load_total", "set_done", "bulk_slot"}
               PROVE  p = q
    BY DEF HeapExclusive
  <2>1. /\ pc[p] \in BulkPcs \/ pc[p] \in GatePcs \cap SweepPcs
        /\ pc[q] \in BulkPcs \/ pc[q] \in GatePcs \cap SweepPcs
    BY DEF BulkPcs, GatePcs, SweepPcs
  <2>2. CASE OnArrival
    BY <2>1, <2>2 DEF Inv, TicketInv, GateInv
  <2>3. CASE ~OnArrival
    BY <2>1, <2>3 DEF Inv, TicketInv
  <2> QED
    BY <2>2, <2>3
<1> QED
  BY <1>1, Invariant, PTL

\* No sweep asks slot_at for a slot whose buffer is not installed yet, although
\* append_slot counts the slot before it installs the buffer: a sweep gets past
\* slot 0 only once child 0 has delivered, which no task of it does before the last
\* slot is appended.
THEOREM NoSlotAhead == Spec => []NoSlotBeyondBuffers
<1>1. Inv => NoSlotBeyondBuffers
  <2> SUFFICES ASSUME Inv, NEW p \in Procs, pc[p] \in {"sweep_slot", "bulk_slot"},
                      pos[p] < limit[p]
               PROVE  pos[p] < capacity
    BY DEF NoSlotBeyondBuffers
  <2>1. HeapIs(pos[p]) /\ pos[p] \in 0 .. Total /\ limit[p] \in 0 .. Total /\ capacity \in Nat
    BY DEF Inv, TypeOK, HeapInv, HeapOf, GatePcs, BulkPcs
  <2>2. CASE pos[p] = 0
    BY <2>2, <2>1 DEF Inv, WalkerInv
  <2>3. CASE pos[p] > 0
    <3>1. filled[0]
      BY <2>1, <2>3, Processes DEF Inv, HeapInv, HeapIs
    <3>2. pc[Walker] \notin {"append", "ensure"}
      BY <3>1, Processes DEF Inv, OfferInv
    <3>3. capacity >= Total
      BY <3>2 DEF Inv, WalkerInv
    <3> QED
      BY <2>1, <3>3, Processes
  <2> QED
    BY <2>1, <2>2, <2>3
<1> QED
  BY <1>1, Invariant, PTL

\* a finished heap has child 0 in it, whose task started after set_total returned None
LEMMA WalkerIsNotLast ==
  ASSUME Inv, InlineFirst, pc[Walker] # "returned"
  PROVE  /\ pc[Walker] # "release_some"
         /\ ~finalizer[Walker]
<1>1. ~filled[0]
  BY Processes DEF Inv, OfferInv
<1>2. ASSUME pc[Walker] = "release_some" PROVE FALSE
  <2>1. HeapIs(pos[Walker]) /\ pos[Walker] = Total
    BY <1>2, Processes DEF Inv, HeapInv, HeapOf, DoneInv, DoneOf, GatePcs
  <2>2. filled[0]
    BY <2>1, Processes DEF Inv, HeapInv, HeapIs
  <2> QED
    BY <1>1, <2>2
<1>3. ASSUME finalizer[Walker] PROVE FALSE
  <2>1. 0 \in Slots \ Ticketed
    BY <1>1, Processes DEF Inv, OfferInv, Ticketed, BeforeTicket
  <2>2. events = Total /\ events = Cardinality(Ticketed)
    BY <1>3, Processes DEF Inv, TicketInv
  <2>3. Cardinality(Ticketed) + 1 <= Total
    BY <2>1, Tickets
  <2> QED
    BY <2>2, <2>3, Processes
<1> QED
  BY <1>2, <1>3

\* The Some branch of set_total in walk_cps is never taken, whatever the policy
\* and however late the loads: child 0 is the walker's own, after set_total.
THEOREM ChildZeroKeepsItOpen == Spec => []SetTotalNeverLast
<1>1. Init => SetTotalNeverLast
  BY Processes DEF Init, SetTotalNeverLast
<1>2. ASSUME Inv, SetTotalNeverLast, [Next]_vars PROVE SetTotalNeverLast'
  <2> SUFFICES ASSUME InlineFirst', result'[Walker] \notin {None, Pending} PROVE FALSE
    BY DEF SetTotalNeverLast
  <2>0. result'[Walker] \notin {None, Pending}
    OBVIOUS
  <2>1. setting' = setting
    BY <1>2 DEF Next, Terminated, vars
  <2>2. InlineFirst /\ result'[Walker] # result[Walker]
    BY <1>2, <2>1 DEF SetTotalNeverLast, InlineFirst
  <2>3. ReleaseSome(Walker) \/ BulkReturn(Walker)
    <3>1. result \in [Procs -> Seq(Slots) \cup {None, Pending}] /\ Walker \in Procs
      BY <1>2, Processes DEF Inv, TypeOK
    <3>2. ~WalkerStep
      BY <2>2, <2>0, <3>1 DEF WalkerStep, AppendSlot, EnsureOverflow, SetTotal, InlineChild,
         AfterTicket, Return, localVars
    <3>3. ASSUME NEW k \in Slots PROVE ~ChildStep(k)
      BY <2>2, <2>0, <3>1, Processes DEF ChildStep, Fill, Ticket, AfterTicket, Return, localVars
    <3>4. ASSUME NEW p \in Procs, TrySweep(p) PROVE ReleaseSome(Walker)
      BY <3>4, <2>2, <2>0, <3>1 DEF TrySweep, LoadSweep, CasGate, CheckDone, LoadAppended,
         SweepSlot, LoadTotal, SetDone, Release, ReleaseSome, FinalizerLoop, Fail, Return, localVars
    <3>5. ASSUME NEW p \in Procs, BulkFinalize(p) PROVE BulkReturn(Walker)
      BY <3>5, <2>2, <2>0, <3>1 DEF BulkFinalize, BulkDone, BulkAppended, BulkSlot, BulkReturn,
         Return, localVars
    <3>6. Step
      BY <1>2, <2>2 DEF Next, Terminated, vars, localVars
    <3> QED
      BY <3>2, <3>3, <3>4, <3>5, <3>6 DEF Step, Sweep
  <2>4. pc[Walker] = "release_some" \/ (pc[Walker] = "bulk_slot" /\ finalizer[Walker])
    <3>1. pc[Walker] = "release_some" \/ pc[Walker] = "bulk_slot"
      BY <2>3 DEF ReleaseSome, BulkReturn, Return, Goto
    <3> QED
      BY <1>2, <3>1, Policies, Processes DEF BulkPcs
  <2> QED
    BY <1>2, <2>2, <2>4, WalkerIsNotLast
<1> QED
  BY <1>1, <1>2, Invariant, PTL DEF Spec

\* OnFinalize is not combined with stale loads
StrongOrOnArrival == \A s \in Settings : s.accumulate = "OnArrival" \/ ~s.weakMemory

\* Whoever is told to go on with the parent is the only one, and has the fold of
\* all children in the order of the visit. (OnFinalize may load `appended` stale:
\* the violation MCFoldChain_stale shows; without that, both policies have it.)
THEOREM OneFinalizer ==
  ASSUME StrongOrOnArrival
  PROVE  Spec => []ExactlyOneFinalizer
<1>1. Inv => ExactlyOneFinalizer
  <2>1. Inv => Ordered
    BY StrongOrOnArrival DEF StrongOrOnArrival, Inv, TypeOK, Ordered, OnArrival, WeakMemory
  <2>2. \A p \in Finalizers : p \in Procs /\ Winner(p) /\ result[p] \notin {None, Pending}
    BY DEF Finalizers, Winner
  <2> QED
    BY <2>1, <2>2 DEF ExactlyOneFinalizer, Inv, DoneInv, DoneOf, InOrder
<1> QED
  BY <1>1, Invariant, PTL

-----------------------------------------------------------------------------
(* The chain implements the promise of its node.                             *)

\* a call has no result before it returns
Waiting == \A p \in Procs : pc[p] # "returned" => result[p] = Pending

\* what a step does to calls that are not returning the heap
ResultStays ==
  \A q \in Procs : \/ result'[q] = result[q]
                   \/ result[q] = Pending /\ result'[q] = None
CallsGoOn ==
  \A q \in Procs : pc'[q] # "returned" => pc[q] # "returned" /\ result'[q] = result[q]

\* a call is somewhere, or returned
LEMMA GotoStep ==
  ASSUME Inv, Waiting, NEW p \in Procs, NEW from \in Calls \cup Early, NEW to,
         Goto(p, from, to), result' = result
  PROVE  CallsGoOn /\ ResultStays
BY DEF Goto, CallsGoOn, ResultStays, Waiting, Inv, TypeOK, Calls, Early, SweepPcs, BulkPcs,
   BeforeTotal, BeforeTicket

\* likewise when it returns
LEMMA ReturnStep ==
  ASSUME Inv, Waiting, NEW p \in Procs, NEW from \in Calls \cup Early, NEW r, Return(p, from, r)
  PROVE  CallsGoOn /\ (r = None => ResultStays)
BY DEF Return, Goto, CallsGoOn, ResultStays, Waiting, Inv, TypeOK, Calls, Early, SweepPcs, BulkPcs,
   BeforeTotal, BeforeTicket

\* likewise for a try_sweep that returns None
LEMMA FailStep ==
  ASSUME Inv, Waiting, NEW p \in Procs, NEW from \in Calls, Fail(p, from)
  PROVE  CallsGoOn /\ ResultStays
BY GotoStep, ReturnStep DEF Fail

\* likewise for a ticket
LEMMA TicketResult ==
  ASSUME Inv, Waiting, NEW p \in Procs, NEW from \in Early, NEW last, AfterTicket(p, from, last)
  PROVE  CallsGoOn /\ ResultStays
BY GotoStep, ReturnStep DEF AfterTicket

\* The kinds of step: a delivery, the total, a result, or nothing the parent sees.
LEMMA Kinds ==
  ASSUME Inv, Waiting, [Next]_vars
  PROVE  /\ CallsGoOn
         /\ \/ \E k \in Slots : Fill(k) /\ ResultStays
            \/ SetTotal /\ ResultStays
            \/ \E p \in Procs : ReleaseSome(p) \/ BulkReturn(p)
            \/ UNCHANGED <<filled, total>> /\ ResultStays
<1>0. /\ {"append", "ensure", "set_total", "task", "ticket"} \subseteq Early
      /\ SweepPcs \cup BulkPcs \cup {"fin_loop"} \subseteq Calls
      /\ Walker \in Procs /\ Slots \subseteq Procs
  BY Processes DEF Early, BeforeTotal, BeforeTicket, Calls
<1>1. CASE AppendSlot \/ EnsureOverflow
  BY <1>0, <1>1, GotoStep DEF AppendSlot, EnsureOverflow, localVars
<1>2. CASE SetTotal
  BY <1>0, <1>2, TicketResult DEF SetTotal
<1>3. CASE InlineChild
  BY <1>3 DEF InlineChild, CallsGoOn, ResultStays, chainVars
<1>4. ASSUME NEW k \in Slots, Fill(k) PROVE CallsGoOn /\ ResultStays
  BY <1>0, <1>4, GotoStep DEF Fill, localVars
<1>5. ASSUME NEW k \in Slots, Ticket(k)
      PROVE  CallsGoOn /\ ResultStays /\ UNCHANGED <<filled, total>>
  BY <1>0, <1>5, TicketResult DEF Ticket
<1>6. ASSUME NEW p \in Procs, TrySweep(p)
      PROVE  CallsGoOn /\ (ReleaseSome(p) \/ (ResultStays /\ UNCHANGED <<filled, total>>))
  <2>1. CASE LoadSweep(p)
    BY <1>0, <2>1, FailStep, GotoStep DEF LoadSweep, SweepPcs, chainVars
  <2>2. CASE CasGate(p)
    BY <1>0, <2>2, FailStep, GotoStep DEF CasGate, SweepPcs
  <2>3. CASE CheckDone(p)
    BY <1>0, <2>3, FailStep, GotoStep DEF CheckDone, SweepPcs
  <2>4. CASE LoadAppended(p) \/ LoadTotal(p) \/ SetDone(p)
    BY <1>0, <2>4, GotoStep DEF LoadAppended, LoadTotal, SetDone, SweepPcs, chainVars, localVars
  <2>5. CASE SweepSlot(p)
    BY <1>0, <2>5, GotoStep DEF SweepSlot, SweepPcs
  <2>6. CASE Release(p)
    BY <1>0, <2>6, FailStep DEF Release, OpenGate, SweepPcs
  <2>7. CASE ReleaseSome(p)
    BY <1>0, <2>7, ReturnStep DEF ReleaseSome, SweepPcs
  <2>8. CASE FinalizerLoop(p)
    BY <1>0, <2>8, GotoStep, ReturnStep DEF FinalizerLoop, chainVars
  <2> QED
    BY <1>6, <2>1, <2>2, <2>3, <2>4, <2>5, <2>6, <2>7, <2>8 DEF TrySweep
<1>7. ASSUME NEW p \in Procs, BulkFinalize(p)
      PROVE  CallsGoOn /\ (BulkReturn(p) \/ (ResultStays /\ UNCHANGED <<filled, total>>))
  <2>1. CASE BulkDone(p) \/ BulkAppended(p) \/ BulkSlot(p)
    BY <1>0, <2>1, GotoStep DEF BulkDone, BulkAppended, BulkSlot, BulkPcs, chainVars, localVars
  <2>2. CASE BulkReturn(p)
    BY <1>0, <2>2, ReturnStep DEF BulkReturn, BulkPcs
  <2> QED
    BY <1>7, <2>1, <2>2 DEF BulkFinalize
<1>8. CASE UNCHANGED vars
  BY <1>8 DEF vars, chainVars, localVars, CallsGoOn, ResultStays
<1>9. CASE WalkerStep
  BY <1>1, <1>2, <1>3, <1>9 DEF WalkerStep, AppendSlot, EnsureOverflow, InlineChild, chainVars
<1> QED
  BY <1>4, <1>5, <1>6, <1>7, <1>8, <1>9 DEF Next, Step, ChildStep, Sweep, Terminated

\* no result before a call returns
LEMMA WaitingInvariant == Spec => []Waiting
<1>1. Init => Waiting
  BY DEF Init, Waiting
<1>2. Inv /\ Waiting /\ [Next]_vars => Waiting'
  BY Kinds DEF Waiting, CallsGoOn
<1> QED
  BY <1>1, <1>2, Invariant, PTL DEF Spec

\* what the parent sees: nothing, or the one result
LEMMA Outcome ==
  ASSUME ExactlyOneFinalizer
  PROVE  /\ Finalizers = {} => outcomeOf = Promise!NoResult
         /\ \A p \in Finalizers : outcomeOf = Promise!InOrder
BY DEF outcomeOf, ExactlyOneFinalizer, Promise!NoResult, Promise!InOrder

\* The result comes when the total is known, all children have delivered, and
\* nobody has it.
LEMMA FinalStep ==
  ASSUME Inv, Waiting, ExactlyOneFinalizer, ExactlyOneFinalizer',
         NEW p \in Procs, ReleaseSome(p) \/ BulkReturn(p)
  PROVE  Promise!Finalize
<1>1. /\ UNCHANGED <<filled, total>> /\ pc[p] # "returned" /\ result'[p] = heap
      /\ heap \in Seq(Slots) /\ heap' = heap
  BY DEF ReleaseSome, BulkReturn, Return, Goto, OpenGate, chainVars, Inv, TypeOK
<1>2. total = Total
  <2>1. CASE ReleaseSome(p)
    BY <2>1 DEF ReleaseSome, Return, Goto, Inv, DoneInv, DoneOf
  <2>2. CASE BulkReturn(p)
    BY <2>2, Policies DEF BulkReturn, Return, Goto, BulkPcs, Inv, TicketInv
  <2> QED
    BY <2>1, <2>2
<1>3. p \in Finalizers'
  BY <1>1, Results DEF Finalizers
<1>4. \A k \in Slots : filled[k]
  <2>1. heap = [i \in 1 .. Total |-> i - 1]
    BY <1>1, <1>3 DEF ExactlyOneFinalizer
  <2>2. Len(heap) = Total
    BY <2>1, Processes
  <2> QED
    BY <2>2, Processes DEF Inv, HeapInv, Slots
<1>5. Finalizers = {}
  <2> SUFFICES ASSUME NEW q \in Finalizers PROVE FALSE
    OBVIOUS
  <2>1. q \in Procs /\ Winner(q) /\ q # p
    BY <1>1 DEF Finalizers, Winner, Waiting
  <2>2. CASE ReleaseSome(p)
    BY <2>1, <2>2 DEF ReleaseSome, Return, Goto, Winner, Inv, DoneInv
  <2>3. CASE BulkReturn(p)
    BY <2>1, <2>3, Policies
       DEF BulkReturn, Return, Goto, BulkPcs, Inv, DoneInv, DoneOf, TicketInv
  <2> QED
    BY <2>2, <2>3
<1>6. outcomeOf = Promise!NoResult /\ outcomeOf' = Promise!InOrder
  <2>1. outcomeOf = Promise!NoResult
    BY <1>5, Outcome
  <2>2. outcomeOf' = result'[CHOOSE q \in Finalizers' : TRUE]
    BY <1>3 DEF outcomeOf
  <2>3. (CHOOSE q \in Finalizers' : TRUE) \in Finalizers'
    BY <1>3
  <2>4. outcomeOf' = Promise!InOrder
    BY <2>2, <2>3 DEF ExactlyOneFinalizer, Promise!InOrder
  <2> QED
    BY <2>1, <2>4
<1> QED
  BY <1>1, <1>2, <1>4, <1>6, Processes
     DEF Promise!Finalize, Promise!Slots, Slots

\* a step that brings no result changes nothing of the outcome
LEMMA OutcomeStays ==
  ASSUME ResultStays
  PROVE  outcomeOf' = outcomeOf
<1>1. Finalizers' = Finalizers /\ \A p \in Finalizers : result'[p] = result[p]
  BY DEF ResultStays, Finalizers
<1>2. CASE Finalizers = {}
  BY <1>1, <1>2 DEF outcomeOf
<1>3. CASE Finalizers # {}
  <2>1. (CHOOSE p \in Finalizers : TRUE) \in Finalizers
    BY <1>3
  <2> QED
    BY <1>1, <1>3, <2>1 DEF outcomeOf
<1> QED
  BY <1>2, <1>3

\* The chain implements FoldPromise, for every number of children: a child's
\* delivery, the walker's set_total and the return of the heap are the steps of
\* the promise, and nothing else of either policy shows.
THEOREM Implements ==
  ASSUME StrongOrOnArrival
  PROVE  Spec => Promise!Spec
<1>1. Init => Promise!Init
  <2> SUFFICES ASSUME Init PROVE Promise!Init
    OBVIOUS
  <2>1. Finalizers = {}
    BY DEF Init, Finalizers
  <2> QED
    BY <2>1 DEF Init, Promise!Init, outcomeOf, Promise!NoResult
<1>2. Inv /\ Waiting /\ ExactlyOneFinalizer /\ ExactlyOneFinalizer' /\ [Next]_vars
      => [Promise!Next]_(Promise!vars)
  <2> SUFFICES ASSUME Inv, Waiting, ExactlyOneFinalizer, ExactlyOneFinalizer', [Next]_vars
               PROVE  [Promise!Next]_(Promise!vars)
    OBVIOUS
  <2>1. ASSUME NEW k \in Slots, Fill(k), ResultStays PROVE Promise!Deliver(k)
    <3>1. filled \in [Slots -> BOOLEAN] /\ ~filled[k]
      BY <2>1 DEF Inv, TypeOK, OfferInv, Fill, Goto
    <3>2. filled' = [filled EXCEPT ![k] = TRUE] /\ total' = total
      BY <2>1 DEF Fill
    <3> QED
      BY <2>1, <3>1, <3>2, OutcomeStays DEF Promise!Deliver
  <2>2. CASE SetTotal /\ ResultStays
    <3>1. total = 0 /\ total' = Total /\ filled' = filled
      BY <2>2 DEF SetTotal, AfterTicket, Goto, Return, Inv, WalkerInv, BeforeTotal
    <3> QED
      BY <2>2, <3>1, OutcomeStays, Processes DEF Promise!Next, Promise!Close
  <2>3. ASSUME NEW p \in Procs, ReleaseSome(p) \/ BulkReturn(p) PROVE Promise!Next
    BY <2>3, FinalStep DEF Promise!Next
  <2>4. CASE UNCHANGED <<filled, total>> /\ ResultStays
    BY <2>4, OutcomeStays DEF Promise!vars
  <2>5. \A k \in Slots : Promise!Deliver(k) => Promise!Next
    BY DEF Promise!Next, Promise!Slots, Slots
  <2> QED
    BY <2>1, <2>2, <2>3, <2>4, <2>5, Kinds
<1> QED
  BY <1>1, <1>2, Invariant, WaitingInvariant, OneFinalizer, PTL DEF Spec, Promise!Spec
=============================================================================
