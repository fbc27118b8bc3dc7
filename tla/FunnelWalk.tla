----------------------------- MODULE FunnelWalk -----------------------------
(***************************************************************************)
(* The continuation-passing walk of the Funnel executor over a whole tree: *)
(* walk_cps visits a node, pushes a task for every child but the first,    *)
(* and goes on into the first; fire_cont carries a result up through       *)
(* continuations until a node has to wait for a sibling; any thread that   *)
(* has nothing to do acquires a task. A push to a full queue runs the task *)
(* inside the visit of its parent.                                         *)
(*                                                                         *)
(* The accumulator of a node is the promise of FoldPromise, which both     *)
(* policies of FoldChain keep: of the calls (deliver and set_total) that   *)
(* overlap when the last child is in, exactly one gets the folded heap.    *)
(* A queue is the set of tasks its owner has pushed, and any of them may   *)
(* be acquired next, which covers LIFO pops, FIFO steals and the Shared    *)
(* queue. Threads that sleep are threads that do not acquire.              *)
(***************************************************************************)
EXTENDS Integers, Sequences, FiniteSets

CONSTANTS
  Nodes, Root, Trees,  \* see TreeFold; here a node is a place in the tree
  Threads,             \* the caller and the workers inside worker_loop
  Caller,              \* the thread that runs run_fold's body
  Capacity             \* tasks that fit in one thread's queue

ASSUME WalkAssumption ==
  /\ Root \in Nodes
  /\ Caller \in Threads
  /\ Capacity \in Nat \ {0}

\* a node is the child of one node at most, at one place, and the root of none
OneParent(c) ==
  /\ \A n, m \in Nodes : \A i \in DOMAIN c[n], j \in DOMAIN c[m] :
       c[n][i] = c[m][j] => n = m /\ i = j
  /\ \A n \in Nodes : \A i \in DOMAIN c[n] : c[n][i] # Root

\* there is no way without an end, neither up nor down
UpEnds(c) == \A U \in (SUBSET Nodes) \ {{}} :
  \E n \in U : \A m \in U : \A i \in DOMAIN c[m] : c[m][i] # n
DownEnds(c) == \A U \in (SUBSET Nodes) \ {{}} :
  \E n \in U : \A i \in DOMAIN c[n] : c[n][i] \notin U

\* the graphs are trees
ASSUME TreeAssumption ==
  /\ Trees \subseteq [Nodes -> Seq(Nodes)]
  /\ \A c \in Trees : OneParent(c) /\ UpEnds(c) /\ DownEnds(c)

VARIABLES
  children,          \* the graph: the children of each node in visit order
  queue,             \* tasks pushed by each thread and not acquired yet
  stack,             \* the activations of each thread, the running one last
  slots,             \* FoldChain: the results delivered, by child, to each node
  closed,            \* nodes whose chain knows its total
  finalized,         \* nodes whose chain has handed out its result
  parent,            \* ChainNode.parent_cont
  arena,             \* cont_arena: the parent continuation of each only child
  root_cell,         \* RootCell.result
  visits             \* history: how often fold.init and graph.visit ran on a node

nodeVars == <<slots, closed, finalized, parent, arena>>
vars == <<children, queue, stack, nodeVars, root_cell, visits>>

NoAnswer == <<>>
NoResult == <<>>                       \* an empty slot
NoCont == [kind |-> "none"]
RootCont == [kind |-> "root"]
Direct(n) == [kind |-> "direct", node |-> n]
Slot(n, i) == [kind |-> "slot", node |-> n, slot |-> i]

Finalize(n, heap) == <<n, heap>>

\* the activations: in graph.visit with `next` children seen (cont_opt is
\* taken at the second), in fire_cont, and in
\* a call of the chain of `node` (deliver, or set_total by its walker)
Visiting(n, c, i) == [op |-> "visit", node |-> n, cont |-> c, next |-> i]
Firing(c, r) == [op |-> "fire", cont |-> c, result |-> r]
Delivering(n) == [op |-> "deliver", node |-> n]
SettingTotal(n) == [op |-> "set_total", node |-> n]

Task(n, c) == [child |-> n, cont |-> c]

Init ==
  /\ children \in Trees
  /\ queue = [t \in Threads |-> {}]
  /\ stack = [t \in Threads |->
                IF t = Caller THEN <<Visiting(Root, RootCont, 0)>> ELSE <<>>]
  /\ slots = [n \in Nodes |-> <<>>]
  /\ closed = {} /\ finalized = {}
  /\ parent = [n \in Nodes |-> NoCont]
  /\ arena = [n \in Nodes |-> NoCont]
  /\ root_cell = NoAnswer
  /\ visits = [n \in Nodes |-> 0]

Runs(t, op) == stack[t] # <<>> /\ stack[t][Len(stack[t])].op = op
Top(t) == stack[t][Len(stack[t])]
Rest(t) == SubSeq(stack[t], 1, Len(stack[t]) - 1)
\* the running activation becomes `frames`
Become(t, frames) == stack' = [stack EXCEPT ![t] = Rest(t) \o frames]

-----------------------------------------------------------------------------
(* walk_cps: the visit of the children. *)

FirstChild(t) ==
  /\ Runs(t, "visit")
  /\ LET f == Top(t) IN
     /\ f.next = 0
     /\ children[f.node] # <<>>
     /\ Become(t, <<Visiting(f.node, f.cont, 1)>>)
  /\ UNCHANGED <<children, queue, nodeVars, root_cell, visits>>

\* mutant: the task gets the slot of the sibling before it
SlotOfSibling(n, i) == Slot(n, i - 1)
SlotOf(n, i) == Slot(n, i)

\* push_task: into the thread's queue, or run at once when that is full
PushTask(t, n, i) ==
  LET f == Top(t)
      visit == Visiting(n, NoCont, i)
      child == children[n][i]
  IN \/ /\ Cardinality(queue[t]) < Capacity
        /\ queue' = [queue EXCEPT ![t] = @ \cup {Task(child, SlotOf(n, i))}]
        /\ Become(t, <<visit>>)
     \/ /\ Cardinality(queue[t]) = Capacity
        /\ Become(t, <<visit, Visiting(child, SlotOf(n, i), 0)>>)
        /\ UNCHANGED queue

\* the second child makes the ChainNode, with the parent's continuation in it and a
\* slot for each of the first two
NextChild(t) ==
  /\ Runs(t, "visit")
  /\ LET f == Top(t)
         n == f.node
         i == f.next + 1
     IN /\ i \in 2 .. Len(children[n])
        /\ PushTask(t, n, i)
        /\ \/ i = 2 /\ slots' = [slots EXCEPT ![n] = <<NoResult, NoResult>>]
                    /\ parent' = [parent EXCEPT ![n] = f.cont]
           \/ i > 2 /\ slots' = [slots EXCEPT ![n] = Append(@, NoResult)]
                    /\ UNCHANGED parent
  /\ UNCHANGED <<children, closed, finalized, arena, root_cell, visits>>

\* graph.visit has returned
Visited(t) ==
  /\ Runs(t, "visit")
  /\ Top(t).next = Len(children[Top(t).node])
  /\ visits' = [visits EXCEPT ![Top(t).node] = @ + 1]

Leaf(t) ==
  /\ Visited(t)
  /\ LET f == Top(t) IN
     /\ children[f.node] = <<>>
     /\ Become(t, <<Firing(f.cont, Finalize(f.node, <<>>))>>)
  /\ UNCHANGED <<children, queue, nodeVars, root_cell>>

\* an only child is walked with Cont::Direct; the continuation goes to the arena
OnlyChild(t) ==
  /\ Visited(t)
  /\ LET f == Top(t) IN
     /\ Len(children[f.node]) = 1
     /\ arena' = [arena EXCEPT ![f.node] = f.cont]
     /\ Become(t, <<Visiting(children[f.node][1], Direct(f.node), 0)>>)
  /\ UNCHANGED <<children, queue, slots, closed, finalized, parent, root_cell>>

SetTotal(t) ==
  /\ Visited(t)
  /\ LET n == Top(t).node IN
     /\ Len(children[n]) > 1
     /\ closed' = closed \cup {n}
     /\ Become(t, <<SettingTotal(n)>>)
  /\ UNCHANGED <<children, queue, slots, finalized, parent, arena, root_cell>>

-----------------------------------------------------------------------------
(* The calls of a chain. *)

Complete(n) == n \in closed /\ \A i \in DOMAIN slots[n] : slots[n][i] # NoResult

InCall(t, n) == \/ Runs(t, "deliver") /\ Top(t).node = n
                \/ Runs(t, "set_total") /\ Top(t).node = n

\* the call returns Some: take_parent_cont, and on with the node's own result
Finalizes(t, n) ==
  /\ InCall(t, n)
  /\ Complete(n)
  /\ n \notin finalized
  /\ finalized' = finalized \cup {n}
  /\ parent' = [parent EXCEPT ![n] = NoCont]
  /\ Become(t, <<Firing(parent[n], Finalize(n, slots[n]))>>)
  /\ UNCHANGED <<children, queue, slots, closed, arena, root_cell, visits>>

\* the call returns None: a child is missing, or it is somebody else's turn
Leaves(t, n) ==
  /\ InCall(t, n)
  /\ \/ ~Complete(n)
     \/ n \in finalized
     \/ \E u \in Threads \ {t} : InCall(u, n)
  /\ \/ Runs(t, "deliver") /\ Become(t, <<>>)
     \/ /\ Runs(t, "set_total")
        /\ Become(t, <<Visiting(children[n][1], SlotOf(n, 1), 0)>>)
  /\ UNCHANGED <<children, queue, nodeVars, root_cell, visits>>

-----------------------------------------------------------------------------
(* fire_cont *)

FireRoot(t) ==
  /\ Runs(t, "fire")
  /\ Top(t).cont = RootCont
  /\ root_cell' = Top(t).result
  /\ Become(t, <<>>)
  /\ UNCHANGED <<children, queue, nodeVars, visits>>

\* mutant: the continuation is copied out of the arena, not taken
FireDirectCopy(t) ==
  /\ Runs(t, "fire")
  /\ Top(t).cont.kind = "direct"
  /\ LET n == Top(t).cont.node IN
     Become(t, <<Firing(arena[n], Finalize(n, <<Top(t).result>>))>>)
  /\ UNCHANGED <<children, queue, nodeVars, root_cell, visits>>

FireDirect(t) ==
  /\ Runs(t, "fire")
  /\ Top(t).cont.kind = "direct"
  /\ LET n == Top(t).cont.node IN
     /\ Become(t, <<Firing(arena[n], Finalize(n, <<Top(t).result>>))>>)
     /\ arena' = [arena EXCEPT ![n] = NoCont]
  /\ UNCHANGED <<children, queue, slots, closed, finalized, parent, root_cell, visits>>

\* mutant: a child is accumulated when it arrives
FireSlotInArrivalOrder(t) ==
  /\ Runs(t, "fire")
  /\ Top(t).cont.kind = "slot"
  /\ LET n == Top(t).cont.node
         first == CHOOSE i \in DOMAIN slots[n] :
                    /\ slots[n][i] = NoResult
                    /\ \A j \in 1 .. i - 1 : slots[n][j] # NoResult
     IN /\ slots' = [slots EXCEPT ![n][first] = Top(t).result]
        /\ Become(t, <<Delivering(n)>>)
  /\ UNCHANGED <<children, queue, closed, finalized, parent, arena, root_cell, visits>>

FireSlot(t) ==
  /\ Runs(t, "fire")
  /\ Top(t).cont.kind = "slot"
  /\ LET c == Top(t).cont IN
     /\ slots' = [slots EXCEPT ![c.node][c.slot] = Top(t).result]
     /\ Become(t, <<Delivering(c.node)>>)
  /\ UNCHANGED <<children, queue, closed, finalized, parent, arena, root_cell, visits>>

-----------------------------------------------------------------------------
(* The loops of run_fold and worker_loop. *)

Remove(u, task) == queue' = [queue EXCEPT ![u] = @ \ {task}]

\* the caller looks at the root cell before each acquire
Acquire(t) ==
  /\ stack[t] = <<>>
  /\ t = Caller => root_cell = NoAnswer
  /\ \E u \in Threads : \E task \in queue[u] :
       /\ Remove(u, task)
       /\ stack' = [stack EXCEPT ![t] = <<Visiting(task.child, task.cont, 0)>>]
  /\ UNCHANGED <<children, nodeVars, root_cell, visits>>

Walk(t) ==
  \/ FirstChild(t)
  \/ NextChild(t)
  \/ Leaf(t)
  \/ OnlyChild(t)
  \/ SetTotal(t)
  \/ FireRoot(t)
  \/ FireDirect(t)
  \/ FireSlot(t)
  \/ \E n \in Nodes : Finalizes(t, n) \/ Leaves(t, n)

\* every thread is back in its loop, and finds the fold done
Terminated ==
  /\ root_cell # NoAnswer
  /\ \A t \in Threads : stack[t] = <<>>
  /\ UNCHANGED vars

Next ==
  \/ \E t \in Threads : Walk(t) \/ Acquire(t)
  \/ Terminated

Spec == Init /\ [][Next]_vars

\* every thread finishes the task it has; only the caller is sure to look for more,
\* because a worker may sleep through a push
Fairness ==
  /\ \A t \in Threads : WF_vars(Walk(t))
  /\ WF_vars(Acquire(Caller))

FairSpec == Spec /\ Fairness

-----------------------------------------------------------------------------
Conts == {NoCont, RootCont} \cup {Direct(n) : n \in Nodes}
           \cup UNION {{Slot(n, i) : i \in DOMAIN children[n]} : n \in Nodes}
Visits == UNION {[op : {"visit"}, node : {n}, cont : Conts, next : 0 .. Len(children[n])] :
                   n \in Nodes}
Frames == Visits \cup [op : {"deliver", "set_total"}, node : Nodes]

(* Type correctness: activations, tasks and continuations are well-formed and *)
(* a queue never holds more than fits.                                       *)
TypeOK ==
  /\ children \in Trees
  /\ \A t \in Threads : /\ queue[t] \subseteq [child : Nodes, cont : Conts]
                        /\ Cardinality(queue[t]) <= Capacity
  /\ \A t \in Threads : \A d \in DOMAIN stack[t] :
       \/ stack[t][d] \in Frames
       \/ stack[t][d].op = "fire" /\ stack[t][d].cont \in Conts \ {NoCont}
  /\ closed \subseteq Nodes /\ finalized \subseteq closed
  /\ parent \in [Nodes -> Conts] /\ arena \in [Nodes -> Conts]
  /\ \A n \in Nodes : Len(slots[n]) <= Len(children[n])
  /\ visits \in [Nodes -> Nat]

\* the places a continuation can be in, and what is in them
TaskPlaces == UNION {{<<"task", t, task>> : task \in queue[t]} : t \in Threads}
StackPlaces == UNION {{<<"stack", t, d>> : d \in {e \in DOMAIN stack[t] :
                                              stack[t][e].op \in {"visit", "fire"}}} :
                      t \in Threads}
Places == TaskPlaces \cup StackPlaces \cup ({"parent", "arena"} \X Nodes)
Held(p) == CASE p[1] = "task" -> p[3].cont
             [] p[1] = "stack" -> stack[p[2]][p[3]].cont
             [] p[1] = "parent" -> parent[p[2]]
             [] p[1] = "arena" -> arena[p[2]]

(* Continuations are used linearly: each is in one task, one activation, one  *)
(* node or one cell of the arena, and nowhere once it has been fired. The     *)
(* SAFETY comments of fire_cont ("Direct conts are consumed exactly once")    *)
(* and take_parent_cont rest on it. The closures run once per node, however   *)
(* tasks are stolen, run inline or overtaken by their siblings' results.      *)
LinearConts ==
  /\ \A p, q \in Places : Held(p) = Held(q) /\ Held(p) # NoCont => p = q
  /\ \A p \in Places : Held(p).kind = "slot" =>
       slots[Held(p).node][Held(p).slot] = NoResult
  /\ \A n \in Nodes : visits[n] <= 1

(* When the root cell is set the fold is over for everybody: no task is       *)
(* queued, no activation has anything to visit or fire, and every continuation *)
(* that was put away has been taken again, which is why ContArena may drop its *)
(* segments without looking at them.                                          *)
NothingLeft ==
  root_cell # NoAnswer =>
    /\ \A t \in Threads : /\ queue[t] = {}
                          /\ \A d \in DOMAIN stack[t] : stack[t][d].op = "deliver"
    /\ \A n \in Nodes : parent[n] = NoCont /\ arena[n] = NoCont

(* The Funnel executor answers, once, what the Fused recursion answers, even  *)
(* if no worker ever looks for a task.                                        *)
Promise == INSTANCE TreeFold WITH answer <- root_cell
ComputesFold == Promise!FairSpec
=============================================================================
