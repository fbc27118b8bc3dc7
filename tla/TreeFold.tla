------------------------------ MODULE TreeFold ------------------------------
(***************************************************************************)
(* What an executor promises: run(fold, graph, root) answers once, and its *)
(* answer is the one of the Fused executor's plain recursion. The closures *)
(* of the fold are left uninterpreted: a heap is the sequence of results   *)
(* accumulated in it, and finalize(heap) is the pair of the node and that  *)
(* sequence, so two answers are equal only when every node was folded from *)
(* the same results in the same order.                                     *)
(***************************************************************************)
EXTENDS Integers, Sequences

CONSTANTS
  Nodes,             \* the nodes
  Root,              \* the root of the fold
  Trees              \* the graphs considered: functions from a node to its children

VARIABLES children,          \* the graph of this run
          answer             \* what run returns

NoAnswer == <<>>

\* finalize of the heap that init made and accumulate filled
Finalize(node, heap) == <<node, heap>>

\* recurse: init, accumulate the children's results in visit order, finalize
recurse[n \in Nodes] ==
  Finalize(n, [i \in 1 .. Len(children[n]) |-> recurse[children[n][i]]])
Fused == recurse[Root]

Init ==
  /\ children \in Trees
  /\ answer = NoAnswer

Run ==
  /\ answer = NoAnswer
  /\ answer' = Fused
  /\ UNCHANGED children

Spec == Init /\ [][Run]_<<children, answer>>
FairSpec == Spec /\ WF_<<children, answer>>(Run)
=============================================================================
