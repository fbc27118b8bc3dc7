---------------------------- MODULE FoldPromise ----------------------------
(***************************************************************************)
(* What the accumulator of one node promises to the continuation that      *)
(* waits for it: once the number of children is known and every child has  *)
(* delivered, exactly one result comes out, and it is the fold of all the  *)
(* children in the order of the visit. Each AccumulateStrategy (OnArrival, *)
(* OnFinalize) of FoldChain is to implement this.                          *)
(***************************************************************************)
EXTENDS Integers, Sequences

CONSTANT Total               \* the number of children, not 0

Slots == 0 .. Total - 1
NoResult == <<-1>>
\* the children accumulated in order
InOrder == [i \in 1 .. Total |-> i - 1]

VARIABLES delivered,         \* children whose result has arrived
          closed,            \* is the number of children known?
          outcome            \* what the finalizer hands to the parent
vars == <<delivered, closed, outcome>>

Init ==
  /\ delivered = {}
  /\ closed = FALSE
  /\ outcome = NoResult

Deliver(k) ==
  /\ k \notin delivered
  /\ delivered' = delivered \cup {k}
  /\ UNCHANGED <<closed, outcome>>

Close ==
  /\ ~closed
  /\ closed' = TRUE
  /\ UNCHANGED <<delivered, outcome>>

Finalize ==
  /\ closed
  /\ delivered = Slots
  /\ outcome = NoResult
  /\ outcome' = InOrder
  /\ UNCHANGED <<delivered, closed>>

Next == (\E k \in Slots : Deliver(k)) \/ Close \/ Finalize

Spec == Init /\ [][Next]_vars
Fairness == WF_vars(Finalize)
FairSpec == Spec /\ Fairness
=============================================================================
