------------------------------ MODULE TaskDeque ------------------------------
(***************************************************************************)
(* What a worker's deque promises: a bounded sequence that its owner       *)
(* extends and shortens at the bottom and that anybody may shorten at the  *)
(* top, each in one atomic step. A task taken is a task put in, once.      *)
(***************************************************************************)
EXTENDS Integers, Sequences

CONSTANTS Tasks,             \* what may be put in
          Bound              \* how many fit

VARIABLES content,           \* the tasks present, oldest first
          taken              \* the tasks handed out
vars == <<content, taken>>

Init == content = <<>> /\ taken = {}

PushBottom(x) ==
  /\ Len(content) < Bound
  /\ content' = Append(content, x)
  /\ UNCHANGED taken

PopBottom ==
  /\ content # <<>>
  /\ taken' = taken \cup {content[Len(content)]}
  /\ content' = SubSeq(content, 1, Len(content) - 1)

StealTop ==
  /\ content # <<>>
  /\ taken' = taken \cup {Head(content)}
  /\ content' = Tail(content)

Next == (\E x \in Tasks : PushBottom(x)) \/ PopBottom \/ StealTop

Spec == Init /\ [][Next]_vars
=============================================================================
