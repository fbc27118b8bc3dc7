------------------------------ MODULE TaskPool ------------------------------
(***************************************************************************)
(* What a shared queue promises: whatever is put in is handed to exactly   *)
(* one thread, or taken back by its publisher; in no particular order.     *)
(***************************************************************************)
CONSTANTS Tasks,             \* what may be put in
          Threads

VARIABLES waiting,           \* the tasks put in and not handed out
          taken              \* who got which task
vars == <<waiting, taken>>

Init == waiting = {} /\ taken = {}

Put(x) ==
  /\ x \notin waiting
  /\ \A p \in Threads : <<x, p>> \notin taken
  /\ waiting' = waiting \cup {x}
  /\ UNCHANGED taken

Take(x, p) ==
  /\ x \in waiting
  /\ waiting' = waiting \ {x}
  /\ taken' = taken \cup {<<x, p>>}

Next == \E x \in Tasks : Put(x) \/ \E p \in Threads : Take(x, p)

Spec == Init /\ [][Next]_vars
=============================================================================
