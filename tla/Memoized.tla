------------------------------ MODULE Memoized ------------------------------
(***************************************************************************)
(* A memoised graph run by the Fused executor from several threads that    *)
(* share its cache. A run is a stack of frames, one for each call of       *)
(* recurse, and a step is a critical section of the cache, a call of the   *)
(* graph's closure, or a recursive call or return. The closures of the     *)
(* fold are uninterpreted, as in TreeFold.                                 *)
(***************************************************************************)
EXTENDS Integers, Sequences

CONSTANTS
    Nodes, Root,  \* see TreeFold
    Graphs,       \* the graphs considered: functions from a node to its children
    Keys, KeyFns, \* the keys of the cache, and the functions that give a node its key
    Threads,      \* runs made with one memoised graph
    MaxPanics     \* bound on the panics of a graph function

\* there is no way down without an end: on another graph the recursion does not end either
Ends(g) == \A U \in (SUBSET Nodes) \ {{}} :
    \E n \in U : \A i \in DOMAIN g[n] : g[n][i] \notin U

ASSUME MemoizedAssumption ==
    /\ Root \in Nodes
    /\ Graphs \subseteq [Nodes -> Seq(Nodes)] /\ \A g \in Graphs : Ends(g)
    /\ KeyFns \subseteq [Nodes -> Keys]
    /\ "free" \notin Threads /\ "poisoned" \notin Threads
    /\ MaxPanics \in Nat

VARIABLES
    children, \* the graph
    key,      \* the user's key function
    memo,     \* "open": not chosen yet; else which memo wraps the graph
    cache,    \* the HashMap: key -> children
    lock,     \* its Mutex or RefCell: "free", a thread, or "poisoned"
    pc,       \* where each run is
    frames,   \* the call stack of each run, innermost last
    outcome,  \* what each run has returned
    asked,    \* history: how often each run had the graph compute the children of a key
    panics    \* panics so far

cacheVars == <<cache, lock, asked>>
graphVars == <<children, key, memo>>
memoVars == <<graphVars, cacheVars, pc, frames, outcome, panics>>

\* the recursion without a cache
Plain == INSTANCE TreeFold WITH Trees <- Graphs, answer <- outcome

\* "by": memoize_treeish_by, which computes with the lock released; "lift":
\* memoize_by_lift of Shared, which computes under it; "local": the same over
\* RefCell, for one thread.
Memos == {"none", "by", "lift", "local"}
ComputesLocked == {"lift", "local"}
Over == {"idle", "done", "panicked"}

Init ==
    /\ memo = "open" /\ children = <<>> /\ key = <<>>
    /\ cache = <<>> /\ lock = "free" /\ panics = 0
    /\ pc = [t \in Threads |-> "idle"]
    /\ frames = [t \in Threads |-> <<>>]
    /\ outcome = [t \in Threads |-> <<>>]
    /\ asked = [t \in Threads |-> [k \in Keys |-> 0]]

\* What the user owes: nodes of one key have the same children.
SameChildren(g, k) == \A n, m \in Nodes : k[n] = k[m] => g[n] = g[m]

Memoise(m, g, k) ==
    /\ memo = "open" /\ SameChildren(g, k)
    /\ memo' = m /\ children' = g /\ key' = k
    /\ UNCHANGED <<cacheVars, pc, frames, outcome, panics>>

----------------------------------------------------------------------------
Frame(n) == [node |-> n, kids |-> <<>>, next |-> 1, heap |-> <<>>]
Current(t) == frames[t][Len(frames[t])]
KeyOf(t) == key[Current(t).node]
Below(t) == SubSeq(frames[t], 1, Len(frames[t]) - 1)
Goto(t, to) == pc' = [pc EXCEPT ![t] = to]
WithKids(t, kids) ==
    frames' = [frames EXCEPT ![t] = Append(Below(t), [Current(t) EXCEPT !.kids = kids])]

\* A RefCell is not shared between threads: its runs follow each other.
Start(t) ==
    /\ memo # "open" /\ pc[t] = "idle"
    /\ memo = "local" => \A u \in Threads : pc[u] \in Over
    /\ Goto(t, "visit") /\ frames' = [frames EXCEPT ![t] = <<Frame(Root)>>]
    /\ UNCHANGED <<graphVars, cacheVars, outcome, panics>>

VisitPlain(t) ==
    /\ pc[t] = "visit" /\ memo = "none"
    /\ WithKids(t, children[Current(t).node]) /\ Goto(t, "loop")
    /\ UNCHANGED <<graphVars, cacheVars, outcome, panics>>

MayLook(t) == pc[t] = "visit" /\ memo # "none" /\ lock = "free"
Hit(t) ==
    /\ MayLook(t) /\ KeyOf(t) \in DOMAIN cache
    /\ WithKids(t, cache[KeyOf(t)]) /\ Goto(t, "loop")
    /\ UNCHANGED <<graphVars, cacheVars, outcome, panics>>

Put(k, kids) ==
    cache' = [x \in DOMAIN cache \cup {k} |-> IF x = k THEN kids ELSE cache[x]]
LockFor(t) == IF memo \in ComputesLocked THEN t ELSE "free"
\* mutant: an entry is reserved before its children are known
MissReserves(t) ==
    /\ MayLook(t) /\ KeyOf(t) \notin DOMAIN cache
    /\ lock' = LockFor(t) /\ Put(KeyOf(t), <<>>)
    /\ Goto(t, "compute")
    /\ UNCHANGED <<graphVars, asked, frames, outcome, panics>>
Miss(t) ==
    /\ MayLook(t) /\ KeyOf(t) \notin DOMAIN cache
    /\ lock' = LockFor(t) /\ Goto(t, "compute")
    /\ UNCHANGED <<graphVars, cache, asked, frames, outcome, panics>>

Compute(t) ==
    /\ pc[t] = "compute"
    /\ WithKids(t, children[Current(t).node]) /\ Goto(t, "insert")
    /\ asked' = [asked EXCEPT ![t][KeyOf(t)] = @ + 1]
    /\ UNCHANGED <<graphVars, cache, lock, outcome, panics>>

\* Unwinding drops the frames; a Mutex is poisoned on the way.
Unwound(t) == Goto(t, "panicked") /\ frames' = [frames EXCEPT ![t] = <<>>]
GraphPanics(t) ==
    /\ pc[t] = "compute" /\ panics < MaxPanics
    /\ panics' = panics + 1 /\ Unwound(t)
    /\ lock' = IF memo = "lift" THEN "poisoned" ELSE "free"
    /\ UNCHANGED <<graphVars, cache, asked, outcome>>
\* lock().unwrap()
UnwrapPoisoned(t) ==
    /\ pc[t] = "visit" /\ lock = "poisoned" /\ Unwound(t)
    /\ UNCHANGED <<graphVars, cacheVars, outcome, panics>>

\* mutant: the guard is alive while the children are passed on
InsertKeepsLock(t) ==
    /\ pc[t] = "insert"
    /\ Put(KeyOf(t), Current(t).kids)
    /\ Goto(t, "loop")
    /\ UNCHANGED <<graphVars, lock, asked, frames, outcome, panics>>
Insert(t) ==
    /\ pc[t] = "insert"
    /\ Put(KeyOf(t), Current(t).kids)
    /\ lock' = "free" /\ Goto(t, "loop")
    /\ UNCHANGED <<graphVars, asked, frames, outcome, panics>>

----------------------------------------------------------------------------
\* The callback of visit: recurse on the child, accumulate its result.
Descend(t) ==
    /\ pc[t] = "loop" /\ Current(t).next <= Len(Current(t).kids)
    /\ frames' = [frames EXCEPT ![t] = Append(@, Frame(Current(t).kids[Current(t).next]))]
    /\ Goto(t, "visit")
    /\ UNCHANGED <<graphVars, cacheVars, outcome, panics>>

Finalized(t) == Plain!Finalize(Current(t).node, Current(t).heap)
\* mutant: the next child is skipped
NextTwice(frame, result) ==
    [frame EXCEPT !.heap = Append(@, result), !.next = @ + 2]
Accumulated(frame, result) ==
    [frame EXCEPT !.heap = Append(@, result), !.next = @ + 1]
Returned(t) == pc[t] = "loop" /\ Current(t).next > Len(Current(t).kids)
Ascend(t) ==
    /\ Returned(t) /\ Len(frames[t]) > 1
    /\ LET caller == Len(frames[t]) - 1 IN
       frames' = [frames EXCEPT ![t] =
                    Append(SubSeq(@, 1, caller - 1), Accumulated(@[caller], Finalized(t)))]
    /\ UNCHANGED <<graphVars, cacheVars, pc, outcome, panics>>
Deliver(t) ==
    /\ Returned(t) /\ Len(frames[t]) = 1
    /\ outcome' = [outcome EXCEPT ![t] = Finalized(t)]
    /\ Goto(t, "done") /\ frames' = [frames EXCEPT ![t] = <<>>]
    /\ UNCHANGED <<graphVars, cacheVars, panics>>

Run(t) ==
    \/ VisitPlain(t) \/ Hit(t) \/ Miss(t) \/ Compute(t) \/ UnwrapPoisoned(t)
    \/ Insert(t) \/ Descend(t) \/ Ascend(t) \/ Deliver(t)

Runs == \E t \in Threads : Start(t) \/ Run(t) \/ GraphPanics(t)

Next == Runs \/ \E m \in Memos, g \in Graphs, k \in KeyFns : Memoise(m, g, k)

Spec == Init /\ [][Next]_memoVars

----------------------------------------------------------------------------
\* A run is somewhere in the recursion exactly while it has frames, and a
\* cache locked by a run is one that run is filling.
TypeOK ==
    /\ memo \in Memos \cup {"open"}
    /\ lock \in Threads \cup {"free", "poisoned"}
    /\ \A t \in Threads :
          /\ pc[t] \in Over \cup {"visit", "compute", "insert", "loop"}
          /\ (frames[t] = <<>>) <=> (pc[t] \in Over)
          /\ (outcome[t] # <<>>) <=> (pc[t] = "done")
          /\ lock = t => pc[t] \in {"compute", "insert"} /\ memo \in ComputesLocked
          /\ \A i \in DOMAIN frames[t] :
                 frames[t][i].next \in 1..Len(frames[t][i].kids) + 1
    /\ panics \in 0..MaxPanics

\* Memoising a graph is not observable in the results (memoize.rs:1-5): every
\* run that returns, whatever the others computed, cached or broke off
\* meanwhile, returns what the graph without a cache gives, and every entry
\* of the cache is right for all the nodes of its key. The graph is spared the
\* repeated calls: memoize_by_lift computes the children of a key once
\* (treeish_sugars.rs:49-51), with any number of runs; memoize_treeish_by,
\* which looks and inserts in two critical sections, at most once per run.
MemoHonest ==
    memo # "open" =>
        /\ \A t \in Threads : pc[t] = "done" => outcome[t] = Plain!Fused
        /\ \A n \in Nodes : key[n] \in DOMAIN cache => cache[key[n]] = children[n]
        /\ \A k \in Keys : \A t \in Threads :
              /\ asked[t][k] <= 1
              /\ memo \in ComputesLocked =>
                    \A u \in Threads \ {t} : asked[t][k] = 0 \/ asked[u][k] = 0

\* No run waits forever for the cache: the lock is never held while children
\* are visited (treeish_sugars.rs:53-58, memoize.rs:29-32), and a run that
\* meets a poisoned lock panics instead of waiting.
RunsFinish == \A t \in Threads : pc[t] = "visit" ~> pc[t] \in {"done", "panicked"}
=============================================================================
