-------------------------- MODULE MemoizedProofs --------------------------
(***************************************************************************)
(* Proofs about memoised runs, for every graph whose recursion ends, every *)
(* key function that keeps its promise, and any number of threads: a run   *)
(* returns what the recursion without a cache returns, every entry of the  *)
(* cache is right, and no children are computed more often than promised.  *)
(***************************************************************************)
EXTENDS Memoized, SequenceTheorems, TLAPS

-----------------------------------------------------------------------------
(* The recursion without a cache. It is defined on every node, because it    *)
(* ends: functions that solve its equation on some nodes and all below them  *)
(* agree where they meet, and together solve it on all nodes.                *)

\* the result of a node from those of its children
Result(g, v, n) == Plain!Finalize(n, [i \in 1 .. Len(g[n]) |-> v[g[n][i]]])
FoldOf(g) == CHOOSE v : v = [n \in Nodes |-> Result(g, v, n)]
Value(g, n) == FoldOf(g)[n]

\* a solution on some nodes
Solves(g, v) ==
  /\ DOMAIN v \subseteq Nodes
  /\ \A n \in DOMAIN v : /\ \A i \in 1 .. Len(g[n]) : g[n][i] \in DOMAIN v
                         /\ v[n] = Result(g, v, n)

\* a result depends on the children's
LEMMA SameResult ==
  ASSUME NEW g, NEW v, NEW w, NEW n, \A i \in 1 .. Len(g[n]) : v[g[n][i]] = w[g[n][i]]
  PROVE  Result(g, v, n) = Result(g, w, n)
BY DEF Result, Plain!Finalize

\* a property that goes up from the children of a node to the node holds of all nodes
LEMMA Upwards ==
  ASSUME NEW g \in Graphs, NEW G \in SUBSET Nodes,
         \A n \in Nodes : (\A i \in 1 .. Len(g[n]) : g[n][i] \in G) => n \in G
  PROVE  G = Nodes
<1>1. SUFFICES ASSUME Nodes \ G # {} PROVE FALSE
  OBVIOUS
<1>2. Nodes \ G \in (SUBSET Nodes) \ {{}} /\ Ends(g) /\ g \in [Nodes -> Seq(Nodes)]
  BY <1>1, MemoizedAssumption
<1>3. PICK n \in Nodes \ G : \A i \in DOMAIN g[n] : g[n][i] \notin Nodes \ G
  BY <1>2 DEF Ends
<1>4. \A i \in 1 .. Len(g[n]) : i \in DOMAIN g[n] /\ g[n][i] \in Nodes
  BY <1>2
<1>5. \A i \in 1 .. Len(g[n]) : g[n][i] \in G
  BY <1>3, <1>4
<1> QED
  BY <1>3, <1>5

\* solutions agree where they meet
LEMMA SolutionsAgree ==
  ASSUME NEW g \in Graphs, NEW v, NEW w, Solves(g, v), Solves(g, w)
  PROVE  \A n \in DOMAIN v \cap DOMAIN w : v[n] = w[n]
<1> DEFINE G == {n \in Nodes : n \in DOMAIN v \cap DOMAIN w => v[n] = w[n]}
<1>1. ASSUME NEW n \in Nodes, \A i \in 1 .. Len(g[n]) : g[n][i] \in G
      PROVE  n \in G
  <2>1. SUFFICES ASSUME n \in DOMAIN v, n \in DOMAIN w PROVE v[n] = w[n]
    OBVIOUS
  <2>2. \A i \in 1 .. Len(g[n]) : v[g[n][i]] = w[g[n][i]]
    BY <1>1, <2>1 DEF Solves
  <2>3. Result(g, v, n) = Result(g, w, n)
    BY <2>2, SameResult
  <2> QED
    BY <2>1, <2>3 DEF Solves
<1>2. G \in SUBSET Nodes
  OBVIOUS
<1> HIDE DEF G
<1>3. G = Nodes
  BY <1>1, <1>2, Upwards
<1> QED
  BY <1>3 DEF G, Solves

\* the recursion solves its equation on all nodes
LEMMA FoldEquation ==
  ASSUME NEW g \in Graphs
  PROVE  \A n \in Nodes : Value(g, n) = Result(g, FoldOf(g), n)
<1> DEFINE G == {n \in Nodes : \E v : Solves(g, v) /\ n \in DOMAIN v}
           W(n) == CHOOSE v : Solves(g, v) /\ n \in DOMAIN v
           h == [n \in G |-> W(n)[n]]
<1>1. \A n \in G : Solves(g, W(n)) /\ n \in DOMAIN W(n)
  OBVIOUS
<1>2. \A n \in G : \A i \in 1 .. Len(g[n]) : g[n][i] \in DOMAIN W(n) /\ g[n][i] \in G
  BY <1>1 DEF Solves
<1>3. DOMAIN h = G /\ (\A n \in G : h[n] = W(n)[n]) /\ G \in SUBSET Nodes
  OBVIOUS
<1>4. \A n \in Nodes : \A v : Solves(g, v) /\ n \in DOMAIN v => n \in G
  OBVIOUS
<1> HIDE DEF W, h, G
<1>5. ASSUME NEW n \in G
      PROVE  h[n] = Result(g, h, n)
  <2>1. ASSUME NEW i \in 1 .. Len(g[n])
        PROVE  W(n)[g[n][i]] = h[g[n][i]]
    <3>1. PICK k : k = g[n][i]
      OBVIOUS
    <3>2. k \in G /\ k \in DOMAIN W(n) /\ k \in DOMAIN W(k)
      BY <1>1, <1>2, <3>1
    <3>3. W(n)[k] = W(k)[k]
      BY <1>1, <3>2, SolutionsAgree
    <3> QED
      BY <1>3, <3>1, <3>2, <3>3
  <2>2. Result(g, W(n), n) = Result(g, h, n)
    BY <2>1, SameResult
  <2> QED
    BY <1>1, <1>3, <2>2 DEF Solves
<1>6. ASSUME NEW n \in Nodes, \A i \in 1 .. Len(g[n]) : g[n][i] \in G
      PROVE  n \in G
  <2>1. PICK e : e = [m \in G \cup {n} |-> IF m \in G THEN h[m] ELSE Result(g, h, n)]
    OBVIOUS
  <2>2. DOMAIN e = G \cup {n} /\ \A m \in G : e[m] = h[m]
    BY <2>1
  <2>3. ASSUME NEW m \in G \cup {n}
        PROVE  (\A i \in 1 .. Len(g[m]) : g[m][i] \in G) /\ e[m] = Result(g, e, m)
    <3>1. \A i \in 1 .. Len(g[m]) : g[m][i] \in G
      BY <1>2, <1>6
    <3>2. Result(g, h, m) = Result(g, e, m)
      BY <2>2, <3>1, SameResult
    <3>3. e[m] = Result(g, h, m)
      BY <1>5, <2>1
    <3> QED
      BY <3>1, <3>2, <3>3
  <2>4. Solves(g, e)
    BY <1>3, <2>2, <2>3 DEF Solves
  <2> QED
    BY <1>4, <2>2, <2>4
<1>7. G = Nodes
  BY <1>3, <1>6, Upwards
<1>8. h = [n \in Nodes |-> Result(g, h, n)]
  <2>1. h = [n \in Nodes |-> h[n]]
    BY <1>3, <1>7 DEF h
  <2> QED
    BY <2>1, <1>5, <1>7
<1>9. PICK v : v = FoldOf(g)
  OBVIOUS
<1>10. v = [n \in Nodes |-> Result(g, v, n)]
  BY <1>8, <1>9 DEF FoldOf
<1>11. \A n \in Nodes : v[n] = Result(g, v, n)
  BY <1>10
<1> QED
  BY <1>9, <1>11 DEF Value

\* it is the one of TreeFold
LEMMA RecurseIs == Plain!recurse = FoldOf(children)
BY DEF Plain!recurse, FoldOf, Result

-----------------------------------------------------------------------------
(* The stack of a run.                                                       *)

Pcs == Over \cup {"visit", "compute", "insert", "loop"}
FrameSet(g) ==
  [node : Nodes, kids : Seq(Nodes), next : Nat \ {0}, heap : Seq({Value(g, n) : n \in Nodes})]

\* the children before the next are in the heap, with their results
FrameOK(g, f) ==
  /\ f \in FrameSet(g)
  /\ f.next <= Len(f.kids) + 1 /\ Len(f.heap) = f.next - 1
  /\ \A j \in 1 .. Len(f.heap) : f.heap[j] = Value(g, f.kids[j])
\* a frame that waits for the result of n; the frame that runs
Waits(g, f, n) ==
  f.kids = g[f.node] /\ f.next <= Len(f.kids) /\ n = f.kids[f.next]
TopOK(g, f, p) ==
  IF p \in {"visit", "compute"} THEN f.kids = <<>> /\ f.next = 1 ELSE f.kids = g[f.node]

StackOK(g, s, p) ==
  /\ s \in Seq(FrameSet(g))
  /\ s = <<>> <=> p \in Over
  /\ \A i \in 1 .. Len(s) : FrameOK(g, s[i])
  /\ \A i \in 1 .. Len(s) - 1 : Waits(g, s[i], s[i + 1].node)
  /\ s # <<>> => s[1].node = Root /\ TopOK(g, s[Len(s)], p)

\* the first k - 1 elements and one more
LEMMA Replaced ==
  ASSUME NEW S, NEW s \in Seq(S), NEW k \in 1 .. Len(s), NEW x \in S
  PROVE  /\ Append(SubSeq(s, 1, k - 1), x) \in Seq(S)
         /\ Len(Append(SubSeq(s, 1, k - 1), x)) = k
         /\ \A i \in 1 .. k - 1 : Append(SubSeq(s, 1, k - 1), x)[i] = s[i]
         /\ Append(SubSeq(s, 1, k - 1), x)[k] = x
<1>1. SubSeq(s, 1, k - 1) \in Seq(S) /\ Len(SubSeq(s, 1, k - 1)) = k - 1
      /\ \A i \in 1 .. k - 1 : SubSeq(s, 1, k - 1)[i] = s[i]
  OBVIOUS
<1> QED
  BY <1>1

\* the frame at k goes on, and what was above it is gone
LEMMA StackGoesOn ==
  ASSUME NEW g, NEW s, NEW p, StackOK(g, s, p), s # <<>>, NEW k \in 1 .. Len(s),
         NEW f, FrameOK(g, f), f.node = s[k].node,
         NEW q, q \notin Over, TopOK(g, f, q)
  PROVE  StackOK(g, Append(SubSeq(s, 1, k - 1), f), q)
<1>1. PICK r : r = Append(SubSeq(s, 1, k - 1), f)
  OBVIOUS
<1>2. PICK S : S = FrameSet(g)
  OBVIOUS
<1>3. s \in Seq(S) /\ f \in S
  BY <1>2 DEF StackOK, FrameOK
<1>4. r \in Seq(S) /\ Len(r) = k /\ r[k] = f /\ \A i \in 1 .. k - 1 : r[i] = s[i]
  BY <1>1, <1>3, Replaced
<1>5. Len(s) \in Nat /\ k \in Nat /\ r # <<>>
  BY <1>3, <1>4
<1>6. \A i \in 1 .. k : r[i].node = s[i].node /\ FrameOK(g, r[i])
  BY <1>4, <1>5 DEF StackOK
<1>7. ASSUME NEW i \in 1 .. Len(r) - 1
      PROVE  Waits(g, r[i], r[i + 1].node)
  <2>1. i \in 1 .. Len(s) - 1 /\ i \in 1 .. k - 1 /\ i + 1 \in 1 .. k
    BY <1>4, <1>5
  <2>2. r[i] = s[i] /\ r[i + 1].node = s[i + 1].node
    BY <1>4, <1>6, <2>1
  <2> QED
    BY <2>1, <2>2 DEF StackOK
<1>8. r[1].node = Root
  BY <1>5, <1>6 DEF StackOK
<1> QED
  BY <1>1, <1>2, <1>4, <1>5, <1>6, <1>7, <1>8 DEF StackOK

\* a new frame above the one that waits for it
LEMMA StackGrows ==
  ASSUME NEW g \in Graphs, NEW s, StackOK(g, s, "loop"), NEW f, f = s[Len(s)],
         f.next <= Len(f.kids)
  PROVE  StackOK(g, Append(s, Frame(f.kids[f.next])), "visit")
<1>1. PICK e : e = Frame(f.kids[f.next])
  OBVIOUS
<1>2. PICK r : r = Append(s, e)
  OBVIOUS
<1>3. PICK S : S = FrameSet(g)
  OBVIOUS
<1>4. s \in Seq(S) /\ s # <<>> /\ Len(s) \in Nat \ {0}
  BY <1>3 DEF StackOK, Over
<1>5. FrameOK(g, f) /\ f.kids = g[f.node]
  BY <1>4 DEF StackOK, TopOK
<1>6. f.kids \in Seq(Nodes) /\ f.next \in 1 .. Len(f.kids) /\ f.kids[f.next] \in Nodes
  BY <1>5 DEF FrameOK, FrameSet
<1>7. /\ e = [node |-> f.kids[f.next], kids |-> <<>>, next |-> 1, heap |-> <<>>]
      /\ e \in FrameSet(g) /\ FrameOK(g, e)
  BY <1>1, <1>6 DEF Frame, FrameSet, FrameOK
<1>8. r \in Seq(S) /\ Len(r) = Len(s) + 1 /\ r[Len(s) + 1] = e /\ \A i \in 1 .. Len(s) : r[i] = s[i]
  BY <1>2, <1>3, <1>4, <1>7
<1>9. \A i \in 1 .. Len(r) : FrameOK(g, r[i])
  BY <1>4, <1>7, <1>8 DEF StackOK
<1>10. ASSUME NEW i \in 1 .. Len(r) - 1
       PROVE  Waits(g, r[i], r[i + 1].node)
  <2>1. CASE i = Len(s)
    BY <2>1, <1>4, <1>5, <1>7, <1>8 DEF Waits
  <2>2. CASE i # Len(s)
    BY <2>2, <1>4, <1>8 DEF StackOK
  <2> QED
    BY <2>1, <2>2
<1>11. r # <<>> /\ r[1] = s[1] /\ TopOK(g, r[Len(r)], "visit")
  BY <1>4, <1>7, <1>8 DEF TopOK
<1> QED
  BY <1>1, <1>2, <1>3, <1>4, <1>8, <1>9, <1>10, <1>11 DEF StackOK, Over

\* the frame that runs
LEMMA TopOfStack ==
  ASSUME NEW g, NEW s, NEW p, StackOK(g, s, p), p \notin Over
  PROVE  /\ s # <<>> /\ Len(s) \in Nat \ {0} /\ Len(s) \in 1 .. Len(s)
         /\ FrameOK(g, s[Len(s)]) /\ TopOK(g, s[Len(s)], p)
BY DEF StackOK

\* the first frame, and no frame
LEMMA StackStarts ==
  ASSUME NEW g
  PROVE  /\ StackOK(g, <<Frame(Root)>>, "visit")
         /\ \A p \in Over : StackOK(g, <<>>, p)
<1>1. FrameOK(g, Frame(Root)) /\ Frame(Root) \in FrameSet(g)
  BY MemoizedAssumption DEF Frame, FrameOK, FrameSet
<1>2. TopOK(g, Frame(Root), "visit") /\ Frame(Root).node = Root
  BY DEF TopOK, Frame
<1>3. PICK f : f = Frame(Root)
  OBVIOUS
<1> QED
  BY <1>1, <1>2, <1>3 DEF StackOK, Over

\* the frame that runs is given its children
LEMMA StackVisits ==
  ASSUME NEW g \in Graphs, NEW s, NEW p \in {"visit", "compute"}, StackOK(g, s, p),
         NEW f, f = s[Len(s)], NEW q \in {"insert", "loop"}
  PROVE  StackOK(g, Append(SubSeq(s, 1, Len(s) - 1), [f EXCEPT !.kids = g[f.node]]), q)
<1>1. p \notin Over /\ q \notin Over
  BY DEF Over
<1>2. FrameOK(g, f) /\ TopOK(g, f, p) /\ s # <<>> /\ Len(s) \in 1 .. Len(s)
  BY <1>1, TopOfStack
<1>3. PICK e : e = [f EXCEPT !.kids = g[f.node]]
  OBVIOUS
<1>4. f \in FrameSet(g) /\ f.next = 1 /\ Len(f.heap) = 0 /\ g[f.node] \in Seq(Nodes)
  BY <1>2, MemoizedAssumption DEF FrameOK, TopOK, FrameSet
<1>5. /\ e \in FrameSet(g) /\ e.kids = g[f.node] /\ e.node = f.node /\ e.next = 1
      /\ e.heap = f.heap
  BY <1>3, <1>4 DEF FrameSet
<1>6. FrameOK(g, e) /\ TopOK(g, e, q)
  BY <1>4, <1>5 DEF FrameOK, TopOK
<1> QED
  BY <1>1, <1>2, <1>3, <1>5, <1>6, StackGoesOn

\* a frame that has all its results has the node's
LEMMA FrameValue ==
  ASSUME NEW g \in Graphs, NEW f, FrameOK(g, f), f.kids = g[f.node], f.next > Len(f.kids)
  PROVE  f.node \in Nodes /\ Plain!Finalize(f.node, f.heap) = Value(g, f.node)
<1>1. f \in FrameSet(g) /\ f.node \in Nodes /\ f.kids \in Seq(Nodes)
  BY DEF FrameOK, FrameSet
<1>2. Len(f.heap) = Len(f.kids) /\ \A j \in 1 .. Len(f.kids) : f.heap[j] = Value(g, f.kids[j])
  BY <1>1 DEF FrameOK, FrameSet
<1>3. PICK h : h = f.heap
  OBVIOUS
<1>4. PICK V : h \in Seq(V)
  BY <1>1, <1>3 DEF FrameSet
<1>5. PICK c : c = g[f.node]
  OBVIOUS
<1>6. PICK v : v = FoldOf(g)
  OBVIOUS
<1>7. Len(h) = Len(c) /\ \A j \in 1 .. Len(c) : h[j] = v[c[j]]
  BY <1>2, <1>3, <1>5, <1>6 DEF Value
<1>8. h = [j \in 1 .. Len(c) |-> v[c[j]]]
  BY <1>4, <1>7
<1> QED
  BY <1>1, <1>3, <1>5, <1>6, <1>8, FoldEquation DEF Result

-----------------------------------------------------------------------------
(* The invariant.                                                            *)

Types ==
  /\ memo \in Memos \cup {"open"}
  /\ pc \in [Threads -> Pcs]
  /\ frames = [t \in Threads |-> frames[t]] /\ outcome = [t \in Threads |-> outcome[t]]
  /\ asked \in [Threads -> [Keys -> Nat]]
  /\ panics \in 0 .. MaxPanics
Chosen == memo # "open" =>
  children \in Graphs /\ key \in [Nodes -> Keys] /\ SameChildren(children, key)
NotYet == memo = "open" =>
  /\ lock = "free" /\ DOMAIN cache = {}
  /\ \A t \in Threads : pc[t] = "idle" /\ \A k \in Keys : asked[t][k] = 0

\* each run has the stack it needs, and returns the value of the root
RunOK(t) ==
  /\ StackOK(children, frames[t], pc[t])
  /\ outcome[t] = IF pc[t] = "done" THEN Value(children, Root) ELSE <<>>
RunsOK == \A t \in Threads : RunOK(t)

\* the lock is held by a run that fills the cache, where that computes under the lock
Filling(t) == pc[t] \in {"compute", "insert"}
LockInv ==
  /\ lock \in Threads \cup {"free", "poisoned"}
  /\ memo \notin ComputesLocked => lock = "free"
  /\ \A t \in Threads : lock = t <=> Filling(t) /\ memo \in ComputesLocked

\* entries are right
CacheInv == memo # "open" =>
  \A n \in Nodes : key[n] \in DOMAIN cache => cache[key[n]] = children[n]

\* what was asked for is in the cache, or the run that asked is about to insert it; a
\* run that asks has not asked before, and where the lock is held nobody has
AskInv == \A t \in Threads :
  /\ \A k \in Keys :
       /\ asked[t][k] <= 1
       /\ asked[t][k] # 0 => k \in DOMAIN cache \/ (pc[t] = "insert" /\ KeyOf(t) = k)
       /\ memo \in ComputesLocked =>
            \A u \in Threads \ {t} : asked[t][k] = 0 \/ asked[u][k] = 0
  /\ pc[t] = "compute" => asked[t][KeyOf(t)] = 0
  /\ Filling(t) /\ memo \in ComputesLocked => KeyOf(t) \notin DOMAIN cache

Inv == Types /\ Chosen /\ NotYet /\ RunsOK /\ LockInv /\ CacheInv /\ AskInv

\* at the start nobody runs and nothing is cached
LEMMA InitHolds == Init => Inv
<1> SUFFICES ASSUME Init PROVE Inv
  OBVIOUS
<1>1. Types /\ Chosen /\ NotYet
  BY MemoizedAssumption DEF Init, Types, Chosen, NotYet, Pcs, Over
<1>2. RunsOK
  BY StackStarts DEF Init, RunsOK, RunOK, Over
<1>3. LockInv /\ CacheInv /\ AskInv
  BY MemoizedAssumption DEF Init, LockInv, CacheInv, AskInv, Filling, ComputesLocked
<1> QED
  BY <1>1, <1>2, <1>3 DEF Inv

-----------------------------------------------------------------------------
(* What the steps leave alone.                                               *)

\* a step of one run
Own(t) ==
  /\ UNCHANGED graphVars
  /\ pc' = [pc EXCEPT ![t] = pc'[t]] /\ pc'[t] \in Pcs
  /\ frames' = [frames EXCEPT ![t] = frames'[t]]
  /\ outcome' = [outcome EXCEPT ![t] = outcome'[t]]

\* the other runs do not move
LEMMA OthersStay ==
  ASSUME Types, NEW t \in Threads, Own(t), NEW u \in Threads, u # t
  PROVE  /\ pc'[u] = pc[u] /\ frames'[u] = frames[u] /\ outcome'[u] = outcome[u]
         /\ KeyOf(u)' = KeyOf(u) /\ Filling(u)' = Filling(u)
<1>1. pc'[u] = pc[u] /\ frames'[u] = frames[u] /\ outcome'[u] = outcome[u]
  BY DEF Own, Types
<1> QED
  BY <1>1 DEF Own, graphVars, KeyOf, Current, Filling

\* only the run that moves is to be looked at
LEMMA OwnKeeps ==
  ASSUME Inv, memo # "open", NEW t \in Threads, Own(t), RunOK(t)', LockInv', CacheInv', AskInv',
         asked' \in [Threads -> [Keys -> Nat]], panics' \in 0 .. MaxPanics
  PROVE  Inv'
<1> USE DEF Inv
<1>1. Types' /\ Chosen' /\ NotYet'
  BY DEF Types, Chosen, NotYet, Own, graphVars
<1>2. ASSUME NEW u \in Threads PROVE RunOK(u)'
  <2>1. CASE u = t
    BY <2>1
  <2>2. CASE u # t
    <3>1. pc'[u] = pc[u] /\ frames'[u] = frames[u] /\ outcome'[u] = outcome[u]
      BY <2>2, OthersStay
    <3> QED
      BY <3>1 DEF RunsOK, RunOK, Own, graphVars
  <2> QED
    BY <2>1, <2>2
<1> QED
  BY <1>1, <1>2 DEF RunsOK

\* the lock, the cache and the history stay as they are
LEMMA LockStays ==
  ASSUME Inv, NEW t \in Threads, Own(t), UNCHANGED lock, Filling(t)' = Filling(t)
  PROVE  LockInv'
<1> USE DEF Inv
<1>1. \A u \in Threads : Filling(u)' = Filling(u)
  BY OthersStay
<1> QED
  BY <1>1 DEF LockInv, Own, graphVars

LEMMA CacheStays ==
  ASSUME Inv, NEW t, Own(t), UNCHANGED cache
  PROVE  CacheInv'
BY DEF Inv, CacheInv, Own, graphVars

LEMMA AskStays ==
  ASSUME Inv, NEW t \in Threads, Own(t), UNCHANGED <<cache, asked>>,
         pc[t] # "insert", ~Filling(t)'
  PROVE  AskInv'
<1> USE DEF Inv
<1>1. SUFFICES ASSUME NEW u \in Threads
               PROVE  /\ \A k \in Keys :
                           /\ asked[u][k] <= 1
                           /\ asked[u][k] # 0 =>
                                k \in DOMAIN cache \/ (pc'[u] = "insert" /\ KeyOf(u)' = k)
                           /\ memo \in ComputesLocked =>
                                \A v \in Threads \ {u} : asked[u][k] = 0 \/ asked[v][k] = 0
                      /\ pc'[u] = "compute" => asked[u][KeyOf(u)'] = 0
                      /\ Filling(u)' /\ memo \in ComputesLocked => KeyOf(u)' \notin DOMAIN cache
  BY DEF AskInv, Own, graphVars
<1>2. CASE u = t
  BY <1>2 DEF AskInv, Filling
<1>3. CASE u # t
  <2>1. pc'[u] = pc[u] /\ KeyOf(u)' = KeyOf(u) /\ Filling(u)' = Filling(u)
    BY <1>3, OthersStay
  <2> QED
    BY <2>1 DEF AskInv
<1> QED
  BY <1>2, <1>3

\* a run goes on after the memo was chosen
LEMMA RunTop ==
  ASSUME Inv, NEW t \in Threads, pc[t] \notin Over
  PROVE  /\ memo # "open" /\ children \in Graphs /\ key \in [Nodes -> Keys]
         /\ StackOK(children, frames[t], pc[t]) /\ frames[t] # <<>>
         /\ Len(frames[t]) \in Nat \ {0} /\ FrameOK(children, Current(t))
         /\ TopOK(children, Current(t), pc[t])
         /\ Current(t).node \in Nodes /\ KeyOf(t) \in Keys /\ outcome[t] = <<>>
<1> USE DEF Inv
<1>1. memo # "open" /\ StackOK(children, frames[t], pc[t]) /\ outcome[t] = <<>>
  BY DEF NotYet, RunsOK, RunOK, Over
<1>2. /\ frames[t] # <<>> /\ Len(frames[t]) \in Nat \ {0} /\ FrameOK(children, Current(t))
      /\ TopOK(children, Current(t), pc[t])
  BY <1>1, TopOfStack DEF Current
<1>3. Current(t).node \in Nodes
  BY <1>2 DEF FrameOK, FrameSet
<1> QED
  BY <1>1, <1>2, <1>3 DEF Chosen, KeyOf

\* the steps of one run, one thread's entries at a time
LEMMA Owns ==
  ASSUME Types, NEW t \in Threads, UNCHANGED graphVars,
         NEW p \in Pcs, NEW s, NEW r, pc' = [pc EXCEPT ![t] = p],
         frames' = [frames EXCEPT ![t] = s], outcome' = [outcome EXCEPT ![t] = r]
  PROVE  Own(t) /\ pc'[t] = p /\ frames'[t] = s /\ outcome'[t] = r
BY DEF Own, Types

\* an update that changes nothing
LEMMA SameRun ==
  ASSUME Types, NEW t \in Threads
  PROVE  /\ UNCHANGED frames => frames' = [frames EXCEPT ![t] = frames[t]]
         /\ UNCHANGED outcome => outcome' = [outcome EXCEPT ![t] = outcome[t]]
         /\ UNCHANGED pc => pc' = [pc EXCEPT ![t] = pc[t]]
<1>1. pc = [pc EXCEPT ![t] = pc[t]]
  BY DEF Types
<1>2. frames = [frames EXCEPT ![t] = frames[t]] /\ outcome = [outcome EXCEPT ![t] = outcome[t]]
  BY DEF Types
<1> QED
  BY <1>1, <1>2

-----------------------------------------------------------------------------
(* The steps.                                                                *)

\* a run begins
LEMMA StartKeeps ==
  ASSUME Inv, NEW t \in Threads, Start(t)
  PROVE  Inv'
<1> USE DEF Inv
<1>1. /\ memo # "open" /\ pc[t] = "idle" /\ UNCHANGED <<graphVars, cache, lock, asked, panics>>
      /\ pc' = [pc EXCEPT ![t] = "visit"] /\ frames' = [frames EXCEPT ![t] = <<Frame(Root)>>]
      /\ UNCHANGED outcome
  BY DEF Start, Goto, cacheVars
<1>2. outcome' = [outcome EXCEPT ![t] = outcome[t]] /\ "visit" \in Pcs /\ UNCHANGED graphVars
  BY <1>1, SameRun DEF Pcs
<1>3. Own(t) /\ pc'[t] = "visit" /\ frames'[t] = <<Frame(Root)>> /\ outcome'[t] = outcome[t]
  BY <1>1, <1>2, Owns
<1>4. RunOK(t)'
  BY <1>1, <1>3, StackStarts DEF RunsOK, RunOK, graphVars
<1>5. LockInv' /\ CacheInv' /\ AskInv'
  BY <1>1, <1>3, LockStays, CacheStays, AskStays DEF Filling
<1> QED
  BY <1>1, <1>3, <1>4, <1>5, OwnKeeps DEF Types

\* children that come from the graph, or from a right entry of the cache
LEMMA KidsOK ==
  ASSUME Inv, NEW t \in Threads, pc[t] \in {"visit", "compute"}, UNCHANGED <<graphVars, outcome>>,
         WithKids(t, children[Current(t).node]), NEW p \in {"insert", "loop"}, Goto(t, p)
  PROVE  Own(t) /\ pc'[t] = p /\ RunOK(t)' /\ Current(t)'.node = Current(t).node
         /\ Current(t)'.kids = children[Current(t).node]
<1> USE DEF Inv
<1>1. pc[t] \notin Over /\ p \in Pcs
  BY DEF Over, Pcs
<1>2. PICK f : f = Current(t)
  OBVIOUS
<1>3. PICK s : s = frames[t]
  OBVIOUS
<1>4. /\ StackOK(children, s, pc[t]) /\ s # <<>> /\ Len(s) \in 1 .. Len(s) /\ f = s[Len(s)]
      /\ FrameOK(children, f) /\ children \in Graphs /\ outcome[t] = <<>>
  BY <1>1, <1>2, <1>3, RunTop DEF Current
<1>5. PICK e : e = [f EXCEPT !.kids = children[f.node]]
  OBVIOUS
<1>6. PICK r : r = Append(SubSeq(s, 1, Len(s) - 1), e)
  OBVIOUS
<1>7. StackOK(children, r, p)
  BY <1>4, <1>5, <1>6, StackVisits
<1>8. frames' = [frames EXCEPT ![t] = r]
  BY <1>2, <1>3, <1>5, <1>6 DEF WithKids, Below
<1>9. Own(t) /\ pc'[t] = p /\ frames'[t] = r /\ outcome'[t] = <<>>
  <2>1. /\ outcome' = [outcome EXCEPT ![t] = outcome[t]] /\ pc' = [pc EXCEPT ![t] = p]
        /\ UNCHANGED graphVars /\ Types
    BY SameRun DEF Goto
  <2>2. Own(t) /\ pc'[t] = p /\ frames'[t] = r /\ outcome'[t] = outcome[t]
    BY <1>1, <1>8, <2>1, Owns
  <2> QED
    BY <1>4, <2>2
<1>10. RunOK(t)'
  <2>1. children' = children
    BY DEF graphVars
  <2>2. p # "done"
    OBVIOUS
  <2> QED
    BY <1>7, <1>9, <2>1, <2>2 DEF RunOK
<1>11. e.node = f.node /\ e.kids = children[f.node] /\ e \in FrameSet(children)
  <2>1. f \in FrameSet(children) /\ f.node \in Nodes /\ children[f.node] \in Seq(Nodes)
    BY <1>4, MemoizedAssumption DEF FrameOK, FrameSet
  <2> QED
    BY <1>5, <2>1 DEF FrameSet
<1>12. Len(r) = Len(s) /\ r[Len(s)] = e
  <2>1. PICK S : S = FrameSet(children)
    OBVIOUS
  <2>2. s \in Seq(S) /\ e \in S
    BY <1>4, <1>11, <2>1 DEF StackOK
  <2>3. PICK k \in 1 .. Len(s) : k = Len(s)
    BY <1>4
  <2>4. r = Append(SubSeq(s, 1, k - 1), e)
    BY <1>6, <2>3
  <2>5. Len(r) = k /\ r[k] = e
    BY <2>2, <2>4, Replaced
  <2> QED
    BY <2>3, <2>5
<1> QED
  BY <1>2, <1>9, <1>10, <1>11, <1>12 DEF Current

\* a visit without a cache
LEMMA VisitPlainKeeps ==
  ASSUME Inv, NEW t \in Threads, VisitPlain(t)
  PROVE  Inv'
<1> USE DEF Inv
<1>1. /\ pc[t] = "visit" /\ UNCHANGED <<graphVars, cache, lock, asked, panics, outcome>>
      /\ WithKids(t, children[Current(t).node]) /\ Goto(t, "loop") /\ memo # "open"
  BY RunTop DEF VisitPlain, cacheVars, Over
<1>2. Own(t) /\ pc'[t] = "loop" /\ RunOK(t)'
  BY <1>1, KidsOK
<1>3. LockInv' /\ CacheInv' /\ AskInv'
  BY <1>1, <1>2, LockStays, CacheStays, AskStays DEF Filling
<1> QED
  BY <1>1, <1>2, <1>3, OwnKeeps DEF Types

\* a visit that finds its key
LEMMA HitKeeps ==
  ASSUME Inv, NEW t \in Threads, Hit(t)
  PROVE  Inv'
<1> USE DEF Inv
<1>1. /\ pc[t] = "visit" /\ UNCHANGED <<graphVars, cache, lock, asked, panics, outcome>>
      /\ WithKids(t, cache[KeyOf(t)]) /\ KeyOf(t) \in DOMAIN cache /\ Goto(t, "loop")
  BY DEF Hit, MayLook, cacheVars
<1>2. memo # "open" /\ Current(t).node \in Nodes
  BY <1>1, RunTop DEF Over
<1>3. cache[KeyOf(t)] = children[Current(t).node]
  BY <1>1, <1>2 DEF CacheInv, KeyOf
<1>4. Own(t) /\ pc'[t] = "loop" /\ RunOK(t)'
  BY <1>1, <1>3, KidsOK
<1>5. LockInv' /\ CacheInv' /\ AskInv'
  BY <1>1, <1>4, LockStays, CacheStays, AskStays DEF Filling
<1> QED
  BY <1>1, <1>2, <1>4, <1>5, OwnKeeps DEF Types

\* a visit that does not, and takes the lock if the children are computed under it
LEMMA MissKeeps ==
  ASSUME Inv, NEW t \in Threads, Miss(t)
  PROVE  Inv'
<1> USE DEF Inv
<1>1. /\ pc[t] = "visit" /\ lock = "free" /\ KeyOf(t) \notin DOMAIN cache
      /\ lock' = LockFor(t) /\ Goto(t, "compute")
      /\ UNCHANGED <<graphVars, cache, asked, panics, outcome, frames>>
  BY DEF Miss, MayLook
<1>2. /\ memo # "open" /\ StackOK(children, frames[t], "visit") /\ KeyOf(t) \in Keys
      /\ outcome[t] = <<>>
  BY <1>1, RunTop DEF Over
<1>3. Own(t) /\ pc'[t] = "compute" /\ frames'[t] = frames[t] /\ outcome'[t] = <<>>
  <2>1. /\ outcome' = [outcome EXCEPT ![t] = outcome[t]] /\ pc' = [pc EXCEPT ![t] = "compute"]
        /\ frames' = [frames EXCEPT ![t] = frames[t]] /\ "compute" \in Pcs
        /\ UNCHANGED graphVars /\ Types
    BY <1>1, SameRun DEF Goto, Pcs
  <2>2. Own(t) /\ pc'[t] = "compute" /\ frames'[t] = frames[t] /\ outcome'[t] = outcome[t]
    BY <2>1, Owns
  <2> QED
    BY <1>2, <2>2
<1>4. RunOK(t)'
  BY <1>1, <1>2, <1>3 DEF RunOK, graphVars, StackOK, TopOK, Over
<1>5. \A u \in Threads : ~(Filling(u) /\ memo \in ComputesLocked)
  BY <1>1, MemoizedAssumption DEF LockInv
<1>6. LockInv'
  <2>1. \A u \in Threads \ {t} : Filling(u)' = Filling(u)
    BY <1>3, OthersStay
  <2>2. Filling(t)'
    BY <1>3 DEF Filling
  <2> QED
    BY <1>1, <1>5, <2>1, <2>2, MemoizedAssumption DEF LockInv, LockFor, graphVars
<1>7. CacheInv'
  BY <1>1, <1>3, CacheStays
<1>8. KeyOf(t)' = KeyOf(t)
  BY <1>1 DEF KeyOf, Current, graphVars
<1>9. AskInv'
  <2>1. asked[t][KeyOf(t)] = 0
    BY <1>1, <1>2 DEF AskInv
  <2>2. \A u \in Threads \ {t} : pc'[u] = pc[u] /\ KeyOf(u)' = KeyOf(u) /\ Filling(u)' = Filling(u)
    BY <1>3, OthersStay
  <2> QED
    BY <1>1, <1>3, <1>8, <2>1, <2>2 DEF AskInv, Filling, graphVars
<1> QED
  BY <1>1, <1>2, <1>3, <1>4, <1>6, <1>7, <1>9, OwnKeeps DEF Types

\* the graph's closure returns the children
LEMMA ComputeKeeps ==
  ASSUME Inv, NEW t \in Threads, Compute(t)
  PROVE  Inv'
<1> USE DEF Inv
<1>1. /\ pc[t] = "compute" /\ UNCHANGED <<graphVars, cache, lock, panics, outcome>>
      /\ WithKids(t, children[Current(t).node]) /\ Goto(t, "insert")
      /\ asked' = [asked EXCEPT ![t][KeyOf(t)] = @ + 1]
  BY DEF Compute
<1>2. memo # "open" /\ KeyOf(t) \in Keys
  BY <1>1, RunTop DEF Over
<1>3. /\ Own(t) /\ pc'[t] = "insert" /\ RunOK(t)' /\ Current(t)'.node = Current(t).node
  BY <1>1, KidsOK
<1>4. LockInv' /\ CacheInv'
  BY <1>1, <1>3, LockStays, CacheStays DEF Filling
<1>5. KeyOf(t)' = KeyOf(t)
  BY <1>1, <1>3 DEF KeyOf, graphVars
<1>6. PICK j : j = KeyOf(t)
  OBVIOUS
<1>7. /\ asked[t][j] = 0 /\ asked' \in [Threads -> [Keys -> Nat]] /\ asked'[t][j] = 1
      /\ \A k \in Keys \ {j} : asked'[t][k] = asked[t][k]
      /\ \A u \in Threads \ {t} : asked'[u] = asked[u]
  BY <1>1, <1>2, <1>6 DEF AskInv, Types
<1>8. \A u \in Threads \ {t} : pc'[u] = pc[u] /\ KeyOf(u)' = KeyOf(u) /\ Filling(u)' = Filling(u)
  BY <1>3, OthersStay
<1>9. ASSUME memo \in ComputesLocked, NEW u \in Threads \ {t}
      PROVE  asked[u][j] = 0
  <2>1. j \notin DOMAIN cache /\ lock = t
    BY <1>1, <1>6, <1>9 DEF AskInv, LockInv, Filling
  <2>2. pc[u] # "insert"
    BY <1>9, <2>1 DEF LockInv, Filling
  <2> QED
    BY <1>2, <1>6, <2>1, <2>2 DEF AskInv
<1>10. AskInv'
  <2>1. SUFFICES ASSUME NEW u \in Threads
                 PROVE  /\ \A k \in Keys :
                             /\ asked'[u][k] <= 1
                             /\ asked'[u][k] # 0 =>
                                  k \in DOMAIN cache \/ (pc'[u] = "insert" /\ KeyOf(u)' = k)
                             /\ memo \in ComputesLocked =>
                                  \A v \in Threads \ {u} : asked'[u][k] = 0 \/ asked'[v][k] = 0
                        /\ pc'[u] = "compute" => asked'[u][KeyOf(u)'] = 0
                        /\ Filling(u)' /\ memo \in ComputesLocked => KeyOf(u)' \notin DOMAIN cache
    BY <1>1 DEF AskInv, graphVars
  <2>2. ASSUME NEW k \in Keys, memo \in ComputesLocked, NEW v \in Threads \ {u}
        PROVE  asked'[u][k] = 0 \/ asked'[v][k] = 0
    <3>1. asked[u][k] = 0 \/ asked[v][k] = 0
      BY <2>2 DEF AskInv
    <3>2. k = j => \A w \in Threads \ {t} : asked'[w][k] = 0
      BY <1>7, <1>9, <2>2
    <3> QED
      BY <1>7, <2>2, <3>1, <3>2
  <2>3. CASE u = t
    BY <1>1, <1>3, <1>5, <1>6, <1>7, <2>2, <2>3 DEF AskInv, Filling
  <2>4. CASE u # t
    BY <1>7, <1>8, <2>2, <2>4 DEF AskInv
  <2> QED
    BY <2>3, <2>4
<1> QED
  BY <1>1, <1>2, <1>3, <1>4, <1>7, <1>10, OwnKeeps DEF Types

\* unwinding drops the whole stack
Unwinds(t) ==
  /\ pc' = [pc EXCEPT ![t] = "panicked"] /\ frames' = [frames EXCEPT ![t] = <<>>]
  /\ outcome[t] = <<>> /\ UNCHANGED <<graphVars, outcome>>

LEMMA UnwoundOK ==
  ASSUME Inv, NEW t \in Threads, Unwinds(t)
  PROVE  Own(t) /\ pc'[t] = "panicked" /\ RunOK(t)'
<1> USE DEF Inv
<1>1. /\ outcome' = [outcome EXCEPT ![t] = outcome[t]] /\ "panicked" \in Pcs
      /\ UNCHANGED graphVars /\ Types
  BY SameRun DEF Unwinds, Pcs, Over
<1>2. Own(t) /\ pc'[t] = "panicked" /\ frames'[t] = <<>> /\ outcome'[t] = <<>>
  BY <1>1, Owns DEF Unwinds
<1> QED
  BY <1>2, StackStarts DEF RunOK, Over

\* the graph's closure panics, and the stack is unwound
LEMMA PanicKeeps ==
  ASSUME Inv, NEW t \in Threads, GraphPanics(t)
  PROVE  Inv'
<1> USE DEF Inv
<1>1. /\ pc[t] = "compute" /\ panics < MaxPanics /\ panics' = panics + 1
      /\ UNCHANGED <<graphVars, cache, asked, outcome>>
      /\ pc' = [pc EXCEPT ![t] = "panicked"] /\ frames' = [frames EXCEPT ![t] = <<>>]
      /\ lock' = IF memo = "lift" THEN "poisoned" ELSE "free"
  BY DEF GraphPanics, Unwound, Goto
<1>2. memo # "open" /\ outcome[t] = <<>> /\ panics' \in 0 .. MaxPanics
  <2>1. memo # "open" /\ outcome[t] = <<>>
    BY <1>1, RunTop DEF Over
  <2>2. panics \in 0 .. MaxPanics /\ MaxPanics \in Nat
    BY MemoizedAssumption DEF Types
  <2> QED
    BY <1>1, <2>1, <2>2
<1>3. Unwinds(t)
  BY <1>1, <1>2 DEF Unwinds
<1>4. Own(t) /\ pc'[t] = "panicked" /\ RunOK(t)'
  BY <1>3, UnwoundOK
<1>5. \A u \in Threads : ~(Filling(u)' /\ memo \in ComputesLocked)
  <2>1. \A u \in Threads \ {t} : Filling(u)' = Filling(u)
    BY <1>4, OthersStay
  <2>2. memo \in ComputesLocked => lock = t
    BY <1>1 DEF LockInv, Filling
  <2> QED
    BY <1>4, <2>1, <2>2 DEF LockInv, Filling
<1>6. LockInv'
  BY <1>1, <1>5, MemoizedAssumption DEF LockInv, ComputesLocked, graphVars
<1>7. CacheInv' /\ AskInv'
  BY <1>1, <1>4, CacheStays, AskStays DEF Filling
<1> QED
  BY <1>1, <1>2, <1>4, <1>6, <1>7, OwnKeeps DEF Types

\* a run meets a poisoned lock
LEMMA UnwrapPoisonedKeeps ==
  ASSUME Inv, NEW t \in Threads, UnwrapPoisoned(t)
  PROVE  Inv'
<1> USE DEF Inv
<1>1. /\ pc[t] = "visit" /\ UNCHANGED <<graphVars, cache, lock, asked, panics, outcome>>
      /\ pc' = [pc EXCEPT ![t] = "panicked"] /\ frames' = [frames EXCEPT ![t] = <<>>]
  BY DEF UnwrapPoisoned, Unwound, Goto, cacheVars
<1>2. memo # "open" /\ outcome[t] = <<>>
  BY <1>1, RunTop DEF Over
<1>3. Unwinds(t)
  BY <1>1, <1>2 DEF Unwinds
<1>4. Own(t) /\ pc'[t] = "panicked" /\ RunOK(t)'
  BY <1>3, UnwoundOK
<1>5. LockInv' /\ CacheInv' /\ AskInv'
  BY <1>1, <1>4, LockStays, CacheStays, AskStays DEF Filling
<1> QED
  BY <1>1, <1>2, <1>4, <1>5, OwnKeeps DEF Types

\* the children are inserted, and the lock is released
LEMMA InsertKeeps ==
  ASSUME Inv, NEW t \in Threads, Insert(t)
  PROVE  Inv'
<1> USE DEF Inv
<1>1. /\ pc[t] = "insert" /\ UNCHANGED <<graphVars, asked, frames, outcome, panics>>
      /\ Put(KeyOf(t), Current(t).kids) /\ lock' = "free" /\ pc' = [pc EXCEPT ![t] = "loop"]
  BY DEF Insert, Goto
<1>2. /\ memo # "open" /\ StackOK(children, frames[t], "insert") /\ KeyOf(t) \in Keys
      /\ outcome[t] = <<>> /\ Current(t).node \in Nodes
      /\ Current(t).kids = children[Current(t).node]
  BY <1>1, RunTop DEF Over, TopOK
<1>3. Own(t) /\ pc'[t] = "loop" /\ frames'[t] = frames[t] /\ outcome'[t] = <<>>
  <2>1. /\ outcome' = [outcome EXCEPT ![t] = outcome[t]] /\ "loop" \in Pcs
        /\ frames' = [frames EXCEPT ![t] = frames[t]] /\ UNCHANGED graphVars /\ Types
    BY <1>1, SameRun DEF Pcs
  <2>2. Own(t) /\ pc'[t] = "loop" /\ frames'[t] = frames[t] /\ outcome'[t] = outcome[t]
    BY <1>1, <2>1, Owns
  <2> QED
    BY <1>2, <2>2
<1>4. RunOK(t)'
  BY <1>1, <1>2, <1>3 DEF RunOK, graphVars, StackOK, TopOK, Over
<1>5. /\ DOMAIN cache' = DOMAIN cache \cup {KeyOf(t)} /\ cache'[KeyOf(t)] = children[Current(t).node]
      /\ \A k \in DOMAIN cache : k # KeyOf(t) => cache'[k] = cache[k]
  BY <1>1, <1>2 DEF Put
<1>6. CacheInv'
  <2>1. SUFFICES ASSUME NEW n \in Nodes, key[n] \in DOMAIN cache'
                 PROVE  cache'[key[n]] = children[n]
    BY <1>1 DEF CacheInv, graphVars
  <2>2. CASE key[n] = KeyOf(t)
    BY <1>2, <1>5, <2>2 DEF Chosen, SameChildren, KeyOf
  <2>3. CASE key[n] # KeyOf(t)
    BY <1>2, <1>5, <2>1, <2>3 DEF CacheInv
  <2> QED
    BY <2>2, <2>3
<1>7. \A u \in Threads \ {t} : pc'[u] = pc[u] /\ KeyOf(u)' = KeyOf(u) /\ Filling(u)' = Filling(u)
  BY <1>3, OthersStay
<1>8. \A u \in Threads : ~(Filling(u)' /\ memo \in ComputesLocked)
  <2>1. memo \in ComputesLocked => lock = t
    BY <1>1 DEF LockInv, Filling
  <2> QED
    BY <1>3, <1>7, <2>1 DEF LockInv, Filling
<1>9. LockInv'
  BY <1>1, <1>8, MemoizedAssumption DEF LockInv, graphVars
<1>10. AskInv'
  <2>1. SUFFICES ASSUME NEW u \in Threads
                 PROVE  /\ \A k \in Keys :
                             /\ asked[u][k] <= 1
                             /\ asked[u][k] # 0 =>
                                  k \in DOMAIN cache' \/ (pc'[u] = "insert" /\ KeyOf(u)' = k)
                             /\ memo \in ComputesLocked =>
                                  \A v \in Threads \ {u} : asked[u][k] = 0 \/ asked[v][k] = 0
                        /\ pc'[u] = "compute" => asked[u][KeyOf(u)'] = 0
                        /\ Filling(u)' /\ memo \in ComputesLocked => KeyOf(u)' \notin DOMAIN cache'
    BY <1>1 DEF AskInv, graphVars
  <2>2. CASE u = t
    BY <1>3, <1>5, <1>8, <2>2 DEF AskInv
  <2>3. CASE u # t
    BY <1>5, <1>7, <1>8, <2>3 DEF AskInv
  <2> QED
    BY <2>2, <2>3
<1> QED
  BY <1>1, <1>2, <1>3, <1>4, <1>6, <1>9, <1>10, OwnKeeps DEF Types

\* a child's result is accumulated in the frame that waits for it
LEMMA Accumulates ==
  ASSUME NEW g \in Graphs, NEW w, FrameOK(g, w), NEW n \in Nodes, Waits(g, w, n),
         NEW e, e = Accumulated(w, Value(g, n))
  PROVE  FrameOK(g, e) /\ e.node = w.node /\ TopOK(g, e, "loop")
<1>1. PICK V : V = {Value(g, m) : m \in Nodes}
  OBVIOUS
<1>2. PICK x : x = Value(g, n)
  OBVIOUS
<1>3. PICK h : h = w.heap
  OBVIOUS
<1>4. /\ w \in [node : Nodes, kids : Seq(Nodes), next : Nat \ {0}, heap : Seq(V)] /\ x \in V
      /\ h \in Seq(V) /\ Len(h) = w.next - 1 /\ w.next <= Len(w.kids) /\ n = w.kids[w.next]
      /\ w.kids = g[w.node]
  BY <1>1, <1>2, <1>3 DEF FrameOK, FrameSet, Waits
<1>5. PICK d : d = Append(h, x)
  OBVIOUS
<1>6. /\ d \in Seq(V) /\ Len(d) = w.next /\ d[w.next] = x
      /\ \A j \in 1 .. w.next - 1 : d[j] = h[j]
  BY <1>4, <1>5
<1>7. e = [w EXCEPT !.heap = d, !.next = w.next + 1]
  BY <1>2, <1>3, <1>5 DEF Accumulated
<1>8. /\ e.node = w.node /\ e.kids = w.kids /\ e.next = w.next + 1 /\ e.heap = d
      /\ e \in [node : Nodes, kids : Seq(Nodes), next : Nat \ {0}, heap : Seq(V)]
  <2>1. w.next \in Nat \ {0} /\ w.next + 1 \in Nat \ {0}
    BY <1>4
  <2> QED
    BY <1>4, <1>6, <1>7, <2>1
<1>9. \A j \in 1 .. w.next - 1 : h[j] = Value(g, w.kids[j])
  BY <1>3, <1>4 DEF FrameOK
<1>10. \A j \in 1 .. w.next : d[j] = Value(g, w.kids[j])
  <2>1. d[w.next] = Value(g, w.kids[w.next])
    BY <1>2, <1>4, <1>6
  <2>2. \A j \in 1 .. w.next : j = w.next \/ j \in 1 .. w.next - 1
    BY <1>4
  <2> QED
    BY <1>6, <1>9, <2>1, <2>2
<1>11. Len(w.kids) \in Nat /\ w.next \in Nat
  BY <1>4
<1>12. e \in FrameSet(g)
  BY <1>1, <1>8 DEF FrameSet
<1>13. e.next <= Len(e.kids) + 1 /\ Len(e.heap) = e.next - 1
  BY <1>4, <1>6, <1>8, <1>11
<1>14. \A j \in 1 .. Len(e.heap) : e.heap[j] = Value(g, e.kids[j])
  BY <1>6, <1>8, <1>10
<1>15. FrameOK(g, e)
  BY <1>12, <1>13, <1>14 DEF FrameOK
<1> QED
  BY <1>4, <1>8, <1>15 DEF TopOK

\* a call of recurse on the next child
LEMMA DescendKeeps ==
  ASSUME Inv, NEW t \in Threads, Descend(t)
  PROVE  Inv'
<1> USE DEF Inv
<1>1. PICK f : f = Current(t)
  OBVIOUS
<1>2. PICK s : s = frames[t]
  OBVIOUS
<1>3. /\ pc[t] = "loop" /\ f.next <= Len(f.kids) /\ f = s[Len(s)]
      /\ UNCHANGED <<graphVars, cache, lock, asked, panics, outcome>>
      /\ pc' = [pc EXCEPT ![t] = "visit"]
  BY <1>1, <1>2 DEF Descend, Current, Goto, cacheVars
<1>4. PICK r : r = Append(s, Frame(f.kids[f.next]))
  OBVIOUS
<1>5. frames' = [frames EXCEPT ![t] = r]
  BY <1>1, <1>2, <1>4 DEF Descend
<1>6. memo # "open" /\ children \in Graphs /\ StackOK(children, s, "loop") /\ outcome[t] = <<>>
  BY <1>2, <1>3, RunTop DEF Over
<1>7. StackOK(children, r, "visit")
  BY <1>3, <1>4, <1>6, StackGrows
<1>8. Own(t) /\ pc'[t] = "visit" /\ frames'[t] = r /\ outcome'[t] = <<>>
  <2>1. /\ outcome' = [outcome EXCEPT ![t] = outcome[t]] /\ "visit" \in Pcs
        /\ UNCHANGED graphVars /\ Types
    BY <1>3, SameRun DEF Pcs
  <2>2. Own(t) /\ pc'[t] = "visit" /\ frames'[t] = r /\ outcome'[t] = outcome[t]
    BY <1>3, <1>5, <2>1, Owns
  <2> QED
    BY <1>6, <2>2
<1>9. RunOK(t)'
  BY <1>3, <1>7, <1>8 DEF RunOK, graphVars
<1>10. LockInv' /\ CacheInv' /\ AskInv'
  BY <1>3, <1>8, LockStays, CacheStays, AskStays DEF Filling
<1> QED
  BY <1>3, <1>6, <1>8, <1>9, <1>10, OwnKeeps DEF Types

\* what a frame that has passed all its children returns
LEMMA Returns ==
  ASSUME Inv, NEW t \in Threads, Returned(t)
  PROVE  Finalized(t) = Value(children, Current(t).node) /\ Current(t).node \in Nodes
<1>1. PICK f : f = Current(t)
  OBVIOUS
<1>2. pc[t] = "loop" /\ f.next > Len(f.kids)
  BY <1>1 DEF Returned
<1>3. FrameOK(children, f) /\ f.kids = children[f.node] /\ children \in Graphs
  BY <1>1, <1>2, RunTop DEF Over, TopOK
<1>4. f.node \in Nodes /\ Plain!Finalize(f.node, f.heap) = Value(children, f.node)
  BY <1>2, <1>3, FrameValue
<1> QED
  BY <1>1, <1>4 DEF Finalized

\* a return to the caller, which accumulates the result
LEMMA AscendKeeps ==
  ASSUME Inv, NEW t \in Threads, Ascend(t)
  PROVE  Inv'
<1> USE DEF Inv
<1>1. PICK s : s = frames[t]
  OBVIOUS
<1>2. PICK n : n = Current(t).node
  OBVIOUS
<1>3. /\ pc[t] = "loop" /\ Returned(t) /\ Len(s) > 1 /\ n = s[Len(s)].node
      /\ UNCHANGED <<graphVars, cache, lock, asked, panics, outcome, pc>>
  BY <1>1, <1>2 DEF Ascend, Returned, Current, cacheVars
<1>4. /\ memo # "open" /\ children \in Graphs /\ StackOK(children, s, "loop")
      /\ outcome[t] = <<>> /\ Len(s) \in Nat
  BY <1>1, <1>3, RunTop DEF Over
<1>5. n \in Nodes /\ Finalized(t) = Value(children, n)
  BY <1>2, <1>3, Returns
<1>6. PICK k : k = Len(s) - 1
  OBVIOUS
<1>7. PICK e : e = Accumulated(s[k], Value(children, n))
  OBVIOUS
<1>8. PICK r : r = Append(SubSeq(s, 1, k - 1), e)
  OBVIOUS
<1>9. frames' = [frames EXCEPT ![t] = r]
  BY <1>1, <1>5, <1>6, <1>7, <1>8 DEF Ascend
<1>10. k \in 1 .. Len(s) /\ k \in 1 .. Len(s) - 1 /\ k + 1 = Len(s) /\ s # <<>>
  BY <1>3, <1>4, <1>6
<1>11. FrameOK(children, s[k]) /\ Waits(children, s[k], n)
  BY <1>3, <1>4, <1>10 DEF StackOK
<1>12. FrameOK(children, e) /\ e.node = s[k].node /\ TopOK(children, e, "loop")
  BY <1>4, <1>5, <1>7, <1>11, Accumulates
<1>13. StackOK(children, r, "loop")
  <2>1. "loop" \notin Over
    BY DEF Over
  <2> QED
    BY <1>4, <1>8, <1>10, <1>12, <2>1, StackGoesOn
<1>14. Own(t) /\ pc'[t] = "loop" /\ frames'[t] = r /\ outcome'[t] = <<>>
  <2>1. /\ outcome' = [outcome EXCEPT ![t] = outcome[t]] /\ pc' = [pc EXCEPT ![t] = "loop"]
        /\ "loop" \in Pcs /\ UNCHANGED graphVars /\ Types
    BY <1>3, SameRun DEF Pcs
  <2>2. Own(t) /\ pc'[t] = "loop" /\ frames'[t] = r /\ outcome'[t] = outcome[t]
    BY <1>9, <2>1, Owns
  <2> QED
    BY <1>4, <2>2
<1>15. RunOK(t)'
  BY <1>3, <1>13, <1>14 DEF RunOK, graphVars
<1>16. LockInv' /\ CacheInv' /\ AskInv'
  BY <1>3, <1>14, LockStays, CacheStays, AskStays DEF Filling
<1> QED
  BY <1>3, <1>4, <1>14, <1>15, <1>16, OwnKeeps DEF Types

\* the first call returns
LEMMA DeliverKeeps ==
  ASSUME Inv, NEW t \in Threads, Deliver(t)
  PROVE  Inv'
<1> USE DEF Inv
<1>1. /\ pc[t] = "loop" /\ Returned(t) /\ Len(frames[t]) = 1
      /\ UNCHANGED <<graphVars, cache, lock, asked, panics>>
      /\ outcome' = [outcome EXCEPT ![t] = Finalized(t)]
      /\ pc' = [pc EXCEPT ![t] = "done"] /\ frames' = [frames EXCEPT ![t] = <<>>]
  BY DEF Deliver, Returned, Goto, cacheVars
<1>2. memo # "open" /\ StackOK(children, frames[t], "loop") /\ frames[t] # <<>>
  BY <1>1, RunTop DEF Over
<1>3. Current(t).node = Root
  BY <1>1, <1>2 DEF StackOK, Current
<1>4. Finalized(t) = Value(children, Root)
  BY <1>1, <1>3, Returns
<1>5. Own(t) /\ pc'[t] = "done" /\ frames'[t] = <<>> /\ outcome'[t] = Value(children, Root)
  <2>1. "done" \in Pcs /\ UNCHANGED graphVars /\ Types
    BY <1>1 DEF Pcs, Over
  <2>2. Own(t) /\ pc'[t] = "done" /\ frames'[t] = <<>> /\ outcome'[t] = Finalized(t)
    BY <1>1, <2>1, Owns
  <2> QED
    BY <1>4, <2>2
<1>6. RunOK(t)'
  BY <1>1, <1>5, StackStarts DEF RunOK, Over, graphVars
<1>7. LockInv' /\ CacheInv' /\ AskInv'
  BY <1>1, <1>5, LockStays, CacheStays, AskStays DEF Filling
<1> QED
  BY <1>1, <1>2, <1>5, <1>6, <1>7, OwnKeeps DEF Types

\* the memo is chosen before anything runs
LEMMA MemoiseKeeps ==
  ASSUME Inv, NEW m \in Memos, NEW g \in Graphs, NEW k \in KeyFns, Memoise(m, g, k)
  PROVE  Inv'
<1> USE DEF Inv
<1>1. /\ memo = "open" /\ memo' = m /\ children' = g /\ key' = k /\ SameChildren(g, k)
      /\ UNCHANGED <<cache, lock, asked, pc, frames, outcome, panics>>
  BY DEF Memoise, cacheVars
<1>2. /\ lock = "free" /\ DOMAIN cache = {}
      /\ \A t \in Threads : pc[t] = "idle" /\ \A j \in Keys : asked[t][j] = 0
  BY <1>1 DEF NotYet
<1>3. m # "open"
  BY DEF Memos
<1>4. Types' /\ NotYet'
  BY <1>1, <1>3 DEF Types, NotYet
<1>5. Chosen'
  BY <1>1, MemoizedAssumption DEF Chosen, SameChildren
<1>6. ASSUME NEW t \in Threads PROVE RunOK(t)'
  <2>1. frames[t] = <<>> /\ outcome[t] = <<>>
    BY <1>2 DEF RunsOK, RunOK, StackOK, Over
  <2> QED
    BY <1>1, <1>2, <2>1, StackStarts DEF RunOK, Over
<1>7. LockInv' /\ CacheInv'
  BY <1>1, <1>2, MemoizedAssumption DEF LockInv, CacheInv, Filling
<1>8. AskInv'
  BY <1>1, <1>2 DEF AskInv, Filling
<1> QED
  BY <1>4, <1>5, <1>6, <1>7, <1>8 DEF RunsOK

\* every step keeps the invariant
LEMMA StepKeeps == Inv /\ [Next]_memoVars => Inv'
<1> SUFFICES ASSUME Inv, [Next]_memoVars PROVE Inv'
  OBVIOUS
<1>1. ASSUME NEW t \in Threads, Start(t) \/ Run(t) \/ GraphPanics(t) PROVE Inv'
  BY <1>1, StartKeeps, VisitPlainKeeps, HitKeeps, MissKeeps, ComputeKeeps, PanicKeeps,
     UnwrapPoisonedKeeps, InsertKeeps, DescendKeeps, AscendKeeps, DeliverKeeps DEF Run
<1>2. ASSUME NEW m \in Memos, NEW g \in Graphs, NEW k \in KeyFns, Memoise(m, g, k) PROVE Inv'
  BY <1>2, MemoiseKeeps
<1>3. CASE UNCHANGED memoVars
  BY <1>3 DEF memoVars, graphVars, cacheVars, Inv, Types, Chosen, SameChildren, NotYet, RunsOK,
     RunOK, LockInv, CacheInv, AskInv, Filling, KeyOf, Current
<1> QED
  BY <1>1, <1>2, <1>3 DEF Next, Runs

-----------------------------------------------------------------------------
(* The theorems.                                                             *)

\* In every reachable state each run has the stack the recursion needs, with the
\* right results in its heaps; the lock is held by the one run that fills the
\* cache, entries are right, and what was asked for is or will be cached.
THEOREM MemoInvariant == Spec => []Inv
<1> QED
  BY InitHolds, StepKeeps, PTL DEF Spec

\* the result of a node is not the empty sequence of a run that has none
LEMMA ValueIsPair ==
  ASSUME NEW g \in Graphs, NEW n \in Nodes
  PROVE  Value(g, n) # <<>>
<1>1. PICK h : Value(g, n) = <<n, h>>
  BY FoldEquation DEF Result, Plain!Finalize
<1> QED
  BY <1>1

\* A run has frames exactly while it is in the recursion, has an outcome exactly
\* when it is done, and a lock held by a run is held by one that fills the cache.
THEOREM TypeCorrect == Spec => []TypeOK
<1>1. ASSUME Inv PROVE TypeOK
  <2> USE <1>1 DEF Inv
  <2>1. /\ memo \in Memos \cup {"open"} /\ lock \in Threads \cup {"free", "poisoned"}
        /\ panics \in 0 .. MaxPanics
    BY DEF Types, LockInv
  <2>2. ASSUME NEW t \in Threads
        PROVE  /\ pc[t] \in Over \cup {"visit", "compute", "insert", "loop"}
               /\ (frames[t] = <<>>) <=> (pc[t] \in Over)
               /\ (outcome[t] # <<>>) <=> (pc[t] = "done")
               /\ lock = t => pc[t] \in {"compute", "insert"} /\ memo \in ComputesLocked
               /\ \A i \in DOMAIN frames[t] :
                      frames[t][i].next \in 1 .. Len(frames[t][i].kids) + 1
    <3>1. /\ pc[t] \in Pcs /\ StackOK(children, frames[t], pc[t])
          /\ outcome[t] = IF pc[t] = "done" THEN Value(children, Root) ELSE <<>>
      BY DEF Types, RunsOK, RunOK
    <3>2. pc[t] = "done" => children \in Graphs
      BY DEF NotYet, Chosen
    <3>3. pc[t] = "done" => Value(children, Root) # <<>>
      BY <3>2, ValueIsPair, MemoizedAssumption
    <3>4. lock = t => pc[t] \in {"compute", "insert"} /\ memo \in ComputesLocked
      BY DEF LockInv, Filling
    <3>5. ASSUME NEW i \in DOMAIN frames[t]
          PROVE  frames[t][i].next \in 1 .. Len(frames[t][i].kids) + 1
      <4>1. PICK f : f = frames[t][i]
        OBVIOUS
      <4>2. FrameOK(children, f)
        BY <3>1, <4>1 DEF StackOK
      <4>3. f.next \in Nat \ {0} /\ f.next <= Len(f.kids) + 1 /\ Len(f.kids) \in Nat
        BY <4>2 DEF FrameOK, FrameSet
      <4> QED
        BY <4>1, <4>3
    <3> QED
      BY <3>1, <3>3, <3>4, <3>5 DEF Pcs, StackOK
  <2> QED
    BY <2>1, <2>2 DEF TypeOK
<1> QED
  BY <1>1, MemoInvariant, PTL

\* Memoising a graph is not observable: with any number of runs that share the
\* cache, whatever they compute, insert or break off meanwhile, a run that returns
\* returns what the recursion without a cache returns, every entry is right for
\* all nodes of its key, and the children of a key are computed at most once by a
\* run, and by one run in all where they are computed under the lock.
THEOREM MemoIsHonest == Spec => []MemoHonest
<1>1. ASSUME Inv PROVE MemoHonest
  <2>1. ASSUME NEW t \in Threads, pc[t] = "done" PROVE outcome[t] = Plain!Fused
    <3>1. outcome[t] = Value(children, Root)
      BY <1>1, <2>1 DEF Inv, RunsOK, RunOK
    <3> QED
      BY <3>1, RecurseIs DEF Plain!Fused, Value
  <2> QED
    BY <1>1, <2>1 DEF Inv, MemoHonest, CacheInv, AskInv
<1> QED
  BY <1>1, MemoInvariant, PTL
=============================================================================
