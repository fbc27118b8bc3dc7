--------------------------- MODULE FunnelWalkProofs ---------------------------
(***************************************************************************)
(* Proofs about the walk of a whole tree, for every tree, any number of    *)
(* threads and any capacity of the queues: each continuation is in one     *)
(* place and is fired once, nothing is left when the root cell is set, and *)
(* the answer is the one of the plain recursion.                           *)
(***************************************************************************)
EXTENDS FunnelWalk, FiniteSetTheorems, SequenceTheorems, TLAPS

-----------------------------------------------------------------------------
(* Stacks. *)

IsSeq(s) == \E S : s \in Seq(S)

\* a sequence has positions from one to its length
LEMMA SeqDomain ==
  ASSUME NEW s, IsSeq(s)
  PROVE  Len(s) \in Nat /\ DOMAIN s = 1 .. Len(s) /\ (s = <<>> <=> Len(s) = 0)
<1>1. PICK S : s \in Seq(S)
  BY DEF IsSeq
<1> QED
  BY <1>1

\* the sequence without its last element, and what is put in its place
Replaced(s, q) == SubSeq(s, 1, Len(s) - 1) \o q

\* its length and its elements
LEMMA ReplacedConcat ==
  ASSUME NEW s, IsSeq(s), s # <<>>, NEW q, IsSeq(q)
  PROVE  /\ Len(s) \in Nat \ {0} /\ Len(q) \in Nat
         /\ DOMAIN s = 1 .. Len(s)
         /\ IsSeq(Replaced(s, q)) /\ DOMAIN Replaced(s, q) = 1 .. Len(s) - 1 + Len(q)
         /\ \A i \in 1 .. Len(s) - 1 + Len(q) :
              Replaced(s, q)[i] = IF i <= Len(s) - 1 THEN s[i] ELSE q[i - (Len(s) - 1)]
<1>1. PICK S : s \in Seq(S)
  BY DEF IsSeq
<1>2. PICK T : q \in Seq(T)
  BY DEF IsSeq
<1> DEFINE V == S \cup T
           r == SubSeq(s, 1, Len(s) - 1)
<1>3. s \in Seq(V) /\ q \in Seq(V)
  BY <1>1, <1>2
<1> HIDE DEF V
<1>4. Len(s) \in Nat \ {0} /\ Len(q) \in Nat /\ DOMAIN s = 1 .. Len(s)
  BY <1>3
<1>5. r \in Seq(V) /\ Len(r) = Len(s) - 1 /\ \A d \in 1 .. Len(s) - 1 : r[d] = s[d]
  BY <1>3, <1>4
<1> HIDE DEF r
<1>6. /\ r \o q \in Seq(V) /\ Len(r \o q) = Len(s) - 1 + Len(q)
      /\ \A i \in 1 .. Len(r) + Len(q) : (r \o q)[i] =
            IF i <= Len(r) THEN r[i] ELSE q[i - Len(r)]
  BY <1>3, <1>5, ConcatProperties
<1>7. IsSeq(r \o q)
  BY <1>6 DEF IsSeq
<1>8. DOMAIN (r \o q) = 1 .. Len(s) - 1 + Len(q)
  BY <1>6, <1>7, SeqDomain
<1>9. \A i \in 1 .. Len(s) - 1 + Len(q) :
         (r \o q)[i] = IF i <= Len(s) - 1 THEN s[i] ELSE q[i - (Len(s) - 1)]
  BY <1>4, <1>5, <1>6
<1> QED
  BY <1>4, <1>7, <1>8, <1>9 DEF r, Replaced

\* the elements below stay
LEMMA BelowReplaced ==
  ASSUME NEW s, IsSeq(s), s # <<>>, NEW q, IsSeq(q), NEW d \in 1 .. Len(s) - 1
  PROVE  Replaced(s, q)[d] = s[d]
<1>1. /\ Len(s) \in Nat \ {0} /\ Len(q) \in Nat
      /\ \A i \in 1 .. Len(s) - 1 + Len(q) :
           Replaced(s, q)[i] = IF i <= Len(s) - 1 THEN s[i] ELSE q[i - (Len(s) - 1)]
  BY ReplacedConcat
<1> QED
  BY <1>1

\* the new ones follow
LEMMA AboveReplaced ==
  ASSUME NEW s, IsSeq(s), s # <<>>, NEW q, IsSeq(q), NEW d \in 1 .. Len(q)
  PROVE  Replaced(s, q)[Len(s) - 1 + d] = q[d]
<1>1. /\ Len(s) \in Nat \ {0} /\ Len(q) \in Nat
      /\ \A i \in 1 .. Len(s) - 1 + Len(q) :
           Replaced(s, q)[i] = IF i <= Len(s) - 1 THEN s[i] ELSE q[i - (Len(s) - 1)]
  BY ReplacedConcat
<1>2. Len(s) - 1 + d \in 1 .. Len(s) - 1 + Len(q) /\ ~(Len(s) - 1 + d <= Len(s) - 1)
      /\ Len(s) - 1 + d - (Len(s) - 1) = d
  BY <1>1
<1> QED
  BY <1>1, <1>2

\* the activations and their positions
Pos(u, d) == u \in Threads /\ d \in DOMAIN stack[u]
Act(u, d) == stack[u][d]
Depth(t) == Len(stack[t])
Stacks == DOMAIN stack = Threads /\ \A u \in Threads : IsSeq(stack[u])

\* the running activation is the last one
LEMMA Running ==
  ASSUME Stacks, NEW t \in Threads, stack[t] # <<>>
  PROVE  Pos(t, Depth(t)) /\ Top(t) = Act(t, Depth(t)) /\ ~Pos(t, Depth(t) + 1)
BY SeqDomain DEF Stacks, Pos, Act, Depth, Top

\* what Become does to the stacks: the others keep theirs
LEMMA Becomes ==
  ASSUME Stacks, NEW t \in Threads, stack[t] # <<>>, NEW q, IsSeq(q), Become(t, q)
  PROVE  /\ DOMAIN stack' = Threads /\ stack'[t] = Replaced(stack[t], q)
         /\ \A u \in Threads \ {t} : stack'[u] = stack[u]
         /\ IsSeq(stack[t])
BY DEF Stacks, Become, Rest, Replaced

\* where activations are afterwards
LEMMA BecomesPos ==
  ASSUME Stacks, NEW t \in Threads, stack[t] # <<>>, NEW q, IsSeq(q), Become(t, q),
         NEW k, k = Depth(t)
  PROVE  /\ Stacks' /\ k \in Nat \ {0} /\ \A d : Pos(t, d) <=> d \in 1 .. k
         /\ \A u, d : Pos(u, d)' <=> IF u = t THEN d \in 1 .. k - 1 + Len(q) ELSE Pos(u, d)
<1>1. PICK s : s = stack[t]
  OBVIOUS
<1>2. PICK new : new = Replaced(s, q)
  OBVIOUS
<1>3. /\ DOMAIN stack' = Threads /\ stack'[t] = new /\ IsSeq(s) /\ k = Len(s)
      /\ \A u \in Threads \ {t} : stack'[u] = stack[u]
  BY <1>1, <1>2, Becomes DEF Depth
<1>4. IsSeq(new) /\ k \in Nat \ {0} /\ DOMAIN s = 1 .. k
      /\ DOMAIN new = 1 .. k - 1 + Len(q)
  <2>1. s # <<>> /\ IsSeq(s) /\ IsSeq(q)
    BY <1>1, <1>3
  <2>2. /\ IsSeq(Replaced(s, q)) /\ Len(s) \in Nat \ {0} /\ DOMAIN s = 1 .. Len(s)
        /\ DOMAIN Replaced(s, q) = 1 .. Len(s) - 1 + Len(q)
    BY ONLY <2>1, ReplacedConcat
  <2> QED
    BY <2>2, <1>2, <1>3
<1>5. Stacks'
  BY <1>3, <1>4 DEF Stacks
<1> QED
  BY <1>1, <1>3, <1>4, <1>5 DEF Pos

\* those below the running one stay
LEMMA BecomesBelow ==
  ASSUME Stacks, NEW t \in Threads, stack[t] # <<>>, NEW q, IsSeq(q), Become(t, q),
         NEW k, k = Depth(t), NEW u, NEW d, Pos(u, d), ~(u = t /\ d = k)
  PROVE  Act(u, d)' = Act(u, d)
<1>1. PICK s : s = stack[t]
  OBVIOUS
<1>2. /\ stack'[t] = Replaced(s, q) /\ IsSeq(s) /\ k = Len(s) /\ u \in Threads
      /\ \A v \in Threads \ {t} : stack'[v] = stack[v]
  BY <1>1, Becomes DEF Depth, Pos
<1>3. CASE u # t
  BY <1>2, <1>3 DEF Act
<1>4. CASE u = t
  <2>1. Len(s) \in Nat /\ d \in 1 .. Len(s) /\ d # Len(s)
    BY <1>1, <1>2, <1>4, SeqDomain DEF Pos
  <2>2. d \in 1 .. Len(s) - 1
    BY <2>1
  <2>3. Replaced(s, q)[d] = s[d]
    BY <1>1, <1>2, <2>2, BelowReplaced
  <2> QED
    BY <1>1, <1>2, <1>4, <2>3 DEF Act
<1> QED
  BY <1>3, <1>4

\* and the running one is replaced
LEMMA BecomesTop ==
  ASSUME Stacks, NEW t \in Threads, stack[t] # <<>>, NEW q, IsSeq(q), Become(t, q),
         NEW i \in 1 .. Len(q), NEW d, d = Depth(t) - 1 + i
  PROVE  Act(t, d)' = q[i]
<1>1. PICK s : s = stack[t]
  OBVIOUS
<1>2. stack'[t] = Replaced(s, q) /\ IsSeq(s) /\ d = Len(s) - 1 + i
  BY <1>1, Becomes DEF Depth
<1>3. Replaced(s, q)[Len(s) - 1 + i] = q[i]
  <2>1. s # <<>> /\ IsSeq(s) /\ IsSeq(q)
    BY <1>1, <1>2
  <2> QED
    BY ONLY <2>1, i \in 1 .. Len(q), AboveReplaced
<1> QED
  BY <1>2, <1>3 DEF Act

\* the running activation goes on as another one
LEMMA BecomeOne ==
  ASSUME Stacks, NEW t \in Threads, stack[t] # <<>>, NEW f, Become(t, <<f>>),
         NEW k, k = Depth(t)
  PROVE  /\ Stacks' /\ \A u, d : Pos(u, d)' <=> Pos(u, d)
         /\ Act(t, k)' = f
         /\ \A u, d : Pos(u, d) /\ ~(u = t /\ d = k) => Act(u, d)' = Act(u, d)
<1>1. PICK q : q = <<f>>
  OBVIOUS
<1>2. q \in Seq({f}) /\ Len(q) = 1 /\ q[1] = f /\ Become(t, q)
  BY <1>1
<1>3. IsSeq(q)
  BY <1>2 DEF IsSeq
<1>4. /\ Stacks' /\ k \in Nat \ {0} /\ \A d : Pos(t, d) <=> d \in 1 .. k
      /\ \A u, d : Pos(u, d)' <=> IF u = t THEN d \in 1 .. k - 1 + Len(q) ELSE Pos(u, d)
  BY <1>2, <1>3, BecomesPos
<1>5. \A u, d : Pos(u, d)' <=> Pos(u, d)
  <2>1. k - 1 + Len(q) = k
    BY <1>2, <1>4
  <2> QED
    BY <2>1, <1>4
<1>6. Act(t, k)' = f
  <2>1. k = Depth(t) - 1 + 1 /\ 1 \in 1 .. Len(q)
    BY <1>2, <1>4
  <2> QED
    BY <2>1, <1>2, <1>3, BecomesTop
<1>7. \A u, d : Pos(u, d) /\ ~(u = t /\ d = k) => Act(u, d)' = Act(u, d)
  BY <1>2, <1>3, BecomesBelow
<1> QED
  BY <1>4, <1>5, <1>6, <1>7

\* it ends
LEMMA BecomeNone ==
  ASSUME Stacks, NEW t \in Threads, stack[t] # <<>>, Become(t, <<>>),
         NEW k, k = Depth(t)
  PROVE  /\ Stacks' /\ \A u, d : Pos(u, d)' <=> Pos(u, d) /\ ~(u = t /\ d = k)
         /\ \A u, d : Pos(u, d) /\ ~(u = t /\ d = k) => Act(u, d)' = Act(u, d)
<1>1. PICK q : q = <<>>
  OBVIOUS
<1>2. q \in Seq({}) /\ Len(q) = 0 /\ Become(t, q)
  BY <1>1
<1>3. IsSeq(q)
  BY <1>2 DEF IsSeq
<1>4. /\ Stacks' /\ k \in Nat \ {0} /\ \A d : Pos(t, d) <=> d \in 1 .. k
      /\ \A u, d : Pos(u, d)' <=> IF u = t THEN d \in 1 .. k - 1 + Len(q) ELSE Pos(u, d)
  BY <1>2, <1>3, BecomesPos
<1>5. \A u, d : Pos(u, d)' <=> Pos(u, d) /\ ~(u = t /\ d = k)
  <2>1. k - 1 + Len(q) = k - 1
    BY <1>2, <1>4
  <2> QED
    BY <2>1, <1>4
<1>6. \A u, d : Pos(u, d) /\ ~(u = t /\ d = k) => Act(u, d)' = Act(u, d)
  BY <1>2, <1>3, BecomesBelow
<1> QED
  BY <1>4, <1>5, <1>6

\* it calls another one
LEMMA BecomeTwo ==
  ASSUME Stacks, NEW t \in Threads, stack[t] # <<>>, NEW f, NEW g, Become(t, <<f, g>>),
         NEW k, k = Depth(t)
  PROVE  /\ Stacks' /\ \A u, d : Pos(u, d)' <=> Pos(u, d) \/ (u = t /\ d = k + 1)
         /\ k \in Nat /\ ~Pos(t, k + 1) /\ Act(t, k)' = f
         /\ \A d : d = k + 1 => Act(t, d)' = g
         /\ \A u, d : Pos(u, d) /\ ~(u = t /\ d = k) => Act(u, d)' = Act(u, d)
<1>1. PICK q : q = <<f, g>>
  OBVIOUS
<1>2. q \in Seq({f, g}) /\ Len(q) = 2 /\ q[1] = f /\ q[2] = g /\ Become(t, q)
  BY <1>1
<1>3. IsSeq(q)
  BY <1>2 DEF IsSeq
<1>4. /\ Stacks' /\ k \in Nat \ {0} /\ \A d : Pos(t, d) <=> d \in 1 .. k
      /\ \A u, d : Pos(u, d)' <=> IF u = t THEN d \in 1 .. k - 1 + Len(q) ELSE Pos(u, d)
  BY <1>2, <1>3, BecomesPos
<1>5. \A u, d : Pos(u, d)' <=> Pos(u, d) \/ (u = t /\ d = k + 1)
  <2>1. k - 1 + Len(q) = k + 1
    BY <1>2, <1>4
  <2> QED
    BY <2>1, <1>4
<1>6. Act(t, k)' = f
  <2>1. k = Depth(t) - 1 + 1 /\ 1 \in 1 .. Len(q)
    BY <1>2, <1>4
  <2> QED
    BY <2>1, <1>2, <1>3, BecomesTop
<1>7. \A d : d = k + 1 => Act(t, d)' = g
  <2>1. k + 1 = Depth(t) - 1 + 2 /\ 2 \in 1 .. Len(q)
    BY <1>2, <1>4
  <2> QED
    BY <2>1, <1>2, <1>3, BecomesTop
<1>8. \A u, d : Pos(u, d) /\ ~(u = t /\ d = k) => Act(u, d)' = Act(u, d)
  BY <1>2, <1>3, BecomesBelow
<1>9. ~Pos(t, k + 1)
  BY <1>4
<1> QED
  BY <1>4, <1>5, <1>6, <1>7, <1>8, <1>9

\* it starts on an idle thread
LEMMA BecomeFirst ==
  ASSUME Stacks, NEW t \in Threads, stack[t] = <<>>, NEW f,
         stack' = [stack EXCEPT ![t] = <<f>>]
  PROVE  /\ Stacks' /\ \A u, d : Pos(u, d)' <=> Pos(u, d) \/ (u = t /\ d = 1)
         /\ ~Pos(t, 1) /\ Act(t, 1)' = f
         /\ \A u, d : Pos(u, d) => Act(u, d)' = Act(u, d)
<1>1. <<f>> \in Seq({f}) /\ DOMAIN <<f>> = {1} /\ <<f>>[1] = f
  OBVIOUS
<1> DEFINE q == <<f>>
<1>2. q \in Seq({f}) /\ DOMAIN q = {1} /\ q[1] = f /\ stack' = [stack EXCEPT ![t] = q]
  BY <1>1
<1> HIDE DEF q
<1>3. IsSeq(q)
  BY <1>2 DEF IsSeq
<1>4. DOMAIN stack[t] = {}
  OBVIOUS
<1>5. /\ DOMAIN stack' = Threads /\ stack'[t] = q
      /\ \A u \in Threads \ {t} : stack'[u] = stack[u]
  BY <1>2 DEF Stacks
<1>6. Stacks'
  BY <1>3, <1>5 DEF Stacks
<1> QED
  BY <1>2, <1>4, <1>5, <1>6 DEF Pos, Act
-----------------------------------------------------------------------------
(* Trees and the continuations that name their nodes. *)

Kids(n) == Len(children[n])

\* the continuation that takes the result of node n
NamesIn(tree, c, n) ==
  \/ c = RootCont /\ n = Root
  \/ \E m \in Nodes : \E i \in 1 .. Len(tree[m]) :
       /\ tree[m][i] = n
       /\ c = IF Len(tree[m]) = 1 THEN Direct(m) ELSE Slot(m, i)
Names(c, n) == NamesIn(children, c, n)

\* a node is the child of one node, in one place
LEMMA TreeShape ==
  ASSUME children \in Trees
  PROVE  /\ \A n \in Nodes : /\ Kids(n) \in Nat /\ DOMAIN children[n] = 1 .. Kids(n)
                             /\ children[n] = <<>> <=> Kids(n) = 0
         /\ \A n \in Nodes : \A i \in 1 .. Kids(n) : children[n][i] \in Nodes \ {Root}
         /\ \A n, m \in Nodes : \A i \in 1 .. Kids(n), j \in 1 .. Kids(m) :
              children[n][i] = children[m][j] => n = m /\ i = j
<1>1. /\ children \in [Nodes -> Seq(Nodes)]
      /\ \A n, m \in Nodes : \A i \in DOMAIN children[n], j \in DOMAIN children[m] :
           children[n][i] = children[m][j] => n = m /\ i = j
      /\ \A n \in Nodes : \A i \in DOMAIN children[n] : children[n][i] # Root
  BY TreeAssumption DEF OneParent
<1>2. \A n \in Nodes : /\ Kids(n) \in Nat /\ DOMAIN children[n] = 1 .. Kids(n)
                       /\ children[n] = <<>> <=> Kids(n) = 0
  BY <1>1 DEF Kids
<1>3. ASSUME NEW n \in Nodes, NEW i \in 1 .. Kids(n) PROVE children[n][i] \in Nodes
  <2>1. PICK s : s = children[n]
    OBVIOUS
  <2>2. s \in Seq(Nodes) /\ i \in 1 .. Len(s)
    BY <1>1, <2>1 DEF Kids
  <2>3. s[i] \in Nodes
    BY <2>2
  <2> QED
    BY <2>1, <2>3
<1>4. \A n \in Nodes : \A i \in 1 .. Kids(n) : children[n][i] # Root
  BY <1>1, <1>2
<1>5. ASSUME NEW n \in Nodes, NEW m \in Nodes, NEW i \in 1 .. Kids(n), NEW j \in 1 .. Kids(m),
             children[n][i] = children[m][j]
      PROVE  n = m /\ i = j
  <2>1. i \in DOMAIN children[n] /\ j \in DOMAIN children[m]
    BY <1>2
  <2> QED
    BY <1>1, <1>5, <2>1
<1> QED
  BY <1>2, <1>3, <1>4, <1>5

\* a set of nodes that every node is in whose child is in it has the root
LEMMA UpToRoot ==
  ASSUME children \in Trees, NEW U \in SUBSET Nodes, U # {},
         \A n \in U : n = Root \/ \E m \in U : \E i \in 1 .. Kids(m) : children[m][i] = n
  PROVE  Root \in U
<1>0. U \in (SUBSET Nodes) \ {{}} /\ UpEnds(children)
  BY TreeAssumption
<1>1. PICK n \in U : \A m \in U : \A i \in DOMAIN children[m] : children[m][i] # n
  BY <1>0 DEF UpEnds
<1> QED
  BY <1>1, TreeShape

\* a continuation takes the result of one node
LEMMA NamesOne ==
  ASSUME children \in Trees, NEW c, NEW n, NEW m, Names(c, n), Names(c, m)
  PROVE  n = m
<1> USE DEF Names, NamesIn, Kids, RootCont, Direct, Slot
<1>1. CASE c.kind = "root"
  BY <1>1
<1>2. CASE c.kind = "direct"
  <2>1. \A k : Names(c, k) => c.node \in Nodes /\ Kids(c.node) = 1 /\ k = children[c.node][1]
    BY <1>2
  <2> QED
    BY <2>1
<1>3. CASE c.kind = "slot"
  BY <1>3
<1>4. c.kind \in {"root", "direct", "slot"}
  OBVIOUS
<1> QED
  BY <1>1, <1>2, <1>3, <1>4

\* what kind of continuation takes the result of which node
LEMMA NamesKinds ==
  ASSUME children \in Trees, NEW c, NEW n, Names(c, n)
  PROVE  /\ n \in Nodes /\ c \in Conts \ {NoCont}
         /\ c.kind \in {"root", "direct", "slot"}
         /\ c.kind = "root" => c = RootCont /\ n = Root
         /\ c.kind = "direct" => /\ c.node \in Nodes /\ c = Direct(c.node)
                                 /\ Kids(c.node) = 1 /\ n = children[c.node][1]
         /\ c.kind = "slot" => /\ c.node \in Nodes /\ c = Slot(c.node, c.slot)
                               /\ Kids(c.node) > 1 /\ c.slot \in 1 .. Kids(c.node)
                               /\ n = children[c.node][c.slot]
<1> USE DEF RootCont, Direct, Slot, NoCont
<1>1. CASE c = RootCont /\ n = Root
  BY <1>1, WalkAssumption DEF Conts
<1>2. ASSUME NEW m \in Nodes, NEW i \in 1 .. Kids(m), children[m][i] = n,
             c = IF Kids(m) = 1 THEN Direct(m) ELSE Slot(m, i)
      PROVE  /\ n \in Nodes /\ c \in Conts \ {NoCont}
             /\ c.kind \in {"direct", "slot"}
             /\ c.kind = "direct" => /\ c.node \in Nodes /\ c = Direct(c.node)
                                     /\ Kids(c.node) = 1 /\ n = children[c.node][1]
             /\ c.kind = "slot" => /\ c.node \in Nodes /\ c = Slot(c.node, c.slot)
                                   /\ Kids(c.node) > 1 /\ c.slot \in 1 .. Kids(c.node)
                                   /\ n = children[c.node][c.slot]
  <2>1. n \in Nodes /\ Kids(m) \in Nat /\ DOMAIN children[m] = 1 .. Kids(m)
    BY <1>2, TreeShape
  <2>2. CASE Kids(m) = 1
    BY <1>2, <2>1, <2>2 DEF Conts
  <2>3. CASE Kids(m) # 1
    <3>1. c = Slot(m, i) /\ Kids(m) > 1
      BY <1>2, <2>1, <2>3
    <3>2. c \in {Slot(m, j) : j \in DOMAIN children[m]}
      BY <3>1, <2>1
    <3>3. {Slot(m, j) : j \in DOMAIN children[m]}
            \in {{Slot(k, j) : j \in DOMAIN children[k]} : k \in Nodes}
      OBVIOUS
    <3>4. c \in UNION {{Slot(k, j) : j \in DOMAIN children[k]} : k \in Nodes}
      BY <3>2, <3>3
    <3> QED
      BY <1>2, <2>1, <3>1, <3>4 DEF Conts
  <2> QED
    BY <2>2, <2>3
<1> QED
  BY <1>1, <1>2 DEF Names, NamesIn, Kids
-----------------------------------------------------------------------------
(* The invariant. Two things wander about for every node: the duty to walk  *)
(* it, and its continuation. Each is in one place at a time.                *)

\* the duty: in a task, or in the activation that visits it or sets its total
Seeks(k, a, b, n) ==
  \/ k = "task" /\ a \in Threads /\ b \in queue[a] /\ b.child = n
  \/ k = "stack" /\ Pos(a, b) /\ Act(a, b).op \in {"visit", "set_total"} /\ Act(a, b).node = n

\* the continuation: in a task, in the visit until its second child, in the node's
\* chain or cell of the arena, in the activation that fires it
Has(k, a, b, n) ==
  \/ k = "task" /\ a \in Threads /\ b \in queue[a] /\ b.child = n
  \/ /\ k = "stack" /\ Pos(a, b)
     /\ \/ Act(a, b).op = "visit" /\ Act(a, b).node = n /\ Act(a, b).next < 2
        \/ Act(a, b).op = "fire" /\ Names(Act(a, b).cont, n)
  \/ k = "parent" /\ a = n /\ b = n /\ n \in Nodes /\ parent[n] # NoCont
  \/ k = "arena" /\ a = n /\ b = n /\ n \in Nodes /\ arena[n] # NoCont

OneSeeks == \A n, k, a, b, l, c, d :
  Seeks(k, a, b, n) /\ Seeks(l, c, d, n) => k = l /\ a = c /\ b = d
OneHas == \A n, k, a, b, l, c, d :
  Has(k, a, b, n) /\ Has(l, c, d, n) => k = l /\ a = c /\ b = d

\* nobody has come near the node yet; it is over with it
Fresh(n) ==
  /\ visits[n] = 0 /\ slots[n] = <<>>
  /\ \A k, a, b : ~Seeks(k, a, b, n) /\ ~Has(k, a, b, n)
Gone(n) == visits[n] = 1 /\ \A k, a, b : ~Has(k, a, b, n)

\* the walk has reached the j-th child of n: the first after graph.visit has returned
\* and the total is set, the others as graph.visit comes to them
Settling(n) == \E u, d : Pos(u, d) /\ Act(u, d).op = "set_total" /\ Act(u, d).node = n
Opened(n, j) ==
  \/ visits[n] # 0 /\ (j = 1 => ~Settling(n))
  \/ \E u, d : /\ Pos(u, d) /\ Act(u, d).op = "visit" /\ Act(u, d).node = n
               /\ j >= 2 /\ Act(u, d).next >= j
Calm == \A n \in Nodes : \A j \in 1 .. Kids(n) : Opened(n, j) \/ Fresh(children[n][j])

ActOK(f) ==
  \/ /\ f.op = "visit" /\ f = Visiting(f.node, f.cont, f.next)
     /\ f.node \in Nodes /\ f.next \in 0 .. Kids(f.node) /\ visits[f.node] = 0
     /\ f.next < 2 => slots[f.node] = <<>> /\ Names(f.cont, f.node)
     /\ f.next >= 2 => /\ f.cont = NoCont /\ parent[f.node] # NoCont
                       /\ Len(slots[f.node]) = f.next
  \/ f.op = "set_total" /\ f = SettingTotal(f.node) /\ f.node \in closed
  \/ f.op = "deliver" /\ f = Delivering(f.node) /\ f.node \in Nodes
  \/ /\ f.op = "fire"
     /\ \E n \in Nodes : Names(f.cont, n) /\ visits[n] = 1
TaskOK(k) ==
  /\ k = Task(k.child, k.cont) /\ Names(k.cont, k.child)
  /\ visits[k.child] = 0 /\ slots[k.child] = <<>>

\* a result is in when its child is done; an only child's result is taken by way of the arena
SlotsOK(n) ==
  \A j \in 1 .. Len(slots[n]) : slots[n][j] # NoResult => Gone(children[n][j])
OnlyOK(n) ==
  Kids(n) = 1 => arena[n] # NoCont \/ \A k, a, b : ~Has(k, a, b, children[n][1])
NodeOK(n) ==
  /\ visits[n] \in {0, 1}
  /\ n \in closed <=> visits[n] = 1 /\ Kids(n) > 1
  /\ Len(slots[n]) <= Kids(n) /\ (n \in closed => Len(slots[n]) = Kids(n))
  /\ n \in finalized => \A j \in 1 .. Kids(n) : slots[n][j] # NoResult
  /\ n \in closed \ finalized => parent[n] # NoCont
  /\ parent[n] # NoCont => Names(parent[n], n)
  /\ arena[n] # NoCont => Names(arena[n], n) /\ visits[n] = 1
  /\ SlotsOK(n) /\ OnlyOK(n)

Shape ==
  /\ children \in Trees /\ Stacks
  /\ DOMAIN queue = Threads
  /\ \A u \in Threads : IsFiniteSet(queue[u]) /\ Cardinality(queue[u]) <= Capacity
  /\ DOMAIN slots = Nodes /\ \A n \in Nodes : IsSeq(slots[n])
  /\ closed \subseteq Nodes /\ finalized \subseteq closed
  /\ parent \in [Nodes -> Conts] /\ arena \in [Nodes -> Conts] /\ visits \in [Nodes -> Nat]
ActsOK == \A u, d : Pos(u, d) => ActOK(Act(u, d))
TasksOK == \A u \in Threads : \A k \in queue[u] : TaskOK(k)
NodesOK == \A n \in Nodes : NodeOK(n)
RootOK == root_cell # NoAnswer => Gone(Root)

IInv == Shape /\ ActsOK /\ TasksOK /\ NodesOK /\ OneSeeks /\ OneHas /\ Calm /\ RootOK

-----------------------------------------------------------------------------
(* What the invariant says about the places. *)

\* who has a node's continuation or duty has a node of the tree
LEMMA HasNodes ==
  ASSUME IInv, NEW k, NEW a, NEW b, NEW n, Has(k, a, b, n)
  PROVE  n \in Nodes /\ \E c : Names(c, n)
<1> USE DEF IInv, Shape, ActsOK, TasksOK, NodesOK
<1>1. CASE k = "task"
  <2>1. Names(b.cont, n)
    BY <1>1 DEF Has, TaskOK
  <2> QED
    BY <2>1, NamesKinds
<1>2. CASE k = "stack"
  <2>1. \E c : Names(c, n)
    BY <1>2 DEF Has, ActOK
  <2> QED
    BY <2>1, NamesKinds
<1>3. CASE k \in {"parent", "arena"}
  <2>1. n \in Nodes /\ (Names(parent[n], n) \/ Names(arena[n], n))
    BY <1>3 DEF Has, NodeOK
  <2> QED
    BY <2>1
<1> QED
  BY <1>1, <1>2, <1>3 DEF Has

\* a duty is about a node
LEMMA SeeksNodes ==
  ASSUME IInv, NEW k, NEW a, NEW b, NEW n, Seeks(k, a, b, n)
  PROVE  n \in Nodes
<1> USE DEF IInv, Shape, ActsOK, TasksOK
<1>1. CASE k = "task"
  <2>1. Names(b.cont, n)
    BY <1>1 DEF Seeks, TaskOK
  <2> QED
    BY <2>1, NamesKinds
<1>2. CASE k = "stack"
  BY <1>2 DEF Seeks, ActOK
<1> QED
  BY <1>1, <1>2 DEF Seeks

\* a child is reached only after its parent's continuation was put away, and before
\* that is taken again
LEMMA ParentHas ==
  ASSUME IInv, NEW n \in Nodes, NEW j \in 1 .. Kids(n),
         NEW k, NEW a, NEW b, Has(k, a, b, children[n][j])
  PROVE  \E l, c, d : Has(l, c, d, n)
<1> USE DEF IInv, Shape
<1>1. Kids(n) \in Nat /\ IsSeq(slots[n]) /\ NodeOK(n)
  BY TreeShape DEF NodesOK
<1>2. CASE Kids(n) = 1
  <2>1. j = 1 /\ arena[n] # NoCont
    BY <1>1, <1>2 DEF NodeOK, OnlyOK
  <2>2. Has("arena", n, n, n)
    BY <2>1 DEF Has
  <2> QED
    BY <2>2
<1>3. CASE Kids(n) # 1
  <2>1. Opened(n, j)
    BY DEF Calm, Fresh
  <2>2. CASE visits[n] # 0
    <3>1. n \in closed /\ ~(\A i \in 1 .. Kids(n) : slots[n][i] # NoResult)
      <4>1. visits[n] = 1 /\ Kids(n) > 1
        BY <1>1, <1>3, <2>2 DEF NodeOK
      <4>2. n \in closed /\ Len(slots[n]) = Kids(n) /\ SlotsOK(n)
        BY <1>1, <4>1 DEF NodeOK
      <4>3. ~Gone(children[n][j])
        BY DEF Gone
      <4>4. slots[n][j] = NoResult
        BY <4>2, <4>3 DEF SlotsOK
      <4> QED
        BY <4>2, <4>4
    <3>2. parent[n] # NoCont
      BY <3>1, <1>1 DEF NodeOK
    <3>3. Has("parent", n, n, n)
      BY <3>2 DEF Has
    <3> QED
      BY <3>3
  <2>3. CASE visits[n] = 0
    <3>1. PICK u, d : /\ Pos(u, d) /\ Act(u, d).op = "visit" /\ Act(u, d).node = n
                      /\ j >= 2 /\ Act(u, d).next >= j
      BY <2>1, <2>3 DEF Opened
    <3>2. Act(u, d).next \in Int /\ parent[n] # NoCont
      BY <3>1 DEF ActsOK, ActOK
    <3>3. Has("parent", n, n, n)
      BY <3>2 DEF Has
    <3> QED
      BY <3>3
  <2> QED
    BY <2>2, <2>3
<1> QED
  BY <1>2, <1>3
-----------------------------------------------------------------------------
(* Steps: what every action does about the same parts of the invariant. Y    *)
(* has the child the action starts, if it starts one.                        *)

\* nothing comes up for a node that had nothing, but for those in Y
NoneNew(Y) == \A k, a, b, m :
  /\ Seeks(k, a, b, m)' => m \in Y \/ \E l, c, d : Seeks(l, c, d, m)
  /\ Has(k, a, b, m)' => m \in Y \/ \E l, c, d : Has(l, c, d, m)

\* a node nobody came near stays fresh
LEMMA FreshStays ==
  ASSUME NEW Y, NoneNew(Y), NEW m, m \notin Y, Fresh(m), visits'[m] = 0, slots'[m] = <<>>
  PROVE  Fresh(m)'
BY DEF NoneNew, Fresh

\* a node that is over with stays so
LEMMA GoneStays ==
  ASSUME NEW Y, NoneNew(Y), NEW m, m \notin Y, Gone(m), visits'[m] = 1
  PROVE  Gone(m)'
BY DEF NoneNew, Gone

\* a visit goes on, or is over
VisitsGoOn == \A u, d : Pos(u, d) /\ Act(u, d).op = "visit" =>
  \/ visits'[Act(u, d).node] # 0
  \/ Pos(u, d)' /\ Act(u, d)' = Act(u, d)
  \/ /\ Pos(u, d)' /\ Act(u, d).op' = "visit" /\ Act(u, d).node' = Act(u, d).node
     /\ Act(u, d).next' = Act(u, d).next + 1

\* a child the walk has reached stays reached
LEMMA OpenedStays ==
  ASSUME IInv, VisitsGoOn, NEW n \in Nodes, NEW j \in Nat, Opened(n, j),
         visits[n] # 0 => visits'[n] # 0 /\ (Settling(n)' => Settling(n))
  PROVE  Opened(n, j)'
<1>2. CASE visits[n] # 0 /\ (j = 1 => ~Settling(n))
  <2>1. visits'[n] # 0 /\ (j = 1 => ~Settling(n)')
    BY <1>2
  <2> QED
    BY <2>1 DEF Opened
<1>3. ASSUME NEW u, NEW d, Pos(u, d), Act(u, d).op = "visit", Act(u, d).node = n,
             j >= 2, Act(u, d).next >= j
      PROVE  Opened(n, j)'
  <2>1. Act(u, d).next \in Nat
    BY <1>3, TreeShape DEF IInv, ActsOK, ActOK, Shape
  <2>2. CASE visits'[n] # 0
    BY <1>3, <2>2 DEF Opened
  <2>3. CASE /\ Pos(u, d)' /\ Act(u, d).op' = "visit" /\ Act(u, d).node' = n
             /\ Act(u, d).next' \in {Act(u, d).next, Act(u, d).next + 1}
    <3>1. Act(u, d).next' >= j
      BY <1>3, <2>1, <2>3
    <3> QED
      BY <1>3, <2>3, <3>1 DEF Opened
  <2> QED
    BY <1>3, <2>2, <2>3 DEF VisitsGoOn
<1> QED
  BY <1>2, <1>3 DEF Opened

\* children the walk has not reached are still fresh
LEMMA CalmStays ==
  ASSUME IInv, NEW Y, children' = children, NoneNew(Y), VisitsGoOn,
         \A m \in Nodes : m \notin Y /\ Fresh(m) => visits'[m] = 0 /\ slots'[m] = <<>>,
         \A n \in Nodes : visits[n] # 0 => visits'[n] # 0 /\ (Settling(n)' => Settling(n)),
         \A n \in Nodes : \A j \in 1 .. Kids(n) : children[n][j] \in Y => Opened(n, j)'
  PROVE  Calm'
<1>1. \A n : Kids(n)' = Kids(n)
  BY DEF Kids
<1>2. SUFFICES ASSUME NEW n \in Nodes, NEW j \in 1 .. Kids(n)
               PROVE  Opened(n, j)' \/ Fresh(children[n][j])'
  BY <1>1 DEF Calm
<1>3. CASE Opened(n, j)
  BY <1>3, OpenedStays
<1>4. CASE children[n][j] \in Y
  BY <1>4
<1>5. CASE ~Opened(n, j) /\ children[n][j] \notin Y
  <2>1. PICK m \in Nodes : m = children[n][j]
    BY TreeShape DEF IInv, Shape
  <2>2. Fresh(m)
    BY <1>5, <2>1 DEF IInv, Calm
  <2>3. Fresh(m)'
    BY <1>5, <2>1, <2>2, FreshStays
  <2> QED
    BY <2>1, <2>3 DEF Fresh
<1> QED
  BY <1>3, <1>4, <1>5

\* results that are in belong to nodes that are over with
LEMMA SlotsStay ==
  ASSUME IInv, NEW Y, children' = children, NoneNew(Y), NEW n \in Nodes, slots'[n] = slots[n],
         \A m \in Nodes : Gone(m) => visits'[m] = 1 /\ m \notin Y
  PROVE  SlotsOK(n)'
<1>1. SUFFICES ASSUME NEW j \in 1 .. Len(slots[n]), slots[n][j] # NoResult
               PROVE  Gone(children[n][j])'
  BY DEF SlotsOK
<1>2. SlotsOK(n) /\ IsSeq(slots[n]) /\ Len(slots[n]) <= Kids(n) /\ children \in Trees
  BY DEF IInv, Shape, NodesOK, NodeOK
<1>3. Len(slots[n]) \in Nat /\ Kids(n) \in Nat
  BY <1>2, SeqDomain, TreeShape
<1>4. j \in 1 .. Kids(n)
  BY <1>2, <1>3
<1>5. PICK m \in Nodes : m = children[n][j]
  BY <1>2, <1>4, TreeShape
<1>6. Gone(m)
  BY <1>1, <1>2, <1>5 DEF SlotsOK
<1>7. Gone(m)'
  BY <1>6, GoneStays
<1> QED
  BY <1>5, <1>7 DEF Gone

\* the continuation of an only child is backed by the arena's
LEMMA OnlyStays ==
  ASSUME IInv, NEW Y, children' = children, NoneNew(Y), NEW n \in Nodes,
         Kids(n) = 1 /\ arena[n] # NoCont => arena'[n] # NoCont,
         Kids(n) = 1 => children[n][1] \notin Y
  PROVE  OnlyOK(n)'
<1>1. OnlyOK(n)
  BY DEF IInv, NodesOK, NodeOK
<1>2. SUFFICES ASSUME Kids(n) = 1, arena'[n] = NoCont
               PROVE  \A k, a, b : ~Has(k, a, b, children[n][1])'
  BY DEF OnlyOK, Kids
<1>3. PICK m : m = children[n][1]
  OBVIOUS
<1>4. \A k, a, b : ~Has(k, a, b, m)
  BY <1>1, <1>2, <1>3 DEF OnlyOK
<1>5. \A k, a, b : ~Has(k, a, b, m)'
  BY <1>2, <1>3, <1>4 DEF NoneNew
<1> QED
  BY <1>3, <1>5 DEF Has

\* the answer still stands for a root that is over with
LEMMA RootStays ==
  ASSUME IInv, NEW Y, NoneNew(Y), root_cell' = root_cell, Root \notin Y,
         Gone(Root) => visits'[Root] = 1
  PROVE  RootOK'
BY GoneStays DEF IInv, RootOK

-----------------------------------------------------------------------------
(* The steps, one by one. *)

\* no step makes a new name for a continuation
LEMMA ContsStay ==
  ASSUME children' = children
  PROVE  Conts' = Conts /\ NoCont \in Conts
BY DEF Conts

\* graph.visit comes to the first child: the visit counts it
LEMMA FirstChildKeeps ==
  ASSUME IInv, NEW t \in Threads, FirstChild(t)
  PROVE  IInv'
<1> USE DEF IInv, Shape
<1>1. PICK f : f = Top(t)
  OBVIOUS
<1>2. PICK p : p = Depth(t)
  OBVIOUS
<1>3. /\ stack[t] # <<>> /\ Pos(t, p) /\ Act(t, p) = f
      /\ f.op = "visit" /\ f.next = 0 /\ children[f.node] # <<>>
      /\ Become(t, <<Visiting(f.node, f.cont, 1)>>)
      /\ UNCHANGED <<children, queue, slots, closed, finalized, parent, arena, root_cell, visits>>
  BY <1>1, <1>2, Running DEF FirstChild, Runs, Top, nodeVars
<1>4. ActOK(f)
  BY <1>3 DEF ActsOK
<1>5. /\ f.node \in Nodes /\ visits[f.node] = 0 /\ slots[f.node] = <<>>
      /\ Names(f.cont, f.node) /\ Kids(f.node) >= 1
  BY <1>3, <1>4, TreeShape DEF ActOK
<1>6. PICK g : g = Visiting(f.node, f.cont, 1)
  OBVIOUS
<1>7. g.op = "visit" /\ g.node = f.node /\ g.cont = f.cont /\ g.next = 1
  BY <1>6 DEF Visiting
<1>8. /\ Stacks' /\ \A u, d : Pos(u, d)' <=> Pos(u, d)
      /\ Act(t, p)' = g
      /\ \A u, d : Pos(u, d) /\ ~(u = t /\ d = p) => Act(u, d)' = Act(u, d)
  BY <1>2, <1>3, <1>6, BecomeOne
<1>9. \A k, a, b, m : Seeks(k, a, b, m)' <=> Seeks(k, a, b, m)
  BY <1>3, <1>7, <1>8 DEF Seeks
<1>10. ASSUME NEW k, NEW a, NEW b, NEW m
       PROVE  Has(k, a, b, m)' <=> Has(k, a, b, m)
  <2>1. \A c : Names(c, m)' <=> Names(c, m)
    BY <1>3 DEF Names
  <2>2. CASE k = "stack" /\ a = t /\ b = p
    BY <2>1, <2>2, <1>3, <1>7, <1>8 DEF Has
  <2>3. CASE k = "stack" /\ ~(a = t /\ b = p)
    BY <2>1, <2>3, <1>8 DEF Has
  <2>4. CASE k # "stack"
    BY <2>4, <1>3 DEF Has
  <2> QED
    BY <2>2, <2>3, <2>4
<1>18. NoneNew({})
  BY <1>9, <1>10 DEF NoneNew
<1>11. Shape'
  BY <1>3, <1>8, ContsStay
<1>12. ActsOK'
  <2>1. SUFFICES ASSUME NEW u, NEW d, Pos(u, d)
                 PROVE  ActOK(Act(u, d))'
    BY <1>8 DEF ActsOK
  <2>2. CASE u = t /\ d = p
    BY <2>2, <1>3, <1>5, <1>6, <1>7, <1>8, TreeShape DEF ActOK, Names, Kids
  <2>3. CASE ~(u = t /\ d = p)
    BY <2>1, <2>3, <1>3, <1>8 DEF ActsOK, ActOK, Names, Kids
  <2> QED
    BY <2>2, <2>3
<1>13. TasksOK'
  BY <1>3 DEF TasksOK, TaskOK, Names
<1>14. NodesOK'
  <2>1. SUFFICES ASSUME NEW n \in Nodes PROVE NodeOK(n)'
    BY DEF NodesOK
  <2>2. NodeOK(n)
    BY DEF NodesOK
  <2> HIDE DEF IInv, Shape
  <2>3. SlotsOK(n)'
    BY <1>3, <1>18, SlotsStay DEF Gone
  <2>4. OnlyOK(n)'
    BY <1>3, <1>18, OnlyStays
  <2> QED
    BY <1>3, <2>2, <2>3, <2>4 DEF NodeOK, Names, Kids
<1>15. OneSeeks' /\ OneHas'
  BY <1>9, <1>10 DEF OneSeeks, OneHas
<1>16. Calm'
  <2>1. \A m : Settling(m)' => Settling(m)
    BY <1>7, <1>8 DEF Settling
  <2>2. VisitsGoOn
    BY <1>3, <1>7, <1>8 DEF VisitsGoOn
  <2>3. \A m \in Nodes : Fresh(m) => visits'[m] = 0 /\ slots'[m] = <<>>
    BY <1>3 DEF Fresh
  <2> QED
    BY <1>3, <1>18, <2>1, <2>2, <2>3, CalmStays
<1>17. RootOK'
  BY <1>3, <1>18, RootStays DEF Gone
<1> QED
  BY <1>11, <1>12, <1>13, <1>14, <1>15, <1>16, <1>17

\* what is known of a running visit: it alone walks its node, and nobody is over with it
LEMMA VisitTop ==
  ASSUME IInv, NEW t \in Threads, Runs(t, "visit"), NEW f, f = Top(t), NEW p, p = Depth(t)
  PROVE  /\ stack[t] # <<>> /\ Pos(t, p) /\ Act(t, p) = f /\ f.op = "visit"
         /\ f.node \in Nodes /\ Kids(f.node) \in Nat /\ f.next \in 0 .. Kids(f.node)
         /\ visits[f.node] = 0 /\ f.node \notin closed /\ f.node \notin finalized
         /\ f.next < 2 => /\ slots[f.node] = <<>> /\ Names(f.cont, f.node)
                          /\ Has("stack", t, p, f.node)
                          /\ parent[f.node] = NoCont /\ arena[f.node] = NoCont
         /\ f.next >= 2 => /\ f.cont = NoCont /\ parent[f.node] # NoCont
                           /\ Len(slots[f.node]) = f.next
         /\ \A u, d : /\ Pos(u, d) /\ Act(u, d).op \in {"visit", "set_total"}
                      /\ Act(u, d).node = f.node
                      => u = t /\ d = p
         /\ \A u \in Threads : \A k \in queue[u] : k.child # f.node
<1> USE DEF IInv, Shape
<1>1. /\ stack[t] # <<>> /\ Pos(t, p) /\ Act(t, p) = f /\ f.op = "visit"
  BY Running DEF Runs, Top
<1>2. ActOK(f)
  BY <1>1 DEF ActsOK
<1>3. /\ f.node \in Nodes /\ Kids(f.node) \in Nat /\ f.next \in 0 .. Kids(f.node)
      /\ visits[f.node] = 0
      /\ f.next < 2 => slots[f.node] = <<>> /\ Names(f.cont, f.node)
      /\ f.next >= 2 => /\ f.cont = NoCont /\ parent[f.node] # NoCont
                        /\ Len(slots[f.node]) = f.next
  BY <1>1, <1>2, TreeShape DEF ActOK
<1>4. f.node \notin closed /\ f.node \notin finalized
  BY <1>3 DEF NodesOK, NodeOK
<1>5. Seeks("stack", t, p, f.node)
  BY <1>1 DEF Seeks
<1>6. \A u, d : /\ Pos(u, d) /\ Act(u, d).op \in {"visit", "set_total"}
                /\ Act(u, d).node = f.node
                => u = t /\ d = p
  <2>1. ASSUME NEW u, NEW d, Pos(u, d), Act(u, d).op \in {"visit", "set_total"},
               Act(u, d).node = f.node
        PROVE  Seeks("stack", u, d, f.node)
    BY <2>1 DEF Seeks
  <2> QED
    BY <2>1, <1>5 DEF OneSeeks
<1>7. \A u \in Threads : \A k \in queue[u] : k.child # f.node
  <2>1. ASSUME NEW u \in Threads, NEW k \in queue[u], k.child = f.node
        PROVE  Seeks("task", u, k, f.node)
    BY <2>1 DEF Seeks
  <2> QED
    BY <2>1, <1>5 DEF OneSeeks
<1>8. ASSUME f.next < 2
      PROVE  /\ Has("stack", t, p, f.node)
             /\ parent[f.node] = NoCont /\ arena[f.node] = NoCont
  <2>1. Has("stack", t, p, f.node)
    BY <1>1, <1>8 DEF Has
  <2>2. ~Has("parent", f.node, f.node, f.node) /\ ~Has("arena", f.node, f.node, f.node)
    BY <2>1 DEF OneHas
  <2> QED
    BY <2>1, <2>2, <1>3 DEF Has
<1> QED
  BY <1>1, <1>3, <1>4, <1>6, <1>7, <1>8

\* a node without children: its visit becomes a fire
LEMMA LeafKeeps ==
  ASSUME IInv, NEW t \in Threads, Leaf(t)
  PROVE  IInv'
<1> USE DEF IInv, Shape
<1>1. PICK f : f = Top(t)
  OBVIOUS
<1>2. PICK p : p = Depth(t)
  OBVIOUS
<1>3. PICK n : n = f.node
  OBVIOUS
<1>4. PICK g : g = Firing(f.cont, Finalize(f.node, <<>>))
  OBVIOUS
<1>5. /\ Runs(t, "visit") /\ children[n] = <<>>
      /\ Become(t, <<g>>) /\ visits' = [visits EXCEPT ![n] = @ + 1]
      /\ UNCHANGED <<children, queue, slots, closed, finalized, parent, arena, root_cell>>
  BY <1>1, <1>3, <1>4 DEF Leaf, Visited, nodeVars
<1>6. /\ stack[t] # <<>> /\ Pos(t, p) /\ Act(t, p) = f /\ f.op = "visit"
      /\ n \in Nodes /\ visits[n] = 0 /\ n \notin closed /\ Kids(n) = 0 /\ f.next = 0
      /\ Names(f.cont, n)
  BY <1>1, <1>2, <1>3, <1>5, VisitTop, TreeShape
<1>7. /\ \A u, d : /\ Pos(u, d) /\ Act(u, d).op \in {"visit", "set_total"}
                   /\ Act(u, d).node = n
                   => u = t /\ d = p
      /\ \A u \in Threads : \A k \in queue[u] : k.child # n
  BY <1>1, <1>2, <1>3, <1>5, VisitTop
<1>8. g.op = "fire" /\ g.cont = f.cont
  BY <1>4 DEF Firing
<1>9. /\ Stacks' /\ \A u, d : Pos(u, d)' <=> Pos(u, d)
      /\ Act(t, p)' = g
      /\ \A u, d : Pos(u, d) /\ ~(u = t /\ d = p) => Act(u, d)' = Act(u, d)
  BY <1>2, <1>5, <1>6, BecomeOne
<1>10. /\ visits' \in [Nodes -> Nat] /\ visits'[n] = 1
       /\ \A m \in Nodes : m # n => visits'[m] = visits[m]
  BY <1>5, <1>6
<1>11. \A k, a, b, m : Seeks(k, a, b, m)' => Seeks(k, a, b, m)
  BY <1>5, <1>8, <1>9 DEF Seeks
<1>12. \A m : Names(f.cont, m) <=> m = n
  BY <1>6, NamesOne
<1>13. ASSUME NEW k, NEW a, NEW b, NEW m
       PROVE  Has(k, a, b, m)' <=> Has(k, a, b, m)
  <2>1. \A c : Names(c, m)' <=> Names(c, m)
    BY <1>5 DEF Names
  <2>2. CASE k = "stack" /\ a = t /\ b = p
    BY <2>1, <2>2, <1>3, <1>6, <1>8, <1>9, <1>12 DEF Has
  <2>3. CASE k = "stack" /\ ~(a = t /\ b = p)
    BY <2>1, <2>3, <1>9 DEF Has
  <2>4. CASE k # "stack"
    BY <2>4, <1>5 DEF Has
  <2> QED
    BY <2>2, <2>3, <2>4
<1>14. NoneNew({})
  BY <1>11, <1>13 DEF NoneNew
<1>15. Shape'
  BY <1>5, <1>9, <1>10, ContsStay
<1>16. ActsOK'
  <2>1. SUFFICES ASSUME NEW u, NEW d, Pos(u, d)
                 PROVE  ActOK(Act(u, d))'
    BY <1>9 DEF ActsOK
  <2>2. CASE u = t /\ d = p
    BY <2>2, <1>5, <1>6, <1>8, <1>9, <1>10 DEF ActOK, Names
  <2>3. CASE ~(u = t /\ d = p)
    BY <2>1, <2>3, <1>5, <1>7, <1>9, <1>10 DEF ActsOK, ActOK, Names, Kids
  <2> QED
    BY <2>2, <2>3
<1>17. TasksOK'
  <2>1. SUFFICES ASSUME NEW u \in Threads, NEW k \in queue[u] PROVE TaskOK(k)'
    BY <1>5 DEF TasksOK
  <2>2. TaskOK(k) /\ k.child \in Nodes \ {n}
    BY <1>7, NamesKinds DEF TasksOK, TaskOK
  <2> QED
    BY <2>2, <1>5, <1>10 DEF TaskOK, Names
<1>18. \A m \in Nodes : Gone(m) => visits'[m] = 1
  BY <1>6, <1>10 DEF Gone
<1>19. NodesOK'
  <2>1. SUFFICES ASSUME NEW m \in Nodes PROVE NodeOK(m)'
    BY DEF NodesOK
  <2>2. NodeOK(m)
    BY DEF NodesOK
  <2>3. SlotsOK(m)' /\ OnlyOK(m)'
    BY <1>5, <1>14, <1>18, SlotsStay, OnlyStays
  <2> QED
    BY <1>5, <1>6, <1>10, <2>2, <2>3 DEF NodeOK, Names, Kids
<1>20. OneSeeks' /\ OneHas'
  BY <1>11, <1>13 DEF OneSeeks, OneHas
<1>21. Calm'
  <2>1. \A m : Settling(m)' => Settling(m)
    BY <1>8, <1>9 DEF Settling
  <2>2. VisitsGoOn
    <3>1. visits'[Act(t, p).node] # 0
      BY <1>3, <1>6, <1>10
    <3> QED
      BY <3>1, <1>9 DEF VisitsGoOn
  <2>3. \A m \in Nodes : Fresh(m) => visits'[m] = 0 /\ slots'[m] = <<>>
    <3>1. Seeks("stack", t, p, n)
      BY <1>3, <1>6 DEF Seeks
    <3> QED
      BY <3>1, <1>5, <1>10 DEF Fresh
  <2> QED
    BY <1>5, <1>10, <1>14, <2>1, <2>2, <2>3, CalmStays
<1>22. RootOK'
  BY <1>5, <1>14, <1>18, RootStays, WalkAssumption
<1> QED
  BY <1>15, <1>16, <1>17, <1>19, <1>20, <1>21, <1>22

\* the end of the visit of a branch: set_total is called
LEMMA SetTotalKeeps ==
  ASSUME IInv, NEW t \in Threads, SetTotal(t)
  PROVE  IInv'
<1> USE DEF IInv, Shape
<1>1. PICK f : f = Top(t)
  OBVIOUS
<1>2. PICK p : p = Depth(t)
  OBVIOUS
<1>3. PICK n : n = f.node
  OBVIOUS
<1>4. PICK g : g = SettingTotal(n)
  OBVIOUS
<1>5. /\ Runs(t, "visit") /\ Kids(n) > 1 /\ f.next = Kids(n) /\ closed' = closed \cup {n}
      /\ Become(t, <<g>>) /\ visits' = [visits EXCEPT ![n] = @ + 1]
      /\ UNCHANGED <<children, queue, slots, finalized, parent, arena, root_cell>>
  BY <1>1, <1>3, <1>4 DEF SetTotal, Visited, Kids
<1>6. /\ stack[t] # <<>> /\ Pos(t, p) /\ Act(t, p) = f /\ f.op = "visit"
      /\ n \in Nodes /\ visits[n] = 0 /\ n \notin closed /\ Kids(n) \in Nat
      /\ parent[n] # NoCont /\ Len(slots[n]) = Kids(n)
  BY <1>1, <1>2, <1>3, <1>5, VisitTop, TreeShape
<1>7. /\ \A u, d : /\ Pos(u, d) /\ Act(u, d).op \in {"visit", "set_total"}
                   /\ Act(u, d).node = n
                   => u = t /\ d = p
      /\ \A u \in Threads : \A k \in queue[u] : k.child # n
  BY <1>1, <1>2, <1>3, <1>5, VisitTop
<1>8. g.op = "set_total" /\ g.node = n
  BY <1>4 DEF SettingTotal
<1>9. /\ Stacks' /\ \A u, d : Pos(u, d)' <=> Pos(u, d)
      /\ Act(t, p)' = g
      /\ \A u, d : Pos(u, d) /\ ~(u = t /\ d = p) => Act(u, d)' = Act(u, d)
  BY <1>2, <1>5, <1>6, BecomeOne
<1>10. /\ visits' \in [Nodes -> Nat] /\ visits'[n] = 1
       /\ \A m \in Nodes : m # n => visits'[m] = visits[m]
  BY <1>5, <1>6
<1>11. \A k, a, b, m : Seeks(k, a, b, m)' <=> Seeks(k, a, b, m)
  BY <1>3, <1>5, <1>6, <1>8, <1>9 DEF Seeks
<1>13. \A k, a, b, m : Has(k, a, b, m)' <=> Has(k, a, b, m)
  BY <1>3, <1>5, <1>6, <1>8, <1>9 DEF Has, Names
<1>14. NoneNew({})
  BY <1>11, <1>13 DEF NoneNew
<1>15. Shape'
  BY <1>5, <1>9, <1>10, ContsStay
<1>16. ActsOK'
  <2>1. SUFFICES ASSUME NEW u, NEW d, Pos(u, d)
                 PROVE  ActOK(Act(u, d))'
    BY <1>9 DEF ActsOK
  <2>2. CASE u = t /\ d = p
    BY <2>2, <1>4, <1>5, <1>6, <1>8, <1>9 DEF ActOK
  <2>3. CASE ~(u = t /\ d = p)
    BY <2>1, <2>3, <1>5, <1>7, <1>9, <1>10 DEF ActsOK, ActOK, Names, Kids
  <2> QED
    BY <2>2, <2>3
<1>17. TasksOK'
  <2>1. SUFFICES ASSUME NEW u \in Threads, NEW k \in queue[u] PROVE TaskOK(k)'
    BY <1>5 DEF TasksOK
  <2>2. TaskOK(k) /\ k.child \in Nodes \ {n}
    BY <1>7, NamesKinds DEF TasksOK, TaskOK
  <2> QED
    BY <2>2, <1>5, <1>10 DEF TaskOK, Names
<1>18. \A m \in Nodes : Gone(m) => visits'[m] = 1
  BY <1>6, <1>10 DEF Gone
<1>19. NodesOK'
  <2>1. SUFFICES ASSUME NEW m \in Nodes PROVE NodeOK(m)'
    BY DEF NodesOK
  <2>2. NodeOK(m)
    BY DEF NodesOK
  <2>3. SlotsOK(m)' /\ OnlyOK(m)'
    BY <1>5, <1>14, <1>18, SlotsStay, OnlyStays
  <2> QED
    BY <1>5, <1>6, <1>10, <2>2, <2>3 DEF NodeOK, Names, Kids
<1>20. OneSeeks' /\ OneHas'
  BY <1>11, <1>13 DEF OneSeeks, OneHas
<1>21. Calm'
  <2>1. \A m \in Nodes : visits[m] # 0 => (Settling(m)' => Settling(m))
    BY <1>6, <1>8, <1>9 DEF Settling
  <2>2. VisitsGoOn
    <3>1. visits'[Act(t, p).node] # 0
      BY <1>3, <1>6, <1>10
    <3> QED
      BY <3>1, <1>9 DEF VisitsGoOn
  <2>3. \A m \in Nodes : Fresh(m) => visits'[m] = 0 /\ slots'[m] = <<>>
    <3>1. Seeks("stack", t, p, n)
      BY <1>3, <1>6 DEF Seeks
    <3> QED
      BY <3>1, <1>5, <1>10 DEF Fresh
  <2> QED
    BY <1>5, <1>10, <1>14, <2>1, <2>2, <2>3, CalmStays
<1>22. RootOK'
  BY <1>5, <1>14, <1>18, RootStays, WalkAssumption
<1> QED
  BY <1>15, <1>16, <1>17, <1>19, <1>20, <1>21, <1>22

\* a child that the walk has not reached is fresh, and is no node of a running visit
LEMMA FreshChild ==
  ASSUME IInv, NEW n \in Nodes, NEW j \in 1 .. Kids(n), ~Opened(n, j),
         NEW y, y = children[n][j]
  PROVE  /\ Fresh(y) /\ y \in Nodes /\ y # Root /\ visits[y] = 0 /\ slots[y] = <<>>
         /\ y \notin closed /\ parent[y] = NoCont /\ arena[y] = NoCont
         /\ \A u \in Threads : \A k \in queue[u] : k.child # y
<1> USE DEF IInv, Shape
<1>1. Fresh(y) /\ y \in Nodes /\ y # Root
  BY TreeShape DEF Calm
<1>2. visits[y] = 0 /\ slots[y] = <<>> /\ y \notin closed
  BY <1>1 DEF Fresh, NodesOK, NodeOK
<1>3. ~Has("parent", y, y, y) /\ ~Has("arena", y, y, y)
  BY <1>1 DEF Fresh
<1>4. \A u \in Threads : \A k \in queue[u] : ~Has("task", u, k, y)
  BY <1>1 DEF Fresh
<1> QED
  BY <1>1, <1>2, <1>3, <1>4 DEF Has

\* the place of a child in the tree
LEMMA PlaceOfChild ==
  ASSUME IInv, NEW n \in Nodes, NEW i \in 1 .. Kids(n), NEW y, y = children[n][i]
  PROVE  \A m \in Nodes : \A j \in 1 .. Kids(m) : children[m][j] = y => m = n /\ j = i
BY TreeShape DEF IInv, Shape

\* the end of the visit of a node with one child: its continuation goes to the arena
LEMMA OnlyChildKeeps ==
  ASSUME IInv, NEW t \in Threads, OnlyChild(t)
  PROVE  IInv'
<1> USE DEF IInv, Shape
<1>1. PICK f : f = Top(t)
  OBVIOUS
<1>2. PICK p : p = Depth(t)
  OBVIOUS
<1>3. PICK n : n = f.node
  OBVIOUS
<1>4. PICK y : y = children[n][1]
  OBVIOUS
<1>5. PICK g : g = Visiting(y, Direct(n), 0)
  OBVIOUS
<1>6. /\ Runs(t, "visit") /\ Kids(n) = 1 /\ f.next = 1
      /\ Become(t, <<g>>) /\ visits' = [visits EXCEPT ![n] = @ + 1]
      /\ arena' = [arena EXCEPT ![n] = f.cont]
      /\ UNCHANGED <<children, queue, slots, closed, finalized, parent, root_cell>>
  BY <1>1, <1>3, <1>4, <1>5 DEF OnlyChild, Visited, Kids
<1>7. /\ stack[t] # <<>> /\ Pos(t, p) /\ Act(t, p) = f /\ f.op = "visit"
      /\ n \in Nodes /\ visits[n] = 0 /\ n \notin closed /\ slots[n] = <<>>
      /\ Names(f.cont, n) /\ parent[n] = NoCont /\ arena[n] = NoCont
  BY <1>1, <1>2, <1>3, <1>6, VisitTop
<1>8. /\ \A u, d : /\ Pos(u, d) /\ Act(u, d).op \in {"visit", "set_total"}
                   /\ Act(u, d).node = n
                   => u = t /\ d = p
      /\ \A u \in Threads : \A k \in queue[u] : k.child # n
  BY <1>1, <1>2, <1>3, <1>6, VisitTop
<1>9. /\ Fresh(y) /\ y \in Nodes /\ y # Root /\ visits[y] = 0 /\ slots[y] = <<>>
      /\ y \notin closed
  <2>1. ~Opened(n, 1)
    BY <1>7 DEF Opened
  <2> QED
    BY <2>1, <1>4, <1>6, <1>7, FreshChild
<1>10. y # n
  <2>1. Seeks("stack", t, p, n)
    BY <1>3, <1>7 DEF Seeks
  <2> QED
    BY <2>1, <1>9 DEF Fresh
<1>11. g.op = "visit" /\ g.node = y /\ g.cont = Direct(n) /\ g.next = 0
  BY <1>5 DEF Visiting
<1>12. /\ Stacks' /\ \A u, d : Pos(u, d)' <=> Pos(u, d)
       /\ Act(t, p)' = g
       /\ \A u, d : Pos(u, d) /\ ~(u = t /\ d = p) => Act(u, d)' = Act(u, d)
  BY <1>2, <1>6, <1>7, BecomeOne
<1>13. /\ visits' \in [Nodes -> Nat] /\ visits'[n] = 1
       /\ \A m \in Nodes : m # n => visits'[m] = visits[m]
  BY <1>6, <1>7
<1>14. /\ f.cont \in Conts \ {NoCont} /\ arena' \in [Nodes -> Conts] /\ arena'[n] = f.cont
       /\ \A m \in Nodes : m # n => arena'[m] = arena[m]
  BY <1>6, <1>7, NamesKinds
<1>15. Names(Direct(n), y)
  BY <1>4, <1>6, <1>7 DEF Names, NamesIn, Kids
\* who has and who seeks
<1>16. \A k, a, b, m : m # n /\ m # y => (Seeks(k, a, b, m)' <=> Seeks(k, a, b, m))
  BY <1>3, <1>6, <1>7, <1>11, <1>12 DEF Seeks
<1>17. \A k, a, b : ~Seeks(k, a, b, n)'
  BY <1>6, <1>8, <1>10, <1>11, <1>12 DEF Seeks
<1>18. \A k, a, b : Seeks(k, a, b, y)' => k = "stack" /\ a = t /\ b = p
  <2>1. \A k, a, b : ~Seeks(k, a, b, y)
    BY <1>9 DEF Fresh
  <2> QED
    BY <2>1, <1>6, <1>12 DEF Seeks
<1>19. ASSUME NEW k, NEW a, NEW b, NEW m, m # n, m # y
       PROVE  Has(k, a, b, m)' <=> Has(k, a, b, m)
  <2>1. \A c : Names(c, m)' <=> Names(c, m)
    BY <1>6 DEF Names
  <2>2. CASE k = "stack" /\ a = t /\ b = p
    BY <2>2, <1>3, <1>7, <1>11, <1>12, <1>19 DEF Has
  <2>3. CASE k = "stack" /\ ~(a = t /\ b = p)
    BY <2>1, <2>3, <1>12 DEF Has
  <2>4. CASE k # "stack"
    BY <2>4, <1>6, <1>14, <1>19 DEF Has
  <2> QED
    BY <2>2, <2>3, <2>4
<1>20. \A k, a, b : Has(k, a, b, n)' => k = "arena" /\ a = n /\ b = n
  <2>1. \A k, a, b : Has(k, a, b, n) => k = "stack" /\ a = t /\ b = p
    <3>1. Has("stack", t, p, n)
      BY <1>1, <1>2, <1>3, <1>6, VisitTop
    <3> QED
      BY <3>1 DEF OneHas
  <2> QED
    BY <2>1, <1>6, <1>10, <1>11, <1>12 DEF Has, Names
<1>21. \A k, a, b : Has(k, a, b, y)' => k = "stack" /\ a = t /\ b = p
  <2>1. \A k, a, b : ~Has(k, a, b, y)
    BY <1>9 DEF Fresh
  <2> QED
    BY <2>1, <1>6, <1>10, <1>12, <1>14 DEF Has, Names
<1>22. NoneNew({y})
  <2>1. Has("stack", t, p, n)
    BY <1>1, <1>2, <1>3, <1>6, VisitTop
  <2> QED
    BY <2>1, <1>16, <1>17, <1>19 DEF NoneNew
<1>23. Shape'
  BY <1>6, <1>12, <1>13, <1>14, ContsStay
<1>24. ActsOK'
  <2>1. SUFFICES ASSUME NEW u, NEW d, Pos(u, d)
                 PROVE  ActOK(Act(u, d))'
    BY <1>12 DEF ActsOK
  <2>2. CASE u = t /\ d = p
    <3>1. Kids(y) \in Nat
      BY <1>9, TreeShape
    <3> QED
      BY <2>2, <3>1, <1>5, <1>6, <1>9, <1>10, <1>11, <1>12, <1>13, <1>15 DEF ActOK, Names, Kids
  <2>3. CASE ~(u = t /\ d = p)
    BY <2>1, <2>3, <1>6, <1>8, <1>12, <1>13 DEF ActsOK, ActOK, Names, Kids
  <2> QED
    BY <2>2, <2>3
<1>25. TasksOK'
  <2>1. SUFFICES ASSUME NEW u \in Threads, NEW k \in queue[u] PROVE TaskOK(k)'
    BY <1>6 DEF TasksOK
  <2>2. TaskOK(k) /\ k.child \in Nodes \ {n}
    BY <1>8, NamesKinds DEF TasksOK, TaskOK
  <2> QED
    BY <2>2, <1>6, <1>13 DEF TaskOK, Names
<1>26. \A m \in Nodes : Gone(m) => visits'[m] = 1 /\ m # y
  BY <1>7, <1>9, <1>13 DEF Gone
<1>27. \A m \in Nodes : \A j \in 1 .. Kids(m) : children[m][j] = y => m = n /\ j = 1
  <2>1. n \in Nodes /\ 1 \in 1 .. Kids(n) /\ y = children[n][1]
    BY <1>4, <1>6, <1>7
  <2> QED
    BY <2>1, PlaceOfChild
<1>28. NodesOK'
  <2>1. SUFFICES ASSUME NEW m \in Nodes PROVE NodeOK(m)'
    BY DEF NodesOK
  <2>2. NodeOK(m)
    BY DEF NodesOK
  <2>3. SlotsOK(m)'
    BY <1>6, <1>22, <1>26, SlotsStay
  <2>4. OnlyOK(m)'
    <3>1. CASE m = n
      BY <3>1, <1>14 DEF OnlyOK
    <3>2. CASE m # n
      BY <3>2, <1>6, <1>14, <1>22, <1>27, OnlyStays
    <3> QED
      BY <3>1, <3>2
  <2>5. CASE m = n
    <3>1. Kids(n)' = 1 /\ ~(n \in closed') /\ ~(n \in finalized')
      BY <1>6, <1>7 DEF Kids
    <3>2. /\ visits'[n] = 1 /\ slots'[n] = slots[n] /\ parent'[n] = NoCont
          /\ NamesIn(children', arena'[n], n) /\ Len(slots[n]) <= 1
      BY <1>6, <1>7, <1>13, <1>14, <2>2, <2>5 DEF Names, NodeOK
    <3> QED
      BY <3>1, <3>2, <2>3, <2>4, <2>5 DEF NodeOK, Names
  <2>6. CASE m # n
    BY <1>6, <1>13, <1>14, <2>2, <2>3, <2>4, <2>6 DEF NodeOK, Names, Kids
  <2> QED
    BY <2>5, <2>6
<1>29. OneSeeks'
  BY <1>16, <1>17, <1>18 DEF OneSeeks
<1>30. OneHas'
  BY <1>19, <1>20, <1>21 DEF OneHas
<1>31. Calm'
  <2>1. ~Settling(n)' /\ \A m \in Nodes : visits[m] # 0 => (Settling(m)' => Settling(m))
    BY <1>8, <1>11, <1>12 DEF Settling
  <2>2. VisitsGoOn
    <3>1. visits'[Act(t, p).node] # 0
      BY <1>3, <1>7, <1>13
    <3> QED
      BY <3>1, <1>12 DEF VisitsGoOn
  <2>3. \A m \in Nodes : Fresh(m) => visits'[m] = 0 /\ slots'[m] = <<>>
    <3>1. Seeks("stack", t, p, n)
      BY <1>3, <1>7 DEF Seeks
    <3> QED
      BY <3>1, <1>6, <1>13 DEF Fresh
  <2>4. Opened(n, 1)'
    BY <2>1, <1>13 DEF Opened
  <2> QED
    BY <1>6, <1>13, <1>22, <1>27, <2>1, <2>2, <2>3, <2>4, CalmStays
<1>32. RootOK'
  BY <1>6, <1>9, <1>22, <1>26, RootStays, WalkAssumption
<1> QED
  BY <1>23, <1>24, <1>25, <1>28, <1>29, <1>30, <1>31, <1>32

\* a slot more in a chain
LEMMA SlotAppended ==
  ASSUME NEW s, IsSeq(s), NEW e
  PROVE  /\ IsSeq(Append(s, e)) /\ Len(s) \in Nat /\ Len(Append(s, e)) = Len(s) + 1
         /\ \A j \in 1 .. Len(s) : Append(s, e)[j] = s[j]
         /\ Append(s, e)[Len(s) + 1] = e
<1>1. PICK S : s \in Seq(S)
  BY DEF IsSeq
<1> DEFINE T == S \cup {e}
<1>2. s \in Seq(T) /\ e \in T
  BY <1>1
<1> HIDE DEF T
<1>3. Append(s, e) \in Seq(T)
  BY <1>2
<1>4. IsSeq(Append(s, e))
  BY <1>3 DEF IsSeq
<1> QED
  BY <1>2, <1>4

\* the chain of a node when its visit comes to the i-th child
LEMMA NextSlots ==
  ASSUME NEW r, IsSeq(r), NEW i \in Nat, NEW s,
         \/ i = 2 /\ s = <<NoResult, NoResult>>
         \/ i > 2 /\ s = Append(r, NoResult) /\ Len(r) = i - 1
  PROVE  /\ IsSeq(s) /\ Len(s) = i
         /\ \A j : j \in 1 .. i /\ s[j] # NoResult => j \in 1 .. Len(r) /\ s[j] = r[j]
<1>1. CASE i = 2 /\ s = <<NoResult, NoResult>>
  <2>1. s \in Seq({NoResult}) /\ Len(s) = 2 /\ s[1] = NoResult /\ s[2] = NoResult
    BY <1>1
  <2>2. IsSeq(s)
    BY <2>1 DEF IsSeq
  <2> QED
    BY <1>1, <2>1, <2>2
<1>2. CASE i > 2 /\ s = Append(r, NoResult) /\ Len(r) = i - 1
  <2>1. /\ IsSeq(s) /\ Len(s) = i
        /\ \A j \in 1 .. i - 1 : s[j] = r[j]
        /\ s[i] = NoResult
    BY <1>2, SlotAppended
  <2> QED
    BY <1>2, <2>1
<1> QED
  BY <1>1, <1>2

\* what NextChild does, with a task (way 0) or in the same thread (way 1)
LEMMA NextChildEffect ==
  ASSUME IInv, NEW t \in Threads, NextChild(t),
         NEW f, f = Top(t), NEW p, p = Depth(t), NEW n, n = f.node, NEW i, i = f.next + 1,
         NEW y, y = children[n][i]
  PROVE  /\ i \in 2 .. Kids(n)
         /\ \E way \in {0, 1} : 
              /\ \A u \in Threads : \A k :
                   k \in queue'[u] <=> k \in queue[u] \/ (way = 0 /\ u = t /\ k = Task(y, Slot(n, i)))
              /\ DOMAIN queue' = Threads
              /\ \A u \in Threads : IsFiniteSet(queue'[u]) /\ Cardinality(queue'[u]) <= Capacity
              /\ \A u, d : Pos(u, d)' <=> Pos(u, d) \/ (way = 1 /\ u = t /\ d = p + 1)
              /\ \A d : way = 1 /\ d = p + 1 =>
                   ~Pos(t, d) /\ d # p /\ Act(t, d)' = Visiting(y, Slot(n, i), 0)
         /\ Stacks' /\ Act(t, p)' = Visiting(n, NoCont, i)
         /\ \A u, d : Pos(u, d) /\ ~(u = t /\ d = p) => Act(u, d)' = Act(u, d)
         /\ DOMAIN slots' = Nodes /\ \A m \in Nodes : m # n => slots'[m] = slots[m]
         /\ IsSeq(slots'[n]) /\ Len(slots'[n]) = i
         /\ \A j \in 1 .. i : slots'[n][j] # NoResult =>
              j \in 1 .. Len(slots[n]) /\ slots'[n][j] = slots[n][j]
         /\ parent' \in [Nodes -> Conts] /\ \A m \in Nodes : m # n => parent'[m] = parent[m]
         /\ parent'[n] # NoCont /\ Names(parent'[n], n)
         /\ UNCHANGED <<children, closed, finalized, arena, root_cell, visits>>
<1> USE DEF IInv, Shape
<1>1. Runs(t, "visit")
  BY DEF NextChild
<1>2. /\ stack[t] # <<>> /\ Pos(t, p) /\ Act(t, p) = f
      /\ n \in Nodes /\ Kids(n) \in Nat /\ f.next \in 0 .. Kids(n)
      /\ f.next < 2 => Names(f.cont, n)
      /\ f.next >= 2 => parent[n] # NoCont /\ Len(slots[n]) = f.next
  BY <1>1, VisitTop
<1>3. i \in Nat /\ i \in 2 .. Kids(n)
  BY <1>2 DEF NextChild, Kids
<1>4. PICK s : s = slots'[n]
  OBVIOUS
<1>5. /\ \/ i = 2 /\ slots' = [slots EXCEPT ![n] = <<NoResult, NoResult>>]
                  /\ parent' = [parent EXCEPT ![n] = f.cont]
         \/ i > 2 /\ slots' = [slots EXCEPT ![n] = Append(@, NoResult)] /\ parent' = parent
      /\ UNCHANGED <<children, closed, finalized, arena, root_cell, visits>>
      /\ PushTask(t, n, i)
  BY DEF NextChild
<1>6. /\ DOMAIN slots' = Nodes /\ \A m \in Nodes : m # n => slots'[m] = slots[m]
  BY <1>2, <1>5
<1>16. \/ i = 2 /\ s = <<NoResult, NoResult>>
       \/ i > 2 /\ s = Append(slots[n], NoResult) /\ Len(slots[n]) = i - 1
  <2>1. CASE i = 2
    BY <1>2, <1>4, <1>5, <2>1
  <2>2. CASE i > 2
    <3>1. Len(slots[n]) = i - 1
      BY <1>2, <2>2
    <3>2. s = Append(slots[n], NoResult)
      BY <1>2, <1>4, <1>5, <2>2
    <3> QED
      BY <2>2, <3>1, <3>2
  <2> QED
    BY <1>3, <2>1, <2>2
<1>7. /\ IsSeq(s) /\ Len(s) = i
      /\ \A j \in 1 .. i : s[j] # NoResult => j \in 1 .. Len(slots[n]) /\ s[j] = slots[n][j]
  <2>1. PICK r : r = slots[n]
    OBVIOUS
  <2>2. IsSeq(r)
    BY <1>2, <2>1
  <2>3. \/ i = 2 /\ s = <<NoResult, NoResult>>
        \/ i > 2 /\ s = Append(r, NoResult) /\ Len(r) = i - 1
    BY <2>1, <1>16
  <2>4. /\ IsSeq(s) /\ Len(s) = i
        /\ \A j : j \in 1 .. i /\ s[j] # NoResult => j \in 1 .. Len(r) /\ s[j] = r[j]
    BY <1>3, <2>2, <2>3, NextSlots
  <2> QED
    BY <2>1, <2>4
<1>8. /\ parent' \in [Nodes -> Conts] /\ \A m \in Nodes : m # n => parent'[m] = parent[m]
      /\ parent'[n] # NoCont /\ Names(parent'[n], n)
  <2>1. CASE i = 2
    <3>1. Names(f.cont, n) /\ f.cont \in Conts \ {NoCont}
      BY <1>2, <2>1, NamesKinds
    <3> QED
      BY <1>2, <1>5, <2>1, <3>1
  <2>2. CASE i > 2
    <3>1. parent' = parent /\ parent[n] # NoCont /\ Names(parent[n], n)
      BY <1>2, <1>5, <2>2 DEF NodesOK, NodeOK
    <3> QED
      BY <3>1
  <2> QED
    BY <1>3, <2>1, <2>2
<1>9. PICK w : w = Task(y, Slot(n, i))
  OBVIOUS
<1>10. PICK v : v = Visiting(n, NoCont, i)
  OBVIOUS
<1>11. PICK z : z = Visiting(y, Slot(n, i), 0)
  OBVIOUS
<1>12. \/ /\ Cardinality(queue[t]) < Capacity
          /\ queue' = [queue EXCEPT ![t] = @ \cup {w}] /\ Become(t, <<v>>)
       \/ queue' = queue /\ Become(t, <<v, z>>)
  BY <1>5, <1>9, <1>10, <1>11 DEF PushTask, SlotOf
<1> DEFINE Way(way) ==
              /\ \A u \in Threads : \A k :
                   k \in queue'[u] <=> k \in queue[u] \/ (way = 0 /\ u = t /\ k = w)
              /\ DOMAIN queue' = Threads
              /\ \A u \in Threads : IsFiniteSet(queue'[u]) /\ Cardinality(queue'[u]) <= Capacity
              /\ \A u, d : Pos(u, d)' <=> Pos(u, d) \/ (way = 1 /\ u = t /\ d = p + 1)
              /\ \A d : way = 1 /\ d = p + 1 => ~Pos(t, d) /\ d # p /\ Act(t, d)' = z
           Rest1 == /\ Stacks' /\ Act(t, p)' = v
                    /\ \A u, d : Pos(u, d) /\ ~(u = t /\ d = p) => Act(u, d)' = Act(u, d)
<1>13. ASSUME Cardinality(queue[t]) < Capacity,
              queue' = [queue EXCEPT ![t] = @ \cup {w}], Become(t, <<v>>)
       PROVE  Way(0) /\ Rest1
  <2>1. Rest1 /\ \A u, d : Pos(u, d)' <=> Pos(u, d)
    BY <1>2, <1>13, BecomeOne
  <2>2. /\ DOMAIN queue' = Threads /\ queue'[t] = queue[t] \cup {w}
        /\ \A u \in Threads : u # t => queue'[u] = queue[u]
    BY <1>13
  <2>3. IsFiniteSet(queue'[t]) /\ Cardinality(queue'[t]) <= Capacity
    <3>1. PICK q : q = queue[t]
      OBVIOUS
    <3>2. IsFiniteSet(q) /\ Cardinality(q) \in Nat
      BY <3>1, FS_CardinalityType
    <3>3. IsFiniteSet(q \cup {w})
          /\ Cardinality(q \cup {w}) = IF w \in q THEN Cardinality(q) ELSE Cardinality(q) + 1
      BY <3>2, FS_AddElement
    <3>4. Cardinality(q) < Capacity /\ Capacity \in Nat
      BY <1>13, <3>1, WalkAssumption
    <3>5. Cardinality(q \cup {w}) <= Capacity
      BY <3>2, <3>3, <3>4
    <3> QED
      BY <2>2, <3>1, <3>3, <3>5
  <2>4. \A u \in Threads : \A k :
           k \in queue'[u] <=> k \in queue[u] \/ (0 = 0 /\ u = t /\ k = w)
    BY <2>2
  <2>5. \A u \in Threads : IsFiniteSet(queue'[u]) /\ Cardinality(queue'[u]) <= Capacity
    BY <2>2, <2>3
  <2> QED
    BY <2>1, <2>2, <2>4, <2>5
<1>14. ASSUME queue' = queue, Become(t, <<v, z>>)
       PROVE  Way(1) /\ Rest1
  <2>1. /\ Stacks' /\ \A u, d : Pos(u, d)' <=> Pos(u, d) \/ (u = t /\ d = p + 1)
        /\ p \in Nat /\ ~Pos(t, p + 1) /\ Act(t, p)' = v
        /\ \A d : d = p + 1 => Act(t, d)' = z
        /\ \A u, d : Pos(u, d) /\ ~(u = t /\ d = p) => Act(u, d)' = Act(u, d)
    BY <1>2, <1>14, BecomeTwo
  <2>2. p + 1 # p
    BY <2>1
  <2>3. Rest1
    BY <2>1
  <2>4. \A u, d : Pos(u, d)' <=> Pos(u, d) \/ (1 = 1 /\ u = t /\ d = p + 1)
    BY <2>1
  <2>5. \A d : d = p + 1 => ~Pos(t, d) /\ d # p /\ Act(t, d)' = z
    BY <2>1, <2>2
  <2>6. \A u \in Threads : \A k :
           k \in queue'[u] <=> k \in queue[u] \/ (1 = 0 /\ u = t /\ k = w)
    BY <1>14
  <2>7. /\ DOMAIN queue' = Threads
        /\ \A u \in Threads : IsFiniteSet(queue'[u]) /\ Cardinality(queue'[u]) <= Capacity
    BY <1>14
  <2> QED
    BY <2>3, <2>4, <2>5, <2>6, <2>7
<1>15. (\E way \in {0, 1} : Way(way)) /\ Rest1
  BY <1>12, <1>13, <1>14
<1>17. \E way \in {0, 1} :
         /\ \A u \in Threads : \A k :
              k \in queue'[u] <=> k \in queue[u] \/ (way = 0 /\ u = t /\ k = Task(y, Slot(n, i)))
         /\ DOMAIN queue' = Threads
         /\ \A u \in Threads : IsFiniteSet(queue'[u]) /\ Cardinality(queue'[u]) <= Capacity
         /\ \A u, d : Pos(u, d)' <=> Pos(u, d) \/ (way = 1 /\ u = t /\ d = p + 1)
         /\ \A d : way = 1 /\ d = p + 1 =>
              ~Pos(t, d) /\ d # p /\ Act(t, d)' = Visiting(y, Slot(n, i), 0)
  BY <1>9, <1>11, <1>15
<1>18. /\ Stacks' /\ Act(t, p)' = Visiting(n, NoCont, i)
       /\ \A u, d : Pos(u, d) /\ ~(u = t /\ d = p) => Act(u, d)' = Act(u, d)
  BY <1>10, <1>15
<1> HIDE DEF Way, Rest1, IInv, Shape
<1>19. /\ IsSeq(slots'[n]) /\ Len(slots'[n]) = i
       /\ \A j \in 1 .. i : slots'[n][j] # NoResult =>
            j \in 1 .. Len(slots[n]) /\ slots'[n][j] = slots[n][j]
  BY <1>4, <1>7
<1>20. UNCHANGED <<children, closed, finalized, arena, root_cell, visits>>
  BY <1>5
<1> QED
  BY <1>3, <1>6, <1>8, <1>17, <1>18, <1>19, <1>20

\* an activation that stays as it is has and seeks what it did
LEMMA SameAct ==
  ASSUME children' = children, NEW u, NEW d, Pos(u, d), Pos(u, d)', Act(u, d)' = Act(u, d), NEW m
  PROVE  /\ Has("stack", u, d, m)' <=> Has("stack", u, d, m)
         /\ Seeks("stack", u, d, m)' <=> Seeks("stack", u, d, m)
BY DEF Has, Seeks, Names

\* a further child: its task is pushed, or run at once
LEMMA NextChildKeeps ==
  ASSUME IInv, NEW t \in Threads, NextChild(t)
  PROVE  IInv'
<1> USE DEF IInv, Shape
<1>1. PICK f : f = Top(t)
  OBVIOUS
<1>2. PICK p : p = Depth(t)
  OBVIOUS
<1>3. PICK n : n = f.node
  OBVIOUS
<1>4. PICK i : i = f.next + 1
  OBVIOUS
<1>5. PICK y : y = children[n][i]
  OBVIOUS
<1>6. PICK v : v = Visiting(n, NoCont, i)
  OBVIOUS
<1>7. PICK z : z = Visiting(y, Slot(n, i), 0)
  OBVIOUS
<1>8. PICK w : w = Task(y, Slot(n, i))
  OBVIOUS
<1>9. /\ Runs(t, "visit") /\ stack[t] # <<>> /\ Pos(t, p) /\ Act(t, p) = f /\ f.op = "visit"
      /\ n \in Nodes /\ Kids(n) \in Nat /\ f.next \in 0 .. Kids(n)
      /\ visits[n] = 0 /\ n \notin closed /\ n \notin finalized
      /\ f.next < 2 => Has("stack", t, p, n)
      /\ f.next >= 2 => parent[n] # NoCont
  BY <1>1, <1>2, <1>3, VisitTop DEF NextChild
<1>10. /\ \A u, d : /\ Pos(u, d) /\ Act(u, d).op \in {"visit", "set_total"}
                    /\ Act(u, d).node = n
                    => u = t /\ d = p
       /\ \A u \in Threads : \A k \in queue[u] : k.child # n
  BY <1>1, <1>2, <1>3, <1>9, VisitTop
<1>11. /\ i \in 2 .. Kids(n) /\ Stacks' /\ Act(t, p)' = v
       /\ \A u, d : Pos(u, d) /\ ~(u = t /\ d = p) => Act(u, d)' = Act(u, d)
       /\ DOMAIN slots' = Nodes /\ \A m \in Nodes : m # n => slots'[m] = slots[m]
       /\ IsSeq(slots'[n]) /\ Len(slots'[n]) = i
       /\ parent' \in [Nodes -> Conts] /\ \A m \in Nodes : m # n => parent'[m] = parent[m]
       /\ parent'[n] # NoCont /\ Names(parent'[n], n)
       /\ UNCHANGED <<children, closed, finalized, arena, root_cell, visits>>
  BY <1>1, <1>2, <1>3, <1>4, <1>5, <1>6, NextChildEffect
<1>37. \A j \in 1 .. i : slots'[n][j] # NoResult =>
            j \in 1 .. Len(slots[n]) /\ slots'[n][j] = slots[n][j]
  BY <1>1, <1>2, <1>3, <1>4, <1>5, NextChildEffect
<1>12. PICK way \in {0, 1} :
         /\ \A u \in Threads : \A k :
              k \in queue'[u] <=> k \in queue[u] \/ (way = 0 /\ u = t /\ k = w)
         /\ DOMAIN queue' = Threads
         /\ \A u \in Threads : IsFiniteSet(queue'[u]) /\ Cardinality(queue'[u]) <= Capacity
         /\ \A u, d : Pos(u, d)' <=> Pos(u, d) \/ (way = 1 /\ u = t /\ d = p + 1)
         /\ \A d : way = 1 /\ d = p + 1 => ~Pos(t, d) /\ d # p /\ Act(t, d)' = z
  BY <1>1, <1>2, <1>3, <1>4, <1>5, <1>7, <1>8, NextChildEffect
<1>13. PICK q : q = p + 1
  OBVIOUS
<1>14. /\ \A u, d : Pos(u, d)' <=> Pos(u, d) \/ (way = 1 /\ u = t /\ d = q)
       /\ way = 1 => ~Pos(t, q) /\ q # p /\ Act(t, q)' = z
  BY <1>12, <1>13
<1>15. /\ Fresh(y) /\ y \in Nodes /\ y # Root /\ visits[y] = 0 /\ slots[y] = <<>>
       /\ y \notin closed /\ parent[y] = NoCont /\ arena[y] = NoCont
  <2>1. ~Opened(n, i)
    <3>1. SUFFICES ASSUME NEW u, NEW d, Pos(u, d), Act(u, d).op = "visit", Act(u, d).node = n,
                          Act(u, d).next >= i
                   PROVE  FALSE
      BY <1>9 DEF Opened
    <3>2. Act(u, d).next = f.next
      BY <1>9, <1>10, <3>1
    <3> QED
      BY <1>4, <1>9, <3>1, <3>2
  <2> QED
    BY <2>1, <1>5, <1>9, <1>11, FreshChild
<1>16. y # n
  <2>1. Seeks("stack", t, p, n)
    BY <1>3, <1>9 DEF Seeks
  <2> QED
    BY <2>1, <1>15 DEF Fresh
<1>17. /\ v.op = "visit" /\ v.node = n /\ v.cont = NoCont /\ v.next = i
       /\ z.op = "visit" /\ z.node = y /\ z.cont = Slot(n, i) /\ z.next = 0
       /\ w.child = y /\ w.cont = Slot(n, i)
  BY <1>6, <1>7, <1>8 DEF Visiting, Task
<1>18. Names(Slot(n, i), y)
  <2>1. Kids(n) # 1
    BY <1>9, <1>11
  <2> QED
    BY <2>1, <1>5, <1>9, <1>11 DEF Names, NamesIn, Kids
\* who has and who seeks
<1>19. \A k, a, b, m : m # y => (Seeks(k, a, b, m)' <=> Seeks(k, a, b, m))
  <2>1. SUFFICES ASSUME NEW k, NEW a, NEW b, NEW m, m # y
                 PROVE  Seeks(k, a, b, m)' <=> Seeks(k, a, b, m)
    OBVIOUS
  <2>2. CASE k = "task"
    BY <2>1, <2>2, <1>12, <1>17 DEF Seeks
  <2>3. CASE k = "stack" /\ a = t /\ b = p
    BY <2>3, <1>3, <1>9, <1>11, <1>14, <1>17 DEF Seeks
  <2>4. CASE k = "stack" /\ Pos(a, b) /\ ~(a = t /\ b = p)
    BY <2>4, <1>11, <1>14, SameAct
  <2>5. CASE k = "stack" /\ ~Pos(a, b)
    BY <2>1, <2>5, <1>14, <1>17 DEF Seeks
  <2> QED
    BY <2>2, <2>3, <2>4, <2>5 DEF Seeks
<1>20. \A k, a, b : Seeks(k, a, b, y)' =>
          IF way = 0 THEN k = "task" /\ a = t /\ b = w ELSE k = "stack" /\ a = t /\ b = q
  <2>1. \A k, a, b : ~Seeks(k, a, b, y)
    BY <1>15 DEF Fresh
  <2> QED
    BY <2>1, <1>11, <1>12, <1>14, <1>16, <1>17 DEF Seeks
<1>21. \A k, a, b, m : m # n /\ m # y => (Has(k, a, b, m)' <=> Has(k, a, b, m))
  <2>1. SUFFICES ASSUME NEW k, NEW a, NEW b, NEW m, m # n, m # y
                 PROVE  Has(k, a, b, m)' <=> Has(k, a, b, m)
    OBVIOUS
  <2>2. CASE k = "task"
    BY <2>1, <2>2, <1>12, <1>17 DEF Has
  <2>3. CASE k = "stack" /\ a = t /\ b = p
    BY <2>1, <2>3, <1>3, <1>9, <1>11, <1>14, <1>17 DEF Has
  <2>4. CASE k = "stack" /\ Pos(a, b) /\ ~(a = t /\ b = p)
    BY <2>4, <1>11, <1>14, SameAct
  <2>5. CASE k = "stack" /\ ~Pos(a, b)
    BY <2>1, <2>5, <1>14, <1>17 DEF Has
  <2>6. CASE k \in {"parent", "arena"}
    BY <2>1, <2>6, <1>11 DEF Has
  <2> QED
    BY <2>2, <2>3, <2>4, <2>5, <2>6 DEF Has
<1>22. \A k, a, b : Has(k, a, b, n) =>
         (k = "stack" /\ a = t /\ b = p) \/ (k = "parent" /\ a = n /\ b = n)
  <2>1. CASE f.next < 2
    BY <2>1, <1>9 DEF OneHas
  <2>2. CASE f.next >= 2
    <3>1. Has("parent", n, n, n)
      BY <2>2, <1>9 DEF Has
    <3> QED
      BY <3>1 DEF OneHas
  <2> QED
    BY <1>9, <2>1, <2>2
<1>23. \A k, a, b : Has(k, a, b, n)' => k = "parent" /\ a = n /\ b = n
  <2>1. SUFFICES ASSUME NEW k, NEW a, NEW b, Has(k, a, b, n)'
                 PROVE  k = "parent" /\ a = n /\ b = n
    OBVIOUS
  <2>2. CASE k = "task"
    BY <2>1, <2>2, <1>10, <1>12, <1>16, <1>17 DEF Has
  <2>3. CASE k = "stack"
    <3>1. Pos(a, b) /\ ~(a = t /\ b = p) => ~Has(k, a, b, n)
      BY <2>3, <1>22
    <3> QED
      BY <2>1, <2>3, <3>1, <1>9, <1>11, <1>14, <1>16, <1>17 DEF Has, Names
  <2>4. CASE k = "arena"
    <3>1. ~Has(k, n, n, n)
      BY <2>4, <1>22
    <3> QED
      BY <2>1, <2>4, <3>1, <1>11 DEF Has
  <2> QED
    BY <2>1, <2>2, <2>3, <2>4 DEF Has
<1>24. \A k, a, b : Has(k, a, b, y)' =>
          IF way = 0 THEN k = "task" /\ a = t /\ b = w ELSE k = "stack" /\ a = t /\ b = q
  <2>1. \A k, a, b : ~Has(k, a, b, y)
    BY <1>15 DEF Fresh
  <2>2. SUFFICES ASSUME NEW k, NEW a, NEW b, Has(k, a, b, y)'
                 PROVE  IF way = 0 THEN k = "task" /\ a = t /\ b = w
                                   ELSE k = "stack" /\ a = t /\ b = q
    OBVIOUS
  <2>3. CASE k = "task"
    BY <2>1, <2>2, <2>3, <1>12 DEF Has
  <2>4. CASE k = "stack"
    <3>1. CASE Pos(a, b)
      <4>1. ~Has(k, a, b, y) /\ a \in Threads
        BY <2>1, <3>1 DEF Pos
      <4>2. Has(k, a, b, y)' => ~(a = t /\ b = p)
        BY <2>4, <1>11, <1>16, <1>17 DEF Has
      <4> QED
        BY <2>2, <2>4, <3>1, <4>1, <4>2, <1>11 DEF Has, Names
    <3>2. CASE ~Pos(a, b)
      BY <2>2, <2>4, <3>2, <1>14 DEF Has
    <3> QED
      BY <3>1, <3>2
  <2>5. CASE k \in {"parent", "arena"}
    BY <2>2, <2>5, <1>11, <1>15, <1>16 DEF Has
  <2> QED
    BY <2>2, <2>3, <2>4, <2>5 DEF Has
<1>25. NoneNew({y})
  <2>1. \E k, a, b : Has(k, a, b, n)
    <3>1. CASE f.next < 2
      BY <3>1, <1>9
    <3>2. CASE f.next >= 2
      <4>1. Has("parent", n, n, n)
        BY <3>2, <1>9 DEF Has
      <4> QED
        BY <4>1
    <3> QED
      BY <1>9, <3>1, <3>2
  <2> QED
    BY <2>1, <1>19, <1>21 DEF NoneNew
<1>26. Shape'
  <2>1. \A m \in Nodes : IsSeq(slots'[m])
    BY <1>11
  <2>2. Conts' = Conts
    BY <1>11, ContsStay
  <2>3. parent' \in [Nodes -> Conts'] /\ arena' \in [Nodes -> Conts']
    BY <2>2, <1>11
  <2>4. \A u \in Threads : IsFiniteSet(queue[u])' /\ (Cardinality(queue[u]) <= Capacity)'
    BY <1>12
  <2> QED
    BY <2>1, <2>3, <2>4, <1>11, <1>12
<1>27. ActsOK'
  <2>1. SUFFICES ASSUME NEW u, NEW d, Pos(u, d)'
                 PROVE  ActOK(Act(u, d))'
    BY DEF ActsOK
  <2>2. CASE u = t /\ d = p
    <3>1. i >= 2 /\ ~(i < 2) /\ i \in 0 .. Kids(n) /\ i \in Nat
      BY <1>9, <1>11
    <3> QED
      BY <2>2, <3>1, <1>6, <1>9, <1>11, <1>17 DEF ActOK, Kids
  <2>3. CASE way = 1 /\ u = t /\ d = q
    <3>1. Kids(y) \in Nat
      BY <1>15, TreeShape
    <3> QED
      BY <2>3, <3>1, <1>7, <1>11, <1>14, <1>15, <1>16, <1>17, <1>18 DEF ActOK, Names, Kids
  <2>4. CASE Pos(u, d) /\ ~(u = t /\ d = p)
    <3>1. PICK g : g = Act(u, d)
      OBVIOUS
    <3>2. ActOK(g) /\ Act(u, d)' = g
      BY <2>4, <3>1, <1>11 DEF ActsOK
    <3>3. g.op = "visit" => g.node # n /\ g.node \in Nodes
      BY <2>4, <3>1, <3>2, <1>10 DEF ActOK
    <3>4. g.op = "visit" => slots'[g.node] = slots[g.node] /\ parent'[g.node] = parent[g.node]
      BY <3>3, <1>11
    <3> QED
      BY <3>2, <3>4, <1>11 DEF ActOK, Names, Kids
  <2> QED
    BY <2>1, <2>2, <2>3, <2>4, <1>14
<1>28. TasksOK'
  <2>1. SUFFICES ASSUME NEW u \in Threads, NEW k \in queue'[u] PROVE TaskOK(k)'
    BY DEF TasksOK
  <2>2. CASE k \in queue[u]
    <3>1. TaskOK(k) /\ k.child \in Nodes \ {n}
      BY <2>2, <1>10, NamesKinds DEF TasksOK, TaskOK
    <3> QED
      BY <3>1, <1>11 DEF TaskOK, Names
  <2>3. CASE k = w
    BY <2>3, <1>8, <1>11, <1>15, <1>16, <1>17, <1>18 DEF TaskOK, Names
  <2> QED
    BY <2>2, <2>3, <1>12
<1>29. \A m \in Nodes : Gone(m) => visits'[m] = 1 /\ m # y
  BY <1>11, <1>15 DEF Gone
<1>30. \A m \in Nodes : \A j \in 1 .. Kids(m) : children[m][j] = y => m = n /\ j = i
  <2>1. n \in Nodes /\ i \in 1 .. Kids(n) /\ y = children[n][i]
    BY <1>5, <1>9, <1>11
  <2> QED
    BY <2>1, PlaceOfChild
<1>31. SlotsOK(n)'
  <2>1. SUFFICES ASSUME NEW j \in 1 .. i, slots'[n][j] # NoResult
                 PROVE  Gone(children[n][j])'
    BY <1>11 DEF SlotsOK
  <2>2. PICK m : m = children[n][j]
    OBVIOUS
  <2>3. Gone(m) /\ m \in Nodes
    <3>1. j \in 1 .. Len(slots[n]) /\ slots[n][j] # NoResult
      BY <2>1, <1>37
    <3>2. j \in 1 .. Kids(n)
      BY <2>1, <1>9, <1>11
    <3>3. m \in Nodes
      BY <3>2, <2>2, <1>9, TreeShape
    <3>4. SlotsOK(n)
      BY <1>9 DEF NodesOK, NodeOK
    <3> QED
      BY <3>1, <3>3, <3>4, <2>2 DEF SlotsOK
  <2>4. Gone(m)'
    BY <2>3, <1>25, <1>29, GoneStays
  <2> QED
    BY <2>2, <2>4, <1>11 DEF Gone
<1>32. NodesOK'
  <2>1. SUFFICES ASSUME NEW m \in Nodes PROVE NodeOK(m)'
    BY DEF NodesOK
  <2>2. NodeOK(m)
    BY DEF NodesOK
  <2>3. OnlyOK(m)'
    <3>1. Kids(m) = 1 => children[m][1] # y
      <4>1. Kids(n) # 1
        BY <1>9, <1>11
      <4> QED
        BY <4>1, <1>30
    <3> QED
      BY <3>1, <1>11, <1>25, OnlyStays
  <2>4. CASE m = n
    BY <2>2, <2>3, <2>4, <1>9, <1>11, <1>31 DEF NodeOK, Names, Kids
  <2>5. CASE m # n
    <3>1. SlotsOK(m)'
      BY <2>5, <1>11, <1>25, <1>29, SlotsStay
    <3> QED
      BY <2>2, <2>3, <2>5, <3>1, <1>11 DEF NodeOK, Names, Kids
  <2> QED
    BY <2>4, <2>5
<1>33. OneSeeks'
  BY <1>19, <1>20 DEF OneSeeks
<1>34. OneHas'
  BY <1>21, <1>23, <1>24 DEF OneHas
<1>35. Calm'
  <2>1. \A m : Settling(m)' => Settling(m)
    BY <1>11, <1>14, <1>17 DEF Settling
  <2>2. VisitsGoOn
    BY <1>3, <1>4, <1>9, <1>11, <1>14, <1>17 DEF VisitsGoOn
  <2>3. \A m \in Nodes : m # y /\ Fresh(m) => visits'[m] = 0 /\ slots'[m] = <<>>
    <3>1. Seeks("stack", t, p, n)
      BY <1>3, <1>9 DEF Seeks
    <3> QED
      BY <3>1, <1>11 DEF Fresh
  <2>4. Opened(n, i)'
    BY <1>9, <1>11, <1>14, <1>17 DEF Opened
  <2>5. \A m \in Nodes : \A j \in 1 .. Kids(m) : children[m][j] \in {y} => Opened(m, j)'
    BY <2>4, <1>30
  <2> QED
    BY <1>11, <1>25, <2>1, <2>2, <2>3, <2>5, CalmStays
<1>36. RootOK'
  BY <1>11, <1>15, <1>25, <1>29, RootStays, WalkAssumption
<1> QED
  BY <1>26, <1>27, <1>28, <1>32, <1>33, <1>34, <1>35, <1>36

\* an idle thread takes a task
LEMMA AcquireKeeps ==
  ASSUME IInv, NEW t \in Threads, Acquire(t)
  PROVE  IInv'
<1> USE DEF IInv, Shape
<1>1. PICK v, w :
        /\ v \in Threads /\ w \in queue[v] /\ stack[t] = <<>>
        /\ queue' = [queue EXCEPT ![v] = @ \ {w}]
        /\ stack' = [stack EXCEPT ![t] = <<Visiting(w.child, w.cont, 0)>>]
        /\ UNCHANGED <<children, slots, closed, finalized, parent, arena, root_cell, visits>>
  BY DEF Acquire, Remove, nodeVars
<1>2. PICK n : n = w.child
  OBVIOUS
<1>3. PICK g : g = Visiting(n, w.cont, 0)
  OBVIOUS
<1>4. g.op = "visit" /\ g.node = n /\ g.cont = w.cont /\ g.next = 0
  BY <1>3 DEF Visiting
<1>5. n \in Nodes /\ Names(w.cont, n) /\ visits[n] = 0 /\ slots[n] = <<>>
  BY <1>1, <1>2, NamesKinds DEF TasksOK, TaskOK
<1>6. /\ Stacks' /\ \A u, d : Pos(u, d)' <=> Pos(u, d) \/ (u = t /\ d = 1)
      /\ ~Pos(t, 1) /\ Act(t, 1)' = g
      /\ \A u, d : Pos(u, d) => Act(u, d)' = Act(u, d)
  BY <1>1, <1>2, <1>3, BecomeFirst
<1>7. /\ DOMAIN queue' = Threads
      /\ \A u \in Threads : \A k : k \in queue'[u] <=> k \in queue[u] /\ ~(u = v /\ k = w)
  BY <1>1
<1>8. \A u \in Threads : IsFiniteSet(queue'[u]) /\ Cardinality(queue'[u]) <= Capacity
  <2>1. PICK q : q = queue[v]
    OBVIOUS
  <2>2. IsFiniteSet(q) /\ Cardinality(q) \in Nat /\ Cardinality(q) <= Capacity
    BY <1>1, <2>1, FS_CardinalityType
  <2>3. IsFiniteSet(q \ {w}) /\ Cardinality(q \ {w}) <= Cardinality(q)
        /\ Cardinality(q \ {w}) \in Nat
    BY <2>2, FS_RemoveElement, FS_Subset, FS_CardinalityType
  <2>4. Cardinality(q \ {w}) <= Capacity
    BY <2>2, <2>3, WalkAssumption
  <2>5. queue'[v] = q \ {w} /\ \A u \in Threads \ {v} : queue'[u] = queue[u]
    BY <1>1, <2>1
  <2> QED
    BY <2>3, <2>4, <2>5
\* who has and who seeks
<1>9. Seeks("task", v, w, n) /\ Has("task", v, w, n)
  BY <1>1, <1>2 DEF Seeks, Has
<1>10. \A k, a, b, m : m # n => /\ Seeks(k, a, b, m)' <=> Seeks(k, a, b, m)
                                /\ Has(k, a, b, m)' <=> Has(k, a, b, m)
  <2>1. SUFFICES ASSUME NEW k, NEW a, NEW b, NEW m, m # n
                 PROVE  /\ Seeks(k, a, b, m)' <=> Seeks(k, a, b, m)
                        /\ Has(k, a, b, m)' <=> Has(k, a, b, m)
    OBVIOUS
  <2>2. CASE k = "task"
    BY <2>1, <2>2, <1>2, <1>7 DEF Seeks, Has
  <2>3. CASE k = "stack" /\ Pos(a, b)
    BY <2>3, <1>1, <1>6, SameAct
  <2>4. CASE k = "stack" /\ ~Pos(a, b)
    BY <2>1, <2>4, <1>4, <1>6 DEF Seeks, Has
  <2>5. CASE k \in {"parent", "arena"}
    BY <2>5, <1>1 DEF Seeks, Has
  <2> QED
    BY <2>2, <2>3, <2>4, <2>5 DEF Seeks, Has
<1>11. \A k, a, b : Seeks(k, a, b, n)' \/ Has(k, a, b, n)' => k = "stack" /\ a = t /\ b = 1
  <2>1. SUFFICES ASSUME NEW k, NEW a, NEW b, Seeks(k, a, b, n)' \/ Has(k, a, b, n)'
                 PROVE  k = "stack" /\ a = t /\ b = 1
    OBVIOUS
  <2>2. ~(k = "task" /\ a = v /\ b = w) => ~Seeks(k, a, b, n) /\ ~Has(k, a, b, n)
    BY <1>9 DEF OneSeeks, OneHas
  <2>3. CASE k = "task"
    BY <2>1, <2>2, <2>3, <1>7 DEF Seeks, Has
  <2>4. CASE k = "stack" /\ Pos(a, b)
    <3>1. (Seeks("stack", a, b, n)' <=> Seeks("stack", a, b, n))
          /\ (Has("stack", a, b, n)' <=> Has("stack", a, b, n))
      BY <2>4, <1>1, <1>6, SameAct
    <3> QED
      BY <2>1, <2>2, <2>4, <3>1
  <2>5. CASE k = "stack" /\ ~Pos(a, b)
    BY <2>1, <2>5, <1>6 DEF Seeks, Has
  <2>6. CASE k \in {"parent", "arena"}
    BY <2>1, <2>2, <2>6, <1>1 DEF Seeks, Has
  <2> QED
    BY <2>1, <2>3, <2>4, <2>5, <2>6 DEF Seeks, Has
<1>12. NoneNew({})
  BY <1>9, <1>10 DEF NoneNew
<1>13. Shape'
  <2>1. Conts' = Conts
    BY <1>1, ContsStay
  <2> QED
    BY <2>1, <1>1, <1>6, <1>7, <1>8
<1>14. ActsOK'
  <2>1. SUFFICES ASSUME NEW u, NEW d, Pos(u, d)'
                 PROVE  ActOK(Act(u, d))'
    BY DEF ActsOK
  <2>2. CASE u = t /\ d = 1
    <3>1. Kids(n) \in Nat
      BY <1>5, TreeShape
    <3> QED
      BY <2>2, <3>1, <1>1, <1>3, <1>4, <1>5, <1>6 DEF ActOK, Names, Kids
  <2>3. CASE Pos(u, d)
    BY <2>3, <1>1, <1>6 DEF ActsOK, ActOK, Names, Kids
  <2> QED
    BY <2>1, <2>2, <2>3, <1>6
<1>15. TasksOK'
  BY <1>1, <1>7 DEF TasksOK, TaskOK, Names
<1>16. NodesOK'
  <2>1. SUFFICES ASSUME NEW m \in Nodes PROVE NodeOK(m)'
    BY DEF NodesOK
  <2>2. NodeOK(m)
    BY DEF NodesOK
  <2>3. SlotsOK(m)' /\ OnlyOK(m)'
    BY <1>1, <1>12, SlotsStay, OnlyStays DEF Gone
  <2> QED
    BY <1>1, <2>2, <2>3 DEF NodeOK, Names, Kids
<1>17. OneSeeks'
  BY <1>10, <1>11 DEF OneSeeks
<1>18. OneHas'
  BY <1>10, <1>11 DEF OneHas
<1>19. Calm'
  <2>1. \A m : Settling(m)' => Settling(m)
    BY <1>4, <1>6 DEF Settling
  <2>2. VisitsGoOn
    BY <1>6 DEF VisitsGoOn
  <2>3. \A m \in Nodes : Fresh(m) => visits'[m] = 0 /\ slots'[m] = <<>>
    BY <1>1 DEF Fresh
  <2> QED
    BY <1>1, <1>12, <2>1, <2>2, <2>3, CalmStays
<1>20. RootOK'
  BY <1>1, <1>12, RootStays DEF Gone
<1> QED
  BY <1>13, <1>14, <1>15, <1>16, <1>17, <1>18, <1>19, <1>20

\* the continuation of n is in the activation of t at p, and nowhere else
HasOnly(t, p, n) == \A k, a, b : Has(k, a, b, n) <=> k = "stack" /\ a = t /\ b = p

\* what is known of a running fire: it has the continuation of a node whose visit is over
LEMMA FireTop ==
  ASSUME IInv, NEW t \in Threads, Runs(t, "fire"), NEW f, f = Top(t), NEW p, p = Depth(t)
  PROVE  /\ stack[t] # <<>> /\ Pos(t, p) /\ Act(t, p) = f /\ f.op = "fire"
         /\ \E n \in Nodes : Names(f.cont, n) /\ visits[n] = 1 /\ HasOnly(t, p, n)
<1> USE DEF IInv, Shape
<1>1. /\ stack[t] # <<>> /\ Pos(t, p) /\ Act(t, p) = f /\ f.op = "fire"
  BY Running DEF Runs, Top
<1>2. PICK n \in Nodes : Names(f.cont, n) /\ visits[n] = 1
  BY <1>1 DEF ActsOK, ActOK
<1>3. Has("stack", t, p, n)
  BY <1>1, <1>2 DEF Has
<1>4. HasOnly(t, p, n)
  BY <1>3 DEF OneHas, HasOnly
<1> QED
  BY <1>1, <1>2, <1>4

\* after a fire that leads nowhere else the node is over with
LEMMA FireEffect ==
  ASSUME IInv, children' = children, UNCHANGED <<queue, parent, arena>>,
         NEW t \in Threads, NEW p, NEW f, Act(t, p) = f, f.op = "fire", NEW n, Names(f.cont, n),
         HasOnly(t, p, n),
         \A u, d : ~(u = t /\ d = p) => (Pos(u, d)' <=> Pos(u, d)),
         Pos(t, p)' => Act(t, p)'.op = "deliver",
         \A u, d : Pos(u, d) /\ ~(u = t /\ d = p) => Act(u, d)' = Act(u, d)
  PROVE  /\ \A k, a, b : ~Has(k, a, b, n)'
         /\ \A k, a, b, m : m # n => (Has(k, a, b, m)' <=> Has(k, a, b, m))
         /\ \A k, a, b, m : Seeks(k, a, b, m)' <=> Seeks(k, a, b, m)
<1>1. ASSUME NEW k, NEW a, NEW b, NEW m, ~(k = "stack" /\ a = t /\ b = p)
      PROVE  /\ Has(k, a, b, m)' <=> Has(k, a, b, m)
             /\ Seeks(k, a, b, m)' <=> Seeks(k, a, b, m)
  <2>1. CASE k = "stack" /\ Pos(a, b)
    BY <1>1, <2>1, SameAct
  <2>2. CASE k = "stack" /\ ~Pos(a, b)
    BY <1>1, <2>2 DEF Has, Seeks
  <2>3. CASE k # "stack"
    BY <2>3 DEF Has, Seeks
  <2> QED
    BY <2>1, <2>2, <2>3
<1>2. \A m : ~Has("stack", t, p, m)' /\ ~Seeks("stack", t, p, m)' /\ ~Seeks("stack", t, p, m)
  BY DEF Has, Seeks
<1>3. \A m : m # n => ~Has("stack", t, p, m)
  BY NamesOne DEF Has, IInv, Shape
<1> QED
  BY <1>1, <1>2, <1>3 DEF HasOnly

\* a fire that ends at the root
LEMMA FireRootKeeps ==
  ASSUME IInv, NEW t \in Threads, FireRoot(t)
  PROVE  IInv'
<1> USE DEF IInv, Shape
<1>1. PICK f : f = Top(t)
  OBVIOUS
<1>2. PICK p : p = Depth(t)
  OBVIOUS
<1>3. /\ Runs(t, "fire") /\ f.cont = RootCont /\ Become(t, <<>>)
      /\ UNCHANGED <<children, queue, slots, closed, finalized, parent, arena, visits>>
  BY <1>1 DEF FireRoot, nodeVars
<1>4. /\ stack[t] # <<>> /\ Pos(t, p) /\ Act(t, p) = f /\ f.op = "fire"
  BY <1>1, <1>2, <1>3, FireTop
<1>5. Names(f.cont, Root) /\ visits[Root] = 1 /\ HasOnly(t, p, Root)
  <2>1. PICK n \in Nodes : Names(f.cont, n) /\ visits[n] = 1 /\ HasOnly(t, p, n)
    BY <1>1, <1>2, <1>3, FireTop
  <2>2. n = Root
    BY <2>1, <1>3, NamesKinds DEF RootCont
  <2> QED
    BY <2>1, <2>2
<1>6. /\ Stacks' /\ \A u, d : Pos(u, d)' <=> Pos(u, d) /\ ~(u = t /\ d = p)
      /\ \A u, d : Pos(u, d) /\ ~(u = t /\ d = p) => Act(u, d)' = Act(u, d)
  BY <1>2, <1>3, <1>4, BecomeNone
<1>7. /\ \A k, a, b : ~Has(k, a, b, Root)'
      /\ \A k, a, b, m : m # Root => (Has(k, a, b, m)' <=> Has(k, a, b, m))
      /\ \A k, a, b, m : Seeks(k, a, b, m)' <=> Seeks(k, a, b, m)
  BY <1>3, <1>4, <1>5, <1>6, FireEffect
<1>8. NoneNew({})
  BY <1>7 DEF NoneNew
<1>9. Shape'
  <2>1. Conts' = Conts
    BY <1>3, ContsStay
  <2> QED
    BY <2>1, <1>3, <1>6
<1>10. ActsOK'
  BY <1>3, <1>6 DEF ActsOK, ActOK, Names, Kids
<1>11. TasksOK'
  BY <1>3 DEF TasksOK, TaskOK, Names
<1>12. NodesOK'
  <2>1. SUFFICES ASSUME NEW m \in Nodes PROVE NodeOK(m)'
    BY DEF NodesOK
  <2>2. NodeOK(m)
    BY DEF NodesOK
  <2>3. SlotsOK(m)' /\ OnlyOK(m)'
    BY <1>3, <1>8, SlotsStay, OnlyStays DEF Gone
  <2> QED
    BY <1>3, <2>2, <2>3 DEF NodeOK, Names, Kids
<1>13. OneSeeks' /\ OneHas'
  BY <1>7 DEF OneSeeks, OneHas
<1>14. Calm'
  <2>1. \A m : Settling(m)' => Settling(m)
    BY <1>6 DEF Settling
  <2>2. VisitsGoOn
    BY <1>4, <1>6 DEF VisitsGoOn
  <2>3. \A m \in Nodes : Fresh(m) => visits'[m] = 0 /\ slots'[m] = <<>>
    BY <1>3 DEF Fresh
  <2> QED
    BY <1>3, <1>8, <2>1, <2>2, <2>3, CalmStays
<1>15. RootOK'
  BY <1>3, <1>5, <1>7 DEF RootOK, Gone
<1> QED
  BY <1>9, <1>10, <1>11, <1>12, <1>13, <1>14, <1>15

\* a slot of a chain is filled
LEMMA SlotFilled ==
  ASSUME NEW s, IsSeq(s), NEW i \in 1 .. Len(s), NEW e, NEW r, r = [s EXCEPT ![i] = e]
  PROVE  /\ IsSeq(r) /\ Len(r) = Len(s) /\ Len(s) \in Nat
         /\ \A j : j \in 1 .. Len(s) /\ j # i => r[j] = s[j]
<1>1. PICK S : s \in Seq(S)
  BY DEF IsSeq
<1> DEFINE T == S \cup {e}
<1>2. s \in Seq(T) /\ e \in T
  BY <1>1
<1> HIDE DEF T
<1>3. r \in Seq(T) /\ Len(r) = Len(s)
  BY <1>2, ExceptSeq
<1>4. IsSeq(r)
  BY <1>3 DEF IsSeq
<1>5. \A j : j \in 1 .. Len(s) /\ j # i => r[j] = s[j]
  BY <1>2, ExceptSeq
<1> QED
  BY <1>2, <1>3, <1>4, <1>5

\* the result of a child finds its slot there
LEMMA SlotThere ==
  ASSUME IInv, NEW m \in Nodes, NEW i \in 1 .. Kids(m), Kids(m) > 1,
         NEW k, NEW a, NEW b, Has(k, a, b, children[m][i])
  PROVE  i \in 1 .. Len(slots[m]) /\ Len(slots[m]) \in Nat /\ slots[m][i] = NoResult
<1> USE DEF IInv, Shape
<1>1. Kids(m) \in Nat /\ IsSeq(slots[m]) /\ Len(slots[m]) \in Nat /\ NodeOK(m)
  BY TreeShape, SeqDomain DEF NodesOK
<1>2. Opened(m, i)
  BY DEF Calm, Fresh
<1>3. i \in 1 .. Len(slots[m])
  <2>1. CASE visits[m] # 0
    BY <1>1, <2>1 DEF NodeOK
  <2>2. CASE visits[m] = 0
    <3>1. PICK u, d : /\ Pos(u, d) /\ Act(u, d).op = "visit" /\ Act(u, d).node = m
                      /\ i >= 2 /\ Act(u, d).next >= i
      BY <1>2, <2>2 DEF Opened
    <3>2. ActOK(Act(u, d))
      BY <3>1 DEF ActsOK
    <3>3. Act(u, d).next \in Nat /\ Len(slots[m]) = Act(u, d).next
      BY <1>1, <3>1, <3>2 DEF ActOK
    <3> QED
      BY <3>1, <3>3, <1>1
  <2> QED
    BY <2>1, <2>2
<1> QED
  BY <1>1, <1>3 DEF NodeOK, SlotsOK, Gone

\* a fire that delivers to a chain
LEMMA FireSlotKeeps ==
  ASSUME IInv, NEW t \in Threads, FireSlot(t)
  PROVE  IInv'
<1> USE DEF IInv, Shape
<1>1. PICK f : f = Top(t)
  OBVIOUS
<1>2. PICK p : p = Depth(t)
  OBVIOUS
<1>3. PICK m : m = f.cont.node
  OBVIOUS
<1>4. PICK i : i = f.cont.slot
  OBVIOUS
<1>5. PICK g : g = Delivering(m)
  OBVIOUS
<1>6. /\ Runs(t, "fire") /\ f.cont.kind = "slot" /\ Become(t, <<g>>)
      /\ slots' = [slots EXCEPT ![m][i] = f.result]
      /\ UNCHANGED <<children, queue, closed, finalized, parent, arena, root_cell, visits>>
  BY <1>1, <1>3, <1>4, <1>5 DEF FireSlot
<1>7. /\ stack[t] # <<>> /\ Pos(t, p) /\ Act(t, p) = f /\ f.op = "fire"
  BY <1>1, <1>2, <1>6, FireTop
<1>8. PICK n \in Nodes : Names(f.cont, n) /\ visits[n] = 1 /\ HasOnly(t, p, n)
  BY <1>1, <1>2, <1>6, FireTop
<1>9. m \in Nodes /\ Kids(m) > 1 /\ i \in 1 .. Kids(m) /\ n = children[m][i]
  BY <1>3, <1>4, <1>6, <1>8, NamesKinds
<1>10. i \in 1 .. Len(slots[m]) /\ Len(slots[m]) \in Nat /\ slots[m][i] = NoResult
  <2>1. Has("stack", t, p, n)
    BY <1>8 DEF HasOnly
  <2> QED
    BY <2>1, <1>9, SlotThere
<1>11. /\ DOMAIN slots' = Nodes /\ \A k \in Nodes : k # m => slots'[k] = slots[k]
       /\ slots'[m] = [slots[m] EXCEPT ![i] = f.result]
  BY <1>6, <1>9
<1>12. /\ IsSeq(slots'[m]) /\ Len(slots'[m]) = Len(slots[m])
       /\ \A j : j \in 1 .. Len(slots[m]) /\ j # i => slots'[m][j] = slots[m][j]
  <2>1. PICK s : s = slots[m]
    OBVIOUS
  <2>2. PICK r : r = slots'[m]
    OBVIOUS
  <2>3. PICK e : e = f.result
    OBVIOUS
  <2>6. IsSeq(s) /\ i \in 1 .. Len(s) /\ r = [s EXCEPT ![i] = e]
    BY <2>1, <2>2, <2>3, <1>9, <1>10, <1>11
  <2>4. IsSeq(r) /\ Len(r) = Len(s)
    BY ONLY <2>6, SlotFilled
  <2>5. \A j : j \in 1 .. Len(s) /\ j # i => r[j] = s[j]
    BY ONLY <2>6, SlotFilled
  <2> QED
    BY <2>1, <2>2, <2>4, <2>5
<1>13. m \notin finalized /\ slots[m] # <<>>
  BY <1>9, <1>10 DEF NodesOK, NodeOK
<1>14. g.op = "deliver" /\ g.node = m
  BY <1>5 DEF Delivering
<1>15. /\ Stacks' /\ \A u, d : Pos(u, d)' <=> Pos(u, d)
       /\ Act(t, p)' = g
       /\ \A u, d : Pos(u, d) /\ ~(u = t /\ d = p) => Act(u, d)' = Act(u, d)
  BY <1>2, <1>6, <1>7, BecomeOne
<1>16. /\ \A k, a, b : ~Has(k, a, b, n)'
       /\ \A k, a, b, l : l # n => (Has(k, a, b, l)' <=> Has(k, a, b, l))
       /\ \A k, a, b, l : Seeks(k, a, b, l)' <=> Seeks(k, a, b, l)
  BY <1>6, <1>7, <1>8, <1>14, <1>15, FireEffect
<1>17. NoneNew({})
  BY <1>16 DEF NoneNew
<1>18. Shape'
  <2>1. Conts' = Conts
    BY <1>6, ContsStay
  <2>2. \A k \in Nodes : IsSeq(slots'[k])
    BY <1>11, <1>12
  <2> QED
    BY <2>1, <2>2, <1>6, <1>11, <1>15
<1>19. ActsOK'
  <2>1. SUFFICES ASSUME NEW u, NEW d, Pos(u, d)
                 PROVE  ActOK(Act(u, d))'
    BY <1>15 DEF ActsOK
  <2>2. CASE u = t /\ d = p
    BY <2>2, <1>5, <1>9, <1>14, <1>15 DEF ActOK
  <2>3. CASE ~(u = t /\ d = p)
    <3>1. PICK h : h = Act(u, d)
      OBVIOUS
    <3>2. ActOK(h) /\ Act(u, d)' = h
      BY <2>1, <2>3, <3>1, <1>15 DEF ActsOK
    <3>3. h.op = "visit" =>
            /\ h.next < 2 => slots'[h.node] = <<>>
            /\ Len(slots'[h.node]) = Len(slots[h.node])
      BY <3>2, <1>11, <1>12, <1>13 DEF ActOK
    <3> QED
      BY <3>2, <3>3, <1>6 DEF ActOK, Names, Kids
  <2> QED
    BY <2>2, <2>3
<1>20. TasksOK'
  <2>1. SUFFICES ASSUME NEW u \in Threads, NEW k \in queue[u] PROVE TaskOK(k)'
    BY <1>6 DEF TasksOK
  <2>2. TaskOK(k) /\ k.child \in Nodes /\ k.child # m
    BY <1>13, NamesKinds DEF TasksOK, TaskOK
  <2> QED
    BY <2>2, <1>6, <1>11 DEF TaskOK, Names
<1>21. SlotsOK(m)'
  <2>1. SUFFICES ASSUME NEW j \in 1 .. Len(slots[m]), slots'[m][j] # NoResult
                 PROVE  Gone(children[m][j])'
    BY <1>12 DEF SlotsOK
  <2>2. CASE j = i
    BY <2>2, <1>6, <1>8, <1>9, <1>16 DEF Gone
  <2>3. CASE j # i
    <3>1. PICK k : k = children[m][j]
      OBVIOUS
    <3>2. Gone(k)
      BY <2>1, <2>3, <3>1, <1>9, <1>12 DEF NodesOK, NodeOK, SlotsOK
    <3>3. visits'[k] = 1
      BY <3>2, <1>6 DEF Gone
    <3>4. Gone(k)'
      <4>1. k \notin {}
        OBVIOUS
      <4> QED
        BY ONLY <1>17, <3>2, <3>3, <4>1, GoneStays
    <3> QED
      BY <3>1, <3>4, <1>6 DEF Gone
  <2> QED
    BY <2>2, <2>3
<1>22. NodesOK'
  <2>1. SUFFICES ASSUME NEW k \in Nodes PROVE NodeOK(k)'
    BY DEF NodesOK
  <2>2. NodeOK(k)
    BY DEF NodesOK
  <2>3. SlotsOK(k)'
    BY <1>6, <1>11, <1>17, <1>21, SlotsStay DEF Gone
  <2>4. OnlyOK(k)'
    BY <1>6, <1>17, OnlyStays
  <2>5. Len(slots'[k]) = Len(slots[k]) /\ (k \in finalized => slots'[k] = slots[k])
    BY <1>11, <1>12, <1>13
  <2> QED
    BY <1>6, <2>2, <2>3, <2>4, <2>5 DEF NodeOK, Names, Kids
<1>23. OneSeeks' /\ OneHas'
  BY <1>16 DEF OneSeeks, OneHas
<1>24. Calm'
  <2>1. \A k : Settling(k)' => Settling(k)
    BY <1>14, <1>15 DEF Settling
  <2>2. VisitsGoOn
    BY <1>7, <1>15 DEF VisitsGoOn
  <2>3. \A k \in Nodes : Fresh(k) => visits'[k] = 0 /\ slots'[k] = <<>>
    BY <1>6, <1>11, <1>13 DEF Fresh
  <2> QED
    BY <1>6, <1>17, <2>1, <2>2, <2>3, CalmStays
<1>25. RootOK'
  BY <1>6, <1>17, RootStays DEF Gone
<1> QED
  BY <1>18, <1>19, <1>20, <1>22, <1>23, <1>24, <1>25

\* a fire that goes on through the arena
LEMMA FireDirectKeeps ==
  ASSUME IInv, NEW t \in Threads, FireDirect(t)
  PROVE  IInv'
<1> USE DEF IInv, Shape
<1>1. PICK f : f = Top(t)
  OBVIOUS
<1>2. PICK p : p = Depth(t)
  OBVIOUS
<1>3. PICK n : n = f.cont.node
  OBVIOUS
<1>4. PICK c : c = arena[n]
  OBVIOUS
<1>5. PICK g : g = Firing(c, Finalize(n, <<f.result>>))
  OBVIOUS
<1>6. /\ Runs(t, "fire") /\ f.cont.kind = "direct" /\ Become(t, <<g>>)
      /\ arena' = [arena EXCEPT ![n] = NoCont]
      /\ UNCHANGED <<children, queue, slots, closed, finalized, parent, root_cell, visits>>
  BY <1>1, <1>3, <1>4, <1>5 DEF FireDirect
<1>7. /\ stack[t] # <<>> /\ Pos(t, p) /\ Act(t, p) = f /\ f.op = "fire"
  BY <1>1, <1>2, <1>6, FireTop
<1>8. PICK x \in Nodes : Names(f.cont, x) /\ visits[x] = 1 /\ HasOnly(t, p, x)
  BY <1>1, <1>2, <1>6, FireTop
<1>9. n \in Nodes /\ Kids(n) = 1 /\ x = children[n][1]
  BY <1>3, <1>6, <1>8, NamesKinds
<1>10. Has("stack", t, p, x)
  BY <1>8 DEF HasOnly
<1>11. c # NoCont /\ Names(c, n) /\ visits[n] = 1
  BY <1>4, <1>9, <1>10 DEF NodesOK, NodeOK, OnlyOK
<1>12. \A k, a, b : Has(k, a, b, n) <=> k = "arena" /\ a = n /\ b = n
  <2>1. Has("arena", n, n, n)
    BY <1>4, <1>9, <1>11 DEF Has
  <2> QED
    BY <2>1 DEF OneHas
<1>13. x # n
  BY <1>10, <1>12
<1>14. g.op = "fire" /\ g.cont = c
  BY <1>5 DEF Firing
<1>15. /\ Stacks' /\ \A u, d : Pos(u, d)' <=> Pos(u, d)
       /\ Act(t, p)' = g
       /\ \A u, d : Pos(u, d) /\ ~(u = t /\ d = p) => Act(u, d)' = Act(u, d)
  BY <1>2, <1>6, <1>7, BecomeOne
<1>16. /\ arena' \in [Nodes -> Conts] /\ arena'[n] = NoCont
       /\ \A m \in Nodes : m # n => arena'[m] = arena[m]
  BY <1>6, <1>9, ContsStay
\* who has and who seeks
<1>17. \A k, a, b, m : Seeks(k, a, b, m)' <=> Seeks(k, a, b, m)
  BY <1>6, <1>7, <1>14, <1>15 DEF Seeks
<1>18. \A m : Names(c, m)' <=> m = n
  BY <1>6, <1>11, NamesOne DEF Names
<1>19. \A m : Names(f.cont, m) <=> m = x
  BY <1>8, NamesOne
<1>20. \A k, a, b, m : m # n /\ m # x => (Has(k, a, b, m)' <=> Has(k, a, b, m))
  <2>1. SUFFICES ASSUME NEW k, NEW a, NEW b, NEW m, m # n, m # x
                 PROVE  Has(k, a, b, m)' <=> Has(k, a, b, m)
    OBVIOUS
  <2>2. CASE k = "stack" /\ a = t /\ b = p
    BY <2>1, <2>2, <1>7, <1>14, <1>15, <1>18, <1>19 DEF Has
  <2>3. CASE k = "stack" /\ Pos(a, b) /\ ~(a = t /\ b = p)
    BY <2>3, <1>6, <1>15, SameAct
  <2>4. CASE k # "stack" \/ ~Pos(a, b)
    BY <2>1, <2>4, <1>6, <1>15, <1>16 DEF Has
  <2> QED
    BY <2>2, <2>3, <2>4
<1>21. \A k, a, b : ~Has(k, a, b, x)'
  <2>1. SUFFICES ASSUME NEW k, NEW a, NEW b, Has(k, a, b, x)'
                 PROVE  FALSE
    OBVIOUS
  <2>2. CASE k = "stack" /\ a = t /\ b = p
    BY <2>1, <2>2, <1>13, <1>14, <1>15, <1>18 DEF Has
  <2>3. CASE k = "stack" /\ Pos(a, b) /\ ~(a = t /\ b = p)
    <3>1. Has(k, a, b, x)
      BY <2>1, <2>3, <1>6, <1>15, SameAct
    <3> QED
      BY <3>1, <2>3, <1>8 DEF HasOnly
  <2>4. CASE k # "stack" \/ ~Pos(a, b)
    <3>1. Has(k, a, b, x)
      BY <2>1, <2>4, <1>6, <1>13, <1>15, <1>16 DEF Has
    <3>2. k = "stack" /\ a = t /\ b = p
      BY <3>1, <1>8 DEF HasOnly
    <3> QED
      BY <2>4, <3>2, <1>7
  <2> QED
    BY <2>2, <2>3, <2>4
<1>22. \A k, a, b : Has(k, a, b, n)' => k = "stack" /\ a = t /\ b = p
  <2>1. SUFFICES ASSUME NEW k, NEW a, NEW b, Has(k, a, b, n)', ~(k = "stack" /\ a = t /\ b = p)
                 PROVE  FALSE
    OBVIOUS
  <2>2. CASE k = "stack" /\ Pos(a, b)
    <3>1. Has(k, a, b, n)
      BY <2>1, <2>2, <1>6, <1>15, SameAct
    <3> QED
      BY <3>1, <2>2, <1>12
  <2>3. CASE k = "stack" /\ ~Pos(a, b)
    BY <2>1, <2>3, <1>15 DEF Has
  <2>4. CASE k = "task" \/ k = "parent"
    <3>1. Has(k, a, b, n)
      BY <2>1, <2>4, <1>6 DEF Has
    <3> QED
      BY <3>1, <2>4, <1>12
  <2>5. CASE k = "arena"
    BY <2>1, <2>5, <1>16 DEF Has
  <2> QED
    BY <2>1, <2>2, <2>3, <2>4, <2>5 DEF Has
<1>23. NoneNew({})
  BY <1>12, <1>17, <1>20, <1>21 DEF NoneNew
<1>24. Shape'
  <2>1. Conts' = Conts
    BY <1>6, ContsStay
  <2> QED
    BY <2>1, <1>6, <1>15, <1>16
<1>25. ActsOK'
  <2>1. SUFFICES ASSUME NEW u, NEW d, Pos(u, d)
                 PROVE  ActOK(Act(u, d))'
    BY <1>15 DEF ActsOK
  <2>2. CASE u = t /\ d = p
    BY <2>2, <1>6, <1>9, <1>11, <1>14, <1>15, <1>18 DEF ActOK
  <2>3. CASE ~(u = t /\ d = p)
    BY <2>1, <2>3, <1>6, <1>15 DEF ActsOK, ActOK, Names, Kids
  <2> QED
    BY <2>2, <2>3
<1>26. TasksOK'
  BY <1>6 DEF TasksOK, TaskOK, Names
<1>27. NodesOK'
  <2>1. SUFFICES ASSUME NEW m \in Nodes PROVE NodeOK(m)'
    BY DEF NodesOK
  <2>2. NodeOK(m)
    BY DEF NodesOK
  <2>3. SlotsOK(m)'
    BY <1>6, <1>23, SlotsStay DEF Gone
  <2>4. OnlyOK(m)'
    <3>1. CASE m = n
      BY <3>1, <1>6, <1>9, <1>21 DEF OnlyOK, Has
    <3>2. CASE m # n
      BY <3>2, <1>6, <1>16, <1>23, OnlyStays
    <3> QED
      BY <3>1, <3>2
  <2>5. arena'[m] # NoCont => arena'[m] = arena[m]
    BY <1>16
  <2> QED
    BY <1>6, <2>2, <2>3, <2>4, <2>5 DEF NodeOK, Names, Kids
<1>28. OneSeeks'
  BY <1>17 DEF OneSeeks
<1>29. OneHas'
  BY <1>20, <1>21, <1>22 DEF OneHas
<1>30. Calm'
  <2>1. \A m : Settling(m)' => Settling(m)
    BY <1>14, <1>15 DEF Settling
  <2>2. VisitsGoOn
    BY <1>7, <1>15 DEF VisitsGoOn
  <2>3. \A m \in Nodes : Fresh(m) => visits'[m] = 0 /\ slots'[m] = <<>>
    BY <1>6 DEF Fresh
  <2> QED
    BY <1>6, <1>23, <2>1, <2>2, <2>3, CalmStays
<1>31. RootOK'
  BY <1>6, <1>23, RootStays DEF Gone
<1> QED
  BY <1>24, <1>25, <1>26, <1>27, <1>28, <1>29, <1>30, <1>31

\* a call of set_total comes before the first child is walked
LEMMA SettlingFirst ==
  ASSUME IInv, NEW n \in Nodes, Settling(n)
  PROVE  /\ n \in closed /\ visits[n] = 1 /\ Kids(n) > 1 /\ Kids(n) \in Nat
         /\ Len(slots[n]) = Kids(n) /\ DOMAIN slots[n] = 1 .. Kids(n)
         /\ ~Opened(n, 1) /\ slots[n][1] = NoResult
<1> USE DEF IInv, Shape
<1>1. n \in closed /\ Kids(n) \in Nat /\ NodeOK(n) /\ DOMAIN slots[n] = 1 .. Len(slots[n])
  <2>1. n \in closed
    BY DEF Settling, ActsOK, ActOK
  <2>2. IsSeq(slots[n]) /\ Kids(n) \in Nat /\ NodeOK(n)
    BY TreeShape DEF NodesOK
  <2> QED
    BY <2>1, <2>2, SeqDomain
<1>2. visits[n] = 1 /\ Kids(n) > 1 /\ Len(slots[n]) = Kids(n)
  BY <1>1 DEF NodeOK
<1>3. ~Opened(n, 1)
  BY <1>2 DEF Opened
<1>4. Fresh(children[n][1])
  BY <1>1, <1>2, <1>3 DEF Calm
<1>5. slots[n][1] = NoResult
  BY <1>1, <1>2, <1>4 DEF NodeOK, SlotsOK, Gone, Fresh
<1> QED
  BY <1>1, <1>2, <1>3, <1>5

\* a deliver that completes a node: its continuation leaves the chain
LEMMA FinalizesKeeps ==
  ASSUME IInv, NEW t \in Threads, NEW n \in Nodes, Finalizes(t, n)
  PROVE  IInv'
<1> USE DEF IInv, Shape
<1>1. PICK f : f = Top(t)
  OBVIOUS
<1>2. PICK p : p = Depth(t)
  OBVIOUS
<1>4. PICK c : c = parent[n]
  OBVIOUS
<1>5. PICK g : g = Firing(c, Finalize(n, slots[n]))
  OBVIOUS
<1>6. /\ InCall(t, n) /\ Complete(n) /\ n \notin finalized /\ Become(t, <<g>>)
      /\ finalized' = finalized \cup {n} /\ parent' = [parent EXCEPT ![n] = NoCont]
      /\ UNCHANGED <<children, queue, slots, closed, arena, root_cell, visits>>
  BY <1>4, <1>5 DEF Finalizes
<1>3. /\ n \in closed /\ visits[n] = 1 /\ Kids(n) \in Nat /\ Len(slots[n]) = Kids(n)
      /\ DOMAIN slots[n] = 1 .. Kids(n)
      /\ \A j \in 1 .. Kids(n) : slots[n][j] # NoResult
  <2>1. n \in closed /\ visits[n] = 1 /\ Len(slots[n]) = Kids(n)
    BY <1>6 DEF Complete, NodesOK, NodeOK
  <2>2. Kids(n) \in Nat /\ DOMAIN slots[n] = 1 .. Kids(n)
    BY <2>1, SeqDomain, TreeShape
  <2> QED
    BY <2>1, <2>2, <1>6 DEF Complete
<1>7. /\ stack[t] # <<>> /\ Pos(t, p) /\ Act(t, p) = f /\ f.op \in {"deliver", "set_total"}
      /\ f.node = n
  BY <1>1, <1>2, <1>6, Running DEF InCall, Runs, Top
<1>8. f.op = "deliver"
  <2>1. SUFFICES ASSUME f.op = "set_total" PROVE FALSE
    BY <1>7
  <2>2. Settling(n)
    BY <1>7, <2>1 DEF Settling
  <2>3. slots[n][1] = NoResult /\ Kids(n) > 1
    BY <2>2, SettlingFirst
  <2> QED
    BY <2>3, <1>3
<1>11. c # NoCont /\ Names(c, n)
  BY <1>3, <1>4, <1>6 DEF NodesOK, NodeOK
<1>12. \A k, a, b : Has(k, a, b, n) <=> k = "parent" /\ a = n /\ b = n
  <2>1. Has("parent", n, n, n)
    BY <1>4, <1>11 DEF Has
  <2> QED
    BY <2>1 DEF OneHas
<1>14. g.op = "fire" /\ g.cont = c
  BY <1>5 DEF Firing
<1>15. /\ Stacks' /\ \A u, d : Pos(u, d)' <=> Pos(u, d)
       /\ Act(t, p)' = g
       /\ \A u, d : Pos(u, d) /\ ~(u = t /\ d = p) => Act(u, d)' = Act(u, d)
  BY <1>2, <1>6, <1>7, BecomeOne
<1>16. /\ parent' \in [Nodes -> Conts] /\ parent'[n] = NoCont
       /\ \A m \in Nodes : m # n => parent'[m] = parent[m]
  BY <1>6, ContsStay
\* who has and who seeks
<1>17. \A k, a, b, m : Seeks(k, a, b, m)' <=> Seeks(k, a, b, m)
  BY <1>6, <1>7, <1>8, <1>14, <1>15 DEF Seeks
<1>18. \A m : Names(c, m)' <=> m = n
  BY <1>6, <1>11, NamesOne DEF Names
<1>20. \A k, a, b, m : m # n => (Has(k, a, b, m)' <=> Has(k, a, b, m))
  <2>1. SUFFICES ASSUME NEW k, NEW a, NEW b, NEW m, m # n
                 PROVE  Has(k, a, b, m)' <=> Has(k, a, b, m)
    OBVIOUS
  <2>2. CASE k = "stack" /\ a = t /\ b = p
    BY <2>1, <2>2, <1>7, <1>8, <1>14, <1>15, <1>18 DEF Has
  <2>3. CASE k = "stack" /\ Pos(a, b) /\ ~(a = t /\ b = p)
    BY <2>3, <1>6, <1>15, SameAct
  <2>4. CASE k # "stack" \/ ~Pos(a, b)
    BY <2>1, <2>4, <1>6, <1>15, <1>16 DEF Has
  <2> QED
    BY <2>2, <2>3, <2>4
<1>22. \A k, a, b : Has(k, a, b, n)' => k = "stack" /\ a = t /\ b = p
  <2>1. SUFFICES ASSUME NEW k, NEW a, NEW b, Has(k, a, b, n)', ~(k = "stack" /\ a = t /\ b = p)
                 PROVE  FALSE
    OBVIOUS
  <2>2. CASE k = "stack" /\ Pos(a, b)
    <3>1. Has(k, a, b, n)
      BY <2>1, <2>2, <1>6, <1>15, SameAct
    <3> QED
      BY <3>1, <2>2, <1>12
  <2>3. CASE k = "stack" /\ ~Pos(a, b)
    BY <2>1, <2>3, <1>15 DEF Has
  <2>4. CASE k = "task" \/ k = "arena"
    <3>1. Has(k, a, b, n)
      BY <2>1, <2>4, <1>6 DEF Has
    <3> QED
      BY <3>1, <2>4, <1>12
  <2>5. CASE k = "parent"
    BY <2>1, <2>5, <1>16 DEF Has
  <2> QED
    BY <2>1, <2>2, <2>3, <2>4, <2>5 DEF Has
<1>23. NoneNew({})
  BY <1>12, <1>17, <1>20 DEF NoneNew
<1>24. Shape'
  <2>1. Conts' = Conts
    BY <1>6, ContsStay
  <2>2. finalized' \subseteq closed'
    BY <1>3, <1>6
  <2> QED
    BY <2>1, <2>2, <1>6, <1>15, <1>16
<1>25. ActsOK'
  <2>1. SUFFICES ASSUME NEW u, NEW d, Pos(u, d)
                 PROVE  ActOK(Act(u, d))'
    BY <1>15 DEF ActsOK
  <2>2. CASE u = t /\ d = p
    BY <2>2, <1>3, <1>6, <1>14, <1>15, <1>18 DEF ActOK
  <2>3. CASE ~(u = t /\ d = p)
    <3>1. PICK h : h = Act(u, d)
      OBVIOUS
    <3>2. ActOK(h) /\ Act(u, d)' = h
      BY <2>1, <2>3, <3>1, <1>15 DEF ActsOK
    <3>3. h.op = "visit" => parent'[h.node] = parent[h.node]
      BY <3>2, <1>3, <1>16 DEF ActOK
    <3> QED
      BY <3>2, <3>3, <1>6 DEF ActOK, Names, Kids
  <2> QED
    BY <2>2, <2>3
<1>26. TasksOK'
  BY <1>6 DEF TasksOK, TaskOK, Names
<1>27. NodesOK'
  <2>1. SUFFICES ASSUME NEW m \in Nodes PROVE NodeOK(m)'
    BY DEF NodesOK
  <2>2. NodeOK(m)
    BY DEF NodesOK
  <2>3. SlotsOK(m)' /\ OnlyOK(m)'
    BY <1>6, <1>23, SlotsStay, OnlyStays DEF Gone
  <2>4. CASE m = n
    BY <1>3, <1>6, <1>16, <2>2, <2>3, <2>4 DEF NodeOK, Names, Kids
  <2>5. CASE m # n
    BY <1>6, <1>16, <2>2, <2>3, <2>5 DEF NodeOK, Names, Kids
  <2> QED
    BY <2>4, <2>5
<1>28. OneSeeks'
  BY <1>17 DEF OneSeeks
<1>29. OneHas'
  BY <1>20, <1>22 DEF OneHas
<1>30. Calm'
  <2>1. \A m : Settling(m)' => Settling(m)
    BY <1>14, <1>15 DEF Settling
  <2>2. VisitsGoOn
    BY <1>7, <1>8, <1>15 DEF VisitsGoOn
  <2>3. \A m \in Nodes : Fresh(m) => visits'[m] = 0 /\ slots'[m] = <<>>
    BY <1>6 DEF Fresh
  <2> QED
    BY <1>6, <1>23, <2>1, <2>2, <2>3, CalmStays
<1>31. RootOK'
  BY <1>6, <1>23, RootStays DEF Gone
<1> QED
  BY <1>24, <1>25, <1>26, <1>27, <1>28, <1>29, <1>30, <1>31

\* deliver returns None: the activation ends
LEMMA DeliverLeavesKeeps ==
  ASSUME IInv, NEW t \in Threads, Runs(t, "deliver"), Become(t, <<>>),
         UNCHANGED <<children, queue, slots, closed, finalized, parent, arena, root_cell, visits>>
  PROVE  IInv'
<1> USE DEF IInv, Shape
<1>1. PICK f : f = Top(t)
  OBVIOUS
<1>2. PICK p : p = Depth(t)
  OBVIOUS
<1>3. stack[t] # <<>> /\ Pos(t, p) /\ Act(t, p) = f /\ f.op = "deliver"
  BY <1>1, <1>2, Running DEF Runs, Top
<1>4. /\ Stacks' /\ \A u, d : Pos(u, d)' <=> Pos(u, d) /\ ~(u = t /\ d = p)
      /\ \A u, d : Pos(u, d) /\ ~(u = t /\ d = p) => Act(u, d)' = Act(u, d)
  BY <1>2, <1>3, BecomeNone
<1>5. \A k, a, b, m : /\ Has(k, a, b, m)' <=> Has(k, a, b, m)
                      /\ Seeks(k, a, b, m)' <=> Seeks(k, a, b, m)
  <2>1. SUFFICES ASSUME NEW k, NEW a, NEW b, NEW m
                 PROVE  /\ Has(k, a, b, m)' <=> Has(k, a, b, m)
                        /\ Seeks(k, a, b, m)' <=> Seeks(k, a, b, m)
    OBVIOUS
  <2>2. CASE k = "stack" /\ a = t /\ b = p
    BY <2>2, <1>3, <1>4 DEF Has, Seeks
  <2>3. CASE k = "stack" /\ Pos(a, b) /\ ~(a = t /\ b = p)
    BY <2>3, <1>4, SameAct
  <2>4. CASE k # "stack" \/ ~Pos(a, b)
    BY <2>4, <1>4 DEF Has, Seeks
  <2> QED
    BY <2>2, <2>3, <2>4
<1>6. NoneNew({})
  BY <1>5 DEF NoneNew
<1>7. Shape'
  <2>1. Conts' = Conts
    BY ContsStay
  <2> QED
    BY <2>1, <1>4
<1>8. ActsOK'
  BY <1>4 DEF ActsOK, ActOK, Names, Kids
<1>9. TasksOK'
  BY DEF TasksOK, TaskOK, Names
<1>10. NodesOK'
  <2>1. SUFFICES ASSUME NEW m \in Nodes PROVE NodeOK(m)'
    BY DEF NodesOK
  <2>2. NodeOK(m)
    BY DEF NodesOK
  <2>3. SlotsOK(m)' /\ OnlyOK(m)'
    BY <1>6, SlotsStay, OnlyStays DEF Gone
  <2> QED
    BY <2>2, <2>3 DEF NodeOK, Names, Kids
<1>11. OneSeeks' /\ OneHas'
  BY <1>5 DEF OneSeeks, OneHas
<1>12. Calm'
  <2>1. \A m : Settling(m)' => Settling(m)
    BY <1>4 DEF Settling
  <2>2. VisitsGoOn
    BY <1>3, <1>4 DEF VisitsGoOn
  <2>3. \A m \in Nodes : Fresh(m) => visits'[m] = 0 /\ slots'[m] = <<>>
    BY DEF Fresh
  <2> QED
    BY <1>6, <2>1, <2>2, <2>3, CalmStays
<1>13. RootOK'
  BY <1>6, RootStays DEF Gone
<1> QED
  BY <1>7, <1>8, <1>9, <1>10, <1>11, <1>12, <1>13

\* set_total returns None: the walk goes into the first child
LEMMA SetTotalLeavesKeeps ==
  ASSUME IInv, NEW t \in Threads, NEW n \in Nodes, Runs(t, "set_total"), Top(t).node = n,
         Become(t, <<Visiting(children[n][1], SlotOf(n, 1), 0)>>),
         UNCHANGED <<children, queue, slots, closed, finalized, parent, arena, root_cell, visits>>
  PROVE  IInv'
<1> USE DEF IInv, Shape
<1>1. PICK f : f = Top(t)
  OBVIOUS
<1>2. PICK p : p = Depth(t)
  OBVIOUS
<1>3. PICK y : y = children[n][1]
  OBVIOUS
<1>4. PICK g : g = Visiting(y, Slot(n, 1), 0)
  OBVIOUS
<1>5. /\ stack[t] # <<>> /\ Pos(t, p) /\ Act(t, p) = f /\ f.op = "set_total" /\ f.node = n
      /\ Become(t, <<g>>)
  BY <1>1, <1>2, <1>3, <1>4, Running DEF Runs, Top, SlotOf
<1>6. visits[n] = 1 /\ Kids(n) > 1 /\ Kids(n) \in Nat /\ ~Opened(n, 1)
  <2>1. Settling(n)
    BY <1>5 DEF Settling
  <2> QED
    BY <2>1, SettlingFirst
<1>7. /\ Fresh(y) /\ y \in Nodes /\ y # Root /\ visits[y] = 0 /\ slots[y] = <<>>
      /\ y # n /\ Names(Slot(n, 1), y)
  <2>1. Fresh(y) /\ y \in Nodes /\ y # Root /\ visits[y] = 0 /\ slots[y] = <<>>
    BY <1>3, <1>6, FreshChild
  <2>2. Names(Slot(n, 1), y)
    <3>1. Kids(n) # 1 /\ 1 \in 1 .. Kids(n)
      BY <1>6
    <3> QED
      BY <3>1, <1>3 DEF Names, NamesIn, Kids
  <2> QED
    BY <2>1, <2>2, <1>6
<1>8. g.op = "visit" /\ g.node = y /\ g.cont = Slot(n, 1) /\ g.next = 0
  BY <1>4 DEF Visiting
<1>9. /\ Stacks' /\ \A u, d : Pos(u, d)' <=> Pos(u, d)
      /\ Act(t, p)' = g
      /\ \A u, d : Pos(u, d) /\ ~(u = t /\ d = p) => Act(u, d)' = Act(u, d)
  BY <1>2, <1>5, BecomeOne
<1>10. \A k, a, b : Seeks(k, a, b, n) <=> k = "stack" /\ a = t /\ b = p
  <2>1. Seeks("stack", t, p, n)
    BY <1>5 DEF Seeks
  <2> QED
    BY <2>1 DEF OneSeeks
\* who has and who seeks
<1>11. ASSUME NEW k, NEW a, NEW b, NEW m, ~(k = "stack" /\ a = t /\ b = p)
       PROVE  /\ Has(k, a, b, m)' <=> Has(k, a, b, m)
              /\ Seeks(k, a, b, m)' <=> Seeks(k, a, b, m)
  <2>1. CASE k = "stack" /\ Pos(a, b)
    BY <1>11, <2>1, <1>9, SameAct
  <2>2. CASE k # "stack" \/ ~Pos(a, b)
    BY <1>11, <2>2, <1>9 DEF Has, Seeks
  <2> QED
    BY <2>1, <2>2
<1>12. \A m : /\ Has("stack", t, p, m)' <=> m = y
              /\ Seeks("stack", t, p, m)' <=> m = y
              /\ ~Has("stack", t, p, m)
              /\ Seeks("stack", t, p, m) <=> m = n
  BY <1>5, <1>8, <1>9 DEF Has, Seeks
<1>13. \A k, a, b : ~Has(k, a, b, y) /\ ~Seeks(k, a, b, y)
  BY <1>7 DEF Fresh
<1>14. NoneNew({y})
  BY <1>11, <1>12 DEF NoneNew
<1>15. Shape'
  <2>1. Conts' = Conts
    BY ContsStay
  <2> QED
    BY <2>1, <1>9
<1>16. ActsOK'
  <2>1. SUFFICES ASSUME NEW u, NEW d, Pos(u, d)
                 PROVE  ActOK(Act(u, d))'
    BY <1>9 DEF ActsOK
  <2>2. CASE u = t /\ d = p
    <3>1. Kids(y) \in Nat
      BY <1>7, TreeShape
    <3> QED
      BY <2>2, <3>1, <1>4, <1>7, <1>8, <1>9 DEF ActOK, Names, Kids
  <2>3. CASE ~(u = t /\ d = p)
    BY <2>1, <2>3, <1>9 DEF ActsOK, ActOK, Names, Kids
  <2> QED
    BY <2>2, <2>3
<1>17. TasksOK'
  BY DEF TasksOK, TaskOK, Names
<1>18. \A m \in Nodes : Gone(m) => visits'[m] = 1 /\ m # y
  BY <1>7 DEF Gone
<1>19. \A m \in Nodes : \A j \in 1 .. Kids(m) : children[m][j] = y => m = n /\ j = 1
  <2>1. 1 \in 1 .. Kids(n) /\ y = children[n][1]
    BY <1>3, <1>6
  <2> QED
    BY <2>1, PlaceOfChild
<1>20. NodesOK'
  <2>1. SUFFICES ASSUME NEW m \in Nodes PROVE NodeOK(m)'
    BY DEF NodesOK
  <2>2. NodeOK(m)
    BY DEF NodesOK
  <2>3. SlotsOK(m)'
    BY <1>14, <1>18, SlotsStay
  <2>4. OnlyOK(m)'
    BY <1>6, <1>14, <1>19, OnlyStays
  <2> QED
    BY <2>2, <2>3, <2>4 DEF NodeOK, Names, Kids
<1>21. OneSeeks'
  BY <1>11, <1>12, <1>13 DEF OneSeeks
<1>22. OneHas'
  BY <1>11, <1>12, <1>13 DEF OneHas
<1>23. Calm'
  <2>1. ~Settling(n)'
    <3>1. SUFFICES ASSUME NEW u, NEW d, Pos(u, d)', Act(u, d).op' = "set_total",
                          Act(u, d).node' = n
                   PROVE  FALSE
      BY DEF Settling
    <3>2. Seeks("stack", u, d, n)'
      BY <3>1 DEF Seeks
    <3>3. u = t /\ d = p
      BY <3>2, <1>10, <1>11
    <3> QED
      BY <3>2, <3>3, <1>7, <1>12
  <2>2. \A m : Settling(m)' => Settling(m)
    BY <1>8, <1>9 DEF Settling
  <2>3. VisitsGoOn
    BY <1>5, <1>9 DEF VisitsGoOn
  <2>4. \A m \in Nodes : Fresh(m) => visits'[m] = 0 /\ slots'[m] = <<>>
    BY DEF Fresh
  <2>5. Opened(n, 1)'
    BY <2>1, <1>6 DEF Opened
  <2> QED
    BY <1>14, <1>19, <2>2, <2>3, <2>4, <2>5, CalmStays
<1>24. RootOK'
  BY <1>7, <1>14, <1>18, RootStays, WalkAssumption
<1> QED
  BY <1>15, <1>16, <1>17, <1>20, <1>21, <1>22, <1>23, <1>24

\* a call of a chain that returns None
LEMMA LeavesKeeps ==
  ASSUME IInv, NEW t \in Threads, NEW n \in Nodes, Leaves(t, n)
  PROVE  IInv'
<1>1. /\ UNCHANGED <<children, queue, slots, closed, finalized, parent, arena, root_cell, visits>>
      /\ InCall(t, n)
      /\ \/ Runs(t, "deliver") /\ Become(t, <<>>)
         \/ Runs(t, "set_total") /\ Become(t, <<Visiting(children[n][1], SlotOf(n, 1), 0)>>)
  BY DEF Leaves, nodeVars
<1>2. Runs(t, "set_total") => Top(t).node = n
  BY <1>1 DEF InCall, Runs
<1> QED
  BY <1>1, <1>2, DeliverLeavesKeeps, SetTotalLeavesKeeps

-----------------------------------------------------------------------------
(* The invariant holds. *)

\* the start: the root's visit and nothing else
LEMMA InitHolds ==
  ASSUME Init
  PROVE  IInv
<1> USE DEF Init
<1>1. /\ \A n \in Nodes : slots[n] = <<>> /\ parent[n] = NoCont /\ arena[n] = NoCont /\ visits[n] = 0
      /\ closed = {} /\ finalized = {} /\ \A u \in Threads : queue[u] = {}
      /\ Root \in Nodes /\ Caller \in Threads /\ Capacity \in Nat
  BY WalkAssumption
<1>2. PICK f : f = Visiting(Root, RootCont, 0)
  OBVIOUS
<1>3. f.op = "visit" /\ f.node = Root /\ f.cont = RootCont /\ f.next = 0
  BY <1>2 DEF Visiting
<1>4. Stacks /\ (\A u, d : Pos(u, d) <=> u = Caller /\ d = 1) /\ Act(Caller, 1) = f
  <2>1. PICK s : s = <<f>>
    OBVIOUS
  <2>2. s \in Seq({f}) /\ DOMAIN s = {1} /\ s[1] = f
    BY <2>1
  <2>3. PICK e : e = <<>>
    OBVIOUS
  <2>4. e \in Seq({}) /\ DOMAIN e = {}
    BY <2>3
  <2>5. /\ DOMAIN stack = Threads
        /\ \A u \in Threads : stack[u] = IF u = Caller THEN s ELSE e
    BY <1>2, <2>1, <2>3
  <2>6. IsSeq(s) /\ IsSeq(e)
    BY <2>2, <2>4 DEF IsSeq
  <2> QED
    BY <1>1, <2>2, <2>4, <2>5, <2>6 DEF Stacks, Pos, Act
<1>5. Names(RootCont, Root) /\ \A m : Names(RootCont, m) => m = Root
  BY NamesOne DEF Names, NamesIn
<1>6. \A k, a, b, m : /\ Seeks(k, a, b, m) => k = "stack" /\ a = Caller /\ b = 1 /\ m = Root
                      /\ Has(k, a, b, m) => k = "stack" /\ a = Caller /\ b = 1 /\ m = Root
  BY <1>1, <1>3, <1>4 DEF Seeks, Has
<1>7. Shape
  <2>1. \A u \in Threads : IsFiniteSet(queue[u]) /\ Cardinality(queue[u]) <= Capacity
    BY <1>1, FS_EmptySet
  <2>2. IsSeq(<<>>)
    <3>1. <<>> \in Seq({})
      OBVIOUS
    <3> QED
      BY <3>1 DEF IsSeq
  <2> QED
    BY <1>1, <1>4, <2>1, <2>2 DEF Shape, Conts
<1>8. ActsOK
  <2>1. Kids(Root) \in Nat
    BY <1>1, TreeShape
  <2> QED
    BY <2>1, <1>1, <1>2, <1>3, <1>4, <1>5 DEF ActsOK, ActOK
<1>9. TasksOK
  BY <1>1 DEF TasksOK
<1>10. NodesOK
  <2>1. SUFFICES ASSUME NEW n \in Nodes PROVE NodeOK(n)
    BY DEF NodesOK
  <2>2. Kids(n) \in Nat /\ \A j \in 1 .. Kids(n) : children[n][j] # Root
    BY TreeShape
  <2>3. Len(slots[n]) = 0
    BY <1>1
  <2>4. SlotsOK(n) /\ OnlyOK(n)
    BY <1>6, <2>2, <2>3 DEF SlotsOK, OnlyOK
  <2> QED
    BY <1>1, <2>2, <2>3, <2>4 DEF NodeOK
<1>11. OneSeeks /\ OneHas
  BY <1>6 DEF OneSeeks, OneHas
<1>12. Calm
  <2>1. SUFFICES ASSUME NEW n \in Nodes, NEW j \in 1 .. Kids(n)
                 PROVE  Fresh(children[n][j])
    BY DEF Calm
  <2>2. children[n][j] \in Nodes \ {Root}
    BY TreeShape
  <2> QED
    BY <2>2, <1>1, <1>6 DEF Fresh
<1>13. RootOK
  BY DEF RootOK
<1> QED
  BY <1>7, <1>8, <1>9, <1>10, <1>11, <1>12, <1>13 DEF IInv

\* nothing changes
LEMMA StutterKeeps ==
  ASSUME IInv, UNCHANGED vars
  PROVE  IInv'
<1> USE DEF vars, nodeVars
<1>1. \A k, a, b, m : /\ Has(k, a, b, m)' <=> Has(k, a, b, m)
                      /\ Seeks(k, a, b, m)' <=> Seeks(k, a, b, m)
  BY DEF Has, Seeks, Names, Pos, Act
<1>2. Shape' /\ ActsOK' /\ TasksOK'
  BY DEF IInv, Shape, Stacks, Conts, ActsOK, ActOK, TasksOK, TaskOK, Names, Kids, Pos, Act
<1>3. NodesOK'
  <2>1. \A n \in Nodes : SlotsOK(n) /\ OnlyOK(n)
    BY DEF IInv, NodesOK, NodeOK
  <2>2. \A m : Gone(m)' <=> Gone(m)
    BY <1>1 DEF Gone
  <2>3. ASSUME NEW n \in Nodes PROVE SlotsOK(n)' /\ OnlyOK(n)'
    <3>1. SlotsOK(n)'
      BY <2>1, <2>2 DEF SlotsOK, Gone
    <3>2. OnlyOK(n)'
      <4>1. PICK x : x = children[n][1]
        OBVIOUS
      <4>2. \A k, a, b : Has(k, a, b, x)' <=> Has(k, a, b, x)
        BY <1>1
      <4>3. Kids(n) = 1 => arena[n] # NoCont \/ \A k, a, b : ~Has(k, a, b, x)
        BY <2>1, <4>1 DEF OnlyOK
      <4>4. Kids(n) = 1 => arena'[n] # NoCont \/ \A k, a, b : ~Has(k, a, b, x)'
        BY <4>2, <4>3
      <4> QED
        BY <4>1, <4>4 DEF OnlyOK, Has, Kids
    <3> QED
      BY <3>1, <3>2
  <2> QED
    BY <2>3 DEF IInv, NodesOK, NodeOK, Names, Kids
<1>4. OneSeeks' /\ OneHas'
  BY <1>1 DEF IInv, OneSeeks, OneHas
<1>5. Calm'
  <2>1. NoneNew({}) /\ VisitsGoOn
    BY <1>1 DEF NoneNew, VisitsGoOn, Pos, Act
  <2>2. \A m : Settling(m)' => Settling(m)
    BY DEF Settling, Pos, Act
  <2> QED
    BY <2>1, <2>2, CalmStays DEF Fresh
<1>6. RootOK'
  BY <1>1 DEF IInv, RootOK, Gone
<1> QED
  BY <1>2, <1>3, <1>4, <1>5, <1>6 DEF IInv

\* every step keeps the invariant
LEMMA StepKeeps ==
  ASSUME IInv, [Next]_vars
  PROVE  IInv'
<1>1. CASE UNCHANGED vars
  BY <1>1, StutterKeeps
<1>2. CASE Terminated
  BY <1>2, StutterKeeps DEF Terminated
<1>3. ASSUME NEW t \in Threads, Acquire(t) PROVE IInv'
  BY <1>3, AcquireKeeps
<1>4. ASSUME NEW t \in Threads, Walk(t) PROVE IInv'
  BY <1>4, FirstChildKeeps, NextChildKeeps, LeafKeeps, OnlyChildKeeps, SetTotalKeeps,
     FireRootKeeps, FireDirectKeeps, FireSlotKeeps, FinalizesKeeps, LeavesKeeps DEF Walk
<1> QED
  BY <1>1, <1>2, <1>3, <1>4 DEF Next

(* At every time each node's duty and each node's continuation is in one place *)
(* at most, and slots, chains, arena cells and counters agree with where they *)
(* are: the invariant from which the other theorems follow.                   *)
THEOREM WalkInvariant == Spec => []IInv
BY InitHolds, StepKeeps, PTL DEF Spec

-----------------------------------------------------------------------------
(* What follows from it. *)

\* types
LEMMA InvTypes ==
  ASSUME IInv
  PROVE  TypeOK
<1> USE DEF IInv, Shape
<1>1. \A t \in Threads : queue[t] \subseteq [child : Nodes, cont : Conts]
  <2>1. SUFFICES ASSUME NEW t \in Threads, NEW k \in queue[t]
                 PROVE  k \in [child : Nodes, cont : Conts]
    OBVIOUS
  <2>2. k = Task(k.child, k.cont) /\ k.child \in Nodes /\ k.cont \in Conts
    BY NamesKinds DEF TasksOK, TaskOK
  <2> QED
    BY <2>2 DEF Task
<1>2. ASSUME NEW t \in Threads, NEW d \in DOMAIN stack[t]
      PROVE  \/ stack[t][d] \in Frames
             \/ stack[t][d].op = "fire" /\ stack[t][d].cont \in Conts \ {NoCont}
  <2>1. PICK f : f = stack[t][d]
    OBVIOUS
  <2>2. ActOK(f)
    BY <1>2, <2>1 DEF ActsOK, Pos, Act
  <2>3. CASE f.op = "visit"
    <3>1. f = Visiting(f.node, f.cont, f.next) /\ f.node \in Nodes /\ f.next \in 0 .. Kids(f.node)
      BY <2>2, <2>3 DEF ActOK
    <3>2. f.cont \in Conts
      BY <2>2, <2>3, <3>1, NamesKinds, TreeShape DEF ActOK, Conts
    <3>3. f \in [op : {"visit"}, node : {f.node}, cont : Conts, next : 0 .. Len(children[f.node])]
      BY <3>1, <3>2 DEF Visiting, Kids
    <3>4. [op : {"visit"}, node : {f.node}, cont : Conts, next : 0 .. Len(children[f.node])]
            \in {[op : {"visit"}, node : {n}, cont : Conts, next : 0 .. Len(children[n])] :
                  n \in Nodes}
      BY <3>1
    <3>5. f \in Visits
      BY ONLY <3>3, <3>4 DEF Visits
    <3>6. f \in Frames
      BY ONLY <3>5 DEF Frames
    <3>7. stack[t][d] \in Frames
      BY ONLY <2>1, <3>6
    <3> QED
      BY <3>7
  <2>4. CASE f.op \in {"set_total", "deliver"}
    <3>1. /\ f = SettingTotal(f.node) \/ f = Delivering(f.node)
          /\ f.node \in Nodes
      BY <2>2, <2>4 DEF ActOK
    <3>2. f \in [op : {"deliver", "set_total"}, node : Nodes]
      BY <3>1 DEF SettingTotal, Delivering
    <3>3. f \in Frames
      BY ONLY <3>2 DEF Frames
    <3> QED
      BY <2>1, <3>3
  <2>5. CASE f.op = "fire"
    BY <2>1, <2>2, <2>5, NamesKinds DEF ActOK
  <2> QED
    BY <2>2, <2>3, <2>4, <2>5 DEF ActOK
<1>3. \A n \in Nodes : Len(slots[n]) <= Len(children[n])
  BY DEF NodesOK, NodeOK, Kids
<1> QED
  BY <1>1, <1>2, <1>3 DEF TypeOK

\* where the continuation of a place is
At(k, a, b) == IF k \in {"task", "stack"} THEN <<k, a, b>> ELSE <<k, a>>

\* what is in a place is the continuation of a node that is there
LEMMA PlaceHas ==
  ASSUME IInv, NEW p \in Places, Held(p) # NoCont
  PROVE  \E k, a, b, n : Has(k, a, b, n) /\ Names(Held(p), n) /\ p = At(k, a, b)
<1> USE DEF IInv, Shape
<1>1. ASSUME NEW t \in Threads, NEW k \in queue[t], p = <<"task", t, k>>
      PROVE  Has("task", t, k, k.child) /\ Names(Held(p), k.child) /\ p = At("task", t, k)
  BY <1>1 DEF TasksOK, TaskOK, Has, Held, At
<1>2. ASSUME NEW t \in Threads, NEW d \in DOMAIN stack[t], stack[t][d].op \in {"visit", "fire"},
             p = <<"stack", t, d>>
      PROVE  \E n : Has("stack", t, d, n) /\ Names(Held(p), n) /\ p = At("stack", t, d)
  <2>1. PICK f : f = stack[t][d]
    OBVIOUS
  <2>2. Pos(t, d) /\ Act(t, d) = f /\ ActOK(f) /\ Held(p) = f.cont /\ p = At("stack", t, d)
    BY <1>2, <2>1 DEF ActsOK, Pos, Act, Held, At
  <2>3. CASE f.op = "visit"
    <3>1. f.next < 2 /\ Names(f.cont, f.node)
      BY <2>2, <2>3, TreeShape DEF ActOK
    <3> QED
      BY <2>2, <2>3, <3>1 DEF Has
  <2>4. CASE f.op = "fire"
    BY <2>2, <2>4 DEF ActOK, Has
  <2> QED
    BY <1>2, <2>1, <2>3, <2>4
<1>3. ASSUME NEW n \in Nodes, p = <<"parent", n>>
      PROVE  Has("parent", n, n, n) /\ Names(Held(p), n) /\ p = At("parent", n, n)
  BY <1>3 DEF NodesOK, NodeOK, Has, Held, At
<1>4. ASSUME NEW n \in Nodes, p = <<"arena", n>>
      PROVE  Has("arena", n, n, n) /\ Names(Held(p), n) /\ p = At("arena", n, n)
  BY <1>4 DEF NodesOK, NodeOK, Has, Held, At
<1>5. \/ \E t \in Threads : \E k \in queue[t] : p = <<"task", t, k>>
      \/ \E t \in Threads : \E d \in DOMAIN stack[t] :
           stack[t][d].op \in {"visit", "fire"} /\ p = <<"stack", t, d>>
      \/ \E n \in Nodes : p = <<"parent", n>> \/ p = <<"arena", n>>
  <2>1. p \in TaskPlaces \/ p \in StackPlaces \/ p \in {"parent", "arena"} \X Nodes
    BY DEF Places
  <2>2. CASE p \in TaskPlaces
    <3>1. PICK Q \in {{<<"task", t, task>> : task \in queue[t]} : t \in Threads} : p \in Q
      BY <2>2 DEF TaskPlaces
    <3> QED
      BY <3>1
  <2>3. CASE p \in StackPlaces
    <3>1. PICK Q \in {{<<"stack", t, d>> : d \in {e \in DOMAIN stack[t] :
                                               stack[t][e].op \in {"visit", "fire"}}} :
                      t \in Threads} : p \in Q
      BY <2>3 DEF StackPlaces
    <3> QED
      BY <3>1
  <2>4. CASE p \in {"parent", "arena"} \X Nodes
    BY <2>4
  <2> QED
    BY <2>1, <2>2, <2>3, <2>4
<1> QED
  BY <1>1, <1>2, <1>3, <1>4, <1>5

\* linearity
LEMMA InvLinear ==
  ASSUME IInv
  PROVE  LinearConts
<1> USE DEF IInv, Shape
<1>1. ASSUME NEW p \in Places, NEW q \in Places, Held(p) = Held(q), Held(p) # NoCont
      PROVE  p = q
  <2>1. PICK k, a, b, n : Has(k, a, b, n) /\ Names(Held(p), n) /\ p = At(k, a, b)
    BY <1>1, PlaceHas
  <2>2. PICK l, c, d, m : Has(l, c, d, m) /\ Names(Held(q), m) /\ q = At(l, c, d)
    BY <1>1, PlaceHas
  <2>3. n = m
    BY <1>1, <2>1, <2>2, NamesOne
  <2>4. k = l /\ a = c /\ b = d
    BY <2>1, <2>2, <2>3 DEF OneHas
  <2> QED
    BY <2>1, <2>2, <2>4
<1>2. ASSUME NEW p \in Places, Held(p).kind = "slot"
      PROVE  slots[Held(p).node][Held(p).slot] = NoResult
  <2>1. Held(p) # NoCont
    BY <1>2 DEF NoCont
  <2>2. PICK k, a, b, n : Has(k, a, b, n) /\ Names(Held(p), n) /\ p = At(k, a, b)
    BY <2>1, PlaceHas
  <2>3. PICK m : m = Held(p).node
    OBVIOUS
  <2>4. PICK i : i = Held(p).slot
    OBVIOUS
  <2>5. m \in Nodes /\ Kids(m) > 1 /\ i \in 1 .. Kids(m) /\ n = children[m][i]
    BY <1>2, <2>2, <2>3, <2>4, NamesKinds
  <2>6. slots[m][i] = NoResult
    BY <2>2, <2>5, SlotThere
  <2> QED
    BY <2>3, <2>4, <2>6
<1>3. \A n \in Nodes : visits[n] <= 1
  BY DEF NodesOK, NodeOK
<1> QED
  BY <1>1, <1>2, <1>3 DEF LinearConts

\* when the root is over with, so is every node
LEMMA AllGone ==
  ASSUME IInv, Gone(Root), NEW n, NEW k, NEW a, NEW b
  PROVE  ~Has(k, a, b, n)
<1> DEFINE U == {m \in Nodes : \E l, c, d : Has(l, c, d, m)}
<1>1. SUFFICES ASSUME Has(k, a, b, n) PROVE FALSE
  OBVIOUS
<1>2. U \in SUBSET Nodes /\ U # {}
  BY <1>1, HasNodes
<1>3. ASSUME NEW m \in U
      PROVE  m = Root \/ \E l \in U : \E i \in 1 .. Kids(l) : children[l][i] = m
  <2>1. PICK l, c, d : Has(l, c, d, m)
    OBVIOUS
  <2>2. PICK e : Names(e, m)
    BY <2>1, HasNodes
  <2>3. CASE m # Root
    <3>1. PICK x \in Nodes : \E i \in 1 .. Kids(x) : children[x][i] = m
      BY <2>2, <2>3 DEF Names, NamesIn, Kids
    <3>2. \E l1, c1, d1 : Has(l1, c1, d1, x)
      BY <2>1, <3>1, ParentHas
    <3> QED
      BY <3>1, <3>2
  <2> QED
    BY <2>3
<1>4. Root \notin U
  BY DEF Gone
<1> HIDE DEF U
<1>5. Root \in U
  BY <1>2, <1>3, UpToRoot DEF IInv, Shape
<1> QED
  BY <1>4, <1>5

\* nothing is left
LEMMA InvNothingLeft ==
  ASSUME IInv
  PROVE  NothingLeft
<1> USE DEF IInv, Shape
<1>1. SUFFICES ASSUME root_cell # NoAnswer
               PROVE  /\ \A t \in Threads :
                           /\ queue[t] = {}
                           /\ \A d \in DOMAIN stack[t] : stack[t][d].op = "deliver"
                      /\ \A n \in Nodes : parent[n] = NoCont /\ arena[n] = NoCont
  BY DEF NothingLeft
<1>2. \A k, a, b, n : ~Has(k, a, b, n)
  BY <1>1, AllGone DEF RootOK
<1>3. \A n \in Nodes : parent[n] = NoCont /\ arena[n] = NoCont
  BY <1>2 DEF Has
<1>4. ASSUME NEW t \in Threads PROVE queue[t] = {}
  BY <1>2 DEF Has
<1>5. ASSUME NEW t \in Threads, NEW d \in DOMAIN stack[t]
      PROVE  stack[t][d].op = "deliver"
  <2>1. PICK f : f = stack[t][d]
    OBVIOUS
  <2>2. Pos(t, d) /\ Act(t, d) = f /\ ActOK(f)
    BY <2>1 DEF ActsOK, Pos, Act
  <2>3. f.op # "visit"
    <3>1. SUFFICES ASSUME f.op = "visit" PROVE FALSE
      OBVIOUS
    <3>2. f.next < 2
      BY <2>2, <3>1, <1>3, TreeShape DEF ActOK
    <3>3. Has("stack", t, d, f.node)
      BY <2>2, <3>1, <3>2 DEF Has
    <3> QED
      BY <3>3, <1>2
  <2>4. f.op # "fire"
    <3>1. SUFFICES ASSUME f.op = "fire" PROVE FALSE
      OBVIOUS
    <3>2. PICK n : Names(f.cont, n)
      BY <2>2, <3>1 DEF ActOK
    <3>3. Has("stack", t, d, n)
      BY <2>2, <3>1, <3>2 DEF Has
    <3> QED
      BY <3>3, <1>2
  <2>5. f.op # "set_total"
    <3>1. SUFFICES ASSUME f.op = "set_total" PROVE FALSE
      OBVIOUS
    <3>2. f.node \in Nodes /\ Settling(f.node)
      BY <2>2, <3>1 DEF ActOK, Settling
    <3>3. f.node \in closed /\ slots[f.node][1] = NoResult /\ Kids(f.node) > 1
          /\ Kids(f.node) \in Nat
      BY <3>2, SettlingFirst
    <3>4. f.node \notin finalized
      BY <3>2, <3>3 DEF NodesOK, NodeOK
    <3>5. parent[f.node] # NoCont
      BY <3>2, <3>3, <3>4 DEF NodesOK, NodeOK
    <3> QED
      BY <3>2, <3>5, <1>3
  <2> QED
    BY <2>1, <2>2, <2>3, <2>4, <2>5 DEF ActOK
<1> QED
  BY <1>3, <1>4, <1>5

(* Activations, tasks and continuations stay well-formed, and a queue never    *)
(* holds more tasks than fit (walk_cps, fire_cont, push_task).                 *)
THEOREM TypeCorrect == Spec => []TypeOK
BY WalkInvariant, InvTypes, PTL

(* A continuation is in one task, one activation, one node or one cell of the  *)
(* arena, the slot it leads to is empty, and no node is visited twice: what    *)
(* the SAFETY comments of fire_cont and take_parent_cont rest on.              *)
THEOREM ContinuationsAreLinear == Spec => []LinearConts
BY WalkInvariant, InvLinear, PTL

(* When the root cell is set no task is queued, nothing is left to visit or    *)
(* fire, and the chains and the arena have given every continuation back, so   *)
(* run_fold may drop them unseen.                                              *)
THEOREM NothingIsLeft == Spec => []NothingLeft
BY WalkInvariant, InvNothingLeft, PTL

-----------------------------------------------------------------------------
(* What the plain recursion computes. It is defined on every node, because the  *)
(* recursion ends: functions that solve its equation on some nodes and all that *)
(* is below them agree where they meet, and together solve it on all nodes.     *)

\* the result of a node from those of its children
Result(tree, g, n) == Promise!Finalize(n, [i \in 1 .. Len(tree[n]) |-> g[tree[n][i]]])
FoldOf(tree) == CHOOSE g : g = [n \in Nodes |-> Result(tree, g, n)]

Solves(tree, g) ==
  /\ DOMAIN g \subseteq Nodes
  /\ \A n \in DOMAIN g : /\ \A i \in 1 .. Len(tree[n]) : tree[n][i] \in DOMAIN g
                         /\ g[n] = Result(tree, g, n)

\* a result depends on the children's
LEMMA SameResult ==
  ASSUME NEW tree, NEW g, NEW h, NEW n,
         \A i \in 1 .. Len(tree[n]) : g[tree[n][i]] = h[tree[n][i]]
  PROVE  Result(tree, g, n) = Result(tree, h, n)
BY DEF Result, Promise!Finalize

\* solutions agree where they meet
LEMMA SolutionsAgree ==
  ASSUME NEW tree \in Trees, NEW g, NEW h, Solves(tree, g), Solves(tree, h),
         NEW n \in DOMAIN g \cap DOMAIN h
  PROVE  g[n] = h[n]
<1> DEFINE U == {m \in DOMAIN g \cap DOMAIN h : g[m] # h[m]}
<1>1. SUFFICES ASSUME U # {} PROVE FALSE
  OBVIOUS
<1>2. U \in (SUBSET Nodes) \ {{}} /\ DownEnds(tree) /\ tree \in [Nodes -> Seq(Nodes)]
  BY <1>1, TreeAssumption DEF Solves
<1>3. PICK m \in U : \A i \in DOMAIN tree[m] : tree[m][i] \notin U
  BY <1>2 DEF DownEnds
<1>4. m \in Nodes /\ m \in DOMAIN g /\ m \in DOMAIN h /\ g[m] # h[m]
  BY <1>3 DEF Solves
<1>5. DOMAIN tree[m] = 1 .. Len(tree[m])
  BY <1>2, <1>4
<1>6. \A i \in 1 .. Len(tree[m]) : g[tree[m][i]] = h[tree[m][i]]
  BY <1>3, <1>4, <1>5 DEF Solves
<1>7. Result(tree, g, m) = Result(tree, h, m)
  BY <1>6, SameResult
<1> QED
  BY <1>4, <1>7 DEF Solves

\* the recursion solves its equation on all nodes
LEMMA FoldEquation ==
  ASSUME NEW tree \in Trees
  PROVE  \A n \in Nodes : FoldOf(tree)[n] = Result(tree, FoldOf(tree), n)
<1> DEFINE G == {n \in Nodes : \E g : Solves(tree, g) /\ n \in DOMAIN g}
           W(n) == CHOOSE g : Solves(tree, g) /\ n \in DOMAIN g
           h == [n \in G |-> W(n)[n]]
<1>1. \A n \in G : Solves(tree, W(n)) /\ n \in DOMAIN W(n)
  OBVIOUS
<1>2. \A n \in G : \A i \in 1 .. Len(tree[n]) :
         tree[n][i] \in DOMAIN W(n) /\ tree[n][i] \in G
  BY <1>1 DEF Solves
<1>3. DOMAIN h = G /\ \A n \in G : h[n] = W(n)[n]
  OBVIOUS
<1> HIDE DEF W, h
<1>4. ASSUME NEW n \in G
      PROVE  h[n] = Result(tree, h, n)
  <2>1. \A i \in 1 .. Len(tree[n]) : W(n)[tree[n][i]] = h[tree[n][i]]
    <3>1. SUFFICES ASSUME NEW i \in 1 .. Len(tree[n])
                   PROVE  W(n)[tree[n][i]] = h[tree[n][i]]
      OBVIOUS
    <3>2. PICK k : k = tree[n][i]
      OBVIOUS
    <3>3. k \in G /\ k \in DOMAIN W(n)
      BY <1>2, <3>2
    <3>4. Solves(tree, W(n)) /\ Solves(tree, W(k)) /\ k \in DOMAIN W(k)
      BY <1>1, <3>3
    <3>5. W(n)[k] = W(k)[k]
      BY <3>3, <3>4, SolutionsAgree
    <3> QED
      BY <1>3, <3>2, <3>3, <3>5
  <2>2. Result(tree, W(n), n) = Result(tree, h, n)
    BY <2>1, SameResult
  <2>3. W(n)[n] = Result(tree, W(n), n)
    BY <1>1 DEF Solves
  <2> QED
    BY <1>3, <2>2, <2>3
<1>5. G = Nodes
  <2>1. SUFFICES ASSUME Nodes \ G # {} PROVE FALSE
    OBVIOUS
  <2>2. Nodes \ G \in (SUBSET Nodes) \ {{}} /\ DownEnds(tree) /\ tree \in [Nodes -> Seq(Nodes)]
    BY <2>1, TreeAssumption
  <2>3. PICK n \in Nodes \ G : \A i \in DOMAIN tree[n] : tree[n][i] \notin Nodes \ G
    BY <2>2 DEF DownEnds
  <2>4. \A i \in 1 .. Len(tree[n]) : tree[n][i] \in G
    <3>1. \A i \in 1 .. Len(tree[n]) : i \in DOMAIN tree[n] /\ tree[n][i] \in Nodes
      BY <2>2
    <3> QED
      BY <3>1, <2>3
  <2>5. PICK e : e = [m \in G \cup {n} |-> IF m = n THEN Result(tree, h, n) ELSE h[m]]
    OBVIOUS
  <2>6. /\ DOMAIN e = G \cup {n} /\ e[n] = Result(tree, h, n)
        /\ \A m \in G : e[m] = h[m]
    BY <2>3, <2>5
  <2>7. ASSUME NEW m \in G \cup {n}
        PROVE  /\ \A i \in 1 .. Len(tree[m]) : tree[m][i] \in G
               /\ e[m] = Result(tree, e, m)
    <3>1. \A i \in 1 .. Len(tree[m]) : tree[m][i] \in G
      BY <1>2, <2>4
    <3>2. \A i \in 1 .. Len(tree[m]) : h[tree[m][i]] = e[tree[m][i]]
      BY <2>6, <3>1
    <3>3. Result(tree, h, m) = Result(tree, e, m)
      BY <3>2, SameResult
    <3>4. e[m] = Result(tree, h, m)
      BY <1>4, <2>6
    <3> QED
      BY <3>1, <3>3, <3>4
  <2>8. Solves(tree, e)
    BY <2>6, <2>7 DEF Solves
  <2> QED
    BY <2>3, <2>6, <2>8
<1>6. h = [n \in Nodes |-> Result(tree, h, n)]
  <2>1. h = [n \in Nodes |-> h[n]]
    BY <1>3, <1>5 DEF h
  <2> QED
    BY <2>1, <1>4, <1>5
<1>7. FoldOf(tree) = [n \in Nodes |-> Result(tree, FoldOf(tree), n)]
  BY <1>6 DEF FoldOf
<1> QED
  <2>1. PICK g : g = FoldOf(tree)
    OBVIOUS
  <2>2. g = [n \in Nodes |-> Result(tree, g, n)]
    BY <1>7, <2>1
  <2>3. \A n \in Nodes : g[n] = Result(tree, g, n)
    BY <2>2
  <2> QED
    BY <2>1, <2>3

\* it is the one of the Fused executor
LEMMA RecurseIs == Promise!recurse = FoldOf(children)
BY DEF Promise!recurse, FoldOf, Result

-----------------------------------------------------------------------------
(* The results on their way are those of the recursion.                        *)

Value(n) == FoldOf(children)[n]

\* a result that is fired, in a slot, in the root cell
FireVal(f) == f.op = "fire" => \A m : Names(f.cont, m) => f.result = Value(m)
FiresOK == \A u, d : Pos(u, d) => FireVal(Act(u, d))
FilledOK(n) == \A j \in 1 .. Len(slots[n]) :
  slots[n][j] # NoResult => slots[n][j] = Value(children[n][j])
AnswerOK == root_cell # NoAnswer => root_cell = Value(Root)
ValuesOK == FiresOK /\ (\A n \in Nodes : FilledOK(n)) /\ AnswerOK

\* the result of a node whose heap has those of its children
LEMMA ValueOf ==
  ASSUME children \in Trees, NEW n \in Nodes, NEW heap, IsSeq(heap), Len(heap) = Kids(n),
         \A j \in 1 .. Kids(n) : heap[j] = Value(children[n][j])
  PROVE  Finalize(n, heap) = Value(n)
<1>1. PICK v : v = FoldOf(children)
  OBVIOUS
<1>2. PICK c : c = children[n]
  OBVIOUS
<1>3. heap = [j \in 1 .. Len(c) |-> v[c[j]]]
  <2>1. PICK S : heap \in Seq(S)
    BY DEF IsSeq
  <2>2. heap = [j \in 1 .. Len(heap) |-> heap[j]]
    BY <2>1
  <2>3. Len(heap) = Len(c) /\ \A j \in 1 .. Len(c) : heap[j] = v[c[j]]
    BY <1>1, <1>2 DEF Kids, Value
  <2> QED
    BY <2>2, <2>3
<1>4. v[n] = Result(children, v, n)
  BY <1>1, FoldEquation
<1> QED
  BY <1>1, <1>2, <1>3, <1>4 DEF Result, Promise!Finalize, Finalize, Value

\* slots that stay as they are
LEMMA FilledStays ==
  ASSUME \A n \in Nodes : FilledOK(n), UNCHANGED <<children, slots>>
  PROVE  \A n \in Nodes : FilledOK(n)'
BY DEF FilledOK, Value

\* an activation goes on as another
LEMMA OneFires ==
  ASSUME IInv, FiresOK, children' = children, NEW t \in Threads, stack[t] # <<>>,
         NEW g, Become(t, <<g>>), FireVal(g)
  PROVE  FiresOK'
<1>1. PICK k : k = Depth(t)
  OBVIOUS
<1>2. /\ \A u, d : Pos(u, d)' <=> Pos(u, d)
      /\ Act(t, k)' = g
      /\ \A u, d : Pos(u, d) /\ ~(u = t /\ d = k) => Act(u, d)' = Act(u, d)
  BY <1>1, BecomeOne DEF IInv, Shape
<1>3. SUFFICES ASSUME NEW u, NEW d, Pos(u, d)
               PROVE  FireVal(Act(u, d))'
  BY <1>2 DEF FiresOK
<1>4. PICK h : h = IF u = t /\ d = k THEN g ELSE Act(u, d)
  OBVIOUS
<1>5. Act(u, d)' = h /\ FireVal(h)
  BY <1>2, <1>3, <1>4 DEF FiresOK
<1> QED
  BY <1>5 DEF FireVal, Names, Value

\* an activation ends
LEMMA NoneFires ==
  ASSUME IInv, FiresOK, children' = children, NEW t \in Threads, stack[t] # <<>>, Become(t, <<>>)
  PROVE  FiresOK'
<1>1. PICK k : k = Depth(t)
  OBVIOUS
<1>2. /\ \A u, d : Pos(u, d)' <=> Pos(u, d) /\ ~(u = t /\ d = k)
      /\ \A u, d : Pos(u, d) /\ ~(u = t /\ d = k) => Act(u, d)' = Act(u, d)
  BY <1>1, BecomeNone DEF IInv, Shape
<1> QED
  BY <1>2 DEF FiresOK, FireVal, Names, Value

\* the result of a leaf
LEMMA LeafValues ==
  ASSUME IInv, ValuesOK, NEW t \in Threads, Leaf(t)
  PROVE  ValuesOK'
<1> USE DEF IInv, Shape
<1>1. PICK f : f = Top(t)
  OBVIOUS
<1>2. PICK n : n = f.node
  OBVIOUS
<1>3. PICK e : e = <<>>
  OBVIOUS
<1>4. PICK g : g = Firing(f.cont, Finalize(n, e))
  OBVIOUS
<1>5. /\ Runs(t, "visit") /\ children[n] = <<>> /\ f.next = 0 /\ Become(t, <<g>>)
      /\ UNCHANGED <<children, slots, root_cell>>
  <2>1. f.next = Len(children[n]) /\ children[n] = <<>>
    BY <1>1, <1>2 DEF Leaf, Visited
  <2> QED
    BY <2>1, <1>1, <1>2, <1>3, <1>4 DEF Leaf, Visited, nodeVars
<1>6. stack[t] # <<>> /\ n \in Nodes /\ Names(f.cont, n)
  BY <1>1, <1>2, <1>5, VisitTop
<1>7. Finalize(n, e) = Value(n)
  <2>1. Kids(n) = 0
    BY <1>5, <1>6, TreeShape
  <2>2. e \in Seq({}) /\ Len(e) = 0
    BY <1>3
  <2>3. IsSeq(e)
    BY <2>2 DEF IsSeq
  <2>4. \A j \in 1 .. Kids(n) : e[j] = Value(children[n][j])
    BY <2>1
  <2> QED
    BY <1>6, <2>1, <2>2, <2>3, <2>4, ValueOf
<1>8. FireVal(g)
  BY <1>4, <1>6, <1>7, NamesOne DEF FireVal, Firing
<1> QED
  BY <1>5, <1>6, <1>8, OneFires, FilledStays DEF ValuesOK, AnswerOK, Value

\* a new slot is empty
LEMMA NextChildValues ==
  ASSUME IInv, ValuesOK, NEW t \in Threads, NextChild(t)
  PROVE  ValuesOK'
<1> USE DEF IInv, Shape
<1>1. PICK f : f = Top(t)
  OBVIOUS
<1>2. PICK p : p = Depth(t)
  OBVIOUS
<1>3. PICK n : n = f.node
  OBVIOUS
<1>4. PICK i : i = f.next + 1
  OBVIOUS
<1>5. PICK y : y = children[n][i]
  OBVIOUS
<1>6. /\ Act(t, p)' = Visiting(n, NoCont, i)
      /\ \A u, d : Pos(u, d) /\ ~(u = t /\ d = p) => Act(u, d)' = Act(u, d)
      /\ \A m \in Nodes : m # n => slots'[m] = slots[m]
      /\ Len(slots'[n]) = i /\ children' = children /\ root_cell' = root_cell
  BY <1>1, <1>2, <1>3, <1>4, <1>5, NextChildEffect
<1>7. \A j \in 1 .. i : slots'[n][j] # NoResult =>
        j \in 1 .. Len(slots[n]) /\ slots'[n][j] = slots[n][j]
  BY <1>1, <1>2, <1>3, <1>4, <1>5, NextChildEffect
<1>8. PICK way \in {0, 1} :
         /\ \A u, d : Pos(u, d)' <=> Pos(u, d) \/ (way = 1 /\ u = t /\ d = p + 1)
         /\ \A d : way = 1 /\ d = p + 1 => Act(t, d)' = Visiting(y, Slot(n, i), 0)
  BY <1>1, <1>2, <1>3, <1>4, <1>5, NextChildEffect
<1>9. FiresOK'
  <2>1. SUFFICES ASSUME NEW u, NEW d, Pos(u, d)'
                 PROVE  FireVal(Act(u, d))'
    BY DEF FiresOK
  <2>2. PICK h : h = Act(u, d)'
    OBVIOUS
  <2>3. h.op = "visit" \/ (Pos(u, d) /\ h = Act(u, d))
    BY <1>6, <1>8, <2>1, <2>2 DEF Visiting
  <2>4. FireVal(h)
    BY <2>3 DEF ValuesOK, FiresOK, FireVal
  <2> QED
    BY <1>6, <2>2, <2>4 DEF FireVal, Names, Value
<1>10. \A m \in Nodes : FilledOK(m)'
  <2>1. SUFFICES ASSUME NEW m \in Nodes PROVE FilledOK(m)'
    OBVIOUS
  <2>2. FilledOK(m)
    BY DEF ValuesOK
  <2>3. CASE m = n
    BY <1>6, <1>7, <2>2, <2>3 DEF FilledOK, Value
  <2>4. CASE m # n
    BY <1>6, <2>2, <2>4 DEF FilledOK, Value
  <2> QED
    BY <2>3, <2>4
<1> QED
  BY <1>6, <1>9, <1>10 DEF ValuesOK, AnswerOK, Value

\* the result of a branch
LEMMA FinalizesValues ==
  ASSUME IInv, ValuesOK, NEW t \in Threads, NEW n \in Nodes, Finalizes(t, n)
  PROVE  ValuesOK'
<1> USE DEF IInv, Shape
<1>1. PICK c : c = parent[n]
  OBVIOUS
<1>2. PICK s : s = slots[n]
  OBVIOUS
<1>3. PICK g : g = Firing(c, Finalize(n, s))
  OBVIOUS
<1>4. /\ stack[t] # <<>> /\ n \in closed \ finalized /\ Become(t, <<g>>)
      /\ \A j \in DOMAIN s : s[j] # NoResult
      /\ UNCHANGED <<children, slots, root_cell>>
  BY <1>1, <1>2, <1>3 DEF Finalizes, InCall, Runs, Complete
<1>5. Names(c, n) /\ IsSeq(s) /\ Len(s) = Kids(n)
  BY <1>1, <1>2, <1>4 DEF NodesOK, NodeOK
<1>6. Finalize(n, s) = Value(n)
  <2>1. DOMAIN s = 1 .. Len(s)
    BY <1>5, SeqDomain
  <2>2. \A j \in 1 .. Kids(n) : s[j] = Value(children[n][j])
    BY <1>2, <1>4, <1>5, <2>1 DEF ValuesOK, FilledOK
  <2> QED
    BY <1>5, <2>2, ValueOf
<1>7. FireVal(g)
  BY <1>3, <1>5, <1>6, NamesOne DEF FireVal, Firing
<1> QED
  BY <1>4, <1>7, OneFires, FilledStays DEF ValuesOK, AnswerOK, Value

\* the result of a node with an only child
LEMMA FireDirectValues ==
  ASSUME IInv, ValuesOK, NEW t \in Threads, FireDirect(t)
  PROVE  ValuesOK'
<1> USE DEF IInv, Shape
<1>1. PICK f : f = Top(t)
  OBVIOUS
<1>2. PICK p : p = Depth(t)
  OBVIOUS
<1>3. PICK n : n = f.cont.node
  OBVIOUS
<1>4. PICK c : c = arena[n]
  OBVIOUS
<1>5. PICK s : s = <<f.result>>
  OBVIOUS
<1>6. PICK g : g = Firing(c, Finalize(n, s))
  OBVIOUS
<1>7. /\ Runs(t, "fire") /\ f.cont.kind = "direct" /\ Become(t, <<g>>)
      /\ UNCHANGED <<children, slots, root_cell>>
  BY <1>1, <1>3, <1>4, <1>5, <1>6 DEF FireDirect
<1>8. /\ stack[t] # <<>> /\ Pos(t, p) /\ Act(t, p) = f /\ f.op = "fire"
  BY <1>1, <1>2, <1>7, FireTop
<1>9. PICK x \in Nodes : Names(f.cont, x) /\ visits[x] = 1 /\ HasOnly(t, p, x)
  BY <1>1, <1>2, <1>7, FireTop
<1>10. n \in Nodes /\ Kids(n) = 1 /\ x = children[n][1]
  BY <1>3, <1>7, <1>9, NamesKinds
<1>11. Names(c, n)
  <2>1. Has("stack", t, p, x)
    BY <1>9 DEF HasOnly
  <2> QED
    BY <2>1, <1>4, <1>10 DEF NodesOK, NodeOK, OnlyOK
<1>12. f.result = Value(x)
  BY <1>8, <1>9 DEF ValuesOK, FiresOK, FireVal
<1>13. Finalize(n, s) = Value(n)
  <2>1. s \in Seq({f.result}) /\ Len(s) = 1 /\ s[1] = f.result
    BY <1>5
  <2>2. IsSeq(s)
    BY <2>1 DEF IsSeq
  <2>3. \A j \in 1 .. Kids(n) : s[j] = Value(children[n][j])
    BY <1>10, <1>12, <2>1
  <2>4. Len(s) = Kids(n)
    BY <1>10, <2>1
  <2> QED
    BY <1>10, <2>2, <2>3, <2>4, ValueOf
<1>14. FireVal(g)
  BY <1>6, <1>11, <1>13, NamesOne DEF FireVal, Firing
<1> QED
  BY <1>7, <1>8, <1>14, OneFires, FilledStays DEF ValuesOK, AnswerOK, Value

\* the result of a child in its slot
LEMMA FireSlotValues ==
  ASSUME IInv, ValuesOK, NEW t \in Threads, FireSlot(t)
  PROVE  ValuesOK'
<1> USE DEF IInv, Shape
<1>1. PICK f : f = Top(t)
  OBVIOUS
<1>2. PICK p : p = Depth(t)
  OBVIOUS
<1>3. PICK m : m = f.cont.node
  OBVIOUS
<1>4. PICK i : i = f.cont.slot
  OBVIOUS
<1>5. PICK e : e = f.result
  OBVIOUS
<1>6. /\ Runs(t, "fire") /\ f.cont.kind = "slot" /\ Become(t, <<Delivering(m)>>)
      /\ slots' = [slots EXCEPT ![m][i] = e]
      /\ UNCHANGED <<children, root_cell>>
  BY <1>1, <1>3, <1>4, <1>5 DEF FireSlot
<1>7. /\ stack[t] # <<>> /\ Pos(t, p) /\ Act(t, p) = f /\ f.op = "fire"
  BY <1>1, <1>2, <1>6, FireTop
<1>8. PICK n \in Nodes : Names(f.cont, n) /\ visits[n] = 1 /\ HasOnly(t, p, n)
  BY <1>1, <1>2, <1>6, FireTop
<1>9. m \in Nodes /\ Kids(m) > 1 /\ i \in 1 .. Kids(m) /\ n = children[m][i]
  BY <1>3, <1>4, <1>6, <1>8, NamesKinds
<1>10. e = Value(n)
  BY <1>5, <1>7, <1>8 DEF ValuesOK, FiresOK, FireVal
<1>11. i \in 1 .. Len(slots[m])
  <2>1. Has("stack", t, p, n)
    BY <1>8 DEF HasOnly
  <2> QED
    BY <2>1, <1>9, SlotThere
<1>12. FilledOK(m)'
  <2>1. PICK s : s = slots[m]
    OBVIOUS
  <2>2. PICK r : r = slots'[m]
    OBVIOUS
  <2>3. IsSeq(s) /\ i \in 1 .. Len(s) /\ r = [s EXCEPT ![i] = e]
    BY <2>1, <2>2, <1>6, <1>9, <1>11
  <2>4. IsSeq(r) /\ Len(r) = Len(s)
    BY ONLY <2>3, SlotFilled
  <2>5. \A j : j \in 1 .. Len(s) /\ j # i => r[j] = s[j]
    BY ONLY <2>3, SlotFilled
  <2>6. r[i] = e
    <3>1. DOMAIN s = 1 .. Len(s)
      BY <2>3, SeqDomain
    <3> QED
      BY <2>3, <3>1
  <2>7. SUFFICES ASSUME NEW j \in 1 .. Len(s), r[j] # NoResult
                 PROVE  r[j] = FoldOf(children)[children[m][j]]
    BY <1>6, <2>2, <2>4 DEF FilledOK, Value
  <2>8. CASE j = i
    BY <2>6, <2>8, <1>9, <1>10 DEF Value
  <2>9. CASE j # i
    BY <2>1, <2>5, <2>7, <2>9, <1>9 DEF ValuesOK, FilledOK, Value
  <2> QED
    BY <2>8, <2>9
<1>13. \A k \in Nodes : FilledOK(k)'
  <2>1. ASSUME NEW k \in Nodes, k # m PROVE FilledOK(k)'
    <3>1. slots'[k] = slots[k]
      BY <1>6, <1>9, <2>1
    <3> QED
      BY <3>1, <1>6 DEF ValuesOK, FilledOK, Value
  <2> QED
    BY <2>1, <1>12
<1>14. FiresOK'
  <2>1. PICK g : g = Delivering(m)
    OBVIOUS
  <2>2. FireVal(g) /\ Become(t, <<g>>)
    BY <2>1, <1>6 DEF FireVal, Delivering
  <2> QED
    BY <2>2, <1>6, <1>7, OneFires DEF ValuesOK
<1> QED
  BY <1>6, <1>13, <1>14 DEF ValuesOK, AnswerOK, Value

\* the answer is given once
LEMMA FireRootAnswers ==
  ASSUME IInv, ValuesOK, NEW t \in Threads, FireRoot(t)
  PROVE  ValuesOK' /\ root_cell = NoAnswer /\ root_cell' = Value(Root)
<1> USE DEF IInv, Shape
<1>1. PICK f : f = Top(t)
  OBVIOUS
<1>2. PICK p : p = Depth(t)
  OBVIOUS
<1>3. /\ Runs(t, "fire") /\ f.cont = RootCont /\ Become(t, <<>>) /\ root_cell' = f.result
      /\ UNCHANGED <<children, slots>>
  BY <1>1 DEF FireRoot, nodeVars
<1>4. /\ stack[t] # <<>> /\ Pos(t, p) /\ Act(t, p) = f /\ f.op = "fire"
  BY <1>1, <1>2, <1>3, FireTop
<1>5. PICK n \in Nodes : Names(f.cont, n) /\ visits[n] = 1 /\ HasOnly(t, p, n)
  BY <1>1, <1>2, <1>3, FireTop
<1>6. n = Root
  BY <1>3, <1>5, NamesKinds DEF RootCont
<1>7. f.result = Value(Root)
  BY <1>4, <1>5, <1>6 DEF ValuesOK, FiresOK, FireVal
<1>8. root_cell = NoAnswer
  BY <1>5, <1>6 DEF RootOK, Gone, HasOnly
<1>9. FiresOK'
  BY <1>3, <1>4, NoneFires DEF ValuesOK
<1> QED
  BY <1>3, <1>7, <1>8, <1>9, FilledStays DEF ValuesOK, AnswerOK, Value

\* an activation that fires nothing changes no value
LEMMA QuietValues ==
  ASSUME IInv, ValuesOK, UNCHANGED <<children, slots, root_cell>>, FiresOK'
  PROVE  ValuesOK'
BY FilledStays DEF ValuesOK, AnswerOK, Value

\* visits and calls that return None
LEMMA VisitValues ==
  ASSUME IInv, ValuesOK, NEW t \in Threads,
         FirstChild(t) \/ OnlyChild(t) \/ SetTotal(t) \/ \E n \in Nodes : Leaves(t, n)
  PROVE  ValuesOK'
<1>1. UNCHANGED <<children, slots, root_cell>> /\ stack[t] # <<>>
  BY DEF FirstChild, OnlyChild, SetTotal, Visited, Leaves, InCall, Runs, nodeVars
<1>2. \/ Become(t, <<>>)
      \/ \E g : Become(t, <<g>>) /\ g.op \in {"visit", "set_total"}
  <2>1. \A n, c, i : Visiting(n, c, i).op = "visit" /\ SettingTotal(n).op = "set_total"
    BY DEF Visiting, SettingTotal
  <2>2. CASE FirstChild(t)
    BY <2>1, <2>2 DEF FirstChild
  <2>3. CASE OnlyChild(t)
    BY <2>1, <2>3 DEF OnlyChild
  <2>4. CASE SetTotal(t)
    BY <2>1, <2>4 DEF SetTotal
  <2>5. CASE \E n \in Nodes : Leaves(t, n)
    BY <2>1, <2>5 DEF Leaves
  <2> QED
    BY <2>2, <2>3, <2>4, <2>5
<1>3. FiresOK'
  BY <1>1, <1>2, OneFires, NoneFires DEF ValuesOK, FireVal
<1> QED
  BY <1>1, <1>3, QuietValues

\* a task taken
LEMMA AcquireValues ==
  ASSUME IInv, ValuesOK, NEW t \in Threads, Acquire(t)
  PROVE  ValuesOK'
<1>1. PICK g : /\ stack[t] = <<>> /\ stack' = [stack EXCEPT ![t] = <<g>>] /\ g.op = "visit"
               /\ UNCHANGED <<children, slots, root_cell>>
  <2>1. PICK task : stack' = [stack EXCEPT ![t] = <<Visiting(task.child, task.cont, 0)>>]
    BY DEF Acquire
  <2>2. PICK g : g = Visiting(task.child, task.cont, 0)
    OBVIOUS
  <2>3. stack' = [stack EXCEPT ![t] = <<g>>] /\ g.op = "visit"
    BY <2>1, <2>2 DEF Visiting
  <2> QED
    BY <2>3 DEF Acquire, nodeVars
<1>2. /\ \A u, d : Pos(u, d)' <=> Pos(u, d) \/ (u = t /\ d = 1)
      /\ ~Pos(t, 1) /\ Act(t, 1)' = g
      /\ \A u, d : Pos(u, d) => Act(u, d)' = Act(u, d)
  BY <1>1, BecomeFirst DEF IInv, Shape
<1>3. FiresOK'
  <2>1. SUFFICES ASSUME NEW u, NEW d, Pos(u, d)'
                 PROVE  FireVal(Act(u, d))'
    BY DEF FiresOK
  <2>2. PICK h : h = Act(u, d)'
    OBVIOUS
  <2>3. h.op = "visit" \/ (Pos(u, d) /\ h = Act(u, d))
    BY <1>1, <1>2, <2>1, <2>2
  <2>4. FireVal(h)
    BY <2>3 DEF ValuesOK, FiresOK, FireVal
  <2> QED
    BY <1>1, <2>2, <2>4 DEF FireVal, Names, Value
<1> QED
  BY <1>1, <1>3, QuietValues

\* no value at the start
LEMMA InitValues ==
  ASSUME Init
  PROVE  ValuesOK
<1>1. \A n \in Nodes : FilledOK(n)
  BY DEF Init, FilledOK
<1>2. FiresOK
  <2>1. SUFFICES ASSUME NEW u, NEW d, Pos(u, d), Act(u, d).op = "fire"
                 PROVE  FALSE
    BY DEF FiresOK, FireVal
  <2>2. PICK f : f = Visiting(Root, RootCont, 0)
    OBVIOUS
  <2>3. f.op = "visit" /\ stack[u] = (IF u = Caller THEN <<f>> ELSE <<>>) /\ d \in DOMAIN stack[u]
    BY <2>1, <2>2 DEF Init, Pos, Visiting
  <2>4. stack[u] = <<f>> /\ d \in DOMAIN <<f>>
    BY <2>3
  <2>5. stack[u][d] = f
    BY <2>4
  <2> QED
    BY <2>1, <2>3, <2>5 DEF Act
<1>3. AnswerOK
  BY DEF Init, AnswerOK
<1> QED
  BY <1>1, <1>2, <1>3 DEF ValuesOK

\* nothing changes
LEMMA StutterValues ==
  ASSUME ValuesOK, UNCHANGED vars
  PROVE  ValuesOK'
BY DEF vars, nodeVars, ValuesOK, FiresOK, FireVal, FilledOK, AnswerOK, Names, Value, Pos, Act

\* every step keeps the values, and is the one step of the recursion or none
LEMMA StepAnswers ==
  ASSUME IInv, ValuesOK, [Next]_vars
  PROVE  ValuesOK' /\ [Promise!Run]_<<children, root_cell>>
<1>1. CASE UNCHANGED vars \/ Terminated
  <2>1. UNCHANGED vars
    BY <1>1 DEF Terminated
  <2> QED
    BY <2>1, StutterValues DEF vars
<1>2. ASSUME NEW t \in Threads, Acquire(t)
      PROVE  ValuesOK' /\ UNCHANGED <<children, root_cell>>
  BY <1>2, AcquireValues DEF Acquire
<1>3. ASSUME NEW t \in Threads, FireRoot(t)
      PROVE  ValuesOK' /\ Promise!Run
  <2>1. ValuesOK' /\ root_cell = NoAnswer /\ root_cell' = Value(Root) /\ children' = children
    BY <1>3, FireRootAnswers DEF FireRoot
  <2>2. Promise!Fused = Value(Root)
    BY RecurseIs DEF Promise!Fused, Value
  <2> QED
    BY <2>1, <2>2 DEF Promise!Run, Promise!NoAnswer, NoAnswer
<1>4. ASSUME NEW t \in Threads, Walk(t), ~FireRoot(t)
      PROVE  ValuesOK' /\ UNCHANGED <<children, root_cell>>
  <2>1. CASE FirstChild(t) \/ OnlyChild(t) \/ SetTotal(t) \/ \E n \in Nodes : Leaves(t, n)
    BY <2>1, VisitValues DEF FirstChild, OnlyChild, SetTotal, Leaves
  <2>2. CASE NextChild(t)
    BY <2>2, NextChildValues DEF NextChild
  <2>3. CASE Leaf(t)
    BY <2>3, LeafValues DEF Leaf
  <2>4. CASE \E n \in Nodes : Finalizes(t, n)
    BY <2>4, FinalizesValues DEF Finalizes
  <2>5. CASE FireDirect(t) \/ FireSlot(t)
    BY <2>5, FireDirectValues, FireSlotValues DEF FireDirect, FireSlot
  <2> QED
    BY <1>4, <2>1, <2>2, <2>3, <2>4, <2>5 DEF Walk
<1> QED
  BY <1>1, <1>2, <1>3, <1>4 DEF Next

(* Whatever the threads do, the root cell gets one value, and it is the one    *)
(* the Fused executor's recursion computes: every step of the walk is the one  *)
(* step of TreeFold, or leaves the answer alone.                               *)
THEOREM WalkRefinesFold == Spec => Promise!Spec
<1>1. Init => IInv /\ ValuesOK /\ Promise!Init
  BY InitHolds, InitValues DEF Init, Promise!Init, Promise!NoAnswer, NoAnswer
<1>2. IInv /\ ValuesOK /\ [Next]_vars => (IInv /\ ValuesOK)' /\ [Promise!Run]_<<children, root_cell>>
  BY StepKeeps, StepAnswers
<1> QED
  BY <1>1, <1>2, PTL DEF Spec, Promise!Spec
=============================================================================
