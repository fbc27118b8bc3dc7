------------------------------- MODULE Lifted -------------------------------
(***************************************************************************)
(* From lifts to runs. A user composes lifts one after the other, may      *)
(* memoise the treeish they give, and runs it from several threads that    *)
(* share one cache (Memoized).                                             *)
(***************************************************************************)
EXTENDS Lifts, Memoized

CONSTANT MaxAtoms \* bound on the lifts composed

ASSUME LiftedAssumption == MaxAtoms \in Nat \ {0}

VARIABLE lift \* the composed lift

vars == <<lift, memoVars>>

LiftedInit == lift \in {Identity, SeedAtom} /\ Init

----------------------------------------------------------------------------
\* Composing.

MayCompose == memo = "open" /\ Len(Atoms(lift)) <= MaxAtoms
Composed(l) == lift' = l /\ UNCHANGED memoVars

ThenLift(kind) ==
    MayCompose /\ Composed(Compose(lift, Atom(kind, HasRows(lift))))
\* A lift put before the others takes plain nodes: nothing precedes a seed lift.
BeforeLift(kind) ==
    MayCompose /\ ~HasRows(lift) /\ Composed(Compose(Atom(kind, FALSE), lift))

----------------------------------------------------------------------------
\* Running. The lifts worth running step by step change the graph; the others
\* only change what the closures compute.

Runnable == {Identity, SeedAtom, Compose(Identity, Atom("filter_edges", FALSE)),
             Compose(SeedAtom, Atom("filter_edges", TRUE)),
             Compose(Identity, Atom("wrap_visit", FALSE))}

\* Nodes and rows by number; a run starts from 0, the entry row or node 1.
Row(l, i) == IF ~HasRows(l) THEN i + 1 ELSE IF i = 0 THEN EntryRoot ELSE SeedNode[i]
Number(l, n) == IF ~HasRows(l) THEN n - 1 ELSE IF IsEntryRoot(n) THEN 0 ELSE n.of
LiftedGraph(domain, l) ==
    LET graph == Apply(domain, l, BasePair).treeish IN
    [i \in 0..4 |-> IF Row(l, i) \in Roots(l)
                    THEN VisitMap(At(graph, Row(l, i)), [n \in Any |-> Number(l, n)])
                    ELSE <<>>]
LiftedGraphs == {LiftedGraph(domain, l) : domain \in {"shared", "local"}, l \in Runnable}

\* The node itself (memoize_treeish), or one key for two nodes with the same children:
\* 2 and 3 of the base graph, which are 1 and 2 where there is no entry row.
OneKey(n, m) == [i \in 0..4 |-> IF i = m THEN n ELSE i]
LiftedKeys == {OneKey(0, 0), OneKey(1, 2), OneKey(2, 3)}

MemoiseLifted(m, k) ==
    /\ lift \in Runnable
    /\ Memoise(m, LiftedGraph(IF m = "local" THEN "local" ELSE "shared", lift), k)
    /\ UNCHANGED lift

LiftedNext ==
    \/ \E kind \in AtomKinds : ThenLift(kind) \/ BeforeLift(kind)
    \/ \E m \in Memos, k \in KeyFns : MemoiseLifted(m, k)
    \/ Runs /\ UNCHANGED lift

\* A thread that has entered the recursion keeps running.
LiftedSpec ==
    /\ LiftedInit /\ [][LiftedNext]_vars
    /\ \A t \in Threads : WF_vars(Run(t) /\ UNCHANGED lift)

----------------------------------------------------------------------------
(***************************************************************************)
(* Properties of the lifts, of every lift that can be composed.            *)
(***************************************************************************)

Shared(l, n) == RunOn("shared", l, n)

\* What adding one lift does to every result.
LastLaw(inner, atom) ==
    \A n \in Roots(inner) :
        LET before == Shared(inner, n)
            after(m) == Shared(Compose(inner, atom), m)
        IN CASE atom.kind \in {"wrap_finalize", "describe"} -> after(n) = before
             [] atom.kind = "zipmap" -> after(n) = <<before, Boxed[before]>>
             [] atom.kind = "map_r_bi" -> after(n) = Boxed[before]
             [] atom.kind = "map_n_bi" -> after(OnRow(atom.rows, n, Shift)) = before
             \* swapping twice is not swapping
             [] atom.kind = "wrap_init" ->
                    Shared(Compose(Compose(inner, atom), atom), n) = before
             \* accumulating twice is visiting twice
             [] atom.kind = "wrap_accumulate" ->
                    after(n) = Shared(Compose(inner, Atom("wrap_visit", atom.rows)), n)
             \* hiding nodes first or last
             [] atom.kind = "filter_edges" ->
                    ~atom.rows => after(n) = Shared(Compose(atom, inner), n)
             [] OTHER -> TRUE

\* A trace holds the wrapped fold's own run: the results of the children in
\* order, the heap after each, and as a graph it has one node per visit.
TraceLaw(inner) ==
    LET pair == Apply("shared", inner, BasePair)
        traced == Apply("shared", Atom("explainer", FALSE), pair)
    IN \A n \in Roots(inner) :
        LET x == RunPair(traced, n)
            steps == x.heap.transitions
            heapBefore(i) == IF i = 1 THEN x.heap.initial_heap
                             ELSE steps[i - 1].resulting_heap
        IN /\ x.orig_result = RunPair(pair, n) /\ x.heap.node = n
           /\ x.heap.initial_heap = pair.fold.init[n]
           /\ x.heap.working_heap = heapBefore(Len(steps) + 1)
           /\ VisitMap(steps, [step \in Any |-> step.incoming_result])
                  = VisitMap(At(traced.treeish, n), [c \in Any |-> RunPair(traced, c)])
           /\ \A i \in DOMAIN steps :
                 steps[i].resulting_heap =
                    pair.fold.accumulate[heapBefore(i),
                                         steps[i].incoming_result.orig_result]
           /\ Recurse(CountFold, TreeishForExplres, x)
                  = Recurse(CountFold, pair.treeish, n)

\* Below the entry row a seed lift changes nothing, and the entry row is one
\* more node whose children are the grown seeds.
SeedFree(l) ==
    VisitFold(Atoms(l), Identity, [inner, atom \in Any |->
        IF atom.kind = "seed" THEN inner ELSE Compose(inner, Atom(atom.kind, FALSE))])
SeedLaw(l) ==
    /\ "explainer" \notin Kinds(l) =>
          \A n \in BaseNodes : Shared(l, Renamed(l, n)) = Shared(SeedFree(l), Renamed(SeedFree(l), n))
    /\ Atoms(l) = <<SeedAtom>> =>
          Shared(l, EntryRoot) =
             Listing.finalize[VisitFold(Seeds, EntryHeap, [heap, s \in Any |->
                                Listing.accumulate[heap, Shared(SeedFree(l), Grow[s])]])]
    /\ Atoms(l) = <<SeedAtom, Atom("explainer", TRUE)>> =>
          LET projected == SeedExplainerResult(Shared(l, EntryRoot)) IN
          /\ projected.roots = VisitMap(Seeds, [s \in Any |-> Shared(SeedFree(l), Grow[s])])
          /\ projected.orig_result = Shared(SeedAtom, EntryRoot)
          /\ projected.entry_initial_heap = EntryHeap

\* How lifts are grouped does not matter.
RECURSIVE Grouped(_)
Grouped(atoms) == IF atoms = <<>> THEN Identity
                  ELSE Compose(Head(atoms), Grouped(Tail(atoms)))

\* Composed lifts mean what the doc of each says, in whatever company
\* (ops/lift, shape_lifts): a later lift sees the output of the earlier ones.
LiftLaws ==
    memo = "open" =>
        /\ \A n \in Roots(lift) : Shared(Grouped(Atoms(lift)), n) = Shared(lift, n)
        /\ lift.kind = "composed" =>
              \/ lift.outer.kind = "composed"
              \/ LastLaw(lift.inner, lift.outer)
        /\ TraceLaw(lift)
        /\ HasRows(lift) => SeedLaw(lift)

----------------------------------------------------------------------------
\* The same combinator as a lift and as a method of Fold or Edgy, in each
\* domain.

SharedMethod(atom, pair) ==
    LET graph == pair.treeish  fold == pair.fold
        With(g, f) == [treeish |-> g, fold |-> f]
    IN CASE atom.kind = "wrap_init" ->
              With(graph, WrapInit(fold, [n, old \in Any |-> old[OnRow(atom.rows, n, Twin)]]))
         [] atom.kind = "wrap_accumulate" -> With(graph, WrapAccumulate(fold, Twice))
         [] atom.kind = "wrap_finalize" -> With(graph, WrapFinalize(fold, Delegated))
         [] atom.kind = "zipmap" -> With(graph, Zipmap(fold, Boxed))
         [] atom.kind = "map_r_bi" -> With(graph, MapRBi(fold, Boxed, Unbox))
         [] atom.kind = "filter_edges" ->
              With(EdgyFilter(graph, [n \in Any |-> Keep(atom.rows, n)]), fold)
         [] atom.kind = "map_n_bi" ->
              With(Treemap(graph, [n \in Any |-> OnRow(atom.rows, n, Shift)],
                                  [n \in Any |-> OnRow(atom.rows, n, Unshift)]),
                   ContramapN(fold, [n \in Any |-> OnRow(atom.rows, n, Unshift)]))

LocalMethod(atom, pair) ==
    LET graph == pair.treeish  fold == pair.fold
        With(g, f) == [treeish |-> g, fold |-> f]
    IN CASE atom.kind = "wrap_init" ->
              With(graph, Loc!WrapInit(fold, [n, old \in Any |-> old[OnRow(atom.rows, n, Twin)]]))
         [] atom.kind = "wrap_accumulate" -> With(graph, Loc!WrapAccumulate(fold, Twice))
         [] atom.kind = "wrap_finalize" -> With(graph, Loc!WrapFinalize(fold, Delegated))
         [] atom.kind = "zipmap" -> With(graph, Loc!Zipmap(fold, Boxed))
         [] atom.kind = "map_r_bi" -> With(graph, Loc!MapRBi(fold, Boxed, Unbox))
         [] atom.kind = "filter_edges" ->
              With(Loc!EdgyFilter(graph, [n \in Any |-> Keep(atom.rows, n)]), fold)
         [] atom.kind = "map_n_bi" ->
              With(Loc!EdgyContramap(
                        Loc!EdgyMap(graph, [n \in Any |-> OnRow(atom.rows, n, Shift)]),
                        [n \in Any |-> OnRow(atom.rows, n, Unshift)]),
                   Loc!ContramapN(fold, [n \in Any |-> OnRow(atom.rows, n, Unshift)]))

OwnedMethod(atom, pair) ==
    LET graph == pair.treeish  fold == pair.fold
        With(g, f) == [treeish |-> g, fold |-> f]
    IN CASE atom.kind = "wrap_init" ->
              With(graph, Own!WrapInit(fold, [n, old \in Any |-> old[OnRow(atom.rows, n, Twin)]]))
         [] atom.kind = "wrap_accumulate" -> With(graph, Own!WrapAccumulate(fold, Twice))
         [] atom.kind = "wrap_finalize" -> With(graph, Own!WrapFinalize(fold, Delegated))
         [] atom.kind = "zipmap" -> With(graph, Own!Zipmap(fold, Boxed))
         [] atom.kind = "map_r_bi" -> With(graph, Own!MapRBi(fold, Boxed, Unbox))
         [] atom.kind = "filter_edges" ->
              With(Own!EdgyFilter(graph, [n \in Any |-> Keep(atom.rows, n)]), fold)
         [] atom.kind = "map_n_bi" ->
              With(Own!EdgyContramap(
                        Own!EdgyMap(graph, [n \in Any |-> OnRow(atom.rows, n, Shift)]),
                        [n \in Any |-> OnRow(atom.rows, n, Unshift)]),
                   Own!ContramapN(fold, [n \in Any |-> OnRow(atom.rows, n, Unshift)]))

\* The library writes its combinators out once per domain, and some of them
\* both as a lift and as a method (domain/shared, domain/local,
\* domain/owned): all of them give the same run.
RoutesAgree ==
    memo = "open" =>
        /\ \A n \in Roots(lift) : RunOn("local", lift, n) = Shared(lift, n)
        /\ lift.kind = "composed" =>
              \/ lift.outer.kind \in {"composed", "identity", "seed", "wrap_visit",
                                      "explainer", "describe"}
              \/ LET pair == Apply("shared", lift.inner, BasePair) IN
                 \A n \in Roots(lift) :
                    /\ RunPair(SharedMethod(lift.outer, pair), n) = Shared(lift, n)
                    /\ RunPair(LocalMethod(lift.outer, pair), n) = Shared(lift, n)
                    /\ RunPair(OwnedMethod(lift.outer, pair), n) = Shared(lift, n)

----------------------------------------------------------------------------
\* The ready-made folds, on the graph of every lift.

Preorder(first, join) == NewFold(first, join, Same)
Depths(graph, n) ==
    Recurse(Preorder([traced \in Any |-> <<Len(traced.way)>>], [h, r \in Any |-> h \o r]),
            TracedTreeish(graph), TracedRoot(n))

Label[n \in Any] == ToString(n)
Punctuation == {"nl", "pad", "[", "]", ","}
\* How far the label at position i of a text is indented.
Indent(text, i) ==
    Max({0} \cup {k \in 1..(i - 1) : \A j \in (i - k)..(i - 1) : text[j] = "pad"})
LabelIndents(text) ==
    LET labels == SelectSeq([i \in DOMAIN text |-> i], LAMBDA i : text[i] \notin Punctuation)
    IN [j \in DOMAIN labels |-> Indent(text, labels[j])]

\* A graph of Either nodes, in which 3 does not resolve.
Resolved[s \in Any] == IF s = 3 THEN [side |-> "Left", value |-> s]
               ELSE [side |-> "Right", value |-> s]
FallibleGraph == FuseGrowWithSeeds(Resolved, SeedsForFallible(BasePair.treeish))
CutGraph == [n \in Any |-> IF n = 3 THEN <<>> ELSE Diamond[n]]

\* The folds and graphs of the prelude agree on what a tree is
\* (prelude/common_folds.rs, format.rs, traced.rs, fallible.rs): depth_fold is
\* the longest way traced; a label is indented once per ancestor though
\* every level re-indents the text below it; folding a product is folding
\* twice; an unresolved seed is a leaf.
PreludeFoldsAgree ==
    memo = "open" =>
        LET pair == Apply("shared", lift, BasePair)
            graph == pair.treeish
            counted(n) == Recurse(CountFold, graph, n)
            depth(n) == Recurse(DepthFold, graph, n)
        IN /\ \A n \in Roots(lift) :
                LET depths == Depths(graph, n) IN
                /\ Len(depths) = counted(n)
                /\ depth(n) = 1 + Max(Range(depths))
                /\ LabelIndents(Recurse(MakeFold(MultilineCfg, Label), graph, n))
                      = depths
                /\ Len(LabelIndents(Recurse(PrettyPrintFold(Label), graph, n)))
                      = counted(n)
                /\ Recurse(Product(pair.fold, Product(CountFold, DepthFold)), graph, n)
                      = <<RunPair(pair, n), <<counted(n), depth(n)>>>>
                /\ Recurse(Loc!Product(pair.fold, DepthFold), graph, n)
                      = <<RunPair(pair, n), depth(n)>>
           /\ Recurse(CountFold, FallibleGraph, Resolved[1])
                 = Recurse(CountFold, CutGraph, 1)

=============================================================================
