------------------------------ MODULE Explainer ------------------------------
(***************************************************************************)
(* Seed closing and explaining: the rows of a seed-closed graph, the lift  *)
(* that builds them, the lifts that record a trace, and the projection of  *)
(* a trace over seed rows to one over plain nodes.                         *)
(***************************************************************************)
EXTENDS SharedDomain

----------------------------------------------------------------------------
\* SeedNode<N>: the synthetic entry row, or a resolved node.

EntryRoot == [inner |-> "EntryRoot"]
SeedNode[n \in Any] == [inner |-> "Node", of |-> n]
IsEntryRoot(row) == row.inner = "EntryRoot"
IntoNode(row) == IF IsEntryRoot(row) THEN <<>> ELSE <<row.of>>
MapNode(row, f) == IF IsEntryRoot(row) THEN EntryRoot ELSE SeedNode[f[row.of]]

\* SeedLift: the entry row fans out to the grown seeds and starts from the
\* given heap; every other row is a node of the base graph.
SeedTreeish(base, grow, entrySeeds) ==
    [row \in Any |->
        IF IsEntryRoot(row)
        THEN VisitMap(entrySeeds, [s \in Any |-> SeedNode[grow[s]]])
        ELSE VisitMap(At(base, row.of), SeedNode)]

SeedFold(fold, entryHeap) ==
    NewFold([row \in Any |-> IF IsEntryRoot(row) THEN entryHeap ELSE fold.init[row.of]],
            fold.accumulate, fold.finalize)

SeedLift(grow, entrySeeds, entryHeap) ==
    ShapeLift([g \in Any |-> SeedTreeish(g, grow, entrySeeds)],
              [f \in Any |-> SeedFold(f, entryHeap)])

\* Grow and seeds fused to the graph over nodes that has no entry row.
FuseGrowWithSeeds(grow, seeds) == EdgyMap(seeds, grow)

----------------------------------------------------------------------------
\* The trace of one node.

ExplainerHeap(n, heap) ==
    [initial_heap |-> heap, node |-> n, transitions |-> <<>>, working_heap |-> heap]

\* The step recorded before the child is accumulated.
ExplainerStepEarly(heap, incoming, working) ==
    [heap EXCEPT !.working_heap = working,
                 !.transitions = Append(@, [incoming_result |-> incoming,
                                            resulting_heap  |-> heap.working_heap])]
ExplainerStep(heap, incoming, working) ==
    [heap EXCEPT !.working_heap = working,
                 !.transitions = Append(@, [incoming_result |-> incoming,
                                            resulting_heap  |-> working])]

\* explainer_lift: the result carries the trace, and parents are given the
\* wrapped fold's own result.
ExplainerLift ==
    ShapeLift(Same, [f \in Any |->
        NewFold([n \in Any |-> ExplainerHeap(n, f.init[n])],
                [heap, child \in Any |->
                    ExplainerStep(heap, child,
                        f.accumulate[heap.working_heap, child.orig_result])],
                [heap \in Any |->
                    [orig_result |-> f.finalize[heap.working_heap], heap |-> heap]])])

\* The formatter folds render one heap; they are run without children.
TraceFoldCompact ==
    NewFold([heap \in Any |-> <<heap.node, Len(heap.transitions), heap.working_heap>>],
            [h, r \in Any |-> h], Same)
RunFormatter(fmt, heap) == fmt.finalize[fmt.init[heap]]

\* explainer_describe_lift: the same recording, given away at finalize
\* through `emit`; the results stay those of the wrapped fold. Here emit
\* returns what was rendered next to the result it was rendered for.
DescribeLift(fmt, emit) ==
    ShapeLift(Same, [f \in Any |->
        NewFold([n \in Any |-> ExplainerHeap(n, f.init[n])],
                [heap, child \in Any |->
                    ExplainerStep(heap, child,
                        f.accumulate[heap.working_heap, child])],
                [heap \in Any |->
                    emit[RunFormatter(fmt, heap), f.finalize[heap.working_heap]]])])

\* The captured trace as a graph of its own.
TreeishForExplres ==
    [x \in Any |->
        VisitMap(x.heap.transitions, [step \in Any |-> step.incoming_result])]

----------------------------------------------------------------------------
\* The projection of a seed-closed trace: below the entry row every row is
\* a node, and `expect` gives it up otherwise.

RECURSIVE UnwrapBelowRoot(_)
UnwrapBelowRoot(x) ==
    [orig_result |-> x.orig_result,
     heap |-> [x.heap EXCEPT
        !.node = Head(IntoNode(@)),
        !.transitions =
            VisitMap(@, [step \in Any |->
                [incoming_result |-> UnwrapBelowRoot(step.incoming_result),
                 resulting_heap  |-> step.resulting_heap]])]]

SeedExplainerResult(raw) ==
    [entry_initial_heap |-> raw.heap.initial_heap,
     entry_working_heap |-> raw.heap.working_heap,
     orig_result        |-> raw.orig_result,
     roots              |-> VisitMap(raw.heap.transitions,
                                [step \in Any |-> UnwrapBelowRoot(step.incoming_result)])]
=============================================================================
