----------------------------- MODULE LocalDomain -----------------------------
(***************************************************************************)
(* The Local domain: the same vocabulary as the Shared one over Rc, written*)
(* out a second time in the code and so translated a second time here.     *)
(* The phase wrappers of fold_combinators.rs, Visit and the records of the *)
(* explainer are common to the domains.                                    *)
(***************************************************************************)
EXTENDS Naturals, Sequences, SequencesExt, TLC

Common == INSTANCE Explainer

----------------------------------------------------------------------------
\* Edgy over Rc.

MapEndpoints(graph, rewrite) == rewrite[graph]
EdgyMap(graph, transform) ==
    MapEndpoints(graph, [inner \in Any |->
        [n \in Any |-> Common!VisitMap(inner[n], transform)]])
EdgyContramap(graph, transform) ==
    MapEndpoints(graph, [inner \in Any |-> [n \in Any |-> inner[transform[n]]]])
\* A filter that asks about the node instead of its children.
EdgyFilterParents(graph, pred) ==
    MapEndpoints(graph, [inner \in Any |->
        [n \in Any |-> IF pred[n] THEN inner[n] ELSE <<>>]])
EdgyFilter(graph, pred) ==
    MapEndpoints(graph, [inner \in Any |->
        [n \in Any |-> Common!VisitFilter(inner[n], pred)]])

----------------------------------------------------------------------------
\* Fold over Rc.

NewFold(init, acc, fin) ==
    [init |-> init, accumulate |-> acc, finalize |-> fin]

MapPhases(fold, mapInit, mapAcc, mapFin) ==
    [init       |-> mapInit[fold.init],
     accumulate |-> mapAcc[fold.accumulate],
     finalize   |-> mapFin[fold.finalize]]

Same[closure \in Any] == closure

WrapInit(fold, w) ==
    MapPhases(fold, [init \in Any |-> Common!WrappedInit(init, w)], Same, Same)
WrapAccumulate(fold, w) ==
    MapPhases(fold, Same, [acc \in Any |-> Common!WrappedAccumulate(acc, w)], Same)
WrapFinalize(fold, w) ==
    MapPhases(fold, Same, Same, [fin \in Any |-> Common!WrappedFinalize(fin, w)])
MapRBi(fold, mapper, back) ==
    MapPhases(fold, Same,
              [acc \in Any |-> [h, r \in Any |-> acc[h, back[r]]]],
              [fin \in Any |-> [h \in Any |-> mapper[fin[h]]]])
Zipmap(fold, mapper) ==
    MapRBi(fold, [r \in Any |-> <<r, mapper[r]>>], [pair \in Any |-> pair[1]])
ContramapN(fold, f) ==
    MapPhases(fold, [init \in Any |-> [n \in Any |-> init[f[n]]]], Same, Same)
Product(fold, other) ==
    NewFold([n \in Any |-> <<fold.init[n], other.init[n]>>],
            [h, r \in Any |-> <<fold.accumulate[h[1], r[1]],
                                other.accumulate[h[2], r[2]]>>],
            [h \in Any |-> <<fold.finalize[h[1]], other.finalize[h[2]]>>])

----------------------------------------------------------------------------
\* The lifts of Local.

ShapeLift(treeishXform, foldXform) ==
    [treeish |-> treeishXform, fold |-> foldXform]

PhasesLift(mi, ma, mf) ==
    ShapeLift(Same, [f \in Any |-> MapPhases(f, mi, ma, mf)])
TreeishLift(mt) == ShapeLift(mt, Same)
NLift(buildTreeish, contra) ==
    ShapeLift(buildTreeish, [f \in Any |-> ContramapN(f, contra)])

WrapInitLift(w) ==
    PhasesLift([old \in Any |-> [n \in Any |-> w[n, old]]], Same, Same)
WrapAccumulateLift(w) ==
    PhasesLift(Same, [old \in Any |-> [h, r \in Any |-> w[h, r, old]]], Same)
WrapFinalizeLift(w) ==
    PhasesLift(Same, Same, [old \in Any |-> [h \in Any |-> w[h, old]]])
ZipmapLift(m) ==
    PhasesLift(Same,
               [old \in Any |-> [h, r \in Any |-> old[h, r[1]]]],
               [old \in Any |-> [h \in Any |-> <<old[h], m[old[h]]>>]])
MapRBiLift(fwd, bwd) ==
    PhasesLift(Same,
               [old \in Any |-> [h, r \in Any |-> old[h, bwd[r]]]],
               [old \in Any |-> [h \in Any |-> fwd[old[h]]]])
FilterEdgesLift(pred) == TreeishLift([g \in Any |-> EdgyFilter(g, pred)])
WrapVisitLift(w) ==
    TreeishLift([g \in Any |-> [n \in Any |-> w[n, g]]])
MapNBiLift(co, contra) ==
    NLift([base \in Any |->
              [n2 \in Any |-> Common!VisitMap(base[contra[n2]], co)]],
          contra)

ExplainerLift ==
    ShapeLift(Same, [f \in Any |->
        NewFold([n \in Any |-> Common!ExplainerHeap(n, f.init[n])],
                [heap, child \in Any |->
                    Common!ExplainerStep(heap, child,
                        f.accumulate[heap.working_heap, child.orig_result])],
                [heap \in Any |->
                    [orig_result |-> f.finalize[heap.working_heap], heap |-> heap]])])

SeedLift(grow, entrySeeds, entryHeap) ==
    ShapeLift(
        [base \in Any |-> [row \in Any |->
            IF Common!IsEntryRoot(row)
            THEN Common!VisitMap(entrySeeds, [s \in Any |-> Common!SeedNode[grow[s]]])
            ELSE Common!VisitMap(base[row.of], Common!SeedNode)]],
        [f \in Any |-> NewFold(
            [row \in Any |->
                IF Common!IsEntryRoot(row) THEN entryHeap ELSE f.init[row.of]],
            f.accumulate, f.finalize)])
=============================================================================
