----------------------------- MODULE OwnedDomain -----------------------------
(***************************************************************************)
(* The Owned domain: Box storage, every combinator consumes its receiver.  *)
(* It has no lifts; its sugars are methods of Fold and Edgy.               *)
(***************************************************************************)
EXTENDS Naturals, Sequences, SequencesExt, TLC

Common == INSTANCE SharedDomain

MapEndpoints(graph, rewrite) == rewrite[graph]
EdgyMap(graph, transform) ==
    MapEndpoints(graph, [inner \in Any |->
        [n \in Any |-> Common!VisitMap(inner[n], transform)]])
EdgyContramap(graph, transform) ==
    MapEndpoints(graph, [inner \in Any |-> [n \in Any |-> inner[transform[n]]]])
EdgyFilter(graph, pred) ==
    MapEndpoints(graph, [inner \in Any |->
        [n \in Any |-> Common!VisitFilter(inner[n], pred)]])

MapPhases(fold, mapInit, mapAcc, mapFin) ==
    [init       |-> mapInit[fold.init],
     accumulate |-> mapAcc[fold.accumulate],
     finalize   |-> mapFin[fold.finalize]]

Same[closure \in Any] == closure

WrapInit(fold, w) ==
    MapPhases(fold, [init \in Any |-> Common!WrappedInit(init, w)], Same, Same)
WrapAccumulate(fold, w) ==
    MapPhases(fold, Same, [acc \in Any |-> Common!WrappedAccumulate(acc, w)], Same)
WrapFinalize(fold, w) ==
    MapPhases(fold, Same, Same, [fin \in Any |-> Common!WrappedFinalize(fin, w)])
MapRBi(fold, mapper, back) ==
    MapPhases(fold, Same,
              [acc \in Any |-> [h, r \in Any |-> acc[h, back[r]]]],
              [fin \in Any |-> [h \in Any |-> mapper[fin[h]]]])
Zipmap(fold, mapper) ==
    MapRBi(fold, [r \in Any |-> <<r, mapper[r]>>], [pair \in Any |-> pair[1]])
ContramapN(fold, f) ==
    MapPhases(fold, [init \in Any |-> [n \in Any |-> init[f[n]]]], Same, Same)
=============================================================================
