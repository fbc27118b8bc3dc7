---------------------------- MODULE SharedDomain ----------------------------
(***************************************************************************)
(* The Shared domain: a Fold is three closures, and a ShapeLift a pair of  *)
(* rewrites, one of the treeish and one of the fold. A closure that        *)
(* updates a heap in place is a function from the old heap to the new one. *)
(***************************************************************************)
EXTENDS Edgy

----------------------------------------------------------------------------
\* Fold and its one primitive, map_phases.

NewFold(init, acc, fin) ==
    [init |-> init, accumulate |-> acc, finalize |-> fin]

MapPhases(fold, mapInit, mapAcc, mapFin) ==
    [init       |-> mapInit[fold.init],
     accumulate |-> mapAcc[fold.accumulate],
     finalize   |-> mapFin[fold.finalize]]

Same[closure \in Any] == closure

\* The wrappers of the user get the arguments and the closure they wrap.
WrappedInit(init, w) == [n \in Any |-> w[n, init]]
WrappedAccumulate(acc, w) == [h, r \in Any |-> w[h, r, acc]]
WrappedFinalize(fin, w) == [h \in Any |-> w[h, fin]]

WrapInit(fold, w) ==
    MapPhases(fold, [init \in Any |-> WrappedInit(init, w)], Same, Same)
WrapAccumulate(fold, w) ==
    MapPhases(fold, Same, [acc \in Any |-> WrappedAccumulate(acc, w)], Same)
WrapFinalize(fold, w) ==
    MapPhases(fold, Same, Same, [fin \in Any |-> WrappedFinalize(fin, w)])

MapRBi(fold, mapper, back) ==
    MapPhases(fold, Same,
              [acc \in Any |-> [h, r \in Any |-> acc[h, back[r]]]],
              [fin \in Any |-> [h \in Any |-> mapper[fin[h]]]])

Zipmap(fold, mapper) ==
    MapRBi(fold, [r \in Any |-> <<r, mapper[r]>>], [pair \in Any |-> pair[1]])

ContramapN(fold, f) ==
    MapPhases(fold, [init \in Any |-> [n \in Any |-> init[f[n]]]], Same, Same)

Product(fold, other) ==
    NewFold([n \in Any |-> <<fold.init[n], other.init[n]>>],
            [h, r \in Any |-> <<fold.accumulate[h[1], r[1]],
                                other.accumulate[h[2], r[2]]>>],
            [h \in Any |-> <<fold.finalize[h[1]], other.finalize[h[2]]>>])

----------------------------------------------------------------------------
\* ShapeLift and the three primitives every library lift is made from.

ShapeLift(treeishXform, foldXform) ==
    [treeish |-> treeishXform, fold |-> foldXform]

\* ShapeLift::apply: each slot's rewrite on the slot it belongs to.
ApplyShape(lift, pair) ==
    [treeish |-> lift.treeish[pair.treeish], fold |-> lift.fold[pair.fold]]

PhasesLift(mi, ma, mf) ==
    ShapeLift(Same, [f \in Any |-> MapPhases(f, mi, ma, mf)])
TreeishLift(mt) == ShapeLift(mt, Same)
NLift(buildTreeish, contra) ==
    ShapeLift(buildTreeish, [f \in Any |-> ContramapN(f, contra)])

WrapInitLift(w) ==
    PhasesLift([old \in Any |-> [n \in Any |-> w[n, old]]], Same, Same)
WrapAccumulateLift(w) ==
    PhasesLift(Same, [old \in Any |-> [h, r \in Any |-> w[h, r, old]]], Same)
WrapFinalizeLift(w) ==
    PhasesLift(Same, Same, [old \in Any |-> [h \in Any |-> w[h, old]]])

ZipmapLift(m) ==
    PhasesLift(Same,
               [old \in Any |-> [h, r \in Any |-> old[h, r[1]]]],
               [old \in Any |-> [h \in Any |-> <<old[h], m[old[h]]>>]])

MapRBiLift(fwd, bwd) ==
    PhasesLift(Same,
               [old \in Any |-> [h, r \in Any |-> old[h, bwd[r]]]],
               [old \in Any |-> [h \in Any |-> fwd[old[h]]]])

FilterEdgesLift(pred) == TreeishLift([g \in Any |-> EdgyFilter(g, pred)])
WrapVisitLift(w) ==
    TreeishLift([g \in Any |-> [n \in Any |-> w[n, g]]])

MapNBiLift(co, contra) ==
    NLift([base \in Any |->
              [n2 \in Any |-> VisitMap(At(base, contra[n2]), co)]],
          contra)
=============================================================================
