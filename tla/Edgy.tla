------------------------------- MODULE Edgy -------------------------------
(***************************************************************************)
(* Graphs as values: Visit and the Edgy/Treeish of the Shared domain.      *)
(*                                                                         *)
(* The code passes children to a callback, in order, and nothing a         *)
(* callback does changes what is emitted next. A Visit is therefore the    *)
(* sequence of what it emits, and an Edgy the function from nodes to these *)
(* sequences. A type parameter of the code ranges over every type: its     *)
(* counterpart is the set Any of the standard module TLC, and a closure a  *)
(* function on it.                                                         *)
(***************************************************************************)
EXTENDS Naturals, Sequences, SequencesExt, TLC

----------------------------------------------------------------------------
\* Visit: one iteration over children.

VisitMap(run, f) == [i \in DOMAIN run |-> f[run[i]]]
VisitFilter(run, pred) == SelectSeq(run, LAMBDA t : pred[t])
FlatVisit(run, f) == FlattenSeq(VisitMap(run, f))
VisitFold(run, init, acc) == FoldLeft(LAMBDA h, t : acc[h, t], init, run)
VisitCount(run) == VisitFold(run, 0, [n, t \in Any |-> n + 1])

----------------------------------------------------------------------------
\* Edgy: what is emitted for each node. Every combinator rewrites the one
\* closure an Edgy stores.

At(graph, n) == graph[n]
MapEndpoints(graph, rewrite) == rewrite[graph]

EdgyMap(graph, transform) ==
    MapEndpoints(graph, [inner \in Any |->
        [n \in Any |-> VisitMap(At(inner, n), transform)]])

EdgyContramap(graph, transform) ==
    MapEndpoints(graph, [inner \in Any |->
        [n \in Any |-> At(inner, transform[n])]])

\* `transform` either names the node to ask (Left) or the edges themselves
\* (Right).
EdgyContramapOrEmit(graph, transform) ==
    MapEndpoints(graph, [inner \in Any |->
        [n \in Any |->
            LET e == transform[n] IN
            IF e.side = "Left" THEN At(inner, e.value) ELSE e.value]])

EdgyFilter(graph, pred) ==
    MapEndpoints(graph, [inner \in Any |->
        [n \in Any |-> VisitFilter(At(inner, n), pred)]])

Treemap(graph, co, contra) ==
    EdgyContramap(EdgyMap(graph, co), contra)
=============================================================================
