------------------------------- MODULE Lifts -------------------------------
(***************************************************************************)
(* Composed lifts over a (treeish, fold) pair and the fused executor that  *)
(* runs what they make of it. A lift is a term: an atom, which names a     *)
(* constructor of the library and says whether its nodes are seed rows, or *)
(* a composition of two lifts. The domain that interprets an atom is a     *)
(* parameter: the code has the same constructors in Shared and in Local.   *)
(***************************************************************************)
EXTENDS PreludeFolds, Explainer

Loc == INSTANCE LocalDomain
Own == INSTANCE OwnedDomain

----------------------------------------------------------------------------
\* The instance. The graph is a diamond, 2 and 3 have the same children; the
\* fold writes down the traversal, so that any change of it shows.

BaseNodes == 1..4
Diamond == [n \in BaseNodes |-> CASE n = 1 -> <<2, 3>> [] n \in {2, 3} -> <<4>>
                              [] OTHER -> <<>>]
Listing == NewFold([n \in Any |-> <<n>>], [h, r \in Any |-> h \o r],
                   [h \in Any |-> Append(h, 0)])
BasePair == [treeish |-> [n \in Any |-> Diamond[n]], fold |-> Listing]

\* What a user gives the lifts: node functions, lifted to rows, and wrappers.
OnRow(rows, n, f) == IF rows THEN MapNode(n, f) ELSE f[n]
Twin[n \in Any] == CASE n % 10 = 2 -> n + 1 [] n % 10 = 3 -> n - 1 [] OTHER -> n
Keep(rows, n) == IF ~rows THEN n % 10 # 3
                 ELSE IsEntryRoot(n) \/ n.of % 10 # 3
Shift[n \in Any] == n + 10
Unshift[n \in Any] == n - 10
Boxed[r \in Any] == [boxed |-> r]
Unbox[b \in Any] == b.boxed
Twice[h, r, acc \in Any] == acc[acc[h, r], r]
TwiceEach[n, g \in Any] == FlatVisit(At(g, n), [c \in Any |-> <<c, c>>])
Delegated[h, fin \in Any] == fin[h]
Unchanged[text, r \in Any] == r
Seeds == <<"b", "c", "c">>
Grow[s \in Any] == IF s = "b" THEN 2 ELSE 3
EntryHeap == <<99>>

AtomKinds == {"wrap_init", "wrap_accumulate", "wrap_finalize", "zipmap",
              "map_r_bi", "filter_edges", "wrap_visit", "map_n_bi",
              "explainer", "describe"}
Atom(kind, rows) == [kind |-> kind, rows |-> rows]
SeedAtom == Atom("seed", FALSE)
Identity == Atom("identity", FALSE)
Compose(inner, outer) == [kind |-> "composed", inner |-> inner, outer |-> outer]

----------------------------------------------------------------------------
\* The constructors of the two domains.

SharedLift(atom) ==
    CASE atom.kind = "wrap_init" ->
            WrapInitLift([n, old \in Any |-> old[OnRow(atom.rows, n, Twin)]])
      [] atom.kind = "wrap_accumulate" -> WrapAccumulateLift(Twice)
      [] atom.kind = "wrap_finalize" -> WrapFinalizeLift(Delegated)
      [] atom.kind = "zipmap" -> ZipmapLift(Boxed)
      [] atom.kind = "map_r_bi" -> MapRBiLift(Boxed, Unbox)
      [] atom.kind = "filter_edges" -> FilterEdgesLift([n \in Any |-> Keep(atom.rows, n)])
      [] atom.kind = "wrap_visit" -> WrapVisitLift(TwiceEach)
      [] atom.kind = "map_n_bi" ->
            MapNBiLift([n \in Any |-> OnRow(atom.rows, n, Shift)],
                       [n \in Any |-> OnRow(atom.rows, n, Unshift)])
      [] atom.kind = "explainer" -> ExplainerLift
      [] atom.kind = "describe" -> DescribeLift(TraceFoldCompact, Unchanged)
      [] atom.kind = "seed" -> SeedLift(Grow, Seeds, EntryHeap)

\* Local has no describe lift.
LocalLift(atom) ==
    CASE atom.kind = "wrap_init" ->
            Loc!WrapInitLift([n, old \in Any |-> old[OnRow(atom.rows, n, Twin)]])
      [] atom.kind = "wrap_accumulate" -> Loc!WrapAccumulateLift(Twice)
      [] atom.kind = "wrap_finalize" -> Loc!WrapFinalizeLift(Delegated)
      [] atom.kind = "zipmap" -> Loc!ZipmapLift(Boxed)
      [] atom.kind = "map_r_bi" -> Loc!MapRBiLift(Boxed, Unbox)
      [] atom.kind = "filter_edges" ->
            Loc!FilterEdgesLift([n \in Any |-> Keep(atom.rows, n)])
      [] atom.kind = "wrap_visit" -> Loc!WrapVisitLift(TwiceEach)
      [] atom.kind = "map_n_bi" ->
            Loc!MapNBiLift([n \in Any |-> OnRow(atom.rows, n, Shift)],
                           [n \in Any |-> OnRow(atom.rows, n, Unshift)])
      [] atom.kind = "explainer" -> Loc!ExplainerLift
      [] atom.kind = "describe" -> DescribeLift(TraceFoldCompact, Unchanged)
      [] atom.kind = "seed" -> Loc!SeedLift(Grow, Seeds, EntryHeap)

Interpret(domain, atom) ==
    IF domain = "shared" THEN SharedLift(atom) ELSE LocalLift(atom)

----------------------------------------------------------------------------
\* Lift::apply and the executor.

RECURSIVE Apply(_, _, _)
Apply(domain, lift, pair) ==
    CASE lift.kind = "composed" ->
            Apply(domain, lift.outer, Apply(domain, lift.inner, pair))
      [] lift.kind = "identity" -> pair
      [] OTHER -> ApplyShape(Interpret(domain, lift), pair)

\* recurse of the fused executor.
RECURSIVE Recurse(_, _, _)
Recurse(fold, graph, n) ==
    fold.finalize[VisitFold(At(graph, n), fold.init[n],
                    [heap, child \in Any |->
                        fold.accumulate[heap, Recurse(fold, graph, child)]])]

\* run_on: the lifted pair under the executor.
RunPair(pair, root) == Recurse(pair.fold, pair.treeish, root)
RunOn(domain, lift, root) == RunPair(Apply(domain, lift, BasePair), root)

----------------------------------------------------------------------------
\* What is known of a lift from its term.

RECURSIVE Atoms(_)
Atoms(lift) == IF lift.kind = "composed" THEN Atoms(lift.inner) \o Atoms(lift.outer)
               ELSE <<lift>>
Kinds(lift) == {Atoms(lift)[i].kind : i \in DOMAIN Atoms(lift)}
HasRows(lift) == "seed" \in Kinds(lift)

\* The name a node of the base graph has after the lift, and the roots a run
\* may start from.
Renamed(lift, n) ==
    VisitFold(Atoms(lift), n, [m, atom \in Any |->
        CASE atom.kind = "seed" -> SeedNode[m]
          [] atom.kind = "map_n_bi" -> OnRow(atom.rows, m, Shift)
          [] OTHER -> m])
Roots(lift) == {Renamed(lift, n) : n \in BaseNodes}
                    \cup (IF HasRows(lift) THEN {EntryRoot} ELSE {})
=============================================================================
