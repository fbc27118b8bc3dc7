---------------------------- MODULE MCFoldChain ----------------------------
(***************************************************************************)
(* The settings FoldChain is checked in.                                   *)
(***************************************************************************)
EXTENDS FoldChain

In(accumulate, inlineFirst, weakMemory) ==
  [accumulate |-> accumulate, inlineFirst |-> inlineFirst, weakMemory |-> weakMemory]

\* in the order of walk_cps, OnArrival with stale loads and OnFinalize without, and
\* in the order of the unit tests of the chain
WalkAndTests == {In("OnArrival", TRUE, TRUE), In("OnFinalize", TRUE, FALSE),
                 In("OnArrival", FALSE, FALSE), In("OnFinalize", FALSE, FALSE)}
\* OnFinalize, the default, in walk_cps on a machine that delays stores
StaleWalk == {In("OnFinalize", TRUE, TRUE)}
=============================================================================
