---------------------------- MODULE MCFunnelWalk ----------------------------
(* Instances of FunnelWalk for TLC: small trees of the shapes that matter. *)
EXTENDS FunnelWalk, TLC

\* node 1 is the root; a node that is not listed is a leaf
Tree(f) == [n \in Nodes |-> IF n \in DOMAIN f THEN f[n] ELSE <<>>]

\* wide enough to overflow a queue, the overflowing child with children of its own
Wide == Tree(1 :> <<2, 3, 4, 5>> @@ 2 :> <<8, 9>> @@ 5 :> <<6, 7>>)
\* only children above and below branches, on the walker's and on a task's path
Chains == Tree(1 :> <<2>> @@ 2 :> <<3, 4>> @@ 3 :> <<5>> @@ 4 :> <<6>> @@ 6 :> <<7>>)
\* branches under both children
Binary == Tree(1 :> <<2, 3>> @@ 2 :> <<4, 5, 8>> @@ 3 :> <<6, 7>>)
Single == Tree(<<>>)

TheTrees == {Wide, Chains, Binary, Single}
=============================================================================
