------------------------------ MODULE MCDerived ------------------------------
(* A deliver and a light redraw with `cut` of one picture. *)
EXTENDS Derived

Pair        == {"deliver", "light"}
PairNeeds   == [deliver |-> {"alpha"}, light |-> {"alpha", "depth"}]
PairPieces  == [deliver |-> 2, light |-> 1]
OnlyDeliver  == {"deliver"}
DeliverNeeds == [deliver |-> {"alpha"}]
DeliverPieces == [deliver |-> 2]

OnlyLight   == {"light"}
TwoReleases == {1, 2}
=============================================================================
