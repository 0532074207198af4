-------------------------------- MODULE MCPool --------------------------------
(* The pool contract on small instances. *)
EXTENDS Pool

Symmetry == Permutations(Investors)

MCNone == {}
MCZero == {0}
MCZeroOne == {0, 1}
MCOne == {1}
MCTwo == {2}
MCThree == {3}
MCOneTwo == {1, 2}
MCOneFour == {1, 4}
=============================================================================
