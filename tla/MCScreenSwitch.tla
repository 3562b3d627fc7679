--------------------------- MODULE MCScreenSwitch ---------------------------
(* Two screen names and three connections, of which two have one name.      *)
EXTENDS ScreenSwitch, TLC

CONSTANTS p1, p2, p3, left, right, e, w

MCName == (p1 :> left) @@ (p2 :> left) @@ (p3 :> right)

\* The two connections of one name, and the two directions, can be exchanged.
MCSymmetry == Permutations({p1, p2}) \cup Permutations({e, w})
=============================================================================
