----------------------------- MODULE MCHandles -----------------------------
(* Instances of Handles for TLC.                                             *)
EXTENDS Handles, TLC

CONSTANTS e1, c1, c2, s1, s2, d1, none, nil, p1

Symmetry == Permutations({c1, c2}) \cup Permutations({s1, s2})
=============================================================================
