---------------------------- MODULE MCCursorNames ----------------------------
(* Three statements contending for two ordinary names, a long one and a    *)
(* reserved one.                                                           *)
EXTENDS CursorNames, TLC

Symmetry == Permutations(Stmt)
=============================================================================
