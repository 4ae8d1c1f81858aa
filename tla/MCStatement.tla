----------------------------- MODULE MCStatement -----------------------------
(* Results of up to three rows; rowsets of no row, of one, and of more than *)
(* the result has.                                                          *)
EXTENDS Statement
=============================================================================
