---------------------------- MODULE MCDescriptors ----------------------------
(* Two statements of one connection and one of another, three explicit      *)
(* descriptors.                                                             *)
EXTENDS Descriptors, TLC

CONSTANTS s1, s2, s3, c1, c2

MCConnOf == s1 :> c1 @@ s2 :> c1 @@ s3 :> c2
MCImplicit == {"ARD", "APD", "IRD", "IPD"} \X {s1, s2, s3}
MCOwnerOf == [h \in MCImplicit |-> h[2]]
MCKindOf == [h \in MCImplicit |-> h[1]]
MCArdi == [s \in {s1, s2, s3} |-> <<"ARD", s>>]

Symmetry == Permutations(Desc)
=============================================================================
