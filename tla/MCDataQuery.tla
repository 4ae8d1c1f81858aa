---------------------------- MODULE MCDataQuery ----------------------------
(* Instances of DataQuery for TLC: small results, two thread identities (a *)
(* second live worker would be a violation).                               *)
EXTENDS DataQuery, TLC

\* Every shape of three pages: with rows and without, last and not last.
AnyPages == {<<1, 1, 0>>, <<0, 2, 1>>, <<1, 0, 1>>, <<0>>, <<1>>}

\* Pages with rows from the first such page on: what the delivery properties
\* assume of the service.
SolidPages == {<<2, 1, 2>>, <<0, 1, 2, 1>>, <<0, 0>>, <<3>>}

Symmetry == Permutations(Thread)
=============================================================================
