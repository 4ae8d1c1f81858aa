------------------------------- MODULE Tables -------------------------------
(***************************************************************************)
(* Constant tables: std::map and switch statements of the driver as        *)
(* functions that are put together from smaller ones.                      *)
(***************************************************************************)

\* Both tables; f wins where they overlap.
Merged(f, g) == [x \in DOMAIN f \cup DOMAIN g |-> IF x \in DOMAIN f THEN f[x] ELSE g[x]]
f @@ g == Merged(f, g)

\* The same entry for each of the types, and a look-up with a default.
All(types, n) == [t \in types |-> n]
At(table, t, default) == IF t \in DOMAIN table THEN table[t] ELSE default
=============================================================================
