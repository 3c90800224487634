-------------------------- MODULE MCCatalogHistory --------------------------
(* CatalogHistory on a small instance: one request between the two statements *)
(* of another, or after it.                                                   *)
EXTENDS CatalogHistory, TLC

CONSTANTS p1, c1, c2, n1, x1, s1, s2, r1, r2

Symmetry == Permutations({r1, r2}) \cup Permutations({c1, c2})
            \cup Permutations({s1, s2})
=============================================================================
