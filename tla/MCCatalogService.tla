-------------------------- MODULE MCCatalogService --------------------------
(* CatalogService on a small instance.  Two requests in flight are enough for *)
(* every race between a read of one and a write of another.                   *)
EXTENDS CatalogService, TLC

CONSTANTS p1, c1, c2, n1, x1, x2, s1, s2, r1, r2

Symmetry == Permutations({r1, r2}) \cup Permutations({c1, c2})
            \cup Permutations({x1, x2}) \cup Permutations({s1, s2})
=============================================================================
