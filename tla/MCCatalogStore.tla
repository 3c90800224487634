--------------------------- MODULE MCCatalogStore ---------------------------
(* CatalogStore on a small instance: three categories are enough for a chain, *)
(* a fork and a cycle through an intermediate category.                       *)
EXTENDS CatalogStore, TLC

CONSTANTS p1, p2, c1, c2, c3, n1, x1, s1, s2, s3

Symmetry == Permutations({c1, c2, c3}) \cup Permutations({s1, s2, s3})
            \cup Permutations({p1, p2})
=============================================================================
