----------------------------- MODULE MCListing ------------------------------
(* Listing on a small instance: three products make three pages of one item,  *)
(* or a full page of two and a short one; two weights, so that rows tie.      *)
EXTENDS Listing

CONSTANTS p1, p2, p3

Symmetry == Permutations({p1, p2, p3})
=============================================================================
