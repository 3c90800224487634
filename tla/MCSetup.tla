------------------------------- MODULE MCSetup -------------------------------
(* Setup on a small instance: two executions of the seed, two categories,   *)
(* two products of one section, and one category that API clients create.   *)
EXTENDS Setup, TLC

CONSTANTS r1, r2, c1

TwoCategories == <<"electronics", "smartphones">>
TwoProducts == <<"smartphones", "smartphones">>

(* The lists of the program itself are such that the proofs are about them. *)
ASSUME ProgramLists == ListsOK(SampleCategories, SampleProducts)

Symmetry == Permutations({r1, r2})
=============================================================================
