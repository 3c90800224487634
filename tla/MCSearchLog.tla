---------------------------- MODULE MCSearchLog -----------------------------
(* SearchLog on a small instance: two searches, each of one of two users or   *)
(* of nobody, and a click on one product.                                     *)
EXTENDS SearchLog

CONSTANTS s1, s2, u1, u2, k1, q1, p1, Nobody
=============================================================================
