---------------------------- MODULE MCLifecycle -----------------------------
(* Lifecycle on a small instance: two requests and two goroutines compete    *)
(* for one connection, and each may need it twice.                            *)
EXTENDS Lifecycle

CONSTANTS r1, r2, g1, g2
=============================================================================
