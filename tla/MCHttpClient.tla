---------------------------- MODULE MCHttpClient ----------------------------
(* HttpClient on a small instance: limits of two, so that a run can be broken; *)
(* a negative number of retries, the default of one, and one so large that    *)
(* the last backoff overflows the word of four bits.                         *)
EXTENDS HttpClient

CONSTANTS a, b, d

RetriesToConfigure == {-1, 0, 2}
=============================================================================
