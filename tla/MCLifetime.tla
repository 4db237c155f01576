----------------------------- MODULE MCLifetime -----------------------------
(* Instances of Lifetime: three processes that may run the daemon, and stop *)
(* commands that overlap.                                                   *)
EXTENDS Lifetime

CONSTANTS d1, d2, d3, s1, s2, k1
=============================================================================
