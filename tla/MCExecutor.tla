----------------------------- MODULE MCExecutor -----------------------------
(* Instances of Executor: two callers, two pooled connections.              *)
EXTENDS Executor

CONSTANTS c1, c2, s1, s2
=============================================================================
