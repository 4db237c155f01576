------------------------------ MODULE MCServer ------------------------------
EXTENDS Server, TLC

CONSTANTS t1, t2, k1, k2

\* The tasks share a chunk, at different places.
MCCandidates == (t1 :> <<k1, k2>>) @@ (t2 :> <<k2>>)
MCCost == {1, 4}
=============================================================================
