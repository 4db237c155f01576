---------------------------- MODULE MCRepoIndex ----------------------------
(* Instances of RepoIndex: content v1 has one chunk, v2 (v1 emptied) has    *)
(* none, and the chunker refuses content bad.                               *)
EXTENDS RepoIndex, TLC

CONSTANTS v1, v2, bad, b1, i1

MCBodiesOf == (v1 :> {b1}) @@ (v2 :> {}) @@ (bad :> {})
MCTermsOf == [v \in {v1, v2, bad} |-> [b \in {b1} |-> {}]]
MCIdentsOf == [v \in {v1, v2, bad} |-> [b \in {b1} |-> {i1}]]
MCClient == Handler \cup {Indexer}
=============================================================================
