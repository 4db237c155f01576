---------------------------- MODULE MCStoreContract ----------------------------
(* Instances of StoreContract: content v1 has bodies b1 and b2, which share *)
(* a term and an identifier; content v2 is v1 with b1 gone.                *)
EXTENDS StoreContract, TLC

CONSTANTS p1, p2, c1, c2, v1, v2, b1, b2, t1, t2, i1, i2

VARIABLE mode

MCBodiesOf == (v1 :> {b1, b2}) @@ (v2 :> {b2})
MCTermsOf ==
  (v1 :> ((b1 :> {t1, t2}) @@ (b2 :> {t1}))) @@
  (v2 :> ((b1 :> {}) @@ (b2 :> {t1})))
MCIdentsOf ==
  (v1 :> ((b1 :> {i1}) @@ (b2 :> {i1, i2}))) @@
  (v2 :> ((b1 :> {}) @@ (b2 :> {i2})))

(* Either one client writes one path and anything may fail, or two clients *)
(* write a path each and nothing fails but reads: the commands of the two  *)
(* pipelines interleave freely.  Alone, the frequencies that are sent again *)
(* and again are followed up to 2.                                         *)
MCInit == ContractInit /\ mode \in {"alone", "side by side"}

Writers(o) == {c \in Client : o[c] # NoOp}
Allowed ==
  CASE mode = "alone" ->
         /\ \A c \in Writers(op') : c = c1 /\ op'[c].path = p1
         /\ \A t \in Term : df'[t] \in -2..2
    [] OTHER ->
         /\ \A c \in Writers(op') :
              /\ op'[c].path = (IF c = c1 THEN p1 ELSE p2)
              /\ ~op'[c].refused /\ op'[c].tries = 0
         /\ torn' = {}

MCNext == ContractNext /\ Allowed /\ UNCHANGED mode

MCSpec == MCInit /\ [][MCNext]_<<contractVars, mode>>
=============================================================================
