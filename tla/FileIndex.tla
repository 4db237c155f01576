------------------------------ MODULE FileIndex ------------------------------
(***************************************************************************)
(* What the file store promises its callers (the Store trait of            *)
(* crates/laya-core/src/lib.rs: "replace all chunks of path", "remove a    *)
(* file and its chunks"): a map from paths to contents in which a write    *)
(* replaces the content of one path as a whole.  While a write is changing *)
(* a path, and after one that failed half-way, the path holds no content   *)
(* one can rely on.  A write that returns Ok leaves exactly the content it *)
(* was given, except that chunks left behind by an earlier failure may     *)
(* stay beside it.  A write that fails before it changed anything leaves   *)
(* the path as it was.                                                     *)
(***************************************************************************)
CONSTANTS Path, Content, Body, BodiesOf, NoFile,
          Nothing    \* no write pending; no content to rely on

VARIABLES
  index,    \* index[p]: the content of p, NoFile, or Nothing
  pending,  \* pending[p]: what the write under way was given, or Nothing
  chunks,   \* chunks[p]: the bodies a search can return
  scarred   \* paths on which a write failed half-way

vars == <<index, pending, chunks, scarred>>

BodiesIn(v) == IF v = NoFile THEN {} ELSE BodiesOf[v]

Init ==
  /\ index = [p \in Path |-> NoFile]
  /\ pending = [p \in Path |-> Nothing]
  /\ chunks = [p \in Path |-> {}]
  /\ scarred = {}

Start(p, v) ==
  /\ pending[p] = Nothing
  /\ pending' = [pending EXCEPT ![p] = v]
  /\ UNCHANGED <<index, chunks, scarred>>

Change(p) ==
  /\ pending[p] # Nothing
  /\ index' = [index EXCEPT ![p] = Nothing]
  /\ \E s \in SUBSET Body : chunks' = [chunks EXCEPT ![p] = s]
  /\ UNCHANGED <<pending, scarred>>

Finish(p) ==
  /\ pending[p] # Nothing
  /\ BodiesIn(pending[p]) \subseteq chunks[p]
  /\ p \in scarred \/ chunks[p] = BodiesIn(pending[p])
  /\ index' = [index EXCEPT ![p] = pending[p]]
  /\ pending' = [pending EXCEPT ![p] = Nothing]
  /\ UNCHANGED <<chunks, scarred>>

FailUnchanged(p) ==
  /\ pending[p] # Nothing
  /\ pending' = [pending EXCEPT ![p] = Nothing]
  /\ UNCHANGED <<index, chunks, scarred>>

FailHalfWay(p) ==
  /\ pending[p] # Nothing
  /\ index' = [index EXCEPT ![p] = Nothing]
  /\ pending' = [pending EXCEPT ![p] = Nothing]
  /\ scarred' = scarred \cup {p}
  /\ UNCHANGED chunks

Next ==
  \E p \in Path :
    \/ \E v \in Content \cup {NoFile} : Start(p, v)
    \/ Change(p) \/ Finish(p) \/ FailUnchanged(p) \/ FailHalfWay(p)

Spec == Init /\ [][Next]_vars
=============================================================================
