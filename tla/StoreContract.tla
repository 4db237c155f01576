---------------------------- MODULE StoreContract ----------------------------
(***************************************************************************)
(* The contract of MoonStore (store.rs, the comment on the struct): callers *)
(* serialise the writes of a path, writes to different paths run side by   *)
(* side.  Under it, what a write leaves behind is stated exactly, with two *)
(* history variables that remember which failures ever happened.           *)
(***************************************************************************)
EXTENDS FileStore

CONSTANT Nothing  \* in FileIndex: no write pending, no content to rely on

ASSUME NothingAssumption == Nothing \notin Version

VARIABLES
  scarred,  \* paths on which some write ever failed half-way
  skewed    \* a HINCRBY was ever replayed or lost

contractVars == <<vars, scarred, skewed>>

ContractInit == Init /\ scarred = {} /\ skewed = FALSE

\* Some HINCRBY of this attempt may have been run.
Counted(o) ==
  \/ o.stage = "count" /\ o.todo # Commands(o, "count")
  \/ o.stage \in {"record", "list", "reply"} /\ Commands(o, "count") # {}

Remember ==
  /\ scarred' = scarred \cup torn'
  /\ skewed' = (\/ skewed \/ torn' # {}
                \/ \E c \in Client : op'[c].tries > op[c].tries /\ Counted(op[c]))

ContractNext ==
  \E c \in Client :
    \/ \E p \in Path, v \in Version : ~Busy(p) /\ Begin(c, p, v) /\ Remember
    \/ Progress(c) /\ Remember
    \/ Fault(c) /\ Remember

ContractSpec == ContractInit /\ [][ContractNext]_contractVars

-----------------------------------------------------------------------------
ContractTypeOK ==
  TypeOK /\ scarred \in SUBSET Path /\ skewed \in BOOLEAN

(* On a path where no write was ever given up, nothing is left over: no    *)
(* chunk, and no membership in an identifier set, that the recorded        *)
(* content does not have, however often pipelines were sent again.         *)
SettledExact ==
  \A p \in Path : Settled(p) /\ p \notin scarred =>
    /\ live[p] = Bodies(record[p])
    /\ \A i \in Ident :
         member[i][p] = {b \in Bodies(record[p]) : i \in IdentsIn(record[p], b)}

Occurrences(t) ==
  Cardinality({pb \in Path \X Body : t \in terms[pb[1]][pb[2]]})

AllIdle == \A c \in Client : Idle(c)

(* As long as no HINCRBY was replayed or lost, the frequency of a term is  *)
(* the number of chunks indexed under it whenever no write is under way:   *)
(* the chunks that disappear and appear account for every change.  That    *)
(* needs contents whose shared chunks have the same terms; a chunk whose   *)
(* enclosing symbol was renamed keeps its id and gets other terms, which   *)
(* put_file does not count.                                                *)
NothingRenamed ==
  \A v, w \in Content : \A b \in Bodies(v) \cap Bodies(w) : TermsIn(v, b) = TermsIn(w, b)
DfExact ==
  NothingRenamed /\ AllIdle /\ ~skewed => \A t \in Term : df[t] = Occurrences(t)

-----------------------------------------------------------------------------
Changing(p) == \E c \in Client : op[c].path = p /\ op[c].stage \in Pipeline

\* The content of p as FileIndex has it, and the one p is to get from the
\* writes o that are under way.
IndexOf(p) == IF p \in torn \/ Changing(p) THEN Nothing ELSE record[p]

Writes(o, c, p) == o[c].stage # "idle" /\ o[c].path = p
PendingIn(o, p) ==
  IF \E c \in Client : Writes(o, c, p)
    THEN o[CHOOSE c \in Client : Writes(o, c, p)].new
    ELSE Nothing

Abstract == INSTANCE FileIndex WITH
  index <- [p \in Path |-> IndexOf(p)],
  pending <- [p \in Path |-> PendingIn(op, p)],
  chunks <- live

(* The pipelines implement the atomic map of FileIndex.                    *)
ImplementsFileIndex == Abstract!Spec
=============================================================================
