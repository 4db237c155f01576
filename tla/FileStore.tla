------------------------------ MODULE FileStore ------------------------------
(***************************************************************************)
(* MoonStore's file writes (crates/laya-store/src/store.rs).               *)
(*                                                                         *)
(* A path is indexed by four things kept in Moon: the file record, one     *)
(* hash per chunk, the identifier sets that name the chunks defining or    *)
(* referencing an identifier, and the document frequencies of the terms.   *)
(* put_file and delete_file read the record, read the terms of the chunks  *)
(* that go away, and then send ONE pipeline of commands.  The server runs  *)
(* the commands of a pipeline one after the other, not as a transaction:   *)
(* commands of other clients come in between, the connection can break     *)
(* anywhere, and then the whole pipeline is sent again or given up.        *)
(*                                                                         *)
(* What is abstracted: a file content is a value whose chunks, terms and   *)
(* identifiers are given by the constants BodiesOf, TermsOf and IdentsOf   *)
(* (that is the chunker); a chunk id, the hash of (path, lines, text), is  *)
(* the pair <<path, body>>; a definition set and a reference set are both  *)
(* members of Ident; the commands of one chunk (HSET "" and DEL; HSET and  *)
(* its SADDs) are one step, and chunks are taken in any order.  A repo is  *)
(* an independent copy of all of this, so there is one.                    *)
(***************************************************************************)
EXTENDS Integers, FiniteSets

CONSTANTS
  Path,        \* repo-relative paths
  Content,     \* file contents, named by their blake3 hash
  Body,        \* (start line, end line, text) of a chunk
  Term,        \* normalised search terms
  Ident,       \* identifier sets: "defines x" and "refs x"
  Client,      \* threads that write to the store
  BodiesOf,    \* [Content -> SUBSET Body]
  TermsOf,     \* [Content -> [Body -> SUBSET Term]]: text and enclosing symbol
  IdentsOf,    \* [Content -> [Body -> SUBSET Ident]]
  NoFile,      \* no record, no file
  MaxRetries,  \* StoreConfig::max_retries
  DfBound      \* bound of the model: a df saturates at +/- DfBound

ASSUME ContentAssumption ==
  /\ NoFile \notin Content
  /\ IsFiniteSet(Body)
  /\ BodiesOf \in [Content -> SUBSET Body]
  /\ TermsOf \in [Content -> [Body -> SUBSET Term]]
  /\ IdentsOf \in [Content -> [Body -> SUBSET Ident]]

ASSUME BoundAssumption == MaxRetries \in Nat /\ DfBound \in Nat

VARIABLES
  record,  \* record[p]: the content the file record was written for
  live,    \* live[p]: bodies with a chunk hash (so, in the text index)
  terms,   \* terms[p][b]: its indexed "terms" field, {} without a hash
  member,  \* member[i][p]: bodies of p in identifier set i
  df,      \* df[t]: the document frequency the query planner reads
  files,   \* the set of indexed paths
  op,      \* op[c]: the put_file or delete_file client c is executing
  torn     \* paths whose last write failed after its pipeline was sent

vars == <<record, live, terms, member, df, files, op, torn>>
moon == <<record, live, terms, member, df, files>>

Version == Content \cup {NoFile}

Bodies(v) == IF v = NoFile THEN {} ELSE BodiesOf[v]
TermsIn(v, b) == IF v = NoFile THEN {} ELSE TermsOf[v][b]
IdentsIn(v, b) == IF v = NoFile THEN {} ELSE IdentsOf[v][b]

\* The "defines" and "refs" lists of a file record.
Idents(v) == UNION {IdentsIn(v, b) : b \in Bodies(v)}

(***************************************************************************)
(* A write in flight.  `new` is NoFile for delete_file: the pipeline it    *)
(* builds is that of a put without chunks, with DEL and SREM in place of   *)
(* the final HSET and SADD.  `todo` holds the commands of the current      *)
(* section the server has not run yet.                                     *)
(***************************************************************************)
Pipeline == {"drop", "unname", "insert", "count", "record", "list", "reply"}
Stage == {"idle", "read", "terms"} \cup Pipeline

Idle(c) == op[c].stage = "idle"
Busy(p) == \E c \in Client : ~Idle(c) /\ op[c].path = p

\* Chunks of the old record that the new content does not have.
Removed(o) == Bodies(o.old) \ Bodies(o.new)
Added(o) == Bodies(o.new) \ Bodies(o.old)

\* Faulty variants of the definitions below; every property of the project is
\* shown to fail with one of them put in the place of the correct definition.
DeltaOfEveryChunk(o, stored) ==
  [t \in Term |->
     Cardinality({b \in Bodies(o.new) : t \in TermsIn(o.new, b)})
     - Cardinality({b \in Removed(o) : t \in stored[b]})]

CommandsRenamingOnlyAdded(o, section) ==
  CASE section = "drop"   -> Removed(o)
    [] section = "unname" -> Idents(o.old)
    [] section = "insert" -> Added(o)
    [] section = "count"  -> {t \in Term : o.delta[t] # 0}
    [] OTHER              -> {}

CommandsKeepingNames(o, section) ==
  CASE section = "drop"   -> Removed(o)
    [] section = "insert" -> Bodies(o.new)
    [] section = "count"  -> {t \in Term : o.delta[t] # 0}
    [] OTHER              -> {}

\* count_terms over the removed chunks (terms read from Moon) and the added
\* ones; ids in both contents are taken to cancel out.
Delta(o, stored) ==
  [t \in Term |->
     Cardinality({b \in Added(o) : t \in TermsIn(o.new, b)})
     - Cardinality({b \in Removed(o) : t \in stored[b]})]

\* The commands of each section of the pipeline, in the order it is queued.
Commands(o, section) ==
  CASE section = "drop"   -> Removed(o)
    [] section = "unname" -> Idents(o.old)
    [] section = "insert" -> Bodies(o.new)
    [] section = "count"  -> {t \in Term : o.delta[t] # 0}
    [] OTHER              -> {}

Clamp(n) ==
  IF n > DfBound THEN DfBound ELSE IF n < -DfBound THEN -DfBound ELSE n

After == [drop |-> "unname", unname |-> "insert", insert |-> "count",
          count |-> "record", record |-> "list", list |-> "reply"]

Enter(o, section) ==
  [o EXCEPT !.stage = section, !.todo = Commands(o, section)]

-----------------------------------------------------------------------------
NoOp == [stage |-> "idle", path |-> NoFile, new |-> NoFile, old |-> NoFile,
         delta |-> [t \in Term |-> 0], todo |-> {}, tries |-> 0,
         refused |-> FALSE]

Init ==
  /\ record = [p \in Path |-> NoFile]
  /\ live = [p \in Path |-> {}]
  /\ terms = [p \in Path |-> [b \in Body |-> {}]]
  /\ member = [i \in Ident |-> [p \in Path |-> {}]]
  /\ df = [t \in Term |-> 0]
  /\ files = {}
  /\ op = [c \in Client |-> NoOp]
  /\ torn = {}

\* A client calls put_file(p, v), or delete_file(p) when v is NoFile.
Begin(c, p, v) ==
  /\ Idle(c)
  /\ op' = [op EXCEPT ![c] = [NoOp EXCEPT !.stage = "read", !.path = p,
                                              !.new = v]]
  /\ UNCHANGED <<moon, torn>>

\* file_record: one HMGET of chunks, defines and refs.
ReadRecord(c) ==
  /\ op[c].stage = "read"
  /\ op' = [op EXCEPT ![c].stage = "terms", ![c].old = record[op[c].path]]
  /\ UNCHANGED <<moon, torn>>

\* stored_terms of the chunks that go away; the pipeline is then built from
\* what the two reads returned and is sent.
ReadTerms(c) ==
  LET o == op[c] IN
  /\ o.stage = "terms"
  /\ op' = [op EXCEPT ![c] =
              Enter([o EXCEPT !.delta = Delta(o, terms[o.path])], "drop")]
  /\ UNCHANGED <<moon, torn>>

\* The server ran command x of client c's section, or refused it (Moon
\* answers "diskfull" while its low-disk guard pauses writes).  A refusal
\* does not stop the commands behind it.
Ran(c, x) == op' = [op EXCEPT ![c].todo = @ \ {x}]

Refuse(c) ==
  /\ op[c].stage \in Pipeline
  /\ \/ \E x \in op[c].todo :
          op' = [op EXCEPT ![c].todo = @ \ {x}, ![c].refused = TRUE]
     \/ /\ op[c].stage \in {"record", "list"}
        /\ op' = [op EXCEPT ![c] = Enter([op[c] EXCEPT !.refused = TRUE],
                                         After[op[c].stage])]
  /\ UNCHANGED <<moon, torn>>

\* HSET terms "" and DEL: the chunk leaves the text index and its hash goes.
DropChunk(c) ==
  LET p == op[c].path IN
  /\ op[c].stage = "drop"
  /\ \E b \in op[c].todo :
       /\ live' = [live EXCEPT ![p] = @ \ {b}]
       /\ terms' = [terms EXCEPT ![p][b] = {}]
       /\ Ran(c, b)
  /\ UNCHANGED <<record, member, df, files, torn>>

\* Faulty variant: the set is emptied of every path's ids.
UnnameWholeSet(c) ==
  /\ op[c].stage = "unname"
  /\ \E i \in op[c].todo :
       /\ member' = [member EXCEPT ![i] = [p \in Path |-> {}]]
       /\ Ran(c, i)
  /\ UNCHANGED <<record, live, terms, df, files, torn>>

\* SREM of every id of the old record from one identifier set it lists.
Unname(c) ==
  LET p == op[c].path IN
  /\ op[c].stage = "unname"
  /\ \E i \in op[c].todo :
       /\ member' = [member EXCEPT ![i][p] = @ \ Bodies(op[c].old)]
       /\ Ran(c, i)
  /\ UNCHANGED <<record, live, terms, df, files, torn>>

\* HSET of one chunk of the new content and SADD to the sets that name it.
InsertChunk(c) ==
  LET p == op[c].path
      v == op[c].new IN
  /\ op[c].stage = "insert"
  /\ \E b \in op[c].todo :
       /\ live' = [live EXCEPT ![p] = @ \cup {b}]
       /\ terms' = [terms EXCEPT ![p][b] = TermsIn(v, b)]
       /\ member' = [i \in Ident |->
                       IF i \in IdentsIn(v, b)
                         THEN [member[i] EXCEPT ![p] = @ \cup {b}]
                         ELSE member[i]]
       /\ Ran(c, b)
  /\ UNCHANGED <<record, df, files, torn>>

\* HINCRBY of one term's frequency: the one command that is not idempotent.
CountTerm(c) ==
  /\ op[c].stage = "count"
  /\ \E t \in op[c].todo :
       /\ df' = [df EXCEPT ![t] = Clamp(@ + op[c].delta[t])]
       /\ Ran(c, t)
  /\ UNCHANGED <<record, live, terms, member, files, torn>>

\* The server reached the end of a section.
NextSection(c) ==
  /\ op[c].stage \in {"drop", "unname", "insert", "count"}
  /\ op[c].todo = {}
  /\ op' = [op EXCEPT ![c] = Enter(op[c], After[op[c].stage])]
  /\ UNCHANGED <<moon, torn>>

\* HSET of the file record (put_file) or DEL of it (delete_file).
WriteRecord(c) ==
  /\ op[c].stage = "record"
  /\ record' = [record EXCEPT ![op[c].path] = op[c].new]
  /\ op' = [op EXCEPT ![c] = Enter(op[c], "list")]
  /\ UNCHANGED <<live, terms, member, df, files, torn>>

\* SADD of the path to the set of indexed files, or SREM of it.
ListFile(c) ==
  LET p == op[c].path IN
  /\ op[c].stage = "list"
  /\ files' = IF op[c].new = NoFile THEN files \ {p} ELSE files \cup {p}
  /\ op' = [op EXCEPT ![c] = Enter(op[c], "reply")]
  /\ UNCHANGED <<record, live, terms, member, df, torn>>

ReplyDespiteRefusal(c) ==
  /\ op[c].stage = "reply"
  /\ op' = [op EXCEPT ![c] = NoOp]
  /\ torn' = torn \ {op[c].path}
  /\ UNCHANGED moon

\* Every command was answered without an error: the call returns Ok.
Reply(c) ==
  /\ op[c].stage = "reply"
  /\ ~op[c].refused
  /\ op' = [op EXCEPT ![c] = NoOp]
  /\ torn' = torn \ {op[c].path}
  /\ UNCHANGED moon

\* The connection broke or timed out anywhere in the pipeline, even behind
\* its last command: Executor::run sends the same pipeline again.
Resend(c) ==
  /\ op[c].stage \in Pipeline
  /\ op[c].tries < MaxRetries
  /\ op' = [op EXCEPT ![c] = Enter([op[c] EXCEPT !.tries = @ + 1,
                                                 !.refused = FALSE], "drop")]
  /\ UNCHANGED <<moon, torn>>

\* A read failed: the call returns an error and nothing was written.
FailRead(c) ==
  /\ op[c].stage \in {"read", "terms"}
  /\ op' = [op EXCEPT ![c] = NoOp]
  /\ UNCHANGED <<moon, torn>>

\* The write is given up with part of its pipeline run: a command was
\* refused, the retries are used up, or the process died.
GiveUp(c) ==
  /\ op[c].stage \in Pipeline
  /\ op' = [op EXCEPT ![c] = NoOp]
  /\ torn' = torn \cup {op[c].path}
  /\ UNCHANGED moon

-----------------------------------------------------------------------------
\* A step of a write that is under way, and the three ways it can go wrong.
Progress(c) ==
  \/ ReadRecord(c) \/ ReadTerms(c)
  \/ DropChunk(c) \/ Unname(c) \/ InsertChunk(c) \/ CountTerm(c)
  \/ NextSection(c) \/ WriteRecord(c) \/ ListFile(c) \/ Reply(c)

Fault(c) == Refuse(c) \/ Resend(c) \/ FailRead(c) \/ GiveUp(c)

-----------------------------------------------------------------------------
OpType ==
  [stage : Stage, path : Path \cup {NoFile}, new : Version, old : Version,
   delta : [Term -> Int], todo : SUBSET (Body \cup Ident \cup Term),
   tries : 0..MaxRetries, refused : BOOLEAN]

(* The types of Moon's data and of the writes in flight. *)
TypeOK ==
  /\ record \in [Path -> Version]
  /\ live \in [Path -> SUBSET Body]
  /\ terms \in [Path -> [Body -> SUBSET Term]]
  /\ member \in [Ident -> [Path -> SUBSET Body]]
  /\ df \in [Term -> Int]
  /\ files \in SUBSET Path
  /\ op \in [Client -> OpType]
  /\ \A c \in Client : ~Idle(c) => op[c].path \in Path
  /\ torn \in SUBSET Path

Settled(p) == ~Busy(p) /\ p \notin torn

\* Chunk b of p is stored as content v has it.
StoredAs(p, b, v) ==
  /\ b \in live[p]
  /\ terms[p][b] = TermsIn(v, b)
  /\ \A i \in IdentsIn(v, b) : b \in member[i][p]

(* A path whose last write returned Ok has every chunk of the recorded     *)
(* content stored, indexed under that content's terms and named by its     *)
(* identifiers, and is listed iff it has a record.  This holds whatever    *)
(* failed before: put_file rewrites every chunk of the content.            *)
SettledComplete ==
  \A p \in Path : Settled(p) =>
    /\ \A b \in Bodies(record[p]) : StoredAs(p, b, record[p])
    /\ p \in files <=> record[p] # NoFile
=============================================================================
