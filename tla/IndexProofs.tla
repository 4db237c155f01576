---------------------------- MODULE IndexProofs -----------------------------
(***************************************************************************)
(* Proofs about the index.  StoreContract, for any number of paths,        *)
(* contents, clients and retries: the types, what a write that returned Ok *)
(* leaves, that the pipelines implement the map of FileIndex, and that the *)
(* document frequencies are right as long as no increment was replayed or  *)
(* lost.  RepoIndex, for any number of paths, contents, handlers, edits,   *)
(* failures and retries: what the daemon's two unserialised writers leave  *)
(* of a path on which they did not overlap, and what a full index that ran *)
(* alone leaves, whatever state it found.  Chunker, for any files, syntax  *)
(* trees and sizes: the chunks of a file lie apart, in order and within    *)
(* their size, have every row that is not blank, and none is left          *)
(* undersized that would fit into a neighbour.                             *)
(***************************************************************************)
EXTENDS RepoIndex, StoreContract, Chunker, LoopProofs

(***************************************************************************)
(* StoreContract.                                                          *)
(***************************************************************************)

\* The chunks of content v that identifier set i names.
Names(v, i) == {b \in Bodies(v) : i \in IdentsIn(v, b)}

Complete(p) ==
  /\ \A b \in Bodies(record[p]) : StoredAs(p, b, record[p])
  /\ p \in files <=> record[p] # NoFile

Exact(p) ==
  /\ live[p] = Bodies(record[p])
  /\ \A i \in Ident : member[i][p] = Names(record[p], i)

\* A path no pipeline is changing is as its last write left it, also while
\* the next one still reads.
AtRest(p) ==
  ~Changing(p) => /\ p \notin torn => Complete(p)
                  /\ p \notin scarred => Exact(p)

\* How far pipeline o, without a refusal so far, has written its content.
Written(o) ==
  /\ o.stage = "insert" =>
       \A b \in Bodies(o.new) \ o.todo : StoredAs(o.path, b, o.new)
  /\ o.stage \in {"count", "record", "list", "reply"} =>
       \A b \in Bodies(o.new) : StoredAs(o.path, b, o.new)
  /\ o.stage \in {"list", "reply"} => record[o.path] = o.new
  /\ o.stage = "reply" => (o.path \in files <=> o.new # NoFile)

\* How far it has cleared away what the old content had.
Cleared(o) ==
  /\ o.stage = "drop" => \A b \in Removed(o) \ o.todo : b \notin live[o.path]
  /\ o.stage \in Pipeline \ {"drop"} => \A b \in Removed(o) : b \notin live[o.path]
  /\ o.stage = "unname" =>
       \A i \in Ident \ o.todo : member[i][o.path] \subseteq Names(o.new, i)
  /\ o.stage \in Pipeline \ {"drop", "unname"} =>
       \A i \in Ident : member[i][o.path] \subseteq Names(o.new, i)

\* On an unscarred path there is only what one of its two contents has.
Confined(o) ==
  /\ live[o.path] \subseteq Bodies(o.old) \cup Bodies(o.new)
  /\ \A i \in Ident :
       member[i][o.path] \subseteq Names(o.old, i) \cup Names(o.new, i)

Underway(c) ==
  LET o == op[c] IN
  /\ o.stage = "terms" => o.old = record[o.path]
  /\ o.stage = "insert" => o.todo \subseteq Bodies(o.new)
  /\ o.stage \in Pipeline =>
       /\ ~o.refused => Written(o)
       /\ o.path \notin scarred => Confined(o) /\ (~o.refused => Cleared(o))

OneWriter ==
  \A c, d \in Client :
    c # d /\ ~Idle(c) /\ ~Idle(d) => op[c].path # op[d].path

Inv ==
  /\ ContractTypeOK
  /\ torn \subseteq scarred
  /\ OneWriter
  /\ \A p \in Path : AtRest(p)
  /\ \A c \in Client : Underway(c)

-----------------------------------------------------------------------------
\* The operators the model is built from.
LEMMA VersionTypes ==
  ASSUME NEW v \in Version
  PROVE  /\ Bodies(v) \in SUBSET Body
         /\ \A b \in Body : TermsIn(v, b) \in SUBSET Term
         /\ \A b \in Body : IdentsIn(v, b) \in SUBSET Ident
         /\ Idents(v) \in SUBSET Ident
  BY ContentAssumption DEF Version, Bodies, TermsIn, IdentsIn, Idents

LEMMA CountType ==
  ASSUME NEW S, S \subseteq Body PROVE Cardinality(S) \in Nat
  BY ContentAssumption, FS_Subset, FS_CardinalityType

LEMMA ClampType == ASSUME NEW n \in Int PROVE Clamp(n) \in Int
  BY BoundAssumption DEF Clamp

LEMMA DeltaType ==
  ASSUME NEW o \in OpType, NEW stored
  PROVE  Delta(o, stored) \in [Term -> Int]
<1>1. Bodies(o.old) \subseteq Body /\ Bodies(o.new) \subseteq Body
  BY VersionTypes DEF OpType
<1>2. ASSUME NEW t \in Term
      PROVE  /\ Cardinality({b \in Added(o) : t \in TermsIn(o.new, b)}) \in Nat
             /\ Cardinality({b \in Removed(o) : t \in stored[b]}) \in Nat
  <2>1. /\ {b \in Added(o) : t \in TermsIn(o.new, b)} \subseteq Body
        /\ {b \in Removed(o) : t \in stored[b]} \subseteq Body
    BY <1>1 DEF Added, Removed
  <2>2. QED BY <2>1, CountType
<1>3. QED BY <1>2 DEF Delta

LEMMA CommandsType ==
  ASSUME NEW o \in OpType, NEW section
  PROVE  /\ Commands(o, section) \in SUBSET (Body \cup Ident \cup Term)
         /\ section = "drop" => Commands(o, section) = Removed(o)
         /\ section = "unname" => Commands(o, section) = Idents(o.old)
         /\ section = "insert" => Commands(o, section) = Bodies(o.new)
<1>1. /\ Bodies(o.old) \subseteq Body /\ Bodies(o.new) \subseteq Body
      /\ Idents(o.old) \subseteq Ident
  BY VersionTypes DEF OpType
<1>2. QED BY <1>1 DEF Commands, Removed

\* A write that enters a section keeps everything but its commands.
LEMMA EnterType ==
  ASSUME NEW o \in OpType, NEW section \in Stage
  PROVE  /\ Enter(o, section) \in OpType
         /\ Enter(o, section).stage = section
         /\ Enter(o, section).todo = Commands(o, section)
         /\ Enter(o, section).path = o.path
         /\ Enter(o, section).old = o.old
         /\ Enter(o, section).new = o.new
         /\ Enter(o, section).refused = o.refused
         /\ Enter(o, section).delta = o.delta
<1>1. Commands(o, section) \in SUBSET (Body \cup Ident \cup Term)
  BY CommandsType
<1>2. QED BY <1>1 DEF Enter, OpType

LEMMA NoOpType ==
  /\ NoOp \in OpType /\ NoOp.stage = "idle"
  BY BoundAssumption DEF NoOp, OpType, Stage, Version

-----------------------------------------------------------------------------
\* Path q and its part of the index are as they were.
Same(q) ==
  /\ record'[q] = record[q] /\ live'[q] = live[q] /\ terms'[q] = terms[q]
  /\ \A i \in Ident : member'[i][q] = member[i][q]
  /\ q \in files' <=> q \in files
  /\ q \in torn' <=> q \in torn

LEMMA SameStored ==
  ASSUME NEW q \in Path, Same(q), NEW v \in Version, NEW b \in Bodies(v)
  PROVE  StoredAs(q, b, v)' <=> StoredAs(q, b, v)
<1>1. IdentsIn(v, b) \subseteq Ident
  BY VersionTypes
<1>2. QED BY <1>1 DEF Same, StoredAs

LEMMA SameRest ==
  ASSUME NEW q \in Path, Same(q), record[q] \in Version, AtRest(q),
         Changing(q)' <=> Changing(q), q \in scarred' <=> q \in scarred
  PROVE  AtRest(q)'
<1> DEFINE v == record[q]
<1>1. record'[q] = v
  BY DEF Same
<1>2. Complete(q) => Complete(q)'
  BY <1>1, SameStored DEF Complete, Same
<1>3. Exact(q) => Exact(q)'
  BY <1>1 DEF Exact, Same
<1>4. QED BY <1>2, <1>3 DEF AtRest, Same

LEMMA SameUnderway ==
  ASSUME NEW d \in Client, op'[d] = op[d], op[d] \in OpType, op[d].path \in Path,
         Same(op[d].path), Underway(d),
         op[d].path \in scarred' <=> op[d].path \in scarred
  PROVE  Underway(d)'
<1> DEFINE o == op[d]
<1>1. o.new \in Version /\ record'[o.path] = record[o.path]
  BY DEF Same, OpType
<1> SUFFICES /\ o.stage = "terms" => o.old = record'[o.path]
             /\ o.stage = "insert" => o.todo \subseteq Bodies(o.new)
             /\ o.stage \in Pipeline =>
                  /\ ~o.refused => Written(o)'
                  /\ o.path \notin scarred' => Confined(o)' /\ (~o.refused => Cleared(o)')
  BY DEF Underway
<1>2. Written(o) => Written(o)'
  BY <1>1, SameStored DEF Written, Same
<1>3. Confined(o) => Confined(o)'
  BY DEF Confined, Same
<1>4. Cleared(o) => Cleared(o)'
  BY DEF Cleared, Same
<1>5. QED BY <1>1, <1>2, <1>3, <1>4 DEF Underway

\* A step of the write of client c is one of its path: what holds of the
\* other paths and of the other clients' writes goes on to hold.
LEMMA LocalStep ==
  ASSUME Inv, NEW c \in Client, ~Idle(c), NEW p \in Path, p = op[c].path,
         ContractTypeOK', Remember,
         \A d \in Client \ {c} : op'[d] = op[d],
         op'[c].stage # "idle" => op'[c].path = p,
         \A q \in Path \ {p} : Same(q),
         AtRest(p)', Underway(c)'
  PROVE  Inv'
<1>2. (torn \subseteq scarred)'
  BY DEF Remember
<1>3. OneWriter'
  BY DEF Inv, OneWriter, Idle
<1>4. ASSUME NEW q \in Path \ {p}
      PROVE  /\ Changing(q)' <=> Changing(q)
             /\ q \in scarred' <=> q \in scarred
             /\ Same(q)
  <2>1. Same(q)
    OBVIOUS
  <2>2. Changing(q)' <=> Changing(q)
    BY DEF Changing, Pipeline
  <2>3. q \in scarred' <=> q \in scarred
    BY <2>1 DEF Remember, Same, Inv
  <2>4. QED BY <2>1, <2>2, <2>3
<1>5. ASSUME NEW q \in Path \ {p} PROVE AtRest(q)'
  BY <1>4, SameRest DEF Inv, ContractTypeOK, TypeOK
<1>6. ASSUME NEW d \in Client \ {c} PROVE Underway(d)'
  <2>1. CASE Idle(d)
    BY <2>1 DEF Underway, Idle, Pipeline
  <2>2. CASE ~Idle(d)
    <3>1. op[d].path \in Path \ {p} /\ op[d] \in OpType
      BY <2>2 DEF Inv, OneWriter, ContractTypeOK, TypeOK
    <3>2. QED BY <1>4, <3>1, SameUnderway DEF Inv
  <2>3. QED BY <2>1, <2>2
<1>7. QED BY <1>2, <1>3, <1>5, <1>6 DEF Inv

\* The same for a step that gives c's write the value x.
LEMMA OpStep ==
  ASSUME Inv, NEW c \in Client, ~Idle(c), NEW p \in Path, p = op[c].path,
         NEW x \in OpType, op' = [op EXCEPT ![c] = x],
         x.stage # "idle" => x.path = p,
         record' \in [Path -> Version], live' \in [Path -> SUBSET Body],
         terms' \in [Path -> [Body -> SUBSET Term]],
         member' \in [Ident -> [Path -> SUBSET Body]],
         df' \in [Term -> Int], files' \in SUBSET Path, torn' \in SUBSET Path,
         Remember, \A q \in Path \ {p} : Same(q), AtRest(p)', Underway(c)'
  PROVE  Inv'
<1>1. scarred' \in SUBSET Path /\ skewed' \in BOOLEAN
  BY DEF Remember, Inv, ContractTypeOK
<1>2. op' \in [Client -> OpType] /\ op'[c] = x
  BY DEF Inv, ContractTypeOK, TypeOK
<1>3. \A d \in Client : op'[d].stage # "idle" => op'[d].path \in Path
  BY DEF Inv, ContractTypeOK, TypeOK, Idle
<1>4. ContractTypeOK'
  BY <1>1, <1>2, <1>3 DEF ContractTypeOK, TypeOK, Idle
<1>5. QED BY <1>2, <1>4, LocalStep DEF Inv, ContractTypeOK, TypeOK

\* And for a step that changes nothing but c's write.
LEMMA ReadStep ==
  ASSUME Inv, NEW c \in Client, ~Idle(c), NEW p \in Path, p = op[c].path,
         NEW x \in OpType, op' = [op EXCEPT ![c] = x],
         x.stage # "idle" => x.path = p,
         x.stage \in Pipeline \/ op[c].stage \notin Pipeline,
         UNCHANGED <<moon, torn>>, Remember, Underway(c)'
  PROVE  Inv'
<1>1. UNCHANGED <<record, live, terms, member, df, files, torn>>
  BY DEF moon
<1>2. \A q \in Path : Same(q)
  BY <1>1 DEF Same
<1>3. scarred' = scarred /\ op'[c] = x
  BY <1>1 DEF Remember, Inv, ContractTypeOK, TypeOK
<1>4. AtRest(p)'
  <2>1. CASE x.stage \in Pipeline
    BY <1>3, <2>1 DEF AtRest, Changing, Pipeline
  <2>2. CASE op[c].stage \notin Pipeline
    <3>1. ~Changing(p)
      BY <2>2 DEF Changing, Inv, OneWriter, Idle, Pipeline
    <3>2. QED BY <1>2, <1>3, <3>1, SameRest DEF Inv, ContractTypeOK, TypeOK, AtRest
  <2>3. QED BY <2>1, <2>2
<1>5. QED BY <1>1, <1>2, <1>4, OpStep DEF Inv, ContractTypeOK, TypeOK

-----------------------------------------------------------------------------
\* The steps of a write that leave Moon's data alone.
LEMMA ReadRecordKeeps ==
  ASSUME Inv, NEW c \in Client, ReadRecord(c), Remember PROVE Inv'
<1> DEFINE o == op[c]
           p == o.path
           x == [o EXCEPT !.stage = "terms", !.old = record[p]]
<1>1. o \in OpType /\ o.stage = "read" /\ p \in Path /\ record[p] \in Version
  BY DEF ReadRecord, Inv, ContractTypeOK, TypeOK, Idle
<1>2. op' = [op EXCEPT ![c] = x] /\ UNCHANGED <<moon, torn>>
  BY DEF ReadRecord
<1> HIDE DEF o
<1>3. x \in OpType /\ x.stage = "terms" /\ x.path = p /\ x.old = record[p]
  BY <1>1 DEF OpType, Stage
<1> HIDE DEF x
<1>4. Underway(c)'
  <2>1. op'[c] = x
    BY <1>2 DEF Inv, ContractTypeOK, TypeOK
  <2>2. record' = record
    BY <1>2 DEF moon
  <2>3. QED BY <1>3, <2>1, <2>2 DEF Underway, Pipeline
<1>5. QED BY <1>1, <1>2, <1>3, <1>4, ReadStep DEF o, Idle, Pipeline

LEMMA FailReadKeeps ==
  ASSUME Inv, NEW c \in Client, FailRead(c), Remember PROVE Inv'
<1>1. op[c].path \in Path /\ ~Idle(c) /\ op[c].stage \notin Pipeline
  BY DEF FailRead, Inv, ContractTypeOK, TypeOK, Idle, Pipeline
<1>2. op' = [op EXCEPT ![c] = NoOp] /\ UNCHANGED <<moon, torn>>
  BY DEF FailRead
<1>3. Underway(c)'
  BY <1>2, NoOpType DEF Underway, Pipeline, Inv, ContractTypeOK, TypeOK
<1>4. QED BY <1>1, <1>2, <1>3, NoOpType, ReadStep

\* A pipeline starts, for the first time or again, on a path whose content
\* is confined to the two it is to change from and to.
LEMMA DropSectionUnderway ==
  ASSUME Inv, NEW c \in Client, NEW p \in Path, NEW o \in OpType, o.path = p,
         op'[c] = Enter(o, "drop"), UNCHANGED <<moon, torn>>, Remember,
         p \notin scarred => Confined(o)
  PROVE  Underway(c)'
<1> DEFINE x == Enter(o, "drop")
<1>1. /\ x.stage = "drop" /\ x.todo = Removed(o) /\ x.path = p
      /\ x.old = o.old /\ x.new = o.new
  BY EnterType, CommandsType DEF Stage, Pipeline
<1>2. scarred' = scarred /\ UNCHANGED <<record, live, member>>
  BY DEF Remember, Inv, moon
<1> HIDE DEF x
<1>3. op'[c] = x
  BY DEF x
<1>4. (p \notin scarred => Confined(x))'
  BY <1>1, <1>2 DEF Confined
<1>5. Written(x)' /\ Cleared(x)'
  BY <1>1, <1>2 DEF Written, Cleared, Pipeline, Removed
<1>6. QED BY <1>1, <1>3, <1>4, <1>5 DEF Underway

LEMMA ReadTermsKeeps ==
  ASSUME Inv, NEW c \in Client, ReadTerms(c), Remember PROVE Inv'
<1>1. PICK o \in OpType : o = op[c]
  BY DEF Inv, ContractTypeOK, TypeOK
<1>2. PICK p \in Path : p = o.path
  BY <1>1 DEF ReadTerms, Inv, ContractTypeOK, TypeOK, Idle
<1> DEFINE r == [o EXCEPT !.delta = Delta(o, terms[p])]
<1>3. /\ o.stage = "terms" /\ UNCHANGED <<moon, torn>>
      /\ op' = [op EXCEPT ![c] = Enter(r, "drop")]
  BY <1>1, <1>2 DEF ReadTerms
<1>4. r \in OpType /\ r.path = p /\ r.old = o.old /\ r.new = o.new
  BY <1>2, DeltaType DEF OpType
<1>5. o.old = record[p]
  BY <1>1, <1>2, <1>3 DEF Inv, Underway
<1>6. ~Changing(p)
  BY <1>1, <1>2, <1>3 DEF Changing, Inv, OneWriter, Idle, Pipeline
<1>7. p \notin scarred => Confined(r)
  BY <1>4, <1>5, <1>6 DEF Inv, AtRest, Exact, Confined
<1> HIDE DEF r
<1>8. Enter(r, "drop") \in OpType /\ Enter(r, "drop").path = p
      /\ Enter(r, "drop").stage = "drop"
  BY <1>4, EnterType DEF Stage, Pipeline
<1>9. op'[c] = Enter(r, "drop")
  BY <1>3 DEF Inv, ContractTypeOK, TypeOK
<1>10. Underway(c)'
  BY <1>3, <1>4, <1>7, <1>9, DropSectionUnderway
<1>11. QED
  BY <1>1, <1>2, <1>3, <1>8, <1>10, ReadStep DEF Idle, Pipeline

LEMMA ResendKeeps ==
  ASSUME Inv, NEW c \in Client, Resend(c), Remember PROVE Inv'
<1>1. PICK o \in OpType : o = op[c]
  BY DEF Inv, ContractTypeOK, TypeOK
<1>2. PICK p \in Path : p = o.path
  BY <1>1 DEF Resend, Inv, ContractTypeOK, TypeOK, Idle, Pipeline
<1> DEFINE t == o.tries + 1
           r == [o EXCEPT !.tries = t, !.refused = FALSE]
<1>3. /\ o.stage \in Pipeline /\ UNCHANGED <<moon, torn>>
      /\ op' = [op EXCEPT ![c] = Enter(r, "drop")]
      /\ t \in 0..MaxRetries
  BY <1>1, <1>2, BoundAssumption DEF Resend, OpType
<1> HIDE DEF t
<1>4. r \in OpType /\ r.path = p /\ r.old = o.old /\ r.new = o.new
  BY <1>2, <1>3 DEF OpType
<1>5. p \notin scarred => Confined(o)
  BY <1>1, <1>2, <1>3 DEF Inv, Underway
<1>6. p \notin scarred => Confined(r)
  BY <1>2, <1>4, <1>5 DEF Confined
<1> HIDE DEF r
<1>7. Enter(r, "drop") \in OpType /\ Enter(r, "drop").path = p
      /\ Enter(r, "drop").stage = "drop"
  BY <1>4, EnterType DEF Stage, Pipeline
<1>8. op'[c] = Enter(r, "drop")
  BY <1>3 DEF Inv, ContractTypeOK, TypeOK
<1>9. Underway(c)'
  BY <1>3, <1>4, <1>6, <1>8, DropSectionUnderway
<1>10. QED
  BY <1>1, <1>2, <1>3, <1>7, <1>9, ReadStep DEF Idle, Pipeline

\* What is known of a write does not depend on where it is, as long as it
\* has been refused something.
LEMMA RefusedUnderway ==
  ASSUME Inv, NEW c \in Client, NEW p \in Path, NEW x \in OpType,
         op'[c] = x, x.path = p, x.refused, x.stage \in Pipeline,
         x.stage = "insert" => x.todo \subseteq Bodies(x.new),
         NEW o \in OpType, o = op[c], o.stage \in Pipeline,
         o.path = p, x.old = o.old, x.new = o.new,
         UNCHANGED <<moon, torn>>, Remember
  PROVE  Underway(c)'
<1>1. scarred' = scarred /\ UNCHANGED <<record, live, member>>
  BY DEF Remember, Inv, moon
<1>2. p \notin scarred => Confined(o)
  BY DEF Inv, Underway
<1>3. (p \notin scarred => Confined(x))'
  BY <1>1, <1>2 DEF Confined
<1>4. QED BY <1>3 DEF Underway, Pipeline

LEMMA RefuseKeeps ==
  ASSUME Inv, NEW c \in Client, Refuse(c), Remember PROVE Inv'
<1>1. PICK o \in OpType : o = op[c]
  BY DEF Inv, ContractTypeOK, TypeOK
<1>2. o.stage \in Pipeline /\ UNCHANGED <<moon, torn>>
  BY <1>1 DEF Refuse
<1>3. PICK p \in Path : p = o.path
  BY <1>1, <1>2 DEF Inv, ContractTypeOK, TypeOK, Idle, Pipeline
<1>4. PICK x \in OpType :
         /\ op' = [op EXCEPT ![c] = x]
         /\ x.path = p /\ x.refused /\ x.stage \in Pipeline
         /\ x.old = o.old /\ x.new = o.new
         /\ x.stage = "insert" => x.todo \subseteq Bodies(x.new)
  <2>1. ASSUME NEW y \in o.todo,
               op' = [op EXCEPT ![c].todo = @ \ {y}, ![c].refused = TRUE]
        PROVE  \E x \in OpType :
                 /\ op' = [op EXCEPT ![c] = x]
                 /\ x.path = p /\ x.refused /\ x.stage \in Pipeline
                 /\ x.old = o.old /\ x.new = o.new
                 /\ x.stage = "insert" => x.todo \subseteq Bodies(x.new)
    <3> DEFINE x == [o EXCEPT !.todo = @ \ {y}, !.refused = TRUE]
    <3>1. op' = [op EXCEPT ![c] = x]
      BY <1>1, <2>1
    <3>2. x \in OpType /\ x.path = p /\ x.refused /\ x.stage = o.stage
          /\ x.old = o.old /\ x.new = o.new /\ x.todo \subseteq o.todo
      BY <1>3 DEF OpType
    <3>3. o.stage = "insert" => o.todo \subseteq Bodies(o.new)
      BY <1>1 DEF Inv, Underway
    <3> HIDE DEF x
    <3>4. QED BY <1>2, <3>1, <3>2, <3>3
  <2>2. ASSUME o.stage \in {"record", "list"},
               op' = [op EXCEPT ![c] = Enter([o EXCEPT !.refused = TRUE],
                                             After[o.stage])]
        PROVE  \E x \in OpType :
                 /\ op' = [op EXCEPT ![c] = x]
                 /\ x.path = p /\ x.refused /\ x.stage \in Pipeline
                 /\ x.old = o.old /\ x.new = o.new
                 /\ x.stage = "insert" => x.todo \subseteq Bodies(x.new)
    <3> DEFINE r == [o EXCEPT !.refused = TRUE]
               next == After[o.stage]
    <3>1. r \in OpType /\ r.path = p /\ r.refused /\ r.old = o.old /\ r.new = o.new
      BY <1>3 DEF OpType
    <3>2. next \in Stage /\ next \in Pipeline /\ next # "insert"
      BY <2>2 DEF After, Stage, Pipeline
    <3> HIDE DEF r, next
    <3>3. /\ Enter(r, next) \in OpType /\ Enter(r, next).path = p
          /\ Enter(r, next).refused /\ Enter(r, next).stage = next
          /\ Enter(r, next).old = o.old /\ Enter(r, next).new = o.new
      BY <3>1, <3>2, EnterType
    <3>4. op' = [op EXCEPT ![c] = Enter(r, next)]
      BY <2>2 DEF r, next
    <3>5. QED BY <3>2, <3>3, <3>4
  <2>3. QED BY <1>1, <2>1, <2>2 DEF Refuse
<1>5. op'[c] = x
  BY <1>4 DEF Inv, ContractTypeOK, TypeOK
<1>6. Underway(c)'
  BY <1>1, <1>2, <1>3, <1>4, <1>5, RefusedUnderway
<1>7. QED
  BY <1>1, <1>2, <1>3, <1>4, <1>6, ReadStep DEF Idle, Pipeline

\* The end of a section: what it had to do is done.
LEMMA NextSectionKeeps ==
  ASSUME Inv, NEW c \in Client, NextSection(c), Remember PROVE Inv'
<1>1. PICK o \in OpType : o = op[c]
  BY DEF Inv, ContractTypeOK, TypeOK
<1>2. /\ o.stage \in {"drop", "unname", "insert", "count"} /\ o.todo = {}
      /\ op' = [op EXCEPT ![c] = Enter(o, After[o.stage])]
      /\ UNCHANGED <<record, live, terms, member, df, files, torn>>
  BY <1>1 DEF NextSection, moon
<1>3. PICK p \in Path : p = o.path
  BY <1>1, <1>2 DEF Inv, ContractTypeOK, TypeOK, Idle
<1>4. PICK next \in Stage : next = After[o.stage]
  BY <1>2 DEF After, Stage, Pipeline
<1> DEFINE x == Enter(o, next)
<1>5. /\ x \in OpType /\ x.path = p /\ x.stage = next /\ x.old = o.old
      /\ x.new = o.new /\ x.refused = o.refused
      /\ next = "unname" => x.todo = Idents(o.old)
      /\ next = "insert" => x.todo = Bodies(o.new)
      /\ op' = [op EXCEPT ![c] = x]
  BY <1>2, <1>3, <1>4, EnterType, CommandsType
<1> HIDE DEF x
<1>6. next \in {"unname", "insert", "count", "record"}
      /\ (next = "unname" <=> o.stage = "drop")
      /\ (next = "insert" <=> o.stage = "unname")
      /\ (next = "count" <=> o.stage = "insert")
      /\ (next = "record" <=> o.stage = "count")
  BY <1>2, <1>4 DEF After
<1>7. scarred' = scarred /\ op'[c] = x
  BY <1>2, <1>5 DEF Remember, Inv, ContractTypeOK, TypeOK
<1>8. /\ ~o.refused => Written(o)
      /\ p \notin scarred => Confined(o) /\ (~o.refused => Cleared(o))
  BY <1>1, <1>2, <1>3 DEF Inv, Underway, Pipeline
<1>9. Underway(c)'
  <2>1. ~o.refused => Written(x)'
    BY <1>2, <1>3, <1>5, <1>6, <1>8 DEF Written, StoredAs
  <2>2. p \notin scarred => Confined(x)'
    BY <1>2, <1>3, <1>5, <1>8 DEF Confined
  <2>3. p \notin scarred /\ ~o.refused => Cleared(x)'
    <3> SUFFICES ASSUME p \notin scarred, ~o.refused PROVE Cleared(x)'
      OBVIOUS
    <3>1. Removed(x) = Removed(o)
      BY <1>5 DEF Removed
    <3>2. CASE o.stage = "drop"
      <4>1. \A i \in Ident \ Idents(o.old) : Names(o.old, i) = {}
        BY DEF Idents, Names
      <4>2. QED
        BY <1>2, <1>3, <1>5, <1>6, <1>8, <3>1, <3>2, <4>1
        DEF Cleared, Confined, Pipeline
    <3>3. CASE o.stage # "drop"
      BY <1>2, <1>3, <1>5, <1>6, <1>8, <3>1, <3>3 DEF Cleared, Pipeline
    <3>4. QED BY <3>2, <3>3
  <2>4. QED BY <1>5, <1>6, <1>7, <2>1, <2>2, <2>3 DEF Underway
<1>10. QED
  BY <1>1, <1>2, <1>3, <1>5, <1>6, <1>9, ReadStep DEF Idle, Pipeline, moon

-----------------------------------------------------------------------------
\* The steps that change Moon's data: c's write is still in its pipeline, so
\* of its own path only Underway(c) is to be shown.
LEMMA PipelineStep ==
  ASSUME Inv, NEW c \in Client, op[c].stage \in Pipeline,
         NEW p \in Path, p = op[c].path, NEW x \in OpType,
         op' = [op EXCEPT ![c] = x], x.stage \in Pipeline, x.path = p,
         record' \in [Path -> Version], live' \in [Path -> SUBSET Body],
         terms' \in [Path -> [Body -> SUBSET Term]],
         member' \in [Ident -> [Path -> SUBSET Body]],
         df' \in [Term -> Int], files' \in SUBSET Path, torn' = torn,
         Remember, \A q \in Path \ {p} : Same(q), Underway(c)'
  PROVE  Inv'
<1>1. op'[c] = x
  BY DEF Inv, ContractTypeOK, TypeOK
<1>2. AtRest(p)'
  BY <1>1 DEF AtRest, Changing, Pipeline
<1>3. ~Idle(c) /\ torn' \in SUBSET Path
  BY DEF Idle, Pipeline, Inv, ContractTypeOK, TypeOK
<1>4. QED BY <1>2, <1>3, OpStep

\* One command of a section was run.
LEMMA RanType ==
  ASSUME NEW c \in Client, op \in [Client -> OpType], NEW y, Ran(c, y)
  PROVE  \E x \in OpType :
           /\ op' = [op EXCEPT ![c] = x]
           /\ x.stage = op[c].stage /\ x.path = op[c].path
           /\ x.old = op[c].old /\ x.new = op[c].new
           /\ x.refused = op[c].refused /\ x.todo = op[c].todo \ {y}
           /\ x.delta = op[c].delta
<1> DEFINE x == [op[c] EXCEPT !.todo = @ \ {y}]
<1>1. op' = [op EXCEPT ![c] = x]
  BY DEF Ran
<1>2. /\ x \in OpType /\ x.stage = op[c].stage /\ x.path = op[c].path
      /\ x.old = op[c].old /\ x.new = op[c].new
      /\ x.refused = op[c].refused /\ x.todo = op[c].todo \ {y}
      /\ x.delta = op[c].delta
  BY DEF OpType
<1> HIDE DEF x
<1>3. QED BY <1>1, <1>2

LEMMA DropChunkKeeps ==
  ASSUME Inv, NEW c \in Client, DropChunk(c), Remember PROVE Inv'
<1>1. PICK o \in OpType : o = op[c]
  BY DEF Inv, ContractTypeOK, TypeOK
<1>2. PICK p \in Path : p = o.path
  BY <1>1 DEF DropChunk, Inv, ContractTypeOK, TypeOK, Idle
<1>3. PICK b \in o.todo : /\ live' = [live EXCEPT ![p] = @ \ {b}]
                          /\ terms' = [terms EXCEPT ![p][b] = {}]
                          /\ Ran(c, b)
  BY <1>1, <1>2 DEF DropChunk
<1>4. o.stage = "drop" /\ UNCHANGED <<record, member, df, files, torn>>
  BY <1>1 DEF DropChunk
<1>5. PICK x \in OpType : /\ op' = [op EXCEPT ![c] = x]
                          /\ x.stage = "drop" /\ x.path = p
                          /\ x.old = o.old /\ x.new = o.new
                          /\ x.refused = o.refused /\ x.todo = o.todo \ {b}
  BY <1>1, <1>2, <1>3, <1>4, RanType DEF Inv, ContractTypeOK, TypeOK
<1>6. /\ live' \in [Path -> SUBSET Body]
      /\ terms' \in [Path -> [Body -> SUBSET Term]]
  BY <1>3 DEF Inv, ContractTypeOK, TypeOK
<1>7. \A q \in Path \ {p} : Same(q)
  BY <1>3, <1>4 DEF Same, Inv, ContractTypeOK, TypeOK
<1>8. live'[p] = live[p] \ {b}
  BY <1>3 DEF Inv, ContractTypeOK, TypeOK
<1>9. op'[c] = x /\ scarred' = scarred
  BY <1>4, <1>5 DEF Remember, Inv, ContractTypeOK, TypeOK
<1>10. p \notin scarred => Confined(o) /\ (~o.refused => Cleared(o))
  BY <1>1, <1>2, <1>4 DEF Inv, Underway, Pipeline
<1>11. Underway(c)'
  <2>1. Written(x)'
    BY <1>5 DEF Written
  <2>2. p \notin scarred => Confined(x)'
    BY <1>2, <1>4, <1>5, <1>8, <1>10 DEF Confined
  <2>3. p \notin scarred /\ ~o.refused => Cleared(x)'
    BY <1>2, <1>4, <1>5, <1>8, <1>10 DEF Cleared, Removed, Pipeline
  <2>4. QED BY <1>5, <1>9, <2>1, <2>2, <2>3 DEF Underway
<1>12. QED
  BY <1>1, <1>2, <1>4, <1>5, <1>6, <1>7, <1>11, PipelineStep
  DEF Inv, ContractTypeOK, TypeOK, Pipeline

LEMMA UnnameKeeps ==
  ASSUME Inv, NEW c \in Client, Unname(c), Remember PROVE Inv'
<1>1. PICK o \in OpType : o = op[c]
  BY DEF Inv, ContractTypeOK, TypeOK
<1>2. PICK p \in Path : p = o.path
  BY <1>1 DEF Unname, Inv, ContractTypeOK, TypeOK, Idle
<1>3. PICK i \in o.todo : /\ member' = [member EXCEPT ![i][p] = @ \ Bodies(o.old)]
                          /\ Ran(c, i)
  BY <1>1, <1>2 DEF Unname
<1>4. o.stage = "unname" /\ UNCHANGED <<record, live, terms, df, files, torn>>
  BY <1>1 DEF Unname
<1>5. PICK x \in OpType : /\ op' = [op EXCEPT ![c] = x]
                          /\ x.stage = "unname" /\ x.path = p
                          /\ x.old = o.old /\ x.new = o.new
                          /\ x.refused = o.refused /\ x.todo = o.todo \ {i}
  BY <1>1, <1>2, <1>3, <1>4, RanType DEF Inv, ContractTypeOK, TypeOK
<1>6. member' \in [Ident -> [Path -> SUBSET Body]]
  BY <1>3 DEF Inv, ContractTypeOK, TypeOK
<1>7. /\ \A j \in Ident : \A q \in Path \ {p} : member'[j][q] = member[j][q]
      /\ \A j \in Ident : member'[j][p] \subseteq member[j][p]
      /\ \A j \in Ident : j # i => member'[j][p] = member[j][p]
      /\ i \in Ident => member'[i][p] = member[i][p] \ Bodies(o.old)
  BY <1>3 DEF Inv, ContractTypeOK, TypeOK
<1>8. \A q \in Path \ {p} : Same(q)
  BY <1>4, <1>7 DEF Same
<1>9. op'[c] = x /\ scarred' = scarred
  BY <1>4, <1>5 DEF Remember, Inv, ContractTypeOK, TypeOK
<1>10. p \notin scarred => Confined(o) /\ (~o.refused => Cleared(o))
  BY <1>1, <1>2, <1>4 DEF Inv, Underway, Pipeline
<1>11. Underway(c)'
  <2>1. Written(x)'
    BY <1>5 DEF Written
  <2>2. p \notin scarred => Confined(x)'
    BY <1>2, <1>4, <1>5, <1>7, <1>10 DEF Confined
  <2>3. p \notin scarred /\ ~o.refused => Cleared(x)'
    <3> SUFFICES ASSUME p \notin scarred, ~o.refused PROVE Cleared(x)'
      OBVIOUS
    <3>1. \A b \in Removed(x) : b \notin live'[p]
      BY <1>2, <1>4, <1>5, <1>10 DEF Cleared, Removed, Pipeline
    <3>2. i \in Ident => member'[i][p] \subseteq Names(o.new, i)
      BY <1>2, <1>7, <1>10 DEF Confined, Names
    <3>3. \A j \in Ident \ x.todo : member'[j][p] \subseteq Names(o.new, j)
      BY <1>2, <1>4, <1>5, <1>7, <1>10, <3>2 DEF Cleared
    <3>4. QED BY <1>5, <3>1, <3>3 DEF Cleared, Pipeline
  <2>4. QED BY <1>5, <1>9, <2>1, <2>2, <2>3 DEF Underway
<1>12. QED
  BY <1>1, <1>2, <1>4, <1>5, <1>6, <1>8, <1>11, PipelineStep
  DEF Inv, ContractTypeOK, TypeOK, Pipeline

LEMMA InsertChunkKeeps ==
  ASSUME Inv, NEW c \in Client, InsertChunk(c), Remember PROVE Inv'
<1>1. PICK o \in OpType : o = op[c]
  BY DEF Inv, ContractTypeOK, TypeOK
<1>2. PICK p \in Path : p = o.path
  BY <1>1 DEF InsertChunk, Inv, ContractTypeOK, TypeOK, Idle
<1>3. PICK b \in o.todo :
         /\ live' = [live EXCEPT ![p] = @ \cup {b}]
         /\ terms' = [terms EXCEPT ![p][b] = TermsIn(o.new, b)]
         /\ member' = [i \in Ident |->
                         IF i \in IdentsIn(o.new, b)
                           THEN [member[i] EXCEPT ![p] = @ \cup {b}]
                           ELSE member[i]]
         /\ Ran(c, b)
  BY <1>1, <1>2 DEF InsertChunk
<1>4. o.stage = "insert" /\ UNCHANGED <<record, df, files, torn>>
  BY <1>1 DEF InsertChunk
<1>5. PICK x \in OpType : /\ op' = [op EXCEPT ![c] = x]
                          /\ x.stage = "insert" /\ x.path = p
                          /\ x.old = o.old /\ x.new = o.new
                          /\ x.refused = o.refused /\ x.todo = o.todo \ {b}
  <2>1. op \in [Client -> OpType] /\ Ran(c, b)
    BY <1>3 DEF Inv, ContractTypeOK, TypeOK
  <2>2. QED BY <1>1, <1>2, <1>4, <2>1, RanType
<1>6. b \in Bodies(o.new) /\ b \in Body
  BY <1>1, <1>4, VersionTypes DEF Inv, Underway, OpType
<1>7. /\ live' \in [Path -> SUBSET Body]
      /\ terms' \in [Path -> [Body -> SUBSET Term]]
      /\ member' \in [Ident -> [Path -> SUBSET Body]]
  <2>1. TermsIn(o.new, b) \in SUBSET Term
    BY <1>6, VersionTypes DEF OpType
  <2>2. QED BY <1>3, <1>6, <2>1 DEF Inv, ContractTypeOK, TypeOK
<1>8. \A q \in Path \ {p} : Same(q)
  BY <1>3, <1>4 DEF Same, Inv, ContractTypeOK, TypeOK
<1>9. /\ live'[p] = live[p] \cup {b}
      /\ terms'[p][b] = TermsIn(o.new, b)
      /\ \A y \in Body \ {b} : terms'[p][y] = terms[p][y]
      /\ \A i \in Ident : member'[i][p] = IF i \in IdentsIn(o.new, b)
                                           THEN member[i][p] \cup {b}
                                           ELSE member[i][p]
  BY <1>3, <1>6 DEF Inv, ContractTypeOK, TypeOK
<1>10. op'[c] = x /\ scarred' = scarred
  BY <1>4, <1>5 DEF Remember, Inv, ContractTypeOK, TypeOK
<1>11. /\ ~o.refused => Written(o)
       /\ p \notin scarred => Confined(o) /\ (~o.refused => Cleared(o))
       /\ o.todo \subseteq Bodies(o.new)
  BY <1>1, <1>2, <1>4 DEF Inv, Underway, Pipeline
<1>12. Underway(c)'
  <2>1. ASSUME NEW y \in Bodies(o.new),
               y = b \/ StoredAs(p, y, o.new)
        PROVE  StoredAs(p, y, o.new)'
    <3>1. IdentsIn(o.new, y) \subseteq Ident /\ y \in Body
      BY VersionTypes DEF OpType
    <3>2. QED BY <1>9, <2>1, <3>1 DEF StoredAs
  <2>2. ~o.refused => Written(x)'
    BY <1>2, <1>4, <1>5, <1>11, <2>1 DEF Written
  <2>3. p \notin scarred => Confined(x)'
    <3> SUFFICES ASSUME p \notin scarred PROVE Confined(x)'
      OBVIOUS
    <3>1. live'[p] \subseteq Bodies(x.old) \cup Bodies(x.new)
      BY <1>2, <1>5, <1>6, <1>9, <1>11 DEF Confined
    <3>2. ASSUME NEW i \in Ident
          PROVE  member'[i][p] \subseteq Names(x.old, i) \cup Names(x.new, i)
      <4>1. i \in IdentsIn(o.new, b) => b \in Names(o.new, i)
        BY <1>6 DEF Names
      <4>2. member[i][p] \subseteq Names(o.old, i) \cup Names(o.new, i)
        BY <1>2, <1>11 DEF Confined
      <4>3. /\ member'[i][p] \subseteq member[i][p] \cup {b}
            /\ i \notin IdentsIn(o.new, b) => member'[i][p] = member[i][p]
        BY <1>9
      <4>4. Names(x.old, i) = Names(o.old, i) /\ Names(x.new, i) = Names(o.new, i)
        BY <1>5
      <4>5. QED BY <4>1, <4>2, <4>3, <4>4
    <3>3. QED BY <1>5, <3>1, <3>2 DEF Confined
  <2>4. p \notin scarred /\ ~o.refused => Cleared(x)'
    BY ZenonT(60), <1>2, <1>4, <1>5, <1>6, <1>9, <1>11 DEF Cleared, Names, Removed, Pipeline
  <2>5. QED BY <1>5, <1>10, <1>11, <2>2, <2>3, <2>4 DEF Underway
<1>13. QED
  BY <1>1, <1>2, <1>4, <1>5, <1>7, <1>8, <1>12, PipelineStep
  DEF Inv, ContractTypeOK, TypeOK, Pipeline

LEMMA CountTermKeeps ==
  ASSUME Inv, NEW c \in Client, CountTerm(c), Remember PROVE Inv'
<1>1. PICK o \in OpType : o = op[c]
  BY DEF Inv, ContractTypeOK, TypeOK
<1>2. PICK p \in Path : p = o.path
  BY <1>1 DEF CountTerm, Inv, ContractTypeOK, TypeOK, Idle
<1>3. PICK t \in o.todo : /\ df' = [df EXCEPT ![t] = Clamp(@ + o.delta[t])]
                          /\ Ran(c, t)
  BY <1>1 DEF CountTerm
<1>4. o.stage = "count" /\ UNCHANGED <<record, live, terms, member, files, torn>>
  BY <1>1 DEF CountTerm
<1>5. PICK x \in OpType : /\ op' = [op EXCEPT ![c] = x]
                          /\ x.stage = "count" /\ x.path = p
                          /\ x.old = o.old /\ x.new = o.new
                          /\ x.refused = o.refused /\ x.todo = o.todo \ {t}
  BY <1>1, <1>2, <1>3, <1>4, RanType DEF Inv, ContractTypeOK, TypeOK
<1>6. df' \in [Term -> Int]
  <2>1. df \in [Term -> Int] /\ (t \in Term => o.delta[t] \in Int)
    BY DEF Inv, ContractTypeOK, TypeOK, OpType
  <2>2. t \in Term => Clamp(df[t] + o.delta[t]) \in Int
    BY <2>1, ClampType
  <2>3. QED BY <1>3, <2>1, <2>2
<1>7. \A q \in Path : Same(q)
  BY <1>4 DEF Same
<1>8. op'[c] = x /\ scarred' = scarred
  BY <1>4, <1>5 DEF Remember, Inv, ContractTypeOK, TypeOK
<1>9. /\ ~o.refused => Written(o)
      /\ p \notin scarred => Confined(o) /\ (~o.refused => Cleared(o))
  BY <1>1, <1>2, <1>4 DEF Inv, Underway, Pipeline
<1>10. Underway(c)'
  <2>1. ~o.refused => Written(x)'
    BY <1>2, <1>4, <1>5, <1>9 DEF Written, StoredAs
  <2>2. p \notin scarred => Confined(x)'
    BY <1>2, <1>4, <1>5, <1>9 DEF Confined
  <2>3. p \notin scarred /\ ~o.refused => Cleared(x)'
    BY <1>2, <1>4, <1>5, <1>9 DEF Cleared, Removed, Pipeline
  <2>4. QED BY <1>5, <1>8, <2>1, <2>2, <2>3 DEF Underway
<1>11. QED
  BY <1>1, <1>2, <1>4, <1>5, <1>6, <1>7, <1>10, PipelineStep
  DEF Inv, ContractTypeOK, TypeOK, Pipeline

LEMMA WriteRecordKeeps ==
  ASSUME Inv, NEW c \in Client, WriteRecord(c), Remember PROVE Inv'
<1>1. PICK o \in OpType : o = op[c]
  BY DEF Inv, ContractTypeOK, TypeOK
<1>2. PICK p \in Path : p = o.path
  BY <1>1 DEF WriteRecord, Inv, ContractTypeOK, TypeOK, Idle
<1>3. /\ o.stage = "record" /\ UNCHANGED <<live, terms, member, df, files, torn>>
      /\ record' = [record EXCEPT ![p] = o.new]
  BY <1>1, <1>2 DEF WriteRecord
<1> DEFINE x == Enter(o, "list")
<1>4. /\ x \in OpType /\ x.stage = "list" /\ x.path = p /\ x.old = o.old
      /\ x.new = o.new /\ x.refused = o.refused
      /\ op' = [op EXCEPT ![c] = x]
  BY <1>1, <1>2, EnterType DEF WriteRecord, Stage, Pipeline
<1> HIDE DEF x
<1>5. record' \in [Path -> Version] /\ record'[p] = o.new
  BY <1>3 DEF Inv, ContractTypeOK, TypeOK, OpType
<1>6. \A q \in Path \ {p} : Same(q)
  BY <1>3 DEF Same, Inv, ContractTypeOK, TypeOK
<1>7. op'[c] = x /\ scarred' = scarred
  BY <1>3, <1>4 DEF Remember, Inv, ContractTypeOK, TypeOK
<1>8. /\ ~o.refused => Written(o)
      /\ p \notin scarred => Confined(o) /\ (~o.refused => Cleared(o))
  BY <1>1, <1>2, <1>3 DEF Inv, Underway, Pipeline
<1>9. Underway(c)'
  <2>1. ~o.refused => Written(x)'
    BY <1>2, <1>3, <1>4, <1>5, <1>8 DEF Written, StoredAs
  <2>2. p \notin scarred => Confined(x)'
    BY <1>2, <1>3, <1>4, <1>8 DEF Confined
  <2>3. p \notin scarred /\ ~o.refused => Cleared(x)'
    BY <1>2, <1>3, <1>4, <1>8 DEF Cleared, Removed, Pipeline
  <2>4. QED BY <1>4, <1>7, <2>1, <2>2, <2>3 DEF Underway
<1>10. QED
  BY <1>1, <1>2, <1>3, <1>4, <1>5, <1>6, <1>9, PipelineStep
  DEF Inv, ContractTypeOK, TypeOK, Pipeline

LEMMA ListFileKeeps ==
  ASSUME Inv, NEW c \in Client, ListFile(c), Remember PROVE Inv'
<1>1. PICK o \in OpType : o = op[c]
  BY DEF Inv, ContractTypeOK, TypeOK
<1>2. PICK p \in Path : p = o.path
  BY <1>1 DEF ListFile, Inv, ContractTypeOK, TypeOK, Idle
<1>3. /\ o.stage = "list" /\ UNCHANGED <<record, live, terms, member, df, torn>>
      /\ files' = IF o.new = NoFile THEN files \ {p} ELSE files \cup {p}
  BY <1>1, <1>2 DEF ListFile
<1> DEFINE x == Enter(o, "reply")
<1>4. /\ x \in OpType /\ x.stage = "reply" /\ x.path = p /\ x.old = o.old
      /\ x.new = o.new /\ x.refused = o.refused
      /\ op' = [op EXCEPT ![c] = x]
  BY <1>1, <1>2, EnterType DEF ListFile, Stage, Pipeline
<1> HIDE DEF x
<1>5. files' \in SUBSET Path /\ (p \in files' <=> o.new # NoFile)
  BY <1>3 DEF Inv, ContractTypeOK, TypeOK
<1>6. \A q \in Path \ {p} : Same(q)
  BY <1>3 DEF Same
<1>7. op'[c] = x /\ scarred' = scarred
  BY <1>3, <1>4 DEF Remember, Inv, ContractTypeOK, TypeOK
<1>8. /\ ~o.refused => Written(o)
      /\ p \notin scarred => Confined(o) /\ (~o.refused => Cleared(o))
  BY <1>1, <1>2, <1>3 DEF Inv, Underway, Pipeline
<1>9. Underway(c)'
  <2>1. ~o.refused => Written(x)'
    BY <1>2, <1>3, <1>4, <1>5, <1>8 DEF Written, StoredAs
  <2>2. p \notin scarred => Confined(x)'
    BY <1>2, <1>3, <1>4, <1>8 DEF Confined
  <2>3. p \notin scarred /\ ~o.refused => Cleared(x)'
    BY <1>2, <1>3, <1>4, <1>8 DEF Cleared, Removed, Pipeline
  <2>4. QED BY <1>4, <1>7, <2>1, <2>2, <2>3 DEF Underway
<1>10. QED
  BY <1>1, <1>2, <1>3, <1>4, <1>5, <1>6, <1>9, PipelineStep
  DEF Inv, ContractTypeOK, TypeOK, Pipeline

-----------------------------------------------------------------------------
\* The two ends of a write that was sent, and the start of one.
LEMMA ReplyKeeps ==
  ASSUME Inv, NEW c \in Client, Reply(c), Remember PROVE Inv'
<1>1. PICK o \in OpType : o = op[c]
  BY DEF Inv, ContractTypeOK, TypeOK
<1>2. PICK p \in Path : p = o.path
  BY <1>1 DEF Reply, Inv, ContractTypeOK, TypeOK, Idle
<1>3. /\ o.stage = "reply" /\ ~o.refused /\ op' = [op EXCEPT ![c] = NoOp]
      /\ torn' = torn \ {p}
      /\ UNCHANGED <<record, live, terms, member, df, files>>
  BY <1>1, <1>2 DEF Reply, moon
<1>4. scarred' = scarred
  BY <1>3 DEF Remember, Inv
<1>5. /\ Written(o)
      /\ p \notin scarred => Confined(o) /\ Cleared(o)
  BY <1>1, <1>2, <1>3 DEF Inv, Underway, Pipeline
<1>6. record[p] = o.new /\ Complete(p)
  BY <1>2, <1>3, <1>5 DEF Written, Complete
<1>7. p \notin scarred => Exact(p)
  <2> SUFFICES ASSUME p \notin scarred PROVE Exact(p)
    OBVIOUS
  <2>1. live[p] = Bodies(o.new)
    <3>1. live[p] \subseteq Bodies(o.old) \cup Bodies(o.new)
      BY <1>2, <1>5 DEF Confined
    <3>2. \A b \in Bodies(o.old) \ Bodies(o.new) : b \notin live[p]
      BY <1>2, <1>3, <1>5 DEF Cleared, Removed, Pipeline
    <3>3. \A b \in Bodies(o.new) : b \in live[p]
      BY <1>6 DEF Complete, StoredAs
    <3>4. QED BY <3>1, <3>2, <3>3
  <2>2. ASSUME NEW i \in Ident PROVE member[i][p] = Names(o.new, i)
    <3>1. member[i][p] \subseteq Names(o.new, i)
      BY <1>2, <1>3, <1>5 DEF Cleared, Pipeline
    <3>2. \A b \in Names(o.new, i) : b \in member[i][p]
      BY <1>6 DEF Complete, StoredAs, Names
    <3>3. QED BY <3>1, <3>2
  <2>3. QED BY <1>6, <2>1, <2>2 DEF Exact
<1>8. Complete(p)' /\ (p \notin scarred' => Exact(p)')
  BY <1>3, <1>4, <1>6, <1>7 DEF Complete, Exact, StoredAs
<1>9. AtRest(p)' /\ Underway(c)'
  BY <1>3, <1>8, NoOpType
  DEF AtRest, Underway, Pipeline, Inv, ContractTypeOK, TypeOK
<1>10. \A q \in Path \ {p} : Same(q)
  BY <1>3 DEF Same
<1>11. QED
  BY <1>1, <1>2, <1>3, <1>9, <1>10, NoOpType, OpStep
  DEF Inv, ContractTypeOK, TypeOK, Idle

LEMMA GiveUpKeeps ==
  ASSUME Inv, NEW c \in Client, GiveUp(c), Remember PROVE Inv'
<1>1. PICK p \in Path : p = op[c].path
  BY DEF GiveUp, Inv, ContractTypeOK, TypeOK, Idle, Pipeline
<1>2. /\ op[c].stage \in Pipeline /\ op' = [op EXCEPT ![c] = NoOp]
      /\ torn' = torn \cup {p}
      /\ UNCHANGED <<record, live, terms, member, df, files>>
  BY <1>1 DEF GiveUp, moon
<1>3. p \in torn' /\ p \in scarred'
  BY <1>2 DEF Remember
<1>4. AtRest(p)' /\ Underway(c)'
  BY <1>2, <1>3, NoOpType
  DEF AtRest, Underway, Pipeline, Inv, ContractTypeOK, TypeOK
<1>5. \A q \in Path \ {p} : Same(q)
  BY <1>2 DEF Same
<1>6. QED
  BY <1>1, <1>2, <1>4, <1>5, NoOpType, OpStep
  DEF Inv, ContractTypeOK, TypeOK, Idle, Pipeline

LEMMA BeginKeeps ==
  ASSUME Inv, NEW c \in Client, NEW p \in Path, NEW v \in Version,
         ~Busy(p), Begin(c, p, v), Remember
  PROVE  Inv'
<1> DEFINE x == [NoOp EXCEPT !.stage = "read", !.path = p, !.new = v]
<1>1. /\ Idle(c) /\ op' = [op EXCEPT ![c] = x]
      /\ UNCHANGED <<record, live, terms, member, df, files, torn>>
  BY DEF Begin, moon
<1>2. x \in OpType /\ x.stage = "read" /\ x.path = p
  BY NoOpType DEF OpType, Stage
<1> HIDE DEF x
<1>3. /\ op' \in [Client -> OpType] /\ op'[c] = x
      /\ \A d \in Client \ {c} : op'[d] = op[d]
  BY <1>1, <1>2 DEF Inv, ContractTypeOK, TypeOK
<1>4. scarred' = scarred /\ skewed' \in BOOLEAN
  BY <1>1 DEF Remember, Inv, ContractTypeOK
<1>5. ContractTypeOK'
  BY <1>1, <1>2, <1>3, <1>4 DEF Inv, ContractTypeOK, TypeOK, Idle
<1>6. OneWriter'
  BY <1>2, <1>3 DEF Inv, OneWriter, Idle, Busy
<1>7. \A q \in Path : Same(q)
  BY <1>1 DEF Same
<1>8. ASSUME NEW q \in Path PROVE AtRest(q)'
  <2>1. Changing(q)' <=> Changing(q)
    BY <1>1, <1>2, <1>3 DEF Changing, Idle, Pipeline
  <2>2. QED BY <1>4, <1>7, <2>1, SameRest DEF Inv, ContractTypeOK, TypeOK
<1>9. ASSUME NEW d \in Client PROVE Underway(d)'
  <2>1. CASE d = c
    BY <1>2, <1>3, <2>1 DEF Underway, Pipeline
  <2>2. CASE d # c /\ Idle(d)
    BY <1>3, <2>2 DEF Underway, Idle, Pipeline
  <2>3. CASE d # c /\ ~Idle(d)
    BY <1>3, <1>4, <1>7, <2>3, SameUnderway DEF Inv, ContractTypeOK, TypeOK
  <2>4. QED BY <2>1, <2>2, <2>3
<1>10. QED
  BY <1>1, <1>4, <1>5, <1>6, <1>8, <1>9 DEF Inv

-----------------------------------------------------------------------------
LEMMA InitInv == ContractInit => Inv
<1> SUFFICES ASSUME ContractInit PROVE Inv
  OBVIOUS
<1>1. /\ record = [p \in Path |-> NoFile] /\ live = [p \in Path |-> {}]
      /\ terms = [p \in Path |-> [b \in Body |-> {}]]
      /\ member = [i \in Ident |-> [p \in Path |-> {}]]
      /\ df = [t \in Term |-> 0] /\ files = {} /\ torn = {}
      /\ op = [c \in Client |-> NoOp] /\ scarred = {} /\ skewed = FALSE
  BY DEF ContractInit, Init
<1>2. ContractTypeOK
  <2>1. /\ record \in [Path -> Version] /\ live \in [Path -> SUBSET Body]
        /\ terms \in [Path -> [Body -> SUBSET Term]]
        /\ member \in [Ident -> [Path -> SUBSET Body]]
        /\ df \in [Term -> Int] /\ files \in SUBSET Path
    BY <1>1 DEF Version
  <2>2. op \in [Client -> OpType] /\ \A c \in Client : Idle(c)
    BY <1>1, NoOpType DEF Idle
  <2>3. torn \in SUBSET Path /\ scarred \in SUBSET Path
    BY <1>1
  <2>4. skewed \in BOOLEAN
    BY <1>1
  <2>5. QED BY <2>1, <2>2, <2>3, <2>4 DEF ContractTypeOK, TypeOK
<1>3. \A p \in Path : AtRest(p)
  BY <1>1 DEF AtRest, Complete, Exact, Names, Bodies
<1>4. OneWriter /\ \A c \in Client : Underway(c)
  BY <1>1, NoOpType DEF OneWriter, Idle, Underway, Pipeline
<1>5. QED BY <1>1, <1>2, <1>3, <1>4 DEF Inv

LEMMA UnchangedKeeps == ASSUME Inv, UNCHANGED contractVars PROVE Inv'
<1>1. UNCHANGED <<record, live, terms, member, df, files, op, torn, scarred, skewed>>
  BY DEF contractVars, vars
<1>2. ContractTypeOK' /\ OneWriter' /\ (torn \subseteq scarred)'
  BY <1>1 DEF Inv, ContractTypeOK, TypeOK, Idle, OneWriter
<1>3. \A q \in Path : Same(q)
  BY <1>1 DEF Same
<1>4. ASSUME NEW q \in Path PROVE AtRest(q)'
  <2>1. Changing(q)' <=> Changing(q)
    BY <1>1 DEF Changing
  <2>2. QED BY <1>1, <1>3, <2>1, SameRest DEF Inv, ContractTypeOK, TypeOK
<1>5. ASSUME NEW d \in Client PROVE Underway(d)'
  <2>1. CASE Idle(d)
    BY <1>1, <2>1 DEF Underway, Idle, Pipeline
  <2>2. CASE ~Idle(d)
    BY <1>1, <1>3, <2>2, SameUnderway DEF Inv, ContractTypeOK, TypeOK
  <2>3. QED BY <2>1, <2>2
<1>6. QED BY <1>2, <1>4, <1>5 DEF Inv

LEMMA NextInv == Inv /\ [ContractNext]_contractVars => Inv'
<1> SUFFICES ASSUME Inv, [ContractNext]_contractVars PROVE Inv'
  OBVIOUS
<1>1. ASSUME NEW c \in Client, Progress(c), Remember PROVE Inv'
  BY <1>1, ReadRecordKeeps, ReadTermsKeeps, DropChunkKeeps, UnnameKeeps,
     InsertChunkKeeps, CountTermKeeps, NextSectionKeeps, WriteRecordKeeps,
     ListFileKeeps, ReplyKeeps
  DEF Progress
<1>2. ASSUME NEW c \in Client, Fault(c), Remember PROVE Inv'
  BY <1>2, RefuseKeeps, ResendKeeps, FailReadKeeps, GiveUpKeeps DEF Fault
<1>3. QED
  BY <1>1, <1>2, BeginKeeps, UnchangedKeeps DEF ContractNext

THEOREM Invariance == ContractSpec => []Inv
  BY InitInv, NextInv, PTL DEF ContractSpec

(* The types, for any number of paths, contents, clients and retries.      *)
THEOREM TypeCorrect == ContractSpec => []ContractTypeOK
<1>1. Inv => ContractTypeOK
  BY DEF Inv
<1>2. QED BY <1>1, Invariance, PTL

(* After every put_file and delete_file that returned Ok, whatever failed  *)
(* on the path before, the recorded content is stored as a whole.          *)
THEOREM SettledPathsComplete == ContractSpec => []SettledComplete
<1>1. Inv => SettledComplete
  <2> SUFFICES ASSUME Inv, NEW p \in Path, Settled(p) PROVE Complete(p)
    BY DEF SettledComplete, Complete
  <2>1. ~Changing(p)
    BY DEF Settled, Busy, Idle, Changing, Pipeline
  <2>2. QED BY <2>1 DEF Inv, AtRest, Settled
<1>2. QED BY <1>1, Invariance, PTL

(* And where no write ever failed half-way, nothing but that content is.   *)
THEOREM SettledPathsExact == ContractSpec => []SettledExact
<1>1. Inv => SettledExact
  <2> SUFFICES ASSUME Inv, NEW p \in Path, Settled(p), p \notin scarred
               PROVE Exact(p)
    BY DEF SettledExact, Exact, Names
  <2>1. ~Changing(p)
    BY DEF Settled, Busy, Idle, Changing, Pipeline
  <2>2. QED BY <2>1 DEF Inv, AtRest
<1>2. QED BY <1>1, Invariance, PTL

-----------------------------------------------------------------------------
(***************************************************************************)
(* The pipelines implement FileIndex, the map from paths to contents that  *)
(* the Store trait promises.                                               *)
(***************************************************************************)
LEMMA PendingIs ==
  ASSUME NEW o, NEW c \in Client, NEW p, Writes(o, c, p),
         \A d \in Client : Writes(o, d, p) => d = c
  PROVE  PendingIn(o, p) = o[c].new
<1>1. (CHOOSE d \in Client : Writes(o, d, p)) = c
  OBVIOUS
<1>2. QED BY <1>1 DEF PendingIn

\* Writes that leave p alone do not change what it is to get.
LEMMA PendingSame ==
  ASSUME NEW o, NEW n, NEW c \in Client, NEW p,
         \A d \in Client \ {c} : n[d] = o[d],
         ~Writes(o, c, p), ~Writes(n, c, p),
         \A d, e \in Client : Writes(o, d, p) /\ Writes(o, e, p) => d = e
  PROVE  PendingIn(n, p) = PendingIn(o, p)
<1>1. \A d \in Client : Writes(n, d, p) <=> Writes(o, d, p)
  BY DEF Writes
<1>2. CASE \E d \in Client : Writes(o, d, p)
  <2>1. PICK d \in Client : Writes(o, d, p)
    BY <1>2
  <2>2. PendingIn(o, p) = o[d].new
    BY <2>1, PendingIs
  <2>3. PendingIn(n, p) = n[d].new
    BY <1>1, <2>1, PendingIs
  <2>4. n[d] = o[d]
    BY <2>1
  <2>5. QED BY <2>2, <2>3, <2>4
<1>3. CASE ~\E d \in Client : Writes(o, d, p)
  BY <1>1, <1>3 DEF PendingIn
<1>4. QED BY <1>2, <1>3

\* The paths and the writes a step of client c's write leaves alone.
Local(c, p) ==
  /\ \A d \in Client \ {c} : op'[d] = op[d]
  /\ op'[c].stage # "idle" => op'[c].path = p
  /\ \A q \in Path \ {p} : Same(q)

LEMMA LocalIndex ==
  ASSUME Inv, Inv', NEW c \in Client, NEW p \in Path, p = op[c].path, ~Idle(c),
         Local(c, p)
  PROVE  /\ \A q \in Path \ {p} : IndexOf(q)' = IndexOf(q)
         /\ \A q \in Path \ {p} : PendingIn(op', q) = PendingIn(op, q)
         /\ \A q \in Path \ {p} : live'[q] = live[q]
         /\ PendingIn(op, p) = op[c].new
         /\ op'[c].stage # "idle" => PendingIn(op', p) = op'[c].new
         /\ op'[c].stage = "idle" => PendingIn(op', p) = Nothing
<1>1. /\ \A d, e \in Client : \A q \in Path :
           Writes(op, d, q) /\ Writes(op, e, q) => d = e
      /\ \A d, e \in Client : \A q \in Path :
           Writes(op', d, q) /\ Writes(op', e, q) => d = e
  BY DEF Inv, OneWriter, Idle, Writes
<1>2. ASSUME NEW q \in Path \ {p} PROVE IndexOf(q)' = IndexOf(q)
  <2>1. Changing(q)' <=> Changing(q)
    BY DEF Local, Changing, Pipeline
  <2>2. QED BY <2>1 DEF IndexOf, Local, Same
<1>3. ASSUME NEW q \in Path \ {p} PROVE PendingIn(op', q) = PendingIn(op, q)
  <2>1. ~Writes(op, c, q) /\ ~Writes(op', c, q)
    BY DEF Local, Writes
  <2>2. QED BY <1>1, <2>1, PendingSame DEF Local
<1>4. PendingIn(op, p) = op[c].new
  <2>1. Writes(op, c, p)
    BY DEF Writes, Idle
  <2>2. QED BY <1>1, <2>1, PendingIs
<1>5. op'[c].stage # "idle" => PendingIn(op', p) = op'[c].new
  <2>1. op'[c].stage # "idle" => Writes(op', c, p)
    BY DEF Writes, Local
  <2>2. QED BY <1>1, <2>1, PendingIs
<1>6. op'[c].stage = "idle" => PendingIn(op', p) = Nothing
  <2>1. ASSUME NEW d \in Client, op'[c].stage = "idle" PROVE ~Writes(op', d, p)
    BY <2>1 DEF Local, Writes, Inv, OneWriter, Idle
  <2>2. QED BY <2>1 DEF PendingIn
<1>7. QED BY <1>2, <1>3, <1>4, <1>5, <1>6 DEF Local, Same

-----------------------------------------------------------------------------
\* A step of c's write that is, or comes to be, in its pipeline.
Sent(c) ==
  /\ op'[c].stage \in Pipeline /\ op'[c].path = op[c].path
  /\ op'[c].new = op[c].new
  /\ \A d \in Client \ {c} : op'[d] = op[d]
  /\ torn' = torn

LEMMA SentByRan ==
  ASSUME Inv, NEW c \in Client, NEW y, Ran(c, y), op[c].stage \in Pipeline,
         torn' = torn
  PROVE  Sent(c)
<1>1. PICK x \in OpType :
         /\ op' = [op EXCEPT ![c] = x] /\ x.stage = op[c].stage
         /\ x.path = op[c].path /\ x.new = op[c].new
  BY RanType DEF Inv, ContractTypeOK, TypeOK
<1>2. QED BY <1>1 DEF Sent, Inv, ContractTypeOK, TypeOK

LEMMA SentByEnter ==
  ASSUME Inv, NEW c \in Client, NEW x \in OpType, NEW section \in Pipeline,
         op' = [op EXCEPT ![c] = Enter(x, section)],
         x.path = op[c].path, x.new = op[c].new, torn' = torn
  PROVE  Sent(c)
<1>1. /\ Enter(x, section).stage = section /\ Enter(x, section).path = x.path
      /\ Enter(x, section).new = x.new
  BY EnterType DEF Stage
<1>2. QED BY <1>1 DEF Sent, Inv, ContractTypeOK, TypeOK

LEMMA SentSteps ==
  ASSUME Inv, NEW c \in Client,
         \/ ReadTerms(c) \/ DropChunk(c) \/ Unname(c) \/ InsertChunk(c)
         \/ CountTerm(c) \/ NextSection(c) \/ WriteRecord(c) \/ ListFile(c)
         \/ Refuse(c) \/ Resend(c)
  PROVE  Sent(c)
<1>1. CASE DropChunk(c) \/ Unname(c) \/ InsertChunk(c) \/ CountTerm(c)
  BY <1>1, SentByRan DEF DropChunk, Unname, InsertChunk, CountTerm, Pipeline
<1> op[c] \in OpType
  BY DEF Inv, ContractTypeOK, TypeOK
<1>2. CASE ReadTerms(c)
  <2> DEFINE x == [op[c] EXCEPT !.delta = Delta(op[c], terms[op[c].path])]
  <2>1. x \in OpType /\ x.path = op[c].path /\ x.new = op[c].new
    BY DeltaType DEF OpType
  <2>2. op' = [op EXCEPT ![c] = Enter(x, "drop")] /\ torn' = torn
    BY <1>2 DEF ReadTerms
  <2> HIDE DEF x
  <2>3. QED BY <2>1, <2>2, SentByEnter DEF Pipeline
<1>3. CASE NextSection(c)
  <2> DEFINE next == After[op[c].stage]
  <2>1. next \in Pipeline
    BY <1>3 DEF NextSection, After, Pipeline
  <2>2. op' = [op EXCEPT ![c] = Enter(op[c], next)] /\ torn' = torn
    BY <1>3 DEF NextSection
  <2> HIDE DEF next
  <2>3. QED BY <2>1, <2>2, SentByEnter
<1>4. CASE WriteRecord(c)
  BY <1>4, SentByEnter DEF WriteRecord, Pipeline
<1>5. CASE ListFile(c)
  BY <1>5, SentByEnter DEF ListFile, Pipeline
<1>6. CASE Refuse(c)
  <2>1. op[c].stage \in Pipeline /\ torn' = torn
    BY <1>6 DEF Refuse
  <2>2. ASSUME NEW y \in op[c].todo,
               op' = [op EXCEPT ![c].todo = @ \ {y}, ![c].refused = TRUE]
        PROVE  Sent(c)
    BY <2>1, <2>2 DEF Sent, OpType, Inv, ContractTypeOK, TypeOK
  <2>3. ASSUME op[c].stage \in {"record", "list"},
               op' = [op EXCEPT ![c] = Enter([op[c] EXCEPT !.refused = TRUE],
                                             After[op[c].stage])]
        PROVE  Sent(c)
    <3> DEFINE x == [op[c] EXCEPT !.refused = TRUE]
               next == After[op[c].stage]
    <3>1. x \in OpType /\ x.path = op[c].path /\ x.new = op[c].new
      BY DEF OpType
    <3>2. next \in Pipeline
      BY <2>3 DEF After, Pipeline
    <3>3. op' = [op EXCEPT ![c] = Enter(x, next)]
      BY <2>3
    <3> HIDE DEF x, next
    <3>4. QED BY <2>1, <3>1, <3>2, <3>3, SentByEnter
  <2>4. QED BY <1>6, <2>2, <2>3 DEF Refuse
<1>7. CASE Resend(c)
  <2> DEFINE t == op[c].tries + 1
             x == [op[c] EXCEPT !.tries = t, !.refused = FALSE]
  <2>1. t \in 0..MaxRetries
    BY <1>7, BoundAssumption DEF Resend, OpType
  <2>2. op' = [op EXCEPT ![c] = Enter(x, "drop")] /\ torn' = torn
    BY <1>7 DEF Resend
  <2> HIDE DEF t
  <2>3. x \in OpType /\ x.path = op[c].path /\ x.new = op[c].new
    BY <2>1 DEF OpType
  <2> HIDE DEF x
  <2>4. QED BY <2>2, <2>3, SentByEnter DEF Pipeline
<1>8. QED BY <1>1, <1>2, <1>3, <1>4, <1>5, <1>6, <1>7

\* No step of a write touches the index of another path.
LEMMA StepsLocal ==
  ASSUME Inv, NEW c \in Client, NEW p \in Path, p = op[c].path,
         Progress(c) \/ Fault(c)
  PROVE  \A q \in Path \ {p} : Same(q)
<1>1. CASE DropChunk(c)
  BY <1>1 DEF DropChunk, Same, Inv, ContractTypeOK, TypeOK
<1>2. CASE Unname(c)
  BY <1>2 DEF Unname, Same, Inv, ContractTypeOK, TypeOK
<1>3. CASE InsertChunk(c)
  BY <1>3 DEF InsertChunk, Same, Inv, ContractTypeOK, TypeOK
<1>4. CASE WriteRecord(c) \/ ListFile(c) \/ CountTerm(c)
  BY <1>4 DEF WriteRecord, ListFile, CountTerm, Same, Inv, ContractTypeOK, TypeOK
<1>5. CASE Reply(c) \/ GiveUp(c)
  BY <1>5 DEF Reply, GiveUp, Same, moon
<1>6. CASE ReadRecord(c) \/ ReadTerms(c) \/ NextSection(c) \/ (Fault(c) /\ ~GiveUp(c))
  BY <1>6 DEF ReadRecord, ReadTerms, NextSection, Fault, Refuse, Resend, FailRead,
              Same, moon
<1>7. QED
  BY <1>1, <1>2, <1>3, <1>4, <1>5, <1>6 DEF Progress, Fault

-----------------------------------------------------------------------------
\* What a step of c's write is in FileIndex, from what it does at p.
Index == [q \in Path |-> IndexOf(q)]
Pending == [q \in Path |-> PendingIn(op, q)]

LEMMA LocalMaps ==
  ASSUME Inv, Inv', NEW c \in Client, NEW p \in Path, p = op[c].path, ~Idle(c),
         Local(c, p), NEW i, IndexOf(p)' = i
  PROVE  /\ Index' = [Index EXCEPT ![p] = i]
         /\ op'[c].stage # "idle" /\ op'[c].new = op[c].new => Pending' = Pending
         /\ op'[c].stage = "idle" => Pending' = [Pending EXCEPT ![p] = Nothing]
         /\ live' = [live EXCEPT ![p] = live'[p]]
         /\ Pending[p] = op[c].new /\ Pending[p] # Nothing
<1>1. live \in [Path -> SUBSET Body] /\ live' \in [Path -> SUBSET Body]
      /\ op[c].new \in Version
  BY DEF Inv, ContractTypeOK, TypeOK, OpType
<1>2. /\ \A q \in Path \ {p} : IndexOf(q)' = IndexOf(q)
      /\ \A q \in Path \ {p} : PendingIn(op', q) = PendingIn(op, q)
      /\ \A q \in Path \ {p} : live'[q] = live[q]
      /\ PendingIn(op, p) = op[c].new
      /\ op'[c].stage # "idle" => PendingIn(op', p) = op'[c].new
      /\ op'[c].stage = "idle" => PendingIn(op', p) = Nothing
  BY LocalIndex
<1>3. Index' = [q \in Path |-> IndexOf(q)'] /\ Pending' = [q \in Path |-> PendingIn(op', q)]
  BY DEF Index, Pending
<1>4. Index' = [Index EXCEPT ![p] = i]
  BY <1>2, <1>3 DEF Index
<1>5. op'[c].stage # "idle" /\ op'[c].new = op[c].new => Pending' = Pending
  BY <1>2, <1>3 DEF Pending
<1>6. op'[c].stage = "idle" => Pending' = [Pending EXCEPT ![p] = Nothing]
  BY <1>2, <1>3 DEF Pending
<1>7. live' = [live EXCEPT ![p] = live'[p]]
  BY <1>1, <1>2
<1>8. Pending[p] = op[c].new /\ Pending[p] # Nothing
  BY <1>1, <1>2, NothingAssumption DEF Pending
<1>9. QED BY <1>4, <1>5, <1>6, <1>7, <1>8

LEMMA WriteStep ==
  ASSUME Inv, Inv', NEW c \in Client, Progress(c) \/ Fault(c), Remember
  PROVE  Abstract!Next \/ UNCHANGED Abstract!vars
<1>1. ~Idle(c)
  BY DEF Idle, Progress, Fault, ReadRecord, ReadTerms, DropChunk, Unname, InsertChunk,
         CountTerm, NextSection, WriteRecord, ListFile, Reply, Refuse, Resend, FailRead,
         GiveUp, Pipeline
<1>2. PICK p \in Path : p = op[c].path
  BY <1>1 DEF Inv, ContractTypeOK, TypeOK
<1>3. \A q \in Path \ {p} : Same(q)
  BY <1>2, StepsLocal
<1>4. live'[p] \in SUBSET Body
  BY DEF Inv, ContractTypeOK, TypeOK
<1>5. CASE Sent(c)
  <2>1. Local(c, p)
    BY <1>2, <1>3, <1>5 DEF Local, Sent
  <2>2. IndexOf(p)' = Nothing
    BY <1>2, <1>5 DEF Sent, IndexOf, Changing
  <2>3. scarred' = scarred
    BY <1>5 DEF Sent, Remember, Inv
  <2>4. op'[c].stage # "idle" /\ op'[c].new = op[c].new
    BY <1>5 DEF Sent, Pipeline
  <2>5. /\ Index' = [Index EXCEPT ![p] = Nothing] /\ Pending' = Pending
        /\ live' = [live EXCEPT ![p] = live'[p]] /\ Pending[p] # Nothing
    BY <1>1, <1>2, <2>1, <2>2, <2>4, LocalMaps
  <2>6. Abstract!Change(p)
    BY <1>4, <2>3, <2>5 DEF Abstract!Change, Index, Pending
  <2>7. QED BY <2>6 DEF Abstract!Next
<1>6. CASE ReadRecord(c)
  <2>1. /\ op'[c].stage = "terms" /\ op'[c].path = p /\ op'[c].new = op[c].new
        /\ op[c].stage = "read" /\ \A d \in Client \ {c} : op'[d] = op[d]
        /\ UNCHANGED <<record, live, torn>>
    BY <1>2, <1>6 DEF ReadRecord, moon, Inv, ContractTypeOK, TypeOK, OpType
  <2>2. Local(c, p)
    BY <1>3, <2>1 DEF Local
  <2>3. Changing(p)' <=> Changing(p)
    BY <2>1 DEF Changing, Pipeline
  <2>4. IndexOf(p)' = IndexOf(p) /\ scarred' = scarred
    BY <2>1, <2>3 DEF IndexOf, Remember, Inv
  <2>5. Index' = [Index EXCEPT ![p] = IndexOf(p)] /\ Pending' = Pending
    BY <1>1, <1>2, <2>1, <2>2, <2>4, LocalMaps
  <2>6. Index' = Index
    BY <2>5 DEF Index
  <2>7. QED BY <2>1, <2>4, <2>5, <2>6 DEF Abstract!vars, Index, Pending
<1>7. ASSUME op' = [op EXCEPT ![c] = NoOp], UNCHANGED moon
      PROVE  /\ Local(c, p) /\ op'[c].stage = "idle" /\ ~Changing(p)'
             /\ UNCHANGED <<record, live>>
             /\ \A d \in Client \ {c} : op'[d] = op[d]
  <2>1. /\ op'[c].stage = "idle" /\ UNCHANGED <<record, live>>
        /\ \A d \in Client \ {c} : op'[d] = op[d]
    BY <1>7, NoOpType DEF moon, Inv, ContractTypeOK, TypeOK
  <2>2. ~Changing(p)'
    BY <1>1, <1>2, <2>1 DEF Changing, Inv, OneWriter, Idle, Pipeline
  <2>3. QED BY <1>3, <2>1, <2>2 DEF Local
<1>8. CASE Reply(c)
  <2>1. /\ op' = [op EXCEPT ![c] = NoOp] /\ UNCHANGED moon
        /\ torn' = torn \ {p} /\ op[c].stage = "reply" /\ ~op[c].refused
    BY <1>2, <1>8 DEF Reply
  <2>2. /\ Local(c, p) /\ op'[c].stage = "idle" /\ ~Changing(p)'
        /\ UNCHANGED <<record, live>>
    BY <1>7, <2>1
  <2>3. scarred' = scarred
    BY <2>1 DEF Remember, Inv
  <2>4. record[p] = op[c].new
    BY <1>2, <2>1 DEF Inv, Underway, Written, Pipeline
  <2>5. IndexOf(p)' = op[c].new
    BY <2>1, <2>2, <2>4 DEF IndexOf
  <2>6. AtRest(p)'
    BY DEF Inv
  <2>7. /\ Bodies(op[c].new) \subseteq live[p]
        /\ p \in scarred \/ live[p] = Bodies(op[c].new)
    BY <2>1, <2>2, <2>3, <2>4, <2>6 DEF AtRest, Complete, Exact, StoredAs
  <2>8. /\ Index' = [Index EXCEPT ![p] = op[c].new]
        /\ Pending' = [Pending EXCEPT ![p] = Nothing]
        /\ Pending[p] = op[c].new /\ Pending[p] # Nothing
    BY <1>1, <1>2, <2>2, <2>5, LocalMaps
  <2>9. Abstract!BodiesIn(Pending[p]) = Bodies(op[c].new)
    BY <2>8 DEF Abstract!BodiesIn, Bodies
  <2>10. Abstract!Finish(p)
    BY <2>2, <2>3, <2>7, <2>8, <2>9 DEF Abstract!Finish, Index, Pending
  <2>11. QED BY <2>10 DEF Abstract!Next
<1>9. CASE FailRead(c)
  <2>1. /\ op' = [op EXCEPT ![c] = NoOp] /\ UNCHANGED moon /\ torn' = torn
        /\ op[c].stage \notin Pipeline
    BY <1>9 DEF FailRead, Pipeline
  <2>2. /\ Local(c, p) /\ op'[c].stage = "idle" /\ ~Changing(p)'
        /\ UNCHANGED <<record, live>>
    BY <1>7, <2>1
  <2>3. ~Changing(p)
    BY <1>1, <1>2, <2>1 DEF Changing, Inv, OneWriter, Idle, Pipeline
  <2>4. IndexOf(p)' = IndexOf(p) /\ scarred' = scarred
    BY <2>1, <2>2, <2>3 DEF IndexOf, Remember, Inv
  <2>5. /\ Index' = [Index EXCEPT ![p] = IndexOf(p)]
        /\ Pending' = [Pending EXCEPT ![p] = Nothing] /\ Pending[p] # Nothing
    BY <1>1, <1>2, <2>2, <2>4, LocalMaps
  <2>6. Index' = Index
    BY <2>5 DEF Index
  <2>7. Abstract!FailUnchanged(p)
    BY <2>2, <2>4, <2>5, <2>6 DEF Abstract!FailUnchanged, Index, Pending
  <2>8. QED BY <2>7 DEF Abstract!Next
<1>10. CASE GiveUp(c)
  <2>1. /\ op' = [op EXCEPT ![c] = NoOp] /\ UNCHANGED moon
        /\ torn' = torn \cup {p}
    BY <1>2, <1>10 DEF GiveUp
  <2>2. /\ Local(c, p) /\ op'[c].stage = "idle" /\ UNCHANGED <<record, live>>
    BY <1>7, <2>1
  <2>3. scarred' = scarred \cup {p} /\ IndexOf(p)' = Nothing
    BY <2>1 DEF Remember, Inv, IndexOf
  <2>4. /\ Index' = [Index EXCEPT ![p] = Nothing]
        /\ Pending' = [Pending EXCEPT ![p] = Nothing] /\ Pending[p] # Nothing
    BY <1>1, <1>2, <2>2, <2>3, LocalMaps
  <2>5. Abstract!FailHalfWay(p)
    BY <2>2, <2>3, <2>4 DEF Abstract!FailHalfWay, Index, Pending
  <2>6. QED BY <2>5 DEF Abstract!Next
<1>11. QED
  BY SMTT(30), <1>5, <1>6, <1>8, <1>9, <1>10, SentSteps DEF Progress, Fault

LEMMA BeginStep ==
  ASSUME Inv, Inv', NEW c \in Client, NEW p \in Path, NEW v \in Version,
         ~Busy(p), Begin(c, p, v), Remember
  PROVE  Abstract!Start(p, v)
<1> DEFINE x == [NoOp EXCEPT !.stage = "read", !.path = p, !.new = v]
<1>1. /\ Idle(c) /\ op' = [op EXCEPT ![c] = x]
      /\ UNCHANGED <<record, live, terms, member, df, files, torn>>
  BY DEF Begin, moon
<1>2. x \in OpType /\ x.stage = "read" /\ x.path = p /\ x.new = v
  BY NoOpType DEF OpType, Stage
<1> HIDE DEF x
<1>3. op'[c] = x /\ \A d \in Client \ {c} : op'[d] = op[d]
  BY <1>1 DEF Inv, ContractTypeOK, TypeOK
<1>4. scarred' = scarred
  BY <1>1 DEF Remember, Inv
<1>5. ASSUME NEW q \in Path PROVE IndexOf(q)' = IndexOf(q)
  <2>1. Changing(q)' <=> Changing(q)
    BY <1>1, <1>2, <1>3 DEF Changing, Idle, Pipeline
  <2>2. QED BY <1>1, <2>1 DEF IndexOf
<1>6. PendingIn(op, p) = Nothing
  BY DEF PendingIn, Writes, Busy, Idle
<1>7. PendingIn(op', p) = v
  <2>1. Writes(op', c, p) /\ \A d \in Client : Writes(op', d, p) => d = c
    BY <1>2, <1>3 DEF Writes, Busy, Idle
  <2>2. QED BY <1>2, <1>3, <2>1, PendingIs
<1>8. ASSUME NEW q \in Path \ {p} PROVE PendingIn(op', q) = PendingIn(op, q)
  <2>1. ~Writes(op, c, q) /\ ~Writes(op', c, q)
    BY <1>1, <1>2, <1>3 DEF Writes, Idle
  <2>2. \A d, e \in Client : Writes(op, d, q) /\ Writes(op, e, q) => d = e
    BY DEF Inv, OneWriter, Idle, Writes
  <2>3. QED BY <1>3, <2>1, <2>2, PendingSame
<1>9. Index' = Index
  BY <1>5 DEF Index
<1>10. Pending' = [Pending EXCEPT ![p] = v] /\ Pending[p] = Nothing
  BY <1>6, <1>7, <1>8 DEF Pending
<1>11. QED
  BY <1>1, <1>4, <1>9, <1>10 DEF Abstract!Start, Index, Pending

LEMMA AbstractInit == ContractInit => Abstract!Init
<1> SUFFICES ASSUME ContractInit PROVE Abstract!Init
  OBVIOUS
<1>1. /\ record = [p \in Path |-> NoFile] /\ live = [p \in Path |-> {}]
      /\ torn = {} /\ op = [c \in Client |-> NoOp] /\ scarred = {}
  BY DEF ContractInit, Init
<1>2. \A c \in Client : op[c].stage = "idle"
  BY <1>1, NoOpType
<1>3. \A p \in Path : IndexOf(p) = NoFile /\ PendingIn(op, p) = Nothing
  BY <1>1, <1>2 DEF IndexOf, Changing, Pipeline, PendingIn, Writes
<1>4. QED BY <1>1, <1>3 DEF Abstract!Init

LEMMA AbstractNext ==
  Inv /\ Inv' /\ [ContractNext]_contractVars => [Abstract!Next]_(Abstract!vars)
<1> SUFFICES ASSUME Inv, Inv', [ContractNext]_contractVars
             PROVE  Abstract!Next \/ UNCHANGED Abstract!vars
  OBVIOUS
<1>1. CASE UNCHANGED contractVars
  <2>1. UNCHANGED <<record, live, torn, op, scarred>>
    BY <1>1 DEF contractVars, vars
  <2>2. /\ \A p \in Path : IndexOf(p)' = IndexOf(p)
        /\ \A p \in Path : PendingIn(op', p) = PendingIn(op, p)
    BY <2>1 DEF IndexOf, Changing
  <2>3. QED BY <2>1, <2>2 DEF Abstract!vars
<1>2. ASSUME NEW c \in Client, NEW p \in Path, NEW v \in Version,
             ~Busy(p), Begin(c, p, v), Remember
      PROVE  Abstract!Next
  BY <1>2, BeginStep DEF Abstract!Next, Version
<1>3. ASSUME NEW c \in Client, Progress(c) \/ Fault(c), Remember
      PROVE  Abstract!Next \/ UNCHANGED Abstract!vars
  BY <1>3, WriteStep
<1>4. QED BY <1>1, <1>2, <1>3 DEF ContractNext

(* Every behaviour of the pipelines, with all their failures and resends,  *)
(* is one of the map in which a write replaces the content of its path as  *)
(* a whole or leaves it unknown: what the Store trait promises.            *)
THEOREM PipelinesImplementMap == ContractSpec => ImplementsFileIndex
  BY AbstractInit, AbstractNext, Invariance, PTL
  DEF ContractSpec, ImplementsFileIndex, Abstract!Spec

-----------------------------------------------------------------------------
(***************************************************************************)
(* The document frequencies.  While a write is under way a frequency       *)
(* counts, on its path, the chunks of the old content or already those of  *)
(* the new one.                                                            *)
(***************************************************************************)
\* The chunks of content v that are indexed under t.
Bearing(v, t) == {b \in Bodies(v) : t \in TermsIn(v, b)}

\* The content of o's path that the frequency of t stands for.
Booked(o, t) ==
  IF o.stage \in {"record", "list", "reply"} \/ (o.stage = "count" /\ t \notin o.todo)
    THEN o.new ELSE o.old

\* w is, for every path, the content that the frequency of t stands for.
Agrees(w, t) ==
  /\ \A p \in Path : ~Changing(p) => w[p] = record[p]
  /\ \A c \in Client : op[c].stage \in Pipeline => w[op[c].path] = Booked(op[c], t)

Listing(w, t) == {pb \in Path \X Body : pb[2] \in Bearing(w[pb[1]], t)}

Exactly(t) ==
  \A w \in [Path -> Version] : Agrees(w, t) => df[t] = Cardinality(Listing(w, t))

\* A HINCRBY of this attempt may have been refused: it is sent again or
\* given up, and the frequencies are skewed.
Doomed(o) == o.refused /\ Counted(o)

\* The increments of a pipeline are what its two contents differ by.
Balanced(o) ==
  /\ \A t \in Term :
       o.delta[t] = Cardinality(Bearing(o.new, t)) - Cardinality(Bearing(o.old, t))
  /\ o.stage = "count" => o.todo \subseteq Commands(o, "count")

\* A chunk without a hash is indexed under nothing.
Unindexed == \A p \in Path : \A b \in Body \ live[p] : terms[p][b] = {}

Ledger ==
  NothingRenamed /\ ~skewed =>
    /\ scarred = {}
    /\ Unindexed
    /\ \A c \in Client : op[c].stage \in Pipeline => Balanced(op[c])
    /\ (\A c \in Client : ~Doomed(op[c])) => \A t \in Term : Exactly(t)

\* The frequencies never reach the bound at which the model saturates them.
Roomy == IsFiniteSet(Path) /\ Cardinality(Path \X Body) <= DfBound

-----------------------------------------------------------------------------
LEMMA BearingType ==
  ASSUME NEW v \in Version, NEW t
  PROVE  /\ Bearing(v, t) \subseteq Body /\ IsFiniteSet(Bearing(v, t))
         /\ Cardinality(Bearing(v, t)) \in Nat
<1>1. Bearing(v, t) \subseteq Body
  BY VersionTypes DEF Bearing
<1>2. IsFiniteSet(Bearing(v, t))
  BY <1>1, ContentAssumption, FS_Subset
<1>3. QED BY <1>1, <1>2, FS_CardinalityType

\* As many pairs <<p, b>> as there are b in S.
LEMMA SliceCount ==
  ASSUME NEW p, NEW S, IsFiniteSet(S)
  PROVE  IsFiniteSet({p} \X S) /\ Cardinality({p} \X S) = Cardinality(S)
<1>1. IsFiniteSet({p}) /\ Cardinality({p}) = 1
  BY FS_Singleton
<1>2. Cardinality(S) \in Nat
  BY FS_CardinalityType
<1>3. IsFiniteSet({p} \X S) /\ Cardinality({p} \X S) = Cardinality({p}) * Cardinality(S)
  BY <1>1, FS_Product
<1>4. QED BY <1>1, <1>2, <1>3

LEMMA ListingCount ==
  ASSUME Roomy, NEW w, NEW t
  PROVE  /\ IsFiniteSet(Listing(w, t))
         /\ Cardinality(Listing(w, t)) \in Nat
         /\ Cardinality(Listing(w, t)) <= DfBound
<1>1. IsFiniteSet(Path \X Body)
  BY ContentAssumption, FS_Product DEF Roomy
<1>2. Listing(w, t) \in SUBSET (Path \X Body)
  BY DEF Listing
<1>3. /\ IsFiniteSet(Listing(w, t))
      /\ Cardinality(Listing(w, t)) <= Cardinality(Path \X Body)
  BY <1>1, <1>2, FS_Subset
<1>4. Cardinality(Listing(w, t)) \in Nat /\ Cardinality(Path \X Body) \in Nat
  BY <1>1, <1>3, FS_CardinalityType
<1>5. QED BY <1>3, <1>4, BoundAssumption DEF Roomy

\* The pairs that do not concern p.
Others(w, t, p) == {pb \in Listing(w, t) : pb[1] # p}

LEMMA ListingSplit ==
  ASSUME Roomy, NEW p \in Path, NEW w \in [Path -> Version], NEW t
  PROVE  /\ IsFiniteSet(Others(w, t, p)) /\ Cardinality(Others(w, t, p)) \in Nat
         /\ Cardinality(Listing(w, t)) =
              Cardinality(Others(w, t, p)) + Cardinality(Bearing(w[p], t))
<1> DEFINE S == {p} \X Bearing(w[p], t)
           R == Others(w, t, p)
<1>1. Bearing(w[p], t) \subseteq Body /\ IsFiniteSet(Bearing(w[p], t))
      /\ Cardinality(Bearing(w[p], t)) \in Nat
  BY BearingType
<1>2. IsFiniteSet(S) /\ Cardinality(S) = Cardinality(Bearing(w[p], t))
  BY <1>1, SliceCount
<1>3. R \in SUBSET Listing(w, t)
  BY DEF Others
<1>4. IsFiniteSet(R) /\ Cardinality(R) \in Nat
  BY <1>3, ListingCount, FS_Subset, FS_CardinalityType
<1>5. Listing(w, t) = R \cup S
  BY <1>1 DEF Others, Listing
<1>6. R \cap S = {}
  BY DEF Others
<1>7. Cardinality({}) = 0
  BY FS_EmptySet
<1> HIDE DEF S, R
<1>8. Cardinality(R \cup S) = Cardinality(R) + Cardinality(S) - Cardinality(R \cap S)
  BY <1>2, <1>4, FS_Union
<1>9. Cardinality(Listing(w, t)) = Cardinality(R) + Cardinality(Bearing(w[p], t))
  <2>1. Cardinality(R \cap S) = 0
    BY <1>6, <1>7
  <2>2. Cardinality(Listing(w, t)) = Cardinality(R \cup S)
    BY <1>5
  <2>3. QED BY <1>1, <1>2, <1>4, <1>8, <2>1, <2>2
<1>10. QED BY <1>4, <1>9 DEF R

\* Giving p another content changes the count by what the two differ by.
LEMMA ListingSwap ==
  ASSUME Roomy, NEW p \in Path, NEW w \in [Path -> Version],
         NEW u \in [Path -> Version], NEW t, \A q \in Path \ {p} : u[q] = w[q]
  PROVE  Cardinality(Listing(u, t)) =
           Cardinality(Listing(w, t))
           + Cardinality(Bearing(u[p], t)) - Cardinality(Bearing(w[p], t))
<1>1. Others(u, t, p) = Others(w, t, p)
  BY DEF Others, Listing
<1>2. /\ Cardinality(Bearing(u[p], t)) \in Nat /\ Cardinality(Bearing(w[p], t)) \in Nat
      /\ Cardinality(Others(w, t, p)) \in Nat
  BY BearingType, ListingSplit
<1>3. /\ Cardinality(Listing(w, t)) =
           Cardinality(Others(w, t, p)) + Cardinality(Bearing(w[p], t))
      /\ Cardinality(Listing(u, t)) =
           Cardinality(Others(u, t, p)) + Cardinality(Bearing(u[p], t))
  BY ListingSplit
<1>4. QED BY <1>1, <1>2, <1>3

\* A step of the write of p that changes the frequency of t by what the
\* content it stands for changes by.
LEMMA Shift ==
  ASSUME Inv, Roomy, NEW c \in Client, ~Idle(c), NEW p \in Path, p = op[c].path,
         Local(c, p), NEW t \in Term, Exactly(t),
         NEW v \in Version, NEW u \in Version, NEW n \in Int,
         op[c].stage \in Pipeline => v = Booked(op[c], t),
         op[c].stage \notin Pipeline => v = record[p],
         op'[c].stage \in Pipeline => u = Booked(op'[c], t),
         op'[c].stage \notin Pipeline => u = record'[p],
         n = df[t] + Cardinality(Bearing(u, t)) - Cardinality(Bearing(v, t)),
         df'[t] = n \/ df'[t] = Clamp(n)
  PROVE  Exactly(t)'
<1> SUFFICES ASSUME NEW w \in [Path -> Version], Agrees(w, t)'
             PROVE  df'[t] = Cardinality(Listing(w, t))
  BY DEF Exactly, Listing, Bearing, Bodies, TermsIn
<1>1. /\ \A q \in Path : ~Changing(q)' => w[q] = record'[q]
      /\ \A d \in Client : op'[d].stage \in Pipeline => w[op'[d].path] = Booked(op'[d], t)
  BY DEF Agrees, Booked
<1>2. \A d \in Client \ {c} : op[d].stage \in Pipeline => op[d].path \in Path \ {p}
  BY DEF Inv, OneWriter, Idle, Pipeline, ContractTypeOK, TypeOK
<1>3. \A d \in Client \ {c} : op'[d] = op[d]
  BY DEF Local
<1>4. w[p] = u
  <2>1. CASE op'[c].stage \in Pipeline
    BY <1>1, <2>1 DEF Local, Pipeline
  <2>2. CASE op'[c].stage \notin Pipeline
    <3>1. ~Changing(p)'
      BY <1>2, <1>3, <2>2 DEF Changing
    <3>2. QED BY <1>1, <2>2, <3>1
  <2>3. QED BY <2>1, <2>2
<1> DEFINE y == [w EXCEPT ![p] = v]
<1>5. y \in [Path -> Version] /\ y[p] = v /\ \A q \in Path \ {p} : y[q] = w[q]
  OBVIOUS
<1> HIDE DEF y
<1>6. ASSUME NEW q \in Path, ~Changing(q) PROVE y[q] = record[q]
  <2>1. CASE q = p
    BY <1>5, <1>6, <2>1 DEF Changing
  <2>2. CASE q # p
    <3>1. ~Changing(q)'
      BY <1>3, <1>6, <2>2 DEF Changing, Local, Pipeline
    <3>2. record'[q] = record[q]
      BY <2>2 DEF Local, Same
    <3>3. QED BY <1>1, <1>5, <2>2, <3>1, <3>2
  <2>3. QED BY <2>1, <2>2
<1>7. ASSUME NEW d \in Client, op[d].stage \in Pipeline
      PROVE  y[op[d].path] = Booked(op[d], t)
  <2>1. CASE d = c
    BY <1>5, <1>7, <2>1
  <2>2. CASE d # c
    <3>1. op[d].path \in Path \ {p} /\ op'[d] = op[d]
      BY <1>2, <1>3, <1>7, <2>2
    <3>2. y[op[d].path] = w[op[d].path]
      BY <1>5, <3>1
    <3>3. w[op'[d].path] = Booked(op'[d], t)
      BY <1>1, <1>7, <3>1
    <3>4. QED BY <3>1, <3>2, <3>3
  <2>3. QED BY <2>1, <2>2
<1>8. df[t] = Cardinality(Listing(y, t))
  BY <1>5, <1>6, <1>7 DEF Exactly, Agrees
<1>9. Cardinality(Listing(y, t)) =
        Cardinality(Listing(w, t))
        + Cardinality(Bearing(v, t)) - Cardinality(Bearing(u, t))
  BY <1>4, <1>5, ListingSwap
<1>10. /\ Cardinality(Bearing(v, t)) \in Nat /\ Cardinality(Bearing(u, t)) \in Nat
       /\ Cardinality(Listing(w, t)) \in Nat
       /\ Cardinality(Listing(w, t)) <= DfBound
  BY BearingType, ListingCount
<1>11. n = Cardinality(Listing(w, t))
  BY <1>8, <1>9, <1>10
<1>12. Clamp(n) = n
  BY <1>10, <1>11, BoundAssumption DEF Clamp
<1>13. QED BY <1>11, <1>12

-----------------------------------------------------------------------------
\* The frequency of t follows o, the write of a path, to its next state x.
Moves(o, x, t) ==
  LET n == df[t] + Cardinality(Bearing(Booked(x, t), t))
                 - Cardinality(Bearing(Booked(o, t), t))
  IN df'[t] = n \/ df'[t] = Clamp(n)

LEMMA BookedType ==
  ASSUME NEW o \in OpType, NEW t
  PROVE  /\ Booked(o, t) \in {o.old, o.new} /\ Booked(o, t) \in Version
         /\ Cardinality(Bearing(Booked(o, t), t)) \in Nat
<1>1. Booked(o, t) \in {o.old, o.new} /\ o.old \in Version /\ o.new \in Version
  BY DEF Booked, OpType
<1>2. QED BY <1>1, BearingType

LEMMA MovesNot ==
  ASSUME Inv, NEW o \in OpType, NEW x \in OpType, x.old = o.old, x.new = o.new,
         Balanced(o), NEW t \in Term, df'[t] = df[t],
         o.delta[t] = 0 \/ Booked(x, t) = Booked(o, t)
  PROVE  Moves(o, x, t)
<1>1. df[t] \in Int /\ o.delta[t] \in Int
  BY DEF Inv, ContractTypeOK, TypeOK, OpType
<1>2. /\ Cardinality(Bearing(o.old, t)) \in Nat /\ Cardinality(Bearing(o.new, t)) \in Nat
      /\ o.delta[t] = Cardinality(Bearing(o.new, t)) - Cardinality(Bearing(o.old, t))
  BY BearingType DEF OpType, Balanced
<1>3. Cardinality(Bearing(Booked(x, t), t)) = Cardinality(Bearing(Booked(o, t), t))
  <2>1. CASE Booked(x, t) = Booked(o, t)
    BY <2>1
  <2>2. CASE o.delta[t] = 0
    <3>1. Cardinality(Bearing(o.new, t)) = Cardinality(Bearing(o.old, t))
      BY <1>2, <2>2
    <3>2. Booked(o, t) \in {o.old, o.new} /\ Booked(x, t) \in {o.old, o.new}
      BY BookedType
    <3>3. QED BY <3>1, <3>2
  <2>3. QED BY <2>1, <2>2
<1>4. Cardinality(Bearing(Booked(o, t), t)) \in Nat
  BY BookedType
<1>5. QED BY <1>1, <1>3, <1>4 DEF Moves

LEMMA UnindexedSame ==
  ASSUME Unindexed, UNCHANGED <<live, terms>> PROVE Unindexed'
  BY DEF Unindexed

\* A step within the pipeline of c's write.
LEMMA PipelineLedger ==
  ASSUME Inv, Inv', Roomy, Ledger, NEW c \in Client,
         NEW o \in OpType, o = op[c], NEW p \in Path, p = o.path,
         Progress(c) \/ Fault(c), Remember, torn' = torn,
         NEW x \in OpType, op' = [op EXCEPT ![c] = x],
         o.stage \in Pipeline, x.stage \in Pipeline,
         x.path = p, x.old = o.old, x.new = o.new, x.delta = o.delta,
         Unindexed => Unindexed',
         Balanced(o) /\ x.stage = "count" => x.todo \subseteq Commands(x, "count"),
         Balanced(o) /\ ~skewed' /\ Doomed(o) => Doomed(x),
         \A t \in Term : Balanced(o) /\ ~skewed' /\ ~Doomed(x) => Moves(o, x, t)
  PROVE  Ledger'
<1> SUFFICES ASSUME NothingRenamed, ~skewed'
             PROVE  /\ scarred' = {} /\ Unindexed'
                    /\ \A d \in Client : op'[d].stage \in Pipeline => Balanced(op'[d])
                    /\ (\A d \in Client : ~Doomed(op'[d])) => \A t \in Term : Exactly(t)'
  BY DEF Ledger, NothingRenamed, Balanced, Doomed, Commands, Removed, Bearing, Bodies,
         TermsIn, Counted, Idents, IdentsIn
<1>1. /\ ~skewed /\ scarred = {} /\ Unindexed
      /\ \A d \in Client : op[d].stage \in Pipeline => Balanced(op[d])
      /\ (\A d \in Client : ~Doomed(op[d])) => \A t \in Term : Exactly(t)
  BY DEF Ledger, Remember
<1>2. op'[c] = x /\ \A d \in Client \ {c} : op'[d] = op[d]
  BY DEF Inv, ContractTypeOK, TypeOK
<1>3. scarred' = {}
  BY <1>1 DEF Remember, Inv
<1>4. Balanced(o)
  BY <1>1
<1>5. Balanced(x)
  BY <1>4 DEF Balanced
<1>6. ASSUME \A d \in Client : ~Doomed(op'[d]), NEW t \in Term PROVE Exactly(t)'
  <2>1. ~Doomed(x) /\ ~Doomed(o)
    BY <1>2, <1>4, <1>6
  <2>2. Exactly(t)
    BY <1>1, <1>2, <1>6, <2>1
  <2>3. Moves(o, x, t)
    BY <1>4, <2>1
  <2>4. Local(c, p)
    BY <1>2, StepsLocal DEF Local
  <2> DEFINE v == Booked(o, t)
             u == Booked(x, t)
             n == df[t] + Cardinality(Bearing(u, t)) - Cardinality(Bearing(v, t))
  <2>5. /\ v \in Version /\ Cardinality(Bearing(v, t)) \in Nat
        /\ u \in Version /\ Cardinality(Bearing(u, t)) \in Nat
        /\ df[t] \in Int
    BY BookedType DEF Inv, ContractTypeOK, TypeOK
  <2>6. n \in Int /\ (df'[t] = n \/ df'[t] = Clamp(n))
    BY <2>3, <2>5 DEF Moves
  <2>7. v = Booked(op[c], t) /\ u = Booked(op'[c], t)
    BY <1>2
  <2> HIDE DEF v, u
  <2>8. QED BY <1>2, <2>2, <2>4, <2>5, <2>6, <2>7, Shift DEF Idle, Pipeline
<1>7. QED BY <1>1, <1>2, <1>3, <1>5, <1>6

\* A step outside the pipelines.
LEMMA OutsideLedger ==
  ASSUME Inv, Ledger, Remember, UNCHANGED <<moon, torn>>,
         \A d \in Client : op'[d] = op[d] \/ (op[d].stage \notin Pipeline
                                              /\ op'[d].stage \notin Pipeline)
  PROVE  Ledger'
<1>1. UNCHANGED <<record, live, terms, df, torn>>
  BY DEF moon
<1>2. scarred' = scarred /\ (~skewed' => ~skewed)
  BY DEF Remember, Inv
<1>3. \A p \in Path : Changing(p)' <=> Changing(p)
  BY DEF Changing
<1>4. ASSUME NEW t \in Term, Exactly(t) PROVE Exactly(t)'
  <2> SUFFICES ASSUME NEW w \in [Path -> Version], Agrees(w, t)'
               PROVE  df'[t] = Cardinality(Listing(w, t))
    BY DEF Exactly, Listing, Bearing, Bodies, TermsIn
  <2>1. Agrees(w, t)
    BY <1>1, <1>3 DEF Agrees, Booked
  <2>2. QED BY <1>1, <1>4, <2>1 DEF Exactly
<1>5. \A d \in Client : ~Doomed(op'[d]) => ~Doomed(op[d])
  BY DEF Doomed, Counted, Pipeline
<1>6. QED
  BY <1>1, <1>2, <1>4, <1>5, UnindexedSame
  DEF Ledger, NothingRenamed, Balanced, Doomed, Commands, Removed, Bearing, Bodies,
      TermsIn, Counted, Idents, IdentsIn

-----------------------------------------------------------------------------
\* Each action.  In the first five sections a frequency stands for the old
\* content, then for the new one, in "count" for that of its term.
LEMMA BookedIn ==
  ASSUME NEW o, NEW t
  PROVE  /\ o.stage \in {"drop", "unname", "insert"} => Booked(o, t) = o.old
         /\ o.stage = "count" =>
              Booked(o, t) = IF t \in o.todo THEN o.old ELSE o.new
         /\ o.stage \in {"record", "list", "reply"} => Booked(o, t) = o.new
  BY DEF Booked

\* The write o of p, c's, goes on to x when its command y has been run.
RunTo(c, o, p, y, x) ==
  /\ op' = [op EXCEPT ![c] = x] /\ x.stage = o.stage /\ x.path = p
  /\ x.old = o.old /\ x.new = o.new /\ x.delta = o.delta
  /\ x.refused = o.refused /\ x.todo = o.todo \ {y}

LEMMA RanOp ==
  ASSUME Inv, NEW c \in Client, NEW o \in OpType, o = op[c],
         NEW p \in Path, p = o.path, NEW y, Ran(c, y)
  PROVE  \E x \in OpType : RunTo(c, o, p, y, x)
<1>1. op \in [Client -> OpType]
  BY DEF Inv, ContractTypeOK, TypeOK
<1>2. QED BY <1>1, RanType DEF RunTo

\* The server ran or refused one command of drop, unname or insert.
LEMMA EarlyLedger ==
  ASSUME Inv, Inv', Roomy, Ledger, NEW c \in Client,
         NEW o \in OpType, o = op[c], NEW p \in Path, p = o.path,
         Progress(c) \/ Fault(c), Remember, torn' = torn, df' = df,
         NEW x \in OpType, op' = [op EXCEPT ![c] = x],
         o.stage \in {"drop", "unname", "insert"}, x.stage = o.stage,
         x.path = p, x.old = o.old, x.new = o.new, x.delta = o.delta,
         Unindexed => Unindexed'
  PROVE  Ledger'
<1>1. o.stage \in Pipeline /\ ~Doomed(o) /\ x.stage # "count"
  BY DEF Pipeline, Doomed, Counted
<1>2. ASSUME NEW t \in Term, Balanced(o) PROVE Moves(o, x, t)
  BY <1>2, BookedIn, MovesNot
<1>3. QED BY <1>1, <1>2, PipelineLedger

LEMMA DropChunkLedger ==
  ASSUME Inv, Inv', Roomy, Ledger, NEW c \in Client, DropChunk(c), Remember
  PROVE  Ledger'
<1>1. PICK o \in OpType : o = op[c]
  BY DEF Inv, ContractTypeOK, TypeOK
<1>2. PICK p \in Path : p = o.path
  BY <1>1 DEF DropChunk, Inv, ContractTypeOK, TypeOK, Idle
<1>3. PICK b \in o.todo : /\ live' = [live EXCEPT ![p] = @ \ {b}]
                          /\ terms' = [terms EXCEPT ![p][b] = {}]
                          /\ Ran(c, b)
  BY <1>1, <1>2 DEF DropChunk
<1>4. o.stage = "drop" /\ UNCHANGED <<record, member, df, files, torn>>
  BY <1>1 DEF DropChunk
<1>5. PICK x \in OpType : /\ op' = [op EXCEPT ![c] = x]
                          /\ x.stage = o.stage /\ x.path = p
                          /\ x.old = o.old /\ x.new = o.new /\ x.delta = o.delta
                          /\ x.refused = o.refused /\ x.todo = o.todo \ {b}
  <2>1. \E x \in OpType : RunTo(c, o, p, b, x)
    BY <1>1, <1>2, <1>3, RanOp
  <2>2. QED BY <2>1 DEF RunTo
<1>6. Unindexed => Unindexed'
  BY <1>3 DEF Unindexed, Inv, ContractTypeOK, TypeOK
<1>7. /\ o.stage \in {"drop", "unname", "insert"} /\ x.stage = o.stage
      /\ torn' = torn /\ df' = df /\ (Progress(c) \/ Fault(c))
  BY <1>4, <1>5 DEF Progress
<1>8. QED BY <1>1, <1>2, <1>5, <1>6, <1>7, EarlyLedger

LEMMA UnnameLedger ==
  ASSUME Inv, Inv', Roomy, Ledger, NEW c \in Client, Unname(c), Remember
  PROVE  Ledger'
<1>1. PICK o \in OpType : o = op[c]
  BY DEF Inv, ContractTypeOK, TypeOK
<1>2. PICK p \in Path : p = o.path
  BY <1>1 DEF Unname, Inv, ContractTypeOK, TypeOK, Idle
<1>3. PICK i \in o.todo : Ran(c, i)
  BY <1>1 DEF Unname
<1>4. o.stage = "unname" /\ UNCHANGED <<record, live, terms, df, files, torn>>
  BY <1>1 DEF Unname
<1>5. PICK x \in OpType : /\ op' = [op EXCEPT ![c] = x]
                          /\ x.stage = o.stage /\ x.path = p
                          /\ x.old = o.old /\ x.new = o.new /\ x.delta = o.delta
                          /\ x.refused = o.refused /\ x.todo = o.todo \ {i}
  <2>1. \E x \in OpType : RunTo(c, o, p, i, x)
    BY <1>1, <1>2, <1>3, RanOp
  <2>2. QED BY <2>1 DEF RunTo
<1>6. Unindexed => Unindexed'
  BY <1>4, UnindexedSame
<1>7. /\ o.stage \in {"drop", "unname", "insert"} /\ x.stage = o.stage
      /\ torn' = torn /\ df' = df /\ (Progress(c) \/ Fault(c))
  BY <1>4, <1>5 DEF Progress
<1>8. QED BY <1>1, <1>2, <1>5, <1>6, <1>7, EarlyLedger

LEMMA InsertChunkLedger ==
  ASSUME Inv, Inv', Roomy, Ledger, NEW c \in Client, InsertChunk(c), Remember
  PROVE  Ledger'
<1>1. PICK o \in OpType : o = op[c]
  BY DEF Inv, ContractTypeOK, TypeOK
<1>2. PICK p \in Path : p = o.path
  BY <1>1 DEF InsertChunk, Inv, ContractTypeOK, TypeOK, Idle
<1>3. PICK b \in o.todo : /\ live' = [live EXCEPT ![p] = @ \cup {b}]
                          /\ terms' = [terms EXCEPT ![p][b] = TermsIn(o.new, b)]
                          /\ Ran(c, b)
  BY <1>1, <1>2 DEF InsertChunk
<1>4. o.stage = "insert" /\ UNCHANGED <<record, df, files, torn>>
  BY <1>1 DEF InsertChunk
<1>5. PICK x \in OpType : /\ op' = [op EXCEPT ![c] = x]
                          /\ x.stage = o.stage /\ x.path = p
                          /\ x.old = o.old /\ x.new = o.new /\ x.delta = o.delta
                          /\ x.refused = o.refused /\ x.todo = o.todo \ {b}
  <2>1. \E x \in OpType : RunTo(c, o, p, b, x)
    BY <1>1, <1>2, <1>3, RanOp
  <2>2. QED BY <2>1 DEF RunTo
<1>6. Unindexed => Unindexed'
  BY <1>3 DEF Unindexed, Inv, ContractTypeOK, TypeOK
<1>7. /\ o.stage \in {"drop", "unname", "insert"} /\ x.stage = o.stage
      /\ torn' = torn /\ df' = df /\ (Progress(c) \/ Fault(c))
  BY <1>4, <1>5 DEF Progress
<1>8. QED BY <1>1, <1>2, <1>5, <1>6, <1>7, EarlyLedger

LEMMA CountTermLedger ==
  ASSUME Inv, Inv', Roomy, Ledger, NEW c \in Client, CountTerm(c), Remember
  PROVE  Ledger'
<1>1. PICK o \in OpType : o = op[c]
  BY DEF Inv, ContractTypeOK, TypeOK
<1>2. PICK p \in Path : p = o.path
  BY <1>1 DEF CountTerm, Inv, ContractTypeOK, TypeOK, Idle
<1>3. PICK y \in o.todo : /\ df' = [df EXCEPT ![y] = Clamp(@ + o.delta[y])]
                          /\ Ran(c, y)
  BY <1>1 DEF CountTerm
<1>4. o.stage = "count" /\ UNCHANGED <<record, live, terms, member, files, torn>>
  BY <1>1 DEF CountTerm
<1>5. PICK x \in OpType : /\ op' = [op EXCEPT ![c] = x]
                          /\ x.stage = o.stage /\ x.path = p
                          /\ x.old = o.old /\ x.new = o.new /\ x.delta = o.delta
                          /\ x.refused = o.refused /\ x.todo = o.todo \ {y}
  <2>1. \E x \in OpType : RunTo(c, o, p, y, x)
    BY <1>1, <1>2, <1>3, RanOp
  <2>2. QED BY <2>1 DEF RunTo
<1>6. Balanced(o) => o.todo \subseteq Commands(o, "count") /\ y \in Commands(o, "count")
  BY <1>4 DEF Balanced
<1>7. Commands(x, "count") = Commands(o, "count")
  BY <1>5 DEF Commands
<1>8. Balanced(o) /\ Doomed(o) => Doomed(x)
  BY <1>5, <1>6, <1>7 DEF Doomed, Counted
<1>9. ASSUME NEW t \in Term, Balanced(o) PROVE Moves(o, x, t)
  <2>1. df \in [Term -> Int]
    BY DEF Inv, ContractTypeOK, TypeOK
  <2>2. CASE t # y
    <3>1. Booked(x, t) = Booked(o, t)
      BY <1>4, <1>5, <2>2, BookedIn
    <3>2. df'[t] = df[t]
      BY <1>3, <2>1, <2>2
    <3>3. QED BY <1>5, <1>9, <3>1, <3>2, MovesNot
  <2>3. CASE t = y
    <3>1. Booked(x, t) = o.new /\ Booked(o, t) = o.old
      BY <1>4, <1>5, <2>3, BookedIn
    <3>2. df'[t] = Clamp(df[t] + o.delta[t])
      BY <1>3, <2>1, <2>3
    <3>3. /\ o.delta[t] = Cardinality(Bearing(o.new, t)) - Cardinality(Bearing(o.old, t))
          /\ Cardinality(Bearing(o.old, t)) \in Nat /\ Cardinality(Bearing(o.new, t)) \in Nat
      BY <1>9, BearingType DEF Balanced, OpType
    <3>4. df[t] + o.delta[t] =
            df[t] + Cardinality(Bearing(o.new, t)) - Cardinality(Bearing(o.old, t))
      BY <2>1, <3>3
    <3>5. QED BY <3>1, <3>2, <3>4 DEF Moves
  <2>4. QED BY <2>2, <2>3
<1>10. QED
  BY <1>1, <1>2, <1>4, <1>5, <1>6, <1>7, <1>8, <1>9, UnindexedSame, PipelineLedger
  DEF Progress, Pipeline

\* The server is at the end of a section; a term whose frequency does not
\* change has no command of its own.
LEMMA NextSectionLedger ==
  ASSUME Inv, Inv', Roomy, Ledger, NEW c \in Client, NextSection(c), Remember
  PROVE  Ledger'
<1>1. PICK o \in OpType : o = op[c]
  BY DEF Inv, ContractTypeOK, TypeOK
<1>2. PICK p \in Path : p = o.path
  BY <1>1 DEF NextSection, Inv, ContractTypeOK, TypeOK, Idle
<1> DEFINE next == After[o.stage]
           x == Enter(o, next)
<1>3. /\ o.stage \in {"drop", "unname", "insert", "count"} /\ o.todo = {}
      /\ op' = [op EXCEPT ![c] = x]
      /\ UNCHANGED <<moon, torn>>
  BY <1>1 DEF NextSection
<1>4. /\ next \in Pipeline /\ o.stage \in Pipeline
      /\ o.stage = "drop" => next = "unname"
      /\ o.stage = "unname" => next = "insert"
      /\ o.stage = "insert" => next = "count"
      /\ o.stage = "count" => next = "record"
  BY <1>3 DEF After, Pipeline
<1>5. /\ x \in OpType /\ x.stage = next /\ x.todo = Commands(o, next)
      /\ x.path = p /\ x.old = o.old /\ x.new = o.new
      /\ x.refused = o.refused /\ x.delta = o.delta
  BY <1>2, <1>4, EnterType DEF Stage
<1> HIDE DEF next, x
<1>6. Commands(x, "count") = Commands(o, "count")
  BY <1>5 DEF Commands
<1>7. Balanced(o) /\ Doomed(o) => Doomed(x)
  BY <1>3, <1>4, <1>5, <1>6 DEF Doomed, Counted
<1>8. ASSUME NEW t \in Term, Balanced(o) PROVE Moves(o, x, t)
  <2>1. df' = df
    BY <1>3 DEF moon
  <2>2. o.delta[t] = 0 \/ Booked(x, t) = Booked(o, t)
    <3>1. CASE o.stage \in {"drop", "unname"}
      BY <1>4, <1>5, <3>1, BookedIn
    <3>2. CASE o.stage = "insert"
      <4>1. x.stage = "count" /\ (t \notin x.todo => o.delta[t] = 0)
        BY <1>4, <1>5, <3>2 DEF Commands
      <4>2. QED BY <1>5, <3>2, <4>1, BookedIn
    <3>3. CASE o.stage = "count"
      BY <1>3, <1>4, <1>5, <3>3, BookedIn
    <3>4. QED BY <1>3, <3>1, <3>2, <3>3
  <2>3. QED BY <1>5, <1>8, <2>1, <2>2, MovesNot
<1>9. Unindexed => Unindexed'
  BY <1>3, UnindexedSame DEF moon
<1>10. x.stage = "count" => x.todo \subseteq Commands(x, "count")
  BY <1>5, <1>6
<1>11. QED
  BY <1>1, <1>2, <1>3, <1>4, <1>5, <1>7, <1>8, <1>9, <1>10, PipelineLedger DEF Progress

LEMMA WriteRecordLedger ==
  ASSUME Inv, Inv', Roomy, Ledger, NEW c \in Client,
         WriteRecord(c) \/ ListFile(c), Remember
  PROVE  Ledger'
<1>1. PICK o \in OpType : o = op[c]
  BY DEF Inv, ContractTypeOK, TypeOK
<1>2. PICK p \in Path : p = o.path
  BY <1>1 DEF WriteRecord, ListFile, Inv, ContractTypeOK, TypeOK, Idle
<1>3. PICK next \in {"list", "reply"} : op' = [op EXCEPT ![c] = Enter(o, next)]
  BY <1>1 DEF WriteRecord, ListFile
<1>4. o.stage \in {"record", "list"} /\ UNCHANGED <<live, terms, df, torn>>
  BY <1>1 DEF WriteRecord, ListFile
<1> DEFINE x == Enter(o, next)
<1>5. /\ x \in OpType /\ x.stage = next /\ x.path = p /\ x.old = o.old
      /\ x.new = o.new /\ x.refused = o.refused /\ x.delta = o.delta
  BY <1>2, EnterType DEF Stage, Pipeline
<1> HIDE DEF x
<1>6. Commands(x, "count") = Commands(o, "count")
  BY <1>5 DEF Commands
<1>7. Doomed(o) => Doomed(x)
  BY <1>4, <1>5, <1>6 DEF Doomed, Counted
<1>8. ASSUME NEW t \in Term, Balanced(o) PROVE Moves(o, x, t)
  <2>1. Booked(x, t) = Booked(o, t)
    BY <1>4, <1>5, BookedIn
  <2>2. QED BY <1>4, <1>5, <1>8, <2>1, MovesNot
<1>9. op' = [op EXCEPT ![c] = x]
  BY <1>3 DEF x
<1>10. QED
  BY <1>1, <1>2, <1>4, <1>5, <1>7, <1>8, <1>9, UnindexedSame, PipelineLedger
  DEF Progress, Pipeline

LEMMA RefuseLedger ==
  ASSUME Inv, Inv', Roomy, Ledger, NEW c \in Client, Refuse(c), Remember
  PROVE  Ledger'
<1>1. PICK o \in OpType : o = op[c]
  BY DEF Inv, ContractTypeOK, TypeOK
<1>2. o.stage \in Pipeline /\ UNCHANGED <<moon, torn>>
  BY <1>1 DEF Refuse
<1>3. PICK p \in Path : p = o.path
  BY <1>1, <1>2 DEF Inv, ContractTypeOK, TypeOK, Idle, Pipeline
<1>4. UNCHANGED <<live, terms, df, torn>>
  BY <1>2 DEF moon
<1>5. ASSUME NEW x \in OpType, op' = [op EXCEPT ![c] = x],
             x.stage \in Pipeline, x.path = p, x.old = o.old, x.new = o.new,
             x.delta = o.delta, x.refused = TRUE,
             \/ \E y \in o.todo : x.stage = o.stage /\ x.todo = o.todo \ {y}
             \/ o.stage \in {"record", "list"} /\ x.stage \in {"list", "reply"}
      PROVE  Ledger'
  <2>1. Commands(x, "count") = Commands(o, "count")
    BY <1>5 DEF Commands
  <2>2. Balanced(o) /\ o.stage = "count" => x.todo \subseteq Commands(x, "count") /\ Doomed(x)
    BY <1>5, <2>1 DEF Balanced, Doomed, Counted
  <2>3. x.stage = "count" => o.stage = "count"
    BY <1>5
  <2>4. Balanced(o) /\ Doomed(o) => Doomed(x)
    BY <1>5, <2>1, <2>2 DEF Doomed, Counted
  <2>5. ASSUME NEW t \in Term, Balanced(o), ~Doomed(x) PROVE Moves(o, x, t)
    <3>1. o.stage # "count"
      BY <2>2, <2>5
    <3>2. Booked(x, t) = Booked(o, t)
      BY <1>2, <1>5, <3>1, BookedIn DEF Pipeline
    <3>3. QED BY <1>4, <1>5, <2>5, <3>2, MovesNot
  <2>6. Unindexed => Unindexed'
    BY <1>4, UnindexedSame
  <2>7. Progress(c) \/ Fault(c)
    BY DEF Fault
  <2>8. torn' = torn
    BY <1>4
  <2>9. QED
    BY <1>1, <1>2, <1>3, <1>5, <2>2, <2>3, <2>4, <2>5, <2>6, <2>7, <2>8, PipelineLedger
<1>6. ASSUME NEW y \in o.todo,
             op' = [op EXCEPT ![c].todo = @ \ {y}, ![c].refused = TRUE]
      PROVE  Ledger'
  <2> DEFINE x == [o EXCEPT !.todo = @ \ {y}, !.refused = TRUE]
  <2>1. op' = [op EXCEPT ![c] = x]
    BY <1>1, <1>6
  <2>2. /\ x \in OpType /\ x.stage = o.stage /\ x.path = p /\ x.old = o.old
        /\ x.new = o.new /\ x.delta = o.delta /\ x.refused = TRUE /\ x.todo = o.todo \ {y}
    BY <1>3 DEF OpType
  <2> HIDE DEF x
  <2>3. /\ x.stage \in Pipeline
        /\ \E z \in o.todo : x.stage = o.stage /\ x.todo = o.todo \ {z}
    BY <1>2, <2>2
  <2>4. QED BY <1>5, <2>1, <2>2, <2>3
<1>7. ASSUME o.stage \in {"record", "list"},
             op' = [op EXCEPT ![c] = Enter([op[c] EXCEPT !.refused = TRUE],
                                           After[op[c].stage])]
      PROVE  Ledger'
  <2> DEFINE r == [o EXCEPT !.refused = TRUE]
  <2> DEFINE next == After[o.stage]
  <2>1. next \in {"list", "reply"}
    BY <1>7 DEF After
  <2>2. r \in OpType /\ r.path = p /\ r.old = o.old /\ r.new = o.new /\ r.refused = TRUE
        /\ r.delta = o.delta
    BY <1>3 DEF OpType
  <2> HIDE DEF r, next
  <2> DEFINE x == Enter(r, next)
  <2>3. /\ x \in OpType /\ x.stage = next /\ x.path = p /\ x.old = o.old
        /\ x.new = o.new /\ x.refused = TRUE /\ x.delta = o.delta
    BY <2>1, <2>2, EnterType DEF Stage, Pipeline
  <2>4. op' = [op EXCEPT ![c] = x]
    BY <1>1, <1>7 DEF r, next
  <2> HIDE DEF x
  <2>5. x.stage \in Pipeline /\ x.stage \in {"list", "reply"}
    BY <2>1, <2>3 DEF Pipeline
  <2>6. QED BY <1>5, <1>7, <2>3, <2>4, <2>5
<1>8. QED BY <1>1, <1>6, <1>7 DEF Refuse

\* The pipeline is sent again; without a HINCRBY run, the frequencies still
\* stand for the old content, or for one that counts the same.
LEMMA ResendLedger ==
  ASSUME Inv, Inv', Roomy, Ledger, NEW c \in Client, Resend(c), Remember
  PROVE  Ledger'
<1>1. PICK o \in OpType : o = op[c]
  BY DEF Inv, ContractTypeOK, TypeOK
<1>2. PICK p \in Path : p = o.path
  BY <1>1 DEF Resend, Inv, ContractTypeOK, TypeOK, Idle, Pipeline
<1> DEFINE k == o.tries + 1
           r == [o EXCEPT !.tries = k, !.refused = FALSE]
           x == Enter(r, "drop")
<1>3. /\ o.stage \in Pipeline /\ UNCHANGED <<moon, torn>>
      /\ op' = [op EXCEPT ![c] = x]
      /\ k \in 0..MaxRetries /\ o.tries \in Nat /\ k > o.tries
  BY <1>1, <1>2, BoundAssumption DEF Resend, OpType
<1> HIDE DEF k
<1>4. /\ r \in OpType /\ r.path = p /\ r.old = o.old /\ r.new = o.new
      /\ r.tries = k /\ r.delta = o.delta
  BY <1>2, <1>3 DEF OpType
<1>5. Enter(r, "drop").tries = r.tries
  BY <1>4 DEF Enter, OpType
<1> HIDE DEF r
<1>6. /\ x \in OpType /\ x.stage = "drop" /\ x.path = p /\ x.old = o.old
      /\ x.new = o.new /\ x.delta = o.delta /\ x.tries = k
  BY <1>4, <1>5, EnterType DEF Stage, Pipeline
<1> HIDE DEF x
<1>7. ~skewed' => ~Counted(o)
  <2>1. op'[c] = x
    BY <1>3 DEF Inv, ContractTypeOK, TypeOK
  <2>2. op'[c].tries > op[c].tries
    BY <1>1, <1>3, <1>6, <2>1
  <2>3. QED BY <1>1, <2>2 DEF Remember
<1>8. ASSUME NEW t \in Term, Balanced(o), ~skewed' PROVE Moves(o, x, t)
  <2>1. o.delta[t] = 0 \/ Booked(x, t) = Booked(o, t)
    <3>1. t \notin Commands(o, "count") => o.delta[t] = 0
      BY DEF Commands
    <3>2. CASE o.stage = "count"
      <4>1. o.todo = Commands(o, "count")
        BY <1>7, <1>8, <3>2 DEF Counted
      <4>2. QED BY <1>6, <3>1, <3>2, <4>1, BookedIn
    <3>3. CASE o.stage \in {"record", "list", "reply"}
      <4>1. Commands(o, "count") = {}
        BY <1>7, <1>8, <3>3 DEF Counted
      <4>2. QED BY <3>1, <4>1
    <3>4. CASE o.stage \in {"drop", "unname", "insert"}
      BY <1>6, <3>4, BookedIn
    <3>5. QED BY <1>3, <3>2, <3>3, <3>4 DEF Pipeline
  <2>2. df' = df
    BY <1>3 DEF moon
  <2>3. QED BY <1>6, <1>8, <2>1, <2>2, MovesNot
<1>9. Unindexed => Unindexed'
  BY <1>3, UnindexedSame DEF moon
<1>10. ~skewed' => ~Doomed(o)
  BY <1>7 DEF Doomed
<1>11. /\ x.stage \in Pipeline /\ x.stage # "count" /\ torn' = torn
       /\ Progress(c) \/ Fault(c)
  BY <1>3, <1>6 DEF Pipeline, Fault
<1>12. QED
  BY <1>1, <1>2, <1>3, <1>6, <1>8, <1>9, <1>10, <1>11, PipelineLedger

-----------------------------------------------------------------------------
\* count_terms of the chunks that disappear and appear is what the two
\* contents differ by, when the chunks they share have the same terms.
LEMMA DeltaBalances ==
  ASSUME NothingRenamed, NEW o \in OpType, NEW stored, NEW t \in Term,
         \A b \in Bodies(o.old) : stored[b] = TermsIn(o.old, b)
  PROVE  Delta(o, stored)[t] =
           Cardinality(Bearing(o.new, t)) - Cardinality(Bearing(o.old, t))
<1> DEFINE A == {b \in Added(o) : t \in TermsIn(o.new, b)}
           R == {b \in Removed(o) : t \in stored[b]}
           K == Bearing(o.old, t) \cap Bearing(o.new, t)
<1>1. o.old \in Version /\ o.new \in Version
  BY DEF OpType
<1>2. \A b \in Bodies(o.old) \cap Bodies(o.new) : TermsIn(o.old, b) = TermsIn(o.new, b)
  BY <1>1 DEF NothingRenamed, Version, Bodies, TermsIn
<1>3. Bearing(o.new, t) = A \cup K /\ A \cap K = {}
  BY <1>2 DEF Bearing, Added
<1>4. Bearing(o.old, t) = R \cup K /\ R \cap K = {}
  BY <1>2 DEF Bearing, Removed
<1>5. IsFiniteSet(Bearing(o.new, t)) /\ IsFiniteSet(Bearing(o.old, t))
  BY <1>1, BearingType
<1>6. /\ A \in SUBSET Bearing(o.new, t) /\ K \in SUBSET Bearing(o.new, t)
      /\ R \in SUBSET Bearing(o.old, t)
  BY <1>3, <1>4
<1>7. IsFiniteSet(A) /\ IsFiniteSet(R) /\ IsFiniteSet(K)
  BY <1>5, <1>6, FS_Subset
<1>8. Delta(o, stored)[t] = Cardinality(A) - Cardinality(R)
  BY DEF Delta
<1> HIDE DEF A, R, K
<1>9. Cardinality(A) \in Nat /\ Cardinality(R) \in Nat /\ Cardinality(K) \in Nat
  BY <1>7, FS_CardinalityType
<1>10. Cardinality({}) = 0
  BY FS_EmptySet
<1>11. Cardinality(Bearing(o.new, t)) = Cardinality(A) + Cardinality(K)
  <2>1. Cardinality(A \cup K) = Cardinality(A) + Cardinality(K) - Cardinality(A \cap K)
    BY <1>7, FS_Union
  <2>2. Cardinality(A \cap K) = 0
    BY <1>3, <1>10
  <2>3. QED BY <1>3, <1>9, <2>1, <2>2
<1>12. Cardinality(Bearing(o.old, t)) = Cardinality(R) + Cardinality(K)
  <2>1. Cardinality(R \cup K) = Cardinality(R) + Cardinality(K) - Cardinality(R \cap K)
    BY <1>7, FS_Union
  <2>2. Cardinality(R \cap K) = 0
    BY <1>4, <1>10
  <2>3. QED BY <1>4, <1>9, <2>1, <2>2
<1>13. QED BY <1>8, <1>9, <1>11, <1>12

LEMMA ReadTermsLedger ==
  ASSUME Inv, Inv', Roomy, Ledger, NEW c \in Client, ReadTerms(c), Remember
  PROVE  Ledger'
<1> SUFFICES ASSUME NothingRenamed, ~skewed'
             PROVE  /\ scarred' = {} /\ Unindexed'
                    /\ \A d \in Client : op'[d].stage \in Pipeline => Balanced(op'[d])
                    /\ (\A d \in Client : ~Doomed(op'[d])) => \A t \in Term : Exactly(t)'
  BY DEF Ledger, NothingRenamed, Balanced, Doomed, Commands, Removed, Bearing, Bodies,
         TermsIn, Counted, Idents, IdentsIn
<1>1. PICK o \in OpType : o = op[c]
  BY DEF Inv, ContractTypeOK, TypeOK
<1>2. PICK p \in Path : p = o.path
  BY <1>1 DEF ReadTerms, Inv, ContractTypeOK, TypeOK, Idle
<1> DEFINE r == [o EXCEPT !.delta = Delta(o, terms[p])]
           x == Enter(r, "drop")
<1>3. /\ o.stage = "terms" /\ UNCHANGED <<moon, torn>> /\ op' = [op EXCEPT ![c] = x]
  BY <1>1, <1>2 DEF ReadTerms
<1>4. /\ r \in OpType /\ r.path = p /\ r.old = o.old /\ r.new = o.new
      /\ r.delta = Delta(o, terms[p])
  BY <1>2, DeltaType DEF OpType
<1> HIDE DEF r
<1>5. /\ x \in OpType /\ x.stage = "drop" /\ x.path = p /\ x.old = o.old
      /\ x.new = o.new /\ x.delta = Delta(o, terms[p])
  BY <1>4, EnterType DEF Stage, Pipeline
<1> HIDE DEF x
<1>6. /\ ~skewed /\ scarred = {} /\ Unindexed
      /\ \A d \in Client : op[d].stage \in Pipeline => Balanced(op[d])
      /\ (\A d \in Client : ~Doomed(op[d])) => \A t \in Term : Exactly(t)
  BY DEF Ledger, Remember
<1>7. op'[c] = x /\ \A d \in Client \ {c} : op'[d] = op[d]
  BY <1>3 DEF Inv, ContractTypeOK, TypeOK
<1>8. scarred' = {} /\ Unindexed'
  BY <1>3, <1>6, UnindexedSame DEF Remember, Inv, moon
<1>9. o.old = record[p] /\ ~Changing(p)
  BY <1>1, <1>2, <1>3 DEF Changing, Inv, Underway, OneWriter, Idle, Pipeline
<1>10. p \notin torn
  BY <1>6 DEF Inv
<1>11. \A b \in Bodies(o.old) : terms[p][b] = TermsIn(o.old, b)
  BY <1>9, <1>10 DEF Inv, AtRest, Complete, StoredAs
<1>12. Balanced(x)
  BY <1>5, <1>11, DeltaBalances DEF Balanced
<1>13. ~Doomed(o)
  BY <1>3 DEF Doomed, Counted
<1>14. ASSUME \A d \in Client : ~Doomed(op'[d]), NEW t \in Term PROVE Exactly(t)'
  <2>1. Exactly(t)
    BY <1>1, <1>6, <1>7, <1>13, <1>14
  <2>2. Local(c, p)
    BY <1>1, <1>2, <1>5, <1>7, StepsLocal DEF Local, Progress
  <2>3. Booked(op'[c], t) = o.old
    BY <1>5, <1>7, BookedIn
  <2>4. df[t] \in Int /\ o.old \in Version /\ Cardinality(Bearing(o.old, t)) \in Nat
    BY BearingType DEF Inv, ContractTypeOK, TypeOK, OpType
  <2>5. df[t] = df[t] + Cardinality(Bearing(o.old, t)) - Cardinality(Bearing(o.old, t))
    BY <2>4
  <2>6. df' = df
    BY <1>3 DEF moon
  <2>7. op[c].stage \notin Pipeline /\ op'[c].stage \in Pipeline /\ ~Idle(c)
    BY <1>1, <1>3, <1>5, <1>7 DEF Pipeline, Idle
  <2>8. p = op[c].path
    BY <1>1, <1>2
  <2>9. QED BY <1>9, <2>1, <2>2, <2>3, <2>4, <2>5, <2>6, <2>7, <2>8, Shift
<1>15. QED BY <1>6, <1>7, <1>8, <1>12, <1>14

\* Every command was answered: the frequencies stand for the recorded content.
LEMMA ReplyLedger ==
  ASSUME Inv, Inv', Roomy, Ledger, NEW c \in Client, Reply(c), Remember
  PROVE  Ledger'
<1> SUFFICES ASSUME NothingRenamed, ~skewed'
             PROVE  /\ scarred' = {} /\ Unindexed'
                    /\ \A d \in Client : op'[d].stage \in Pipeline => Balanced(op'[d])
                    /\ (\A d \in Client : ~Doomed(op'[d])) => \A t \in Term : Exactly(t)'
  BY DEF Ledger, NothingRenamed, Balanced, Doomed, Commands, Removed, Bearing, Bodies,
         TermsIn, Counted, Idents, IdentsIn
<1>1. PICK o \in OpType : o = op[c]
  BY DEF Inv, ContractTypeOK, TypeOK
<1>2. PICK p \in Path : p = o.path
  BY <1>1 DEF Reply, Inv, ContractTypeOK, TypeOK, Idle
<1>3. /\ o.stage = "reply" /\ ~o.refused /\ op' = [op EXCEPT ![c] = NoOp]
      /\ torn' = torn \ {p}
      /\ UNCHANGED <<record, live, terms, member, df, files>>
  BY <1>1, <1>2 DEF Reply, moon
<1>4. /\ ~skewed /\ scarred = {} /\ Unindexed
      /\ \A d \in Client : op[d].stage \in Pipeline => Balanced(op[d])
      /\ (\A d \in Client : ~Doomed(op[d])) => \A t \in Term : Exactly(t)
  BY DEF Ledger, Remember
<1>5. op'[c] = NoOp /\ op'[c].stage = "idle" /\ \A d \in Client \ {c} : op'[d] = op[d]
  BY <1>3, NoOpType DEF Inv, ContractTypeOK, TypeOK
<1>6. scarred' = {} /\ Unindexed'
  BY <1>3, <1>4, UnindexedSame DEF Remember, Inv
<1>7. record'[p] = o.new
  BY <1>1, <1>2, <1>3 DEF Inv, Underway, Written, Pipeline
<1>8. ~Doomed(o)
  BY <1>3 DEF Doomed
<1>9. ASSUME \A d \in Client : ~Doomed(op'[d]), NEW t \in Term PROVE Exactly(t)'
  <2>1. Exactly(t)
    BY <1>1, <1>4, <1>5, <1>8, <1>9
  <2>2. Local(c, p)
    BY <1>1, <1>2, <1>5, StepsLocal DEF Local, Progress
  <2>3. Booked(op[c], t) = o.new
    BY <1>1, <1>3, BookedIn
  <2>4. df[t] \in Int /\ o.new \in Version /\ Cardinality(Bearing(o.new, t)) \in Nat
    BY BearingType DEF Inv, ContractTypeOK, TypeOK, OpType
  <2>5. df[t] = df[t] + Cardinality(Bearing(o.new, t)) - Cardinality(Bearing(o.new, t))
    BY <2>4
  <2>6. op[c].stage \in Pipeline /\ op'[c].stage \notin Pipeline /\ ~Idle(c)
    BY <1>1, <1>3, <1>5 DEF Pipeline, Idle
  <2>7. p = op[c].path /\ df' = df
    BY <1>1, <1>2, <1>3
  <2>8. QED BY <1>7, <2>1, <2>2, <2>3, <2>4, <2>5, <2>6, <2>7, Shift
<1>10. QED BY <1>4, <1>5, <1>6, <1>9 DEF Pipeline

\* Half a write that is given up skews the frequencies.
LEMMA GiveUpLedger ==
  ASSUME Inv, NEW c \in Client, GiveUp(c), Remember PROVE Ledger'
<1>1. op[c].path \in torn'
  BY DEF GiveUp
<1>2. skewed'
  BY <1>1 DEF Remember
<1>3. QED BY <1>2 DEF Ledger

LEMMA ReadLedger ==
  ASSUME Inv, Ledger, NEW c \in Client, ReadRecord(c) \/ FailRead(c), Remember
  PROVE  Ledger'
<1>1. /\ op[c].stage \notin Pipeline /\ UNCHANGED <<moon, torn>>
      /\ \A d \in Client \ {c} : op'[d] = op[d]
  BY DEF ReadRecord, FailRead, Pipeline, Inv, ContractTypeOK, TypeOK
<1>2. op'[c].stage \notin Pipeline
  <2>1. CASE ReadRecord(c)
    BY <2>1 DEF ReadRecord, Pipeline, Inv, ContractTypeOK, TypeOK, OpType
  <2>2. CASE FailRead(c)
    BY <2>2, NoOpType DEF FailRead, Pipeline, Inv, ContractTypeOK, TypeOK
  <2>3. QED BY <2>1, <2>2
<1>3. QED BY <1>1, <1>2, OutsideLedger

LEMMA BeginLedger ==
  ASSUME Inv, Ledger, NEW c \in Client, NEW p \in Path, NEW v \in Version,
         Begin(c, p, v), Remember
  PROVE  Ledger'
<1> DEFINE x == [NoOp EXCEPT !.stage = "read", !.path = p, !.new = v]
<1>1. op' = [op EXCEPT ![c] = x] /\ Idle(c) /\ UNCHANGED <<moon, torn>>
  BY DEF Begin
<1>2. x.stage = "read"
  BY DEF NoOp
<1> HIDE DEF x
<1>3. /\ op'[c] = x /\ \A d \in Client \ {c} : op'[d] = op[d]
  BY <1>1 DEF Inv, ContractTypeOK, TypeOK
<1>4. op[c].stage \notin Pipeline /\ op'[c].stage \notin Pipeline
  BY <1>1, <1>2, <1>3 DEF Idle, Pipeline
<1>5. QED BY <1>1, <1>3, <1>4, OutsideLedger

-----------------------------------------------------------------------------
LEMMA InitLedger == ContractInit => Ledger
<1> SUFFICES ASSUME ContractInit PROVE Ledger
  OBVIOUS
<1>1. /\ record = [p \in Path |-> NoFile] /\ live = [p \in Path |-> {}]
      /\ terms = [p \in Path |-> [b \in Body |-> {}]]
      /\ df = [t \in Term |-> 0]
      /\ op = [c \in Client |-> NoOp] /\ scarred = {}
  BY DEF ContractInit, Init
<1>2. Unindexed
  BY <1>1 DEF Unindexed
<1>3. \A c \in Client : op[c].stage \notin Pipeline
  BY <1>1, NoOpType DEF Pipeline
<1>4. ASSUME NEW t \in Term PROVE Exactly(t)
  <2> SUFFICES ASSUME NEW w \in [Path -> Version], Agrees(w, t)
               PROVE  df[t] = Cardinality(Listing(w, t))
    BY DEF Exactly
  <2>1. \A p \in Path : w[p] = NoFile
    BY <1>1, <1>3 DEF Agrees, Changing
  <2>2. Listing(w, t) = {}
    BY <2>1 DEF Listing, Bearing, Bodies
  <2>3. QED BY <1>1, <2>2, FS_EmptySet
<1>5. QED BY <1>1, <1>2, <1>3, <1>4 DEF Ledger

LEMMA NextLedger ==
  ASSUME Roomy, Inv, Inv', Ledger, [ContractNext]_contractVars PROVE Ledger'
<1>1. ASSUME NEW c \in Client, Progress(c), Remember PROVE Ledger'
  BY <1>1, ReadLedger, ReadTermsLedger, DropChunkLedger, UnnameLedger,
     InsertChunkLedger, CountTermLedger, NextSectionLedger, WriteRecordLedger,
     ReplyLedger
  DEF Progress
<1>2. ASSUME NEW c \in Client, Fault(c), Remember PROVE Ledger'
  BY <1>2, RefuseLedger, ResendLedger, ReadLedger, GiveUpLedger DEF Fault
<1>3. ASSUME UNCHANGED contractVars PROVE Ledger'
  <2>1. UNCHANGED <<record, live, terms, df, op, scarred, skewed>>
    BY <1>3 DEF contractVars, vars
  <2>2. QED
    BY <2>1 DEF Ledger, NothingRenamed, Unindexed, Exactly, Agrees, Changing, Booked, Listing,
       Bearing, Balanced, Doomed, Counted, Commands, Removed, Bodies, TermsIn, Idents, IdentsIn
<1>4. QED BY <1>1, <1>2, <1>3, BeginLedger DEF ContractNext

(* The frequency of a term is the number of chunks indexed under it         *)
(* whenever no write is under way, as long as no HINCRBY was replayed or    *)
(* lost and chunks that two contents share have the same terms: for any     *)
(* number of paths, contents and interleaved writes.  (The model saturates  *)
(* a frequency at DfBound; Roomy says that the index cannot get there.)     *)
THEOREM FrequenciesExact ==
  ASSUME Roomy PROVE ContractSpec => []DfExact
<1>1. ContractInit => Ledger
  BY InitLedger
<1>2. Inv /\ Inv' /\ Ledger /\ [ContractNext]_contractVars => Ledger'
  BY NextLedger
<1>3. Inv /\ Ledger => DfExact
  <2> SUFFICES ASSUME Inv, Ledger, NothingRenamed, AllIdle, ~skewed, NEW t \in Term
               PROVE  df[t] = Occurrences(t)
    BY DEF DfExact
  <2>1. scarred = {} /\ Unindexed
    BY DEF Ledger
  <2>2. \A c \in Client : op[c].stage \notin Pipeline /\ ~Doomed(op[c])
    BY DEF AllIdle, Idle, Pipeline, Doomed, Counted
  <2>3. Agrees(record, t) /\ record \in [Path -> Version]
    BY <2>2 DEF Agrees, Inv, ContractTypeOK, TypeOK
  <2>4. df[t] = Cardinality(Listing(record, t))
    BY <2>2, <2>3 DEF Ledger, Exactly
  <2>5. ASSUME NEW p \in Path, NEW b \in Body
        PROVE  t \in terms[p][b] <=> b \in Bearing(record[p], t)
    <3>1. Complete(p) /\ Exact(p)
      BY <2>1, <2>2 DEF Inv, AtRest, Changing
    <3>2. CASE b \in live[p]
      <4>1. b \in Bodies(record[p]) /\ terms[p][b] = TermsIn(record[p], b)
        BY <3>1, <3>2 DEF Complete, Exact, StoredAs
      <4>2. QED BY <4>1 DEF Bearing
    <3>3. CASE b \notin live[p]
      BY <2>1, <3>1, <3>3 DEF Unindexed, Exact, Bearing
    <3>4. QED BY <3>2, <3>3
  <2>6. Listing(record, t) = {pb \in Path \X Body : t \in terms[pb[1]][pb[2]]}
    BY <2>5 DEF Listing
  <2>7. QED BY <2>4, <2>6 DEF Occurrences
<1>4. QED BY <1>1, <1>2, <1>3, Invariance, PTL DEF ContractSpec

-----------------------------------------------------------------------------
(***************************************************************************)
(* RepoIndex.                                                              *)
(***************************************************************************)

\* A write inserts only chunks of its content, and has, unless a command of
\* it was refused, written what its stage says.
Apt(o) == o.stage = "insert" => o.todo \subseteq Bodies(o.new)
Sound(o) == o.stage \in Pipeline /\ ~o.refused => Written(o)

-----------------------------------------------------------------------------
\* A step of client c's write after which it is still under way: it is one of
\* its path, and what was known of the write is known of it still.
GoesOn(c) ==
  LET p == op[c].path IN
  /\ p \in Path /\ ~Idle(c)
  /\ TypeOK' /\ torn' = torn
  /\ \A d \in Client \ {c} : op'[d] = op[d]
  /\ op'[c].stage # "idle" /\ op'[c].path = p /\ op'[c].new = op[c].new
  /\ \A q \in Path \ {p} : Same(q)
  /\ op[c].stage \in Pipeline => op'[c].stage \in Pipeline
  /\ op'[c].stage \notin Pipeline => Same(p)
  /\ record'[p] \in {record[p], op[c].new}
  /\ p \in files' => p \in files \/ op[c].new # NoFile
  /\ Apt(op[c]) => Apt(op'[c])
  /\ Apt(op[c]) /\ Sound(op[c]) => Sound(op[c])'

\* What is to be shown of a step that gives c's write the value x.
LEMMA OpGoesOn ==
  ASSUME TypeOK, NEW c \in Client, ~Idle(c), NEW o \in OpType, o = op[c],
         NEW p \in Path, p = o.path,
         NEW x \in OpType, op' = [op EXCEPT ![c] = x],
         x.stage # "idle", x.path = p, x.new = o.new,
         o.stage \in Pipeline => x.stage \in Pipeline,
         x.stage \notin Pipeline => Same(p),
         record' \in [Path -> Version], live' \in [Path -> SUBSET Body],
         terms' \in [Path -> [Body -> SUBSET Term]],
         member' \in [Ident -> [Path -> SUBSET Body]],
         df' \in [Term -> Int], files' \in SUBSET Path, torn' = torn,
         \A q \in Path \ {p} : Same(q),
         record'[p] \in {record[p], o.new},
         p \in files' => p \in files \/ o.new # NoFile,
         Apt(o) => Apt(x),
         Apt(o) /\ Sound(o) => Sound(x)'
  PROVE  GoesOn(c)
<1>1. /\ op' \in [Client -> OpType] /\ op'[c] = x
      /\ \A d \in Client \ {c} : op'[d] = op[d]
  BY DEF TypeOK
<1>2. \A d \in Client : op'[d].stage # "idle" => op'[d].path \in Path
  BY <1>1 DEF TypeOK, Idle
<1>3. TypeOK'
  BY <1>1, <1>2 DEF TypeOK, Idle
<1>4. Sound(x)' => Sound(op[c])'
  BY <1>1 DEF Sound
<1>5. QED
  BY <1>1, <1>3, <1>4 DEF GoesOn

\* The same for a step that changes nothing but c's write.
LEMMA OpAlone ==
  ASSUME TypeOK, NEW c \in Client, ~Idle(c), NEW o \in OpType, o = op[c],
         NEW p \in Path, p = o.path,
         NEW x \in OpType, op' = [op EXCEPT ![c] = x],
         x.stage # "idle", x.path = p, x.new = o.new,
         o.stage \in Pipeline => x.stage \in Pipeline,
         UNCHANGED <<moon, torn>>,
         Apt(o) => Apt(x),
         Apt(o) /\ Sound(o) => Sound(x)
  PROVE  GoesOn(c)
<1>1. UNCHANGED <<record, live, terms, member, df, files, torn>>
  BY DEF moon
<1>2. \A q \in Path : Same(q)
  BY <1>1 DEF Same
<1>3. Sound(x)' <=> Sound(x)
  BY <1>1 DEF Sound, Written, StoredAs
<1>4. QED
  BY <1>1, <1>2, <1>3, OpGoesOn DEF TypeOK

LEMMA ReadRecordGoesOn ==
  ASSUME TypeOK, NEW c \in Client, ReadRecord(c) PROVE GoesOn(c)
<1>1. PICK o \in OpType : o = op[c]
  BY DEF TypeOK
<1> DEFINE p == o.path
           x == [o EXCEPT !.stage = "terms", !.old = record[p]]
<1>2. /\ o.stage = "read" /\ p \in Path /\ record[p] \in Version
      /\ op' = [op EXCEPT ![c] = x] /\ UNCHANGED <<moon, torn>>
  BY <1>1 DEF ReadRecord, TypeOK, Idle
<1>3. x \in OpType /\ x.stage = "terms" /\ x.path = p /\ x.new = o.new
  BY <1>2 DEF OpType, Stage
<1> HIDE DEF x
<1>4. Apt(x) /\ Sound(x)
  BY <1>3 DEF Apt, Sound, Pipeline
<1>5. QED
  BY <1>1, <1>2, <1>3, <1>4, OpAlone DEF Idle, Pipeline

\* A write that enters its first section, for the first time or again.
LEMMA EnterDropSound ==
  ASSUME NEW o \in OpType
  PROVE  LET x == Enter(o, "drop") IN
         /\ x \in OpType /\ x.stage = "drop" /\ x.path = o.path /\ x.new = o.new
         /\ Apt(x) /\ Sound(x)
<1>1. PICK x \in OpType : x = Enter(o, "drop")
  BY EnterType DEF Stage, Pipeline
<1>2. x.stage = "drop" /\ x.path = o.path /\ x.new = o.new
  BY <1>1, EnterType DEF Stage, Pipeline
<1>3. Apt(x) /\ Sound(x)
  BY <1>2 DEF Apt, Sound, Written
<1>4. QED
  BY <1>1, <1>2, <1>3

LEMMA ReadTermsGoesOn ==
  ASSUME TypeOK, NEW c \in Client, ReadTerms(c) PROVE GoesOn(c)
<1>1. PICK o \in OpType : o = op[c]
  BY DEF TypeOK
<1> DEFINE p == o.path
           r == [o EXCEPT !.delta = Delta(o, terms[p])]
           x == Enter(r, "drop")
<1>2. /\ o.stage = "terms" /\ p \in Path
      /\ op' = [op EXCEPT ![c] = x] /\ UNCHANGED <<moon, torn>>
  BY <1>1 DEF ReadTerms, TypeOK, Idle
<1>3. r \in OpType /\ r.path = p /\ r.new = o.new
  BY DeltaType DEF OpType
<1> HIDE DEF r
<1>4. /\ x \in OpType /\ x.stage = "drop" /\ x.path = p /\ x.new = o.new
      /\ Apt(x) /\ Sound(x)
  BY <1>3, EnterDropSound
<1> HIDE DEF x
<1>5. QED
  BY <1>1, <1>2, <1>4, OpAlone DEF Idle, Pipeline

LEMMA ResendGoesOn ==
  ASSUME TypeOK, NEW c \in Client, Resend(c) PROVE GoesOn(c)
<1>1. PICK o \in OpType : o = op[c]
  BY DEF TypeOK
<1> DEFINE p == o.path
           t == o.tries + 1
           r == [o EXCEPT !.tries = t, !.refused = FALSE]
           x == Enter(r, "drop")
<1>2. /\ o.stage \in Pipeline /\ t \in 0..MaxRetries
      /\ op' = [op EXCEPT ![c] = x] /\ UNCHANGED <<moon, torn>>
  BY <1>1, BoundAssumption DEF Resend, OpType
<1>3. p \in Path
  BY <1>1, <1>2 DEF TypeOK, Idle, Pipeline
<1> HIDE DEF t
<1>4. r \in OpType /\ r.path = p /\ r.new = o.new
  BY <1>2 DEF OpType
<1> HIDE DEF r
<1>5. /\ x \in OpType /\ x.stage = "drop" /\ x.path = p /\ x.new = o.new
      /\ Apt(x) /\ Sound(x)
  BY <1>4, EnterDropSound
<1> HIDE DEF x
<1>6. QED
  BY <1>1, <1>2, <1>3, <1>5, OpAlone DEF Idle, Pipeline

LEMMA RefuseGoesOn ==
  ASSUME TypeOK, NEW c \in Client, Refuse(c) PROVE GoesOn(c)
<1>1. PICK o \in OpType : o = op[c]
  BY DEF TypeOK
<1>2. o.stage \in Pipeline /\ UNCHANGED <<moon, torn>>
  BY <1>1 DEF Refuse
<1>3. PICK p \in Path : p = o.path
  BY <1>1, <1>2 DEF TypeOK, Idle, Pipeline
<1>4. ASSUME NEW y \in o.todo,
             op' = [op EXCEPT ![c].todo = @ \ {y}, ![c].refused = TRUE]
      PROVE  GoesOn(c)
  <2> DEFINE x == [o EXCEPT !.todo = @ \ {y}, !.refused = TRUE]
  <2>1. op' = [op EXCEPT ![c] = x]
    BY <1>1, <1>4
  <2>2. /\ x \in OpType /\ x.path = p /\ x.refused /\ x.stage = o.stage
        /\ x.new = o.new /\ x.todo \subseteq o.todo
    BY <1>3 DEF OpType
  <2> HIDE DEF x
  <2>3. (Apt(o) => Apt(x)) /\ Sound(x)
    BY <2>2 DEF Apt, Sound
  <2>4. QED
    BY <1>1, <1>2, <1>3, <2>1, <2>2, <2>3, OpAlone DEF Idle, Pipeline
<1>5. ASSUME o.stage \in {"record", "list"},
             op' = [op EXCEPT ![c] = Enter([o EXCEPT !.refused = TRUE], After[o.stage])]
      PROVE  GoesOn(c)
  <2> DEFINE r == [o EXCEPT !.refused = TRUE]
             next == After[o.stage]
             x == Enter(r, next)
  <2>1. r \in OpType /\ r.path = p /\ r.refused /\ r.new = o.new
    BY <1>3 DEF OpType
  <2>2. next \in Stage /\ next \in Pipeline /\ next # "insert"
    BY <1>5 DEF After, Stage, Pipeline
  <2>3. op' = [op EXCEPT ![c] = x]
    BY <1>5
  <2> HIDE DEF r, next
  <2>4. x \in OpType /\ x.path = p /\ x.refused /\ x.stage = next /\ x.new = o.new
    BY <2>1, <2>2, EnterType
  <2> HIDE DEF x
  <2>5. Apt(x) /\ Sound(x)
    BY <2>2, <2>4 DEF Apt, Sound
  <2>6. QED
    BY <1>1, <1>2, <1>3, <2>2, <2>3, <2>4, <2>5, OpAlone DEF Idle, Pipeline
<1>6. QED
  BY <1>1, <1>4, <1>5 DEF Refuse

LEMMA NextSectionGoesOn ==
  ASSUME TypeOK, NEW c \in Client, NextSection(c) PROVE GoesOn(c)
<1>1. PICK o \in OpType : o = op[c]
  BY DEF TypeOK
<1>2. /\ o.stage \in {"drop", "unname", "insert", "count"} /\ o.todo = {}
      /\ op' = [op EXCEPT ![c] = Enter(o, After[o.stage])]
      /\ UNCHANGED <<moon, torn>>
  BY <1>1 DEF NextSection
<1>3. PICK p \in Path : p = o.path
  BY <1>1, <1>2 DEF TypeOK, Idle
<1>4. PICK next \in Stage : next = After[o.stage]
  BY <1>2 DEF After, Stage, Pipeline
<1> DEFINE x == Enter(o, next)
<1>5. /\ x \in OpType /\ x.path = p /\ x.stage = next
      /\ x.new = o.new /\ x.refused = o.refused
      /\ next = "insert" => x.todo = Bodies(o.new)
      /\ op' = [op EXCEPT ![c] = x]
  BY <1>2, <1>3, <1>4, EnterType, CommandsType
<1> HIDE DEF x
<1>6. next \in {"unname", "insert", "count", "record"}
      /\ (next = "insert" => o.stage = "unname")
      /\ (next = "count" => o.stage = "insert")
      /\ (next = "record" => o.stage = "count")
  BY <1>2, <1>4 DEF After
<1>7. Apt(x)
  BY <1>5 DEF Apt
<1>8. Sound(o) => Sound(x)
  BY <1>2, <1>3, <1>5, <1>6 DEF Sound, Written, Pipeline
<1>9. QED
  BY <1>1, <1>2, <1>3, <1>5, <1>6, <1>7, <1>8, OpAlone DEF Idle, Pipeline

-----------------------------------------------------------------------------
\* The commands that change Moon's data.
LEMMA DropChunkGoesOn ==
  ASSUME TypeOK, NEW c \in Client, DropChunk(c) PROVE GoesOn(c)
<1>1. PICK o \in OpType : o = op[c]
  BY DEF TypeOK
<1>2. PICK p \in Path : p = o.path
  BY <1>1 DEF DropChunk, TypeOK, Idle
<1>3. PICK b \in o.todo : /\ live' = [live EXCEPT ![p] = @ \ {b}]
                          /\ terms' = [terms EXCEPT ![p][b] = {}]
                          /\ Ran(c, b)
  BY <1>1, <1>2 DEF DropChunk
<1>4. o.stage = "drop" /\ UNCHANGED <<record, member, df, files, torn>>
  BY <1>1 DEF DropChunk
<1>5. PICK x \in OpType : /\ op' = [op EXCEPT ![c] = x]
                          /\ x.stage = "drop" /\ x.path = p /\ x.new = o.new
  BY <1>1, <1>2, <1>3, <1>4, RanType DEF TypeOK
<1>6. /\ live' \in [Path -> SUBSET Body]
      /\ terms' \in [Path -> [Body -> SUBSET Term]]
  BY <1>3 DEF TypeOK
<1>7. \A q \in Path \ {p} : Same(q)
  BY <1>3, <1>4 DEF Same, TypeOK
<1>8. Apt(x) /\ Sound(x)'
  BY <1>5 DEF Apt, Sound, Written
<1>9. QED
  BY <1>1, <1>2, <1>4, <1>5, <1>6, <1>7, <1>8, OpGoesOn DEF TypeOK, Idle, Pipeline

LEMMA UnnameGoesOn ==
  ASSUME TypeOK, NEW c \in Client, Unname(c) PROVE GoesOn(c)
<1>1. PICK o \in OpType : o = op[c]
  BY DEF TypeOK
<1>2. PICK p \in Path : p = o.path
  BY <1>1 DEF Unname, TypeOK, Idle
<1>3. PICK i \in o.todo : /\ member' = [member EXCEPT ![i][p] = @ \ Bodies(o.old)]
                          /\ Ran(c, i)
  BY <1>1, <1>2 DEF Unname
<1>4. o.stage = "unname" /\ UNCHANGED <<record, live, terms, df, files, torn>>
  BY <1>1 DEF Unname
<1>5. PICK x \in OpType : /\ op' = [op EXCEPT ![c] = x]
                          /\ x.stage = "unname" /\ x.path = p /\ x.new = o.new
  BY <1>1, <1>2, <1>3, <1>4, RanType DEF TypeOK
<1>6. member' \in [Ident -> [Path -> SUBSET Body]]
  BY <1>3 DEF TypeOK
<1>7. \A q \in Path \ {p} : Same(q)
  <2>1. \A j \in Ident : \A q \in Path \ {p} : member'[j][q] = member[j][q]
    BY <1>3 DEF TypeOK
  <2>2. QED
    BY <1>4, <2>1 DEF Same
<1>8. Apt(x) /\ Sound(x)'
  BY <1>5 DEF Apt, Sound, Written
<1>9. QED
  BY <1>1, <1>2, <1>4, <1>5, <1>6, <1>7, <1>8, OpGoesOn DEF TypeOK, Idle, Pipeline

LEMMA InsertChunkGoesOn ==
  ASSUME TypeOK, NEW c \in Client, InsertChunk(c) PROVE Apt(op[c]) => GoesOn(c)
<1>1. PICK o \in OpType : o = op[c]
  BY DEF TypeOK
<1> SUFFICES ASSUME Apt(o) PROVE GoesOn(c)
  BY <1>1
<1>2. PICK p \in Path : p = o.path
  BY <1>1 DEF InsertChunk, TypeOK, Idle
<1>3. PICK b \in o.todo :
         /\ live' = [live EXCEPT ![p] = @ \cup {b}]
         /\ terms' = [terms EXCEPT ![p][b] = TermsIn(o.new, b)]
         /\ member' = [i \in Ident |->
                         IF i \in IdentsIn(o.new, b)
                           THEN [member[i] EXCEPT ![p] = @ \cup {b}]
                           ELSE member[i]]
         /\ Ran(c, b)
  BY <1>1, <1>2 DEF InsertChunk
<1>4. o.stage = "insert" /\ UNCHANGED <<record, df, files, torn>>
  BY <1>1 DEF InsertChunk
<1>5. PICK x \in OpType : /\ op' = [op EXCEPT ![c] = x]
                          /\ x.stage = "insert" /\ x.path = p /\ x.new = o.new
                          /\ x.refused = o.refused /\ x.todo = o.todo \ {b}
  <2>1. op \in [Client -> OpType] /\ Ran(c, b)
    BY <1>3 DEF TypeOK
  <2>2. QED BY <1>1, <1>2, <1>4, <2>1, RanType
<1>6. b \in Bodies(o.new) /\ b \in Body /\ Bodies(o.new) \subseteq Body
  BY <1>4, VersionTypes DEF Apt, OpType
<1>7. /\ live' \in [Path -> SUBSET Body]
      /\ terms' \in [Path -> [Body -> SUBSET Term]]
      /\ member' \in [Ident -> [Path -> SUBSET Body]]
  <2>1. TermsIn(o.new, b) \in SUBSET Term
    BY <1>6, VersionTypes DEF OpType
  <2>2. QED BY <1>3, <1>6, <2>1 DEF TypeOK
<1>8. \A q \in Path \ {p} : Same(q)
  BY <1>3, <1>4 DEF Same, TypeOK
<1>9. /\ live'[p] = live[p] \cup {b}
      /\ terms'[p][b] = TermsIn(o.new, b)
      /\ \A y \in Body \ {b} : terms'[p][y] = terms[p][y]
      /\ \A i \in Ident : member'[i][p] = IF i \in IdentsIn(o.new, b)
                                           THEN member[i][p] \cup {b}
                                           ELSE member[i][p]
  BY <1>3, <1>6 DEF TypeOK
<1>10. Apt(x)
  BY <1>4, <1>5 DEF Apt
<1>11. Sound(o) => Sound(x)'
  <2>1. ASSUME NEW y \in Bodies(o.new), y = b \/ StoredAs(p, y, o.new)
        PROVE  StoredAs(p, y, o.new)'
    <3>1. IdentsIn(o.new, y) \subseteq Ident /\ y \in Body
      BY VersionTypes DEF OpType
    <3>2. QED BY <1>9, <2>1, <3>1 DEF StoredAs
  <2>2. QED
    BY <1>2, <1>4, <1>5, <2>1 DEF Sound, Written, Pipeline
<1>12. QED
  BY <1>1, <1>2, <1>4, <1>5, <1>7, <1>8, <1>10, <1>11, OpGoesOn
  DEF TypeOK, Idle, Pipeline

LEMMA CountTermGoesOn ==
  ASSUME TypeOK, NEW c \in Client, CountTerm(c) PROVE GoesOn(c)
<1>1. PICK o \in OpType : o = op[c]
  BY DEF TypeOK
<1>2. PICK p \in Path : p = o.path
  BY <1>1 DEF CountTerm, TypeOK, Idle
<1>3. PICK t \in o.todo : /\ df' = [df EXCEPT ![t] = Clamp(@ + o.delta[t])]
                          /\ Ran(c, t)
  BY <1>1 DEF CountTerm
<1>4. o.stage = "count" /\ UNCHANGED <<record, live, terms, member, files, torn>>
  BY <1>1 DEF CountTerm
<1>5. PICK x \in OpType : /\ op' = [op EXCEPT ![c] = x]
                          /\ x.stage = "count" /\ x.path = p /\ x.new = o.new
                          /\ x.refused = o.refused
  BY <1>1, <1>2, <1>3, <1>4, RanType DEF TypeOK
<1>6. df' \in [Term -> Int]
  <2>1. df \in [Term -> Int] /\ (t \in Term => o.delta[t] \in Int)
    BY DEF TypeOK, OpType
  <2>2. t \in Term => Clamp(df[t] + o.delta[t]) \in Int
    BY <2>1, ClampType
  <2>3. QED BY <1>3, <2>1, <2>2
<1>7. \A q \in Path : Same(q)
  BY <1>4 DEF Same
<1>8. Apt(x)
  BY <1>5 DEF Apt
<1>9. Sound(o) => Sound(x)'
  BY <1>2, <1>4, <1>5 DEF Sound, Written, StoredAs
<1>10. QED
  BY <1>1, <1>2, <1>4, <1>5, <1>6, <1>7, <1>8, <1>9, OpGoesOn DEF TypeOK, Idle, Pipeline

LEMMA WriteRecordGoesOn ==
  ASSUME TypeOK, NEW c \in Client, WriteRecord(c) PROVE GoesOn(c)
<1>1. PICK o \in OpType : o = op[c]
  BY DEF TypeOK
<1>2. PICK p \in Path : p = o.path
  BY <1>1 DEF WriteRecord, TypeOK, Idle
<1> DEFINE x == Enter(o, "list")
<1>3. /\ o.stage = "record" /\ UNCHANGED <<live, terms, member, df, files, torn>>
      /\ record' = [record EXCEPT ![p] = o.new]
      /\ op' = [op EXCEPT ![c] = x]
  BY <1>1, <1>2 DEF WriteRecord
<1>4. /\ x \in OpType /\ x.stage = "list" /\ x.path = p
      /\ x.new = o.new /\ x.refused = o.refused
  BY <1>2, EnterType DEF Stage, Pipeline
<1> HIDE DEF x
<1>5. record' \in [Path -> Version] /\ record'[p] = o.new
  BY <1>3 DEF TypeOK, OpType
<1>6. \A q \in Path \ {p} : Same(q)
  BY <1>3 DEF Same, TypeOK
<1>7. Apt(x)
  BY <1>4 DEF Apt
<1>8. Sound(o) => Sound(x)'
  BY <1>2, <1>3, <1>4, <1>5 DEF Sound, Written, StoredAs, Pipeline
<1>9. QED
  BY <1>1, <1>2, <1>3, <1>4, <1>5, <1>6, <1>7, <1>8, OpGoesOn DEF TypeOK, Idle, Pipeline

LEMMA ListFileGoesOn ==
  ASSUME TypeOK, NEW c \in Client, ListFile(c) PROVE GoesOn(c)
<1>1. PICK o \in OpType : o = op[c]
  BY DEF TypeOK
<1>2. PICK p \in Path : p = o.path
  BY <1>1 DEF ListFile, TypeOK, Idle
<1> DEFINE x == Enter(o, "reply")
<1>3. /\ o.stage = "list" /\ UNCHANGED <<record, live, terms, member, df, torn>>
      /\ files' = IF o.new = NoFile THEN files \ {p} ELSE files \cup {p}
      /\ op' = [op EXCEPT ![c] = x]
  BY <1>1, <1>2 DEF ListFile
<1>4. /\ x \in OpType /\ x.stage = "reply" /\ x.path = p
      /\ x.new = o.new /\ x.refused = o.refused
  BY <1>2, EnterType DEF Stage, Pipeline
<1> HIDE DEF x
<1>5. files' \in SUBSET Path /\ (p \in files' <=> o.new # NoFile)
  BY <1>3 DEF TypeOK
<1>6. \A q \in Path \ {p} : Same(q)
  BY <1>3 DEF Same
<1>7. Apt(x)
  BY <1>4 DEF Apt
<1>8. Sound(o) => Sound(x)'
  BY <1>2, <1>3, <1>4, <1>5 DEF Sound, Written, StoredAs, Pipeline
<1>9. QED
  BY <1>1, <1>2, <1>3, <1>4, <1>5, <1>6, <1>7, <1>8, OpGoesOn DEF TypeOK, Idle, Pipeline

\* A step of a write ends it with Ok, or leaves it under way.
LEMMA StoreStepIs ==
  ASSUME TypeOK, NEW c \in Client, StoreStep(c), Apt(op[c])
  PROVE  Reply(c) \/ GoesOn(c)
  BY ReadRecordGoesOn, ReadTermsGoesOn, DropChunkGoesOn, UnnameGoesOn,
     InsertChunkGoesOn, CountTermGoesOn, NextSectionGoesOn, WriteRecordGoesOn,
     ListFileGoesOn, RefuseGoesOn, ResendGoesOn
  DEF StoreStep, Progress

-----------------------------------------------------------------------------
\* The invariant.
JobType ==
  [phase : Phase, walk : SUBSET Path, todo : SUBSET Path, changed : SUBSET Path,
   read : [Path -> Version]]

RepoTypeOK ==
  /\ TypeOK
  /\ disk \in [Path -> Version] /\ job \in JobType
  /\ pending \in SUBSET Path /\ unseen \in SUBSET Path
  /\ lost \in SUBSET Path /\ raced \in SUBSET Path
  /\ quiet \in BOOLEAN /\ edits \in 0..MaxEdits /\ faults \in 0..MaxFaults

\* What the phases of index_repo have between them.
JobOk ==
  /\ job.phase \in {"off", "compare", "parse"} => Idle(Indexer)
  /\ job.phase # "delete" => job.todo \subseteq job.walk
  /\ job.phase = "delete" => job.todo \cap job.walk = {}
  /\ job.changed \subseteq job.walk
  /\ job.phase = "compare" => \A p \in Path : job.read[p] = NoFile
  /\ job.phase = "put" => \A p \in job.todo : job.read[p] # NoFile
  /\ \A p \in Path : job.read[p] \notin Unparsable

\* Two writes of one path are under way only where that was noted.
OverlapsNoted ==
  \A c, d \in Client :
    c # d /\ ~Idle(c) /\ ~Idle(d) /\ op[c].path = op[d].path => op[c].path \in raced

\* The job runs alone.
Alone == quiet /\ job.phase # "off"

\* A write nobody else's write can have interfered with.
Trusted(c) == op[c].path \notin raced \/ (Alone /\ c = Indexer)

WritesSound ==
  \A c \in Client : Apt(op[c]) /\ (Trusted(c) => Sound(op[c]))

RestComplete ==
  \A p \in Path \ raced : ~Changing(p) /\ p \notin torn => Complete(p)

\* Paths whose index is to follow the disk.
Tracked == Path \ (pending \cup unseen \cup lost \cup raced)

\* What the index has of such a path, what a write of it is to put there, and
\* what the job still holds of it, is what is on disk.
InSync ==
  \A p \in Tracked :
    /\ ~Busy(p) => record[p] = Parsed(disk[p])
    /\ \A c \in Client : ~Idle(c) /\ op[c].path = p => op[c].new = Parsed(disk[p])
    /\ job.phase \in {"parse", "put"} /\ p \in job.todo /\ job.read[p] # NoFile =>
         job.read[p] = disk[p]
    /\ job.phase # "off" /\ p \notin job.walk => disk[p] = NoFile

\* The job is writing the content p has on disk.
Puts(p) == ~Idle(Indexer) /\ op[Indexer].path = p /\ op[Indexer].new = disk[p]

\* How far a job that runs alone has come: each indexable file is recorded as
\* it is, or is still to be done, and so is each listed file that is gone.
AloneOk ==
  Alone =>
    /\ \A h \in Handler : Idle(h)
    /\ job.walk = {p \in Path : disk[p] # NoFile}
    /\ job.phase = "compare" =>
         \A p \in job.walk \ (job.todo \cup job.changed) : record[p] = disk[p]
    /\ job.phase = "parse" =>
         \A p \in Path : Indexable(p) => record[p] = disk[p] \/ p \in job.todo
    /\ job.phase \in {"parse", "put"} =>
         \A p \in job.todo : job.read[p] \in {NoFile, disk[p]}
    /\ job.phase = "put" =>
         /\ \A p \in Path : Indexable(p) => record[p] = disk[p] \/ p \in job.todo \/ Puts(p)
         /\ ~Idle(Indexer) => /\ op[Indexer].path \in job.walk
                              /\ op[Indexer].new = disk[op[Indexer].path]
    /\ job.phase = "delete" =>
         /\ \A p \in Path : Indexable(p) => record[p] = disk[p]
         /\ \A p \in files \ job.walk : p \in job.todo \/ Puts(p)
         /\ ~Idle(Indexer) => op[Indexer].path \notin job.walk /\ op[Indexer].new = NoFile

RepoInv ==
  /\ RepoTypeOK /\ JobOk /\ OverlapsNoted /\ WritesSound /\ RestComplete
  /\ InSync /\ AloneOk

-----------------------------------------------------------------------------
\* Where the data of a path does not change, what is known of it stays.
LEMMA SameSound ==
  ASSUME NEW o \in OpType, o.path \in Path, Same(o.path), Sound(o)
  PROVE  Sound(o)'
<1>1. o.new \in Version /\ record'[o.path] = record[o.path]
  BY DEF Same, OpType
<1>2. QED
  BY <1>1, SameStored DEF Sound, Written, Same

LEMMA SameComplete ==
  ASSUME NEW p \in Path, Same(p), record[p] \in Version, Complete(p)
  PROVE  Complete(p)'
<1> DEFINE v == record[p]
<1>1. record'[p] = v
  BY DEF Same
<1>2. QED
  BY <1>1, SameStored DEF Complete, Same

LEMMA DataStays ==
  ASSUME UNCHANGED <<record, live, terms, member, files>>
  PROVE  /\ \A o : Sound(o)' <=> Sound(o)
         /\ \A p : Complete(p)' <=> Complete(p)
<1>1. \A p, b, v : StoredAs(p, b, v)' <=> StoredAs(p, b, v)
  BY DEF StoredAs
<1>2. QED
  BY <1>1 DEF Sound, Written, Complete

\* A step of a write under way.
LEMMA GoingOnKeepsStore ==
  ASSUME RepoInv, NEW c \in Client, GoesOn(c),
         UNCHANGED <<tree, pending, job, notes>>
  PROVE  /\ OverlapsNoted' /\ WritesSound' /\ RestComplete'
<1>1. PICK p \in Path : p = op[c].path
  BY DEF GoesOn
<1>2. /\ \A d \in Client \ {c} : op'[d] = op[d]
      /\ ~Idle(c) /\ op'[c].stage # "idle" /\ op'[c].path = p
      /\ \A q \in Path \ {p} : Same(q)
      /\ raced' = raced /\ (Alone' <=> Alone)
  BY <1>1 DEF GoesOn, notes, Alone
<1>3. OverlapsNoted'
  BY <1>1, <1>2 DEF RepoInv, OverlapsNoted, Idle
<1>4. WritesSound'
  <2>1. Apt(op'[c]) /\ (Trusted(c)' => Sound(op[c])')
    BY <1>1, <1>2 DEF RepoInv, WritesSound, Trusted, GoesOn
  <2>2. ASSUME NEW d \in Client \ {c}
        PROVE  Apt(op'[d]) /\ (Trusted(d)' => Sound(op[d])')
    <3>1. PICK o \in OpType : o = op[d]
      BY DEF RepoInv, RepoTypeOK, TypeOK
    <3>2. op'[d] = o /\ Apt(o)
      BY <1>2, <3>1 DEF RepoInv, WritesSound
    <3>3. CASE o.stage = "idle"
      BY <3>2, <3>3 DEF Sound, Pipeline
    <3>4. CASE o.stage # "idle" /\ o.path # p
      <4>1. o.path \in Path \ {p} /\ Same(o.path)
        BY <1>2, <3>1, <3>4 DEF RepoInv, RepoTypeOK, TypeOK, Idle
      <4>2. Trusted(d)' => Sound(o)
        BY <1>2, <3>1, <3>2 DEF RepoInv, WritesSound, Trusted
      <4>3. Sound(o) => Sound(op[d])'
        <5>1. Sound(o) => Sound(o)'
          BY <4>1, SameSound
        <5>2. Sound(o)' => Sound(op[d])'
          BY <3>2 DEF Sound
        <5>3. QED
          BY <5>1, <5>2
      <4>4. QED
        BY <3>2, <4>2, <4>3
    <3>5. CASE o.stage # "idle" /\ o.path = p
      <4>1. p \in raced
        BY <1>1, <1>2, <3>1, <3>5 DEF RepoInv, OverlapsNoted, Idle
      <4>2. ~(Alone /\ d = Indexer)
        BY <1>2, ThreadAssumption DEF RepoInv, AloneOk
      <4>3. ~Trusted(d)'
        BY <1>2, <3>2, <3>5, <4>1, <4>2 DEF Trusted
      <4>4. QED
        BY <3>2, <4>3
    <3>6. QED
      BY <3>3, <3>4, <3>5
  <2>3. QED
    BY <2>1, <2>2 DEF WritesSound
<1>5. RestComplete'
  <2> SUFFICES ASSUME NEW q \in Path \ raced, ~Changing(q)', q \notin torn'
               PROVE  Complete(q)'
    BY <1>2 DEF RestComplete
  <2>1. Same(q) /\ ~Changing(q) /\ torn' = torn
    BY <1>1, <1>2 DEF Changing, GoesOn
  <2>2. QED
    BY <2>1, SameComplete DEF RepoInv, RestComplete, RepoTypeOK, TypeOK
<1>6. QED
  BY <1>3, <1>4, <1>5

LEMMA GoingOnKeeps ==
  ASSUME RepoInv, NEW c \in Client, GoesOn(c), faults' \in 0..MaxFaults,
         UNCHANGED <<tree, pending, job, notes>>
  PROVE  RepoInv'
<1>1. PICK p \in Path : p = op[c].path
  BY DEF GoesOn
<1>2. /\ \A d \in Client \ {c} : op'[d] = op[d]
      /\ ~Idle(c) /\ op'[c].stage # "idle" /\ op'[c].path = p /\ op'[c].new = op[c].new
      /\ \A q \in Path \ {p} : Same(q)
      /\ record'[p] \in {record[p], op[c].new}
      /\ p \in files' => p \in files \/ op[c].new # NoFile
  BY <1>1 DEF GoesOn
<1>3. UNCHANGED <<disk, edits, pending, job, unseen, lost, raced, quiet>>
  BY DEF tree, notes
<1>4. RepoTypeOK'
  BY <1>3 DEF RepoInv, RepoTypeOK, GoesOn
<1>5. JobOk'
  BY <1>2, <1>3, ThreadAssumption DEF RepoInv, JobOk, Idle
<1>6. \A q \in Path : Busy(q)' <=> Busy(q)
  BY <1>1, <1>2 DEF Busy, Idle
<1>7. InSync'
  <2> SUFFICES ASSUME NEW q \in Tracked
               PROVE  /\ ~Busy(q)' => record'[q] = Parsed(disk[q])
                      /\ \A d \in Client : op'[d].stage # "idle" /\ op'[d].path = q
                                             => op'[d].new = Parsed(disk[q])
                      /\ job.phase \in {"parse", "put"} /\ q \in job.todo
                           /\ job.read[q] # NoFile => job.read[q] = disk[q]
                      /\ job.phase # "off" /\ q \notin job.walk => disk[q] = NoFile
    BY <1>3 DEF InSync, Tracked, Idle, Parsed
  <2>1. ~Busy(q)' => ~Busy(q) /\ record'[q] = record[q]
    BY <1>1, <1>2, <1>6 DEF Same, Busy, Tracked
  <2>2. QED
    BY <1>1, <1>2, <2>1 DEF RepoInv, InSync, Idle
<1>8. AloneOk'
  <2> SUFFICES ASSUME Alone PROVE AloneOk'
    BY <1>3 DEF AloneOk, Alone
  <2>1. c = Indexer /\ job.phase \in {"put", "delete"}
    BY <1>2, ThreadAssumption DEF RepoInv, RepoTypeOK, JobType, Phase, JobOk, AloneOk
  <2>2. \A q \in Path : Puts(q)' <=> Puts(q)
    BY <1>1, <1>2, <1>3, <2>1 DEF Puts, Idle
  <2>3. \A h \in Handler : Idle(h)'
    BY <1>2, <2>1, ThreadAssumption DEF RepoInv, AloneOk, Idle
  <2>4. \A q \in Path : Indexable(q) /\ record[q] = disk[q] => record'[q] = disk[q]
    <3>1. Indexable(p) => op[c].new = disk[p]
      BY <1>1, <1>2, <2>1 DEF RepoInv, AloneOk, Indexable
    <3>2. QED
      BY <1>2, <3>1 DEF Same
  <2>5. job.phase = "delete" => files' \ job.walk \subseteq files \ job.walk
    BY <1>1, <1>2, <2>1 DEF RepoInv, AloneOk, Same, RepoTypeOK, TypeOK, GoesOn
  <2>6. CASE job.phase = "put"
    <3>1. \A q \in Path : Indexable(q) => record'[q] = disk[q] \/ q \in job.todo \/ Puts(q)
      BY <2>4, <2>6 DEF RepoInv, AloneOk
    <3>2. p \in job.walk /\ op[c].new = disk[p]
      BY <1>1, <1>2, <2>1, <2>6 DEF RepoInv, AloneOk
    <3>3. QED
      BY <1>2, <1>3, <2>1, <2>2, <2>3, <2>6, <3>1, <3>2
      DEF RepoInv, AloneOk, Indexable
  <2>7. CASE job.phase = "delete"
    <3>1. \A q \in Path : Indexable(q) => record'[q] = disk[q]
      BY <2>4, <2>7 DEF RepoInv, AloneOk
    <3>2. p \notin job.walk /\ op[c].new = NoFile
      BY <1>1, <1>2, <2>1, <2>7 DEF RepoInv, AloneOk
    <3>3. \A q \in files' \ job.walk : q \in job.todo \/ Puts(q)'
      <4>1. files \in SUBSET Path
        BY DEF RepoInv, RepoTypeOK, TypeOK
      <4>2. QED
        BY <2>2, <2>5, <2>7, <4>1 DEF RepoInv, AloneOk
    <3>4. QED
      BY <1>2, <1>3, <2>1, <2>3, <2>7, <3>1, <3>2, <3>3
      DEF RepoInv, AloneOk, Indexable
  <2>8. QED
    BY <2>1, <2>6, <2>7
<1>9. QED
  BY <1>4, <1>5, <1>7, <1>8, GoingOnKeepsStore DEF RepoInv

\* A write returns, with Ok or an error, and the client is idle.
LEMMA EndingKeepsStore ==
  ASSUME RepoInv, NEW c \in Client, ~Idle(c), NEW p \in Path, p = op[c].path,
         op' = [op EXCEPT ![c] = NoOp], UNCHANGED <<moon, raced>>,
         torn' \in SUBSET Path, torn \ {p} \subseteq torn', Alone' => Alone,
         p \notin raced /\ p \notin torn' =>
           Complete(p) \/ (op[c].stage \notin Pipeline /\ p \notin torn)
  PROVE  /\ TypeOK' /\ OverlapsNoted' /\ WritesSound' /\ RestComplete'
         /\ Idle(c)' /\ \A d \in Client \ {c} : op'[d] = op[d]
<1>1. /\ UNCHANGED <<record, live, terms, member, df, files>> /\ raced' = raced
  BY DEF moon
<1>2. /\ op' \in [Client -> OpType] /\ op'[c] = NoOp /\ NoOp.stage = "idle"
      /\ \A d \in Client \ {c} : op'[d] = op[d]
  BY NoOpType DEF RepoInv, RepoTypeOK, TypeOK
<1>3. TypeOK'
  BY <1>1, <1>2 DEF RepoInv, RepoTypeOK, TypeOK, Idle
<1>4. OverlapsNoted'
  BY <1>1, <1>2 DEF RepoInv, OverlapsNoted, Idle
<1>5. WritesSound'
  <2> SUFFICES ASSUME NEW d \in Client
               PROVE  Apt(op'[d]) /\ (Trusted(d)' => Sound(op[d])')
    BY DEF WritesSound
  <2>1. CASE d = c
    BY <1>2, <2>1 DEF Apt, Sound, Pipeline
  <2>2. CASE d # c
    <3>1. PICK o \in OpType : o = op[d]
      BY DEF RepoInv, RepoTypeOK, TypeOK
    <3>2. op'[d] = o /\ Apt(o) /\ (Trusted(d)' => Sound(o))
      BY <1>1, <1>2, <2>2, <3>1 DEF RepoInv, WritesSound, Trusted
    <3>3. Sound(o) => Sound(o)'
      BY <1>1, DataStays
    <3>4. Sound(o)' => Sound(op[d])'
      BY <3>2 DEF Sound
    <3>5. QED
      BY <3>2, <3>3, <3>4
  <2>3. QED
    BY <2>1, <2>2
<1>6. RestComplete'
  <2> SUFFICES ASSUME NEW q \in Path \ raced, ~Changing(q)', q \notin torn'
               PROVE  Complete(q)'
    BY <1>1 DEF RestComplete
  <2>1. Complete(q)
    <3>1. CASE q # p \/ (op[c].stage \notin Pipeline /\ p \notin torn)
      <4>1. ~Changing(q) /\ q \notin torn
        <5>1. q \notin torn
          BY <3>1
        <5>2. \A d \in Client : op[d].path = q => op[d].stage \notin Pipeline
          BY <1>2, <3>1 DEF Changing
        <5>3. QED
          BY <5>1, <5>2 DEF Changing
      <4>2. QED
        BY <4>1 DEF RepoInv, RestComplete
    <3>2. CASE q = p /\ ~(op[c].stage \notin Pipeline /\ p \notin torn)
      BY <3>2
    <3>3. QED
      BY <3>1, <3>2
  <2>2. QED
    BY <1>1, <2>1, DataStays
<1>7. QED
  BY <1>2, <1>3, <1>4, <1>5, <1>6 DEF Idle

LEMMA ReplyKeepsRepo ==
  ASSUME RepoInv, NEW c \in Client, Reply(c),
         UNCHANGED <<tree, faults, pending, job, notes>>
  PROVE  RepoInv'
<1>1. PICK o \in OpType : o = op[c]
  BY DEF RepoInv, RepoTypeOK, TypeOK
<1>2. PICK p \in Path : p = o.path
  BY <1>1 DEF Reply, RepoInv, RepoTypeOK, TypeOK, Idle
<1>3. /\ o.stage = "reply" /\ ~o.refused /\ ~Idle(c)
      /\ op' = [op EXCEPT ![c] = NoOp] /\ torn' = torn \ {p} /\ UNCHANGED moon
      /\ UNCHANGED <<record, live, terms, member, df, files>>
  BY <1>1, <1>2 DEF Reply, Idle, moon
<1>4. UNCHANGED <<disk, edits, pending, job, unseen, lost, raced, quiet>>
  BY DEF tree, notes
<1>5. Trusted(c) => Complete(p) /\ record[p] = o.new /\ (p \in files <=> o.new # NoFile)
  BY <1>1, <1>2, <1>3
  DEF RepoInv, WritesSound, Sound, Written, Complete, Pipeline
<1>6. /\ TypeOK' /\ OverlapsNoted' /\ WritesSound' /\ RestComplete'
      /\ Idle(c)' /\ \A d \in Client \ {c} : op'[d] = op[d]
  <2>1. torn' \in SUBSET Path /\ (Alone' => Alone) /\ p = op[c].path
    BY <1>1, <1>2, <1>3, <1>4 DEF RepoInv, RepoTypeOK, TypeOK, Alone
  <2>2. p \notin raced => Complete(p)
    BY <1>1, <1>2, <1>5 DEF Trusted
  <2>3. QED
    BY <1>3, <1>4, <2>1, <2>2, EndingKeepsStore
<1>7. RepoTypeOK'
  BY <1>4, <1>6 DEF RepoInv, RepoTypeOK
<1>8. JobOk'
  BY <1>4, <1>6, ThreadAssumption DEF RepoInv, JobOk, Idle
<1>9. InSync'
  <2> SUFFICES ASSUME NEW q \in Tracked
               PROVE  /\ ~Busy(q)' => record[q] = Parsed(disk[q])
                      /\ \A d \in Client : op'[d].stage # "idle" /\ op'[d].path = q
                                             => op'[d].new = Parsed(disk[q])
                      /\ job.phase \in {"parse", "put"} /\ q \in job.todo
                           /\ job.read[q] # NoFile => job.read[q] = disk[q]
                      /\ job.phase # "off" /\ q \notin job.walk => disk[q] = NoFile
    BY <1>3, <1>4 DEF InSync, Tracked, Idle, Parsed
  <2>1. ~Busy(q)' => ~Busy(q) \/ (q = p /\ Trusted(c))
    BY <1>1, <1>2, <1>6 DEF Busy, Idle, Trusted, Tracked
  <2>2. q = p => o.new = Parsed(disk[q])
    BY <1>1, <1>2, <1>3 DEF RepoInv, InSync
  <2>3. QED
    BY <1>5, <1>6, <2>1, <2>2 DEF RepoInv, InSync, Idle
<1>10. AloneOk'
  <2> SUFFICES ASSUME Alone PROVE AloneOk'
    BY <1>4 DEF AloneOk, Alone
  <2>1. c = Indexer /\ job.phase \in {"put", "delete"}
    BY <1>3, ThreadAssumption DEF RepoInv, RepoTypeOK, JobType, Phase, JobOk, AloneOk, Alone
  <2>2. \A q \in Path : Puts(q) => q = p /\ record[q] = o.new /\ (p \in files => o.new # NoFile)
                                   /\ disk[q] = o.new
    BY <1>1, <1>2, <1>5, <2>1 DEF Puts, Trusted
  <2>3. \A h \in Handler : Idle(h)'
    BY <1>6, <2>1, ThreadAssumption DEF RepoInv, AloneOk, Idle
  <2>4. CASE job.phase = "put"
    <3>1. \A q \in Path : Indexable(q) => record[q] = disk[q] \/ q \in job.todo
      BY <2>2, <2>4 DEF RepoInv, AloneOk
    <3>2. QED
      BY <1>3, <1>4, <1>6, <2>1, <2>3, <2>4, <3>1 DEF RepoInv, AloneOk, Indexable
  <2>5. CASE job.phase = "delete"
    <3>1. \A q \in files \ job.walk : q \in job.todo
      <4>1. o.new = NoFile /\ files \in SUBSET Path
        BY <1>1, <1>3, <2>1, <2>5 DEF RepoInv, AloneOk, RepoTypeOK, TypeOK
      <4>2. QED
        BY <2>2, <2>5, <4>1 DEF RepoInv, AloneOk
    <3>2. QED
      BY <1>3, <1>4, <1>6, <2>1, <2>3, <2>5, <3>1 DEF RepoInv, AloneOk, Indexable
  <2>6. QED
    BY <2>1, <2>4, <2>5
<1>11. QED
  BY <1>6, <1>7, <1>8, <1>9, <1>10 DEF RepoInv

LEMMA StoreStepKeeps ==
  ASSUME RepoInv, NEW c \in Client, StoreStep(c) PROVE RepoInv'
<1>1. Apt(op[c]) /\ TypeOK /\ UNCHANGED <<tree, pending, job, notes>>
  BY DEF RepoInv, WritesSound, RepoTypeOK, StoreStep
<1>2. CASE Reply(c) /\ UNCHANGED faults
  BY <1>1, <1>2, ReplyKeepsRepo
<1>3. CASE GoesOn(c)
  <2>1. faults' \in 0..MaxFaults
    BY ThreadAssumption DEF StoreStep, RepoInv, RepoTypeOK
  <2>2. QED
    BY <1>1, <1>3, <2>1, GoingOnKeeps
<1>4. Reply(c) => UNCHANGED faults \/ GoesOn(c)
  BY <1>1, RefuseGoesOn, ResendGoesOn DEF StoreStep
<1>5. QED
  BY <1>1, <1>2, <1>3, <1>4, StoreStepIs

LEMMA NoJobType ==
  /\ NoJob \in JobType /\ NoJob.phase = "off" /\ NoJob.todo = {}
  /\ NoJob.changed = {} /\ \A p \in Path : NoJob.read[p] = NoFile
  BY DEF NoJob, JobType, Phase, Version

LEMMA ParsedType ==
  /\ NoFile \notin Unparsable /\ Parsed(NoFile) = NoFile
  /\ \A v \in Version : Parsed(v) \in Version
  BY ThreadAssumption, ContentAssumption DEF Parsed, Version

LEMMA StoreErrorKeeps ==
  ASSUME RepoInv, NEW c \in Client, StoreError(c) PROVE RepoInv'
<1>1. PICK p \in Path : p = op[c].path
  BY DEF StoreError, FailRead, GiveUp, RepoInv, RepoTypeOK, TypeOK, Idle, Pipeline
<1>2. /\ ~Idle(c) /\ op' = [op EXCEPT ![c] = NoOp]
      /\ UNCHANGED <<moon, tree, pending, unseen, raced>>
      /\ torn' \in {torn, torn \cup {p}} /\ lost' = lost \cup {p}
      /\ job' = (IF c = Indexer THEN NoJob ELSE job)
      /\ quiet' = (IF c = Indexer THEN FALSE ELSE quiet)
  BY <1>1 DEF StoreError, FailRead, GiveUp, Idle, Pipeline, moon
<1>3. faults' \in 0..MaxFaults
  BY ThreadAssumption DEF StoreError, RepoInv, RepoTypeOK
<1>4. Alone' => Alone /\ c # Indexer
  BY <1>2 DEF Alone
<1>5. UNCHANGED <<disk, edits, pending, unseen, raced, record, files>>
  BY <1>2 DEF tree, moon
<1>6. /\ TypeOK' /\ OverlapsNoted' /\ WritesSound' /\ RestComplete'
      /\ Idle(c)' /\ \A d \in Client \ {c} : op'[d] = op[d]
  <2>1. torn' \in SUBSET Path /\ torn \ {p} \subseteq torn'
    BY <1>2 DEF RepoInv, RepoTypeOK, TypeOK
  <2>2. p \notin torn' => op[c].stage \notin Pipeline /\ p \notin torn
    BY <1>1, <1>2 DEF StoreError, FailRead, GiveUp, Pipeline
  <2>3. QED
    BY <1>1, <1>2, <1>4, <2>1, <2>2, EndingKeepsStore
<1>7. RepoTypeOK'
  BY <1>2, <1>3, <1>5, <1>6, NoJobType DEF RepoInv, RepoTypeOK
<1>8. JobOk'
  BY <1>2, <1>6, NoJobType, ParsedType, ThreadAssumption DEF RepoInv, JobOk, Idle
<1>9. InSync'
  <2>1. Tracked' \subseteq Tracked \ {p}
    BY <1>2, <1>5 DEF Tracked
  <2>2. \A q \in Tracked' : Busy(q)' <=> Busy(q)
    BY <1>1, <1>6, <2>1 DEF Busy, Idle
  <2>3. \A q \in Tracked' : \A d \in Client : ~Idle(d)' /\ op'[d].path = q
                              => op'[d].new = Parsed(disk[q])
    BY <1>6, <2>1 DEF RepoInv, InSync, Idle
  <2>4. job'.phase = "off" \/ job' = job
    BY <1>2, NoJobType
  <2>5. QED
    BY <1>5, <2>1, <2>2, <2>3, <2>4 DEF RepoInv, InSync, Parsed
<1>10. AloneOk'
  BY <1>2, <1>4, ThreadAssumption DEF RepoInv, AloneOk
<1>11. QED
  BY <1>6, <1>7, <1>8, <1>9, <1>10 DEF RepoInv

-----------------------------------------------------------------------------
\* A new write.
LEMMA BeginKeepsStore ==
  ASSUME RepoInv, NEW c \in Client, NEW p \in Path, NEW v \in Version,
         Begin(c, p, v), raced \subseteq raced', Busy(p) => p \in raced',
         Alone' => Alone
  PROVE  /\ TypeOK' /\ OverlapsNoted' /\ WritesSound' /\ RestComplete'
         /\ Idle(c) /\ ~Idle(c)' /\ op'[c].path = p /\ op'[c].new = v
         /\ \A d \in Client \ {c} : op'[d] = op[d]
         /\ UNCHANGED <<record, files>>
<1> DEFINE x == [NoOp EXCEPT !.stage = "read", !.path = p, !.new = v]
<1>1. /\ Idle(c) /\ op' = [op EXCEPT ![c] = x]
      /\ UNCHANGED <<record, live, terms, member, df, files, torn>>
  BY DEF Begin, moon
<1>2. /\ x \in OpType /\ x.stage = "read" /\ x.path = p /\ x.new = v
  BY NoOpType DEF OpType, Stage
<1> HIDE DEF x
<1>3. /\ op' \in [Client -> OpType] /\ op'[c] = x
      /\ \A d \in Client \ {c} : op'[d] = op[d]
  BY <1>1, <1>2 DEF RepoInv, RepoTypeOK, TypeOK
<1>4. TypeOK'
  BY <1>1, <1>2, <1>3 DEF RepoInv, RepoTypeOK, TypeOK, Idle
<1>5. OverlapsNoted'
  <2>1. \A d \in Client \ {c} : ~Idle(d) /\ op[d].path = p => p \in raced'
    BY DEF Busy
  <2>2. QED
    BY <1>2, <1>3, <2>1 DEF RepoInv, OverlapsNoted, Idle
<1>6. WritesSound'
  <2> SUFFICES ASSUME NEW d \in Client
               PROVE  Apt(op'[d]) /\ (Trusted(d)' => Sound(op[d])')
    BY DEF WritesSound
  <2>1. CASE d = c
    BY <1>2, <1>3, <2>1 DEF Apt, Sound, Pipeline
  <2>2. CASE d # c
    <3>1. PICK o \in OpType : o = op[d]
      BY DEF RepoInv, RepoTypeOK, TypeOK
    <3>2. op'[d] = o /\ Apt(o) /\ (Trusted(d)' => Sound(o))
      BY <1>3, <2>2, <3>1 DEF RepoInv, WritesSound, Trusted
    <3>3. Sound(o) => Sound(o)'
      BY <1>1, DataStays
    <3>4. Sound(o)' => Sound(op[d])'
      BY <3>2 DEF Sound
    <3>5. QED
      BY <3>2, <3>3, <3>4
  <2>3. QED
    BY <2>1, <2>2
<1>7. RestComplete'
  <2> SUFFICES ASSUME NEW q \in Path \ raced, ~Changing(q)', q \notin torn
               PROVE  Complete(q)'
    BY <1>1 DEF RestComplete
  <2>1. ~Changing(q)
    <3>1. \A d \in Client : op[d].stage \in Pipeline => op'[d] = op[d]
      BY <1>1, <1>3 DEF Idle, Pipeline
    <3>2. QED
      BY <3>1 DEF Changing
  <2>2. QED
    BY <1>1, <2>1, DataStays DEF RepoInv, RestComplete
<1>8. QED
  BY <1>1, <1>2, <1>3, <1>4, <1>5, <1>6, <1>7 DEF Idle

LEMMA ReindexFileKeeps ==
  ASSUME RepoInv, NEW h \in Handler, NEW p \in Path, ReindexFile(h, p)
  PROVE  RepoInv'
<1>1. PICK v \in Version : v = Parsed(disk[p])
  BY ParsedType DEF RepoInv, RepoTypeOK
<1>2. /\ h \in Client \ {Indexer} /\ Begin(h, p, v)
      /\ pending' = pending \ {p} /\ quiet' = FALSE
      /\ raced' = (IF Busy(p) \/ JobHolds(p) THEN raced \cup {p} ELSE raced)
      /\ UNCHANGED <<disk, edits, faults, job, unseen, lost>>
  BY <1>1, ThreadAssumption DEF ReindexFile, tree
<1>3. raced \subseteq raced' /\ (Busy(p) => p \in raced') /\ ~Alone'
  BY <1>2 DEF Alone
<1>4. /\ TypeOK' /\ OverlapsNoted' /\ WritesSound' /\ RestComplete'
      /\ ~Idle(h)' /\ op'[h].path = p /\ op'[h].new = v
      /\ \A d \in Client \ {h} : op'[d] = op[d]
      /\ UNCHANGED <<record, files>>
  BY <1>2, <1>3, BeginKeepsStore
<1>5. RepoTypeOK'
  BY <1>2, <1>4 DEF RepoInv, RepoTypeOK
<1>6. JobOk'
  BY <1>2, <1>4, ThreadAssumption DEF RepoInv, JobOk, Idle
<1>7. InSync'
  <2> SUFFICES ASSUME NEW q \in Tracked'
               PROVE  /\ ~Busy(q)' => record[q] = Parsed(disk[q])
                      /\ \A d \in Client : ~Idle(d)' /\ op'[d].path = q
                                             => op'[d].new = Parsed(disk[q])
                      /\ job.phase \in {"parse", "put"} /\ q \in job.todo
                           /\ job.read[q] # NoFile => job.read[q] = disk[q]
                      /\ job.phase # "off" /\ q \notin job.walk => disk[q] = NoFile
    BY <1>2, <1>4 DEF InSync, Parsed
  <2>1. CASE q = p
    <3>1. Busy(q)'
      BY <1>2, <1>4, <2>1 DEF Busy
    <3>2. ~Busy(q) /\ ~JobHolds(q)
      BY <1>2, <2>1 DEF Tracked
    <3>3. \A d \in Client : ~Idle(d)' /\ op'[d].path = q => d = h
      BY <1>4, <3>2 DEF Busy, Idle
    <3>4. QED
      BY <1>1, <1>4, <2>1, <3>1, <3>2, <3>3 DEF JobHolds
  <2>2. CASE q # p
    <3>1. q \in Tracked
      BY <1>2, <1>3, <2>2 DEF Tracked
    <3>2. Busy(q) => Busy(q)'
      BY <1>2, <1>3, <1>4, <2>2, BeginKeepsStore DEF Busy, Idle
    <3>3. \A d \in Client : ~Idle(d)' /\ op'[d].path = q => d # h
      BY <1>4, <2>2
    <3>4. QED
      BY <1>4, <3>1, <3>2, <3>3 DEF RepoInv, InSync, Idle
  <2>3. QED
    BY <2>1, <2>2
<1>8. QED
  BY <1>3, <1>4, <1>5, <1>6, <1>7 DEF RepoInv, AloneOk

\* A write the job starts: of path p, which is among those its phase has to do.
LEMMA JobWrites ==
  ASSUME RepoInv, NEW p \in job.todo, job.phase \in {"put", "delete"},
         NEW v \in Version, Begin(Indexer, p, v),
         p \notin raced /\ p \in Tracked => v = Parsed(disk[p]),
         job' = [job EXCEPT !.todo = @ \ {p}],
         raced' = (IF Busy(p) THEN raced \cup {p} ELSE raced),
         UNCHANGED <<tree, faults, pending, unseen, lost, quiet>>,
         AloneOk'
  PROVE  RepoInv'
<1>1. /\ p \in Path /\ Indexer \in Client
      /\ UNCHANGED <<disk, edits, faults, pending, unseen, lost, quiet>>
  BY ThreadAssumption DEF RepoInv, RepoTypeOK, JobType, tree
<1>2. /\ job' \in JobType /\ job'.phase = job.phase /\ job'.walk = job.walk
      /\ job'.todo = job.todo \ {p} /\ job'.changed = job.changed
      /\ job'.read = job.read
  BY DEF RepoInv, RepoTypeOK, JobType
<1>3. raced \subseteq raced' /\ (Busy(p) => p \in raced') /\ (Alone' => Alone)
  BY <1>1, <1>2 DEF Alone
<1>4. /\ TypeOK' /\ OverlapsNoted' /\ WritesSound' /\ RestComplete'
      /\ Idle(Indexer) /\ ~Idle(Indexer)'
      /\ op'[Indexer].path = p /\ op'[Indexer].new = v
      /\ \A d \in Client \ {Indexer} : op'[d] = op[d]
      /\ UNCHANGED <<record, files>>
  BY <1>1, <1>3, BeginKeepsStore
<1>5. RepoTypeOK'
  BY <1>1, <1>2, <1>4 DEF RepoInv, RepoTypeOK
<1>6. JobOk'
  BY <1>2 DEF RepoInv, JobOk
<1>7. InSync'
  <2> SUFFICES ASSUME NEW q \in Tracked'
               PROVE  /\ ~Busy(q)' => record[q] = Parsed(disk[q])
                      /\ \A d \in Client : ~Idle(d)' /\ op'[d].path = q
                                             => op'[d].new = Parsed(disk[q])
                      /\ job.phase \in {"parse", "put"} /\ q \in job.todo
                           /\ job.read[q] # NoFile => job.read[q] = disk[q]
                      /\ job.phase # "off" /\ q \notin job.walk => disk[q] = NoFile
    BY <1>1, <1>2, <1>4 DEF InSync, Parsed
  <2>1. q \in Tracked
    BY <1>1, <1>3 DEF Tracked
  <2>2. CASE q = p
    <3>1. Busy(q)' /\ ~Busy(q)
      BY <1>1, <1>4, <2>2, <1>3 DEF Busy, Tracked
    <3>2. \A d \in Client : ~Idle(d)' /\ op'[d].path = q => d = Indexer
      BY <1>4, <3>1 DEF Busy, Idle
    <3>3. v = Parsed(disk[q])
      BY <2>1, <2>2 DEF Tracked
    <3>4. QED
      BY <1>4, <2>1, <3>1, <3>2, <3>3 DEF RepoInv, InSync
  <2>3. CASE q # p
    <3>1. Busy(q) => Busy(q)'
      BY <1>1, <1>4 DEF Busy, Idle
    <3>2. \A d \in Client : ~Idle(d)' /\ op'[d].path = q => d # Indexer
      BY <1>4, <2>3
    <3>3. QED
      BY <1>4, <2>1, <3>1, <3>2 DEF RepoInv, InSync, Idle
  <2>4. QED
    BY <2>2, <2>3
<1>8. QED
  BY <1>4, <1>5, <1>6, <1>7 DEF RepoInv

\* What a write the job starts leaves of what is known of a job running alone.
LEMMA JobAlone ==
  ASSUME RepoInv, NEW p \in job.todo, job.phase \in {"put", "delete"},
         NEW v \in Version, Begin(Indexer, p, v), Alone => v = disk[p],
         job' = [job EXCEPT !.todo = @ \ {p}],
         raced' = (IF Busy(p) THEN raced \cup {p} ELSE raced),
         UNCHANGED <<tree, quiet>>
  PROVE  AloneOk'
<1> SUFFICES ASSUME Alone' PROVE AloneOk'
  BY DEF AloneOk
<1>1. /\ p \in Path /\ Indexer \in Client /\ UNCHANGED <<disk, quiet>>
      /\ job.todo \in SUBSET Path /\ files \in SUBSET Path
  BY ThreadAssumption DEF RepoInv, RepoTypeOK, JobType, tree, TypeOK
<1>2. /\ job'.phase = job.phase /\ job'.walk = job.walk
      /\ job'.todo = job.todo \ {p} /\ job'.read = job.read
  BY DEF RepoInv, RepoTypeOK, JobType
<1>3. Alone
  BY <1>1, <1>2 DEF Alone
<1>4. raced \subseteq raced' /\ (Busy(p) => p \in raced')
  OBVIOUS
<1>5. /\ Idle(Indexer) /\ ~Idle(Indexer)'
      /\ op'[Indexer].path = p /\ op'[Indexer].new = disk[p]
      /\ \A d \in Client \ {Indexer} : op'[d] = op[d]
      /\ UNCHANGED <<record, files>>
  BY <1>1, <1>3, <1>4, BeginKeepsStore
<1>6. /\ \A h \in Handler : Idle(h)'
      /\ job.walk = {q \in Path : disk[q] # NoFile}
  BY <1>3, <1>5, ThreadAssumption DEF RepoInv, AloneOk, Idle
<1>7. Puts(p)' /\ \A q \in Path : ~Puts(q)
  BY <1>1, <1>5 DEF Puts
<1>8. CASE job.phase = "put"
  <2>1. p \in job.walk
    BY <1>8 DEF RepoInv, JobOk
  <2>2. \A q \in Path : Indexable(q) => record[q] = disk[q] \/ q \in job'.todo \/ Puts(q)'
    BY <1>2, <1>3, <1>7, <1>8 DEF RepoInv, AloneOk
  <2>3. \A q \in job'.todo : job'.read[q] \in {NoFile, disk[q]}
    BY <1>2, <1>3, <1>8 DEF RepoInv, AloneOk
  <2>4. QED
    BY <1>1, <1>2, <1>5, <1>6, <1>8, <2>1, <2>2, <2>3 DEF AloneOk, Indexable
<1>9. CASE job.phase = "delete"
  <2>1. p \notin job.walk
    BY <1>9 DEF RepoInv, JobOk
  <2>2. \A q \in Path : Indexable(q) => record[q] = disk[q]
    BY <1>3, <1>9 DEF RepoInv, AloneOk
  <2>3. \A q \in files \ job.walk : q \in job'.todo \/ Puts(q)'
    BY <1>1, <1>2, <1>3, <1>7, <1>9 DEF RepoInv, AloneOk
  <2>4. disk[p] = NoFile
    BY <1>1, <1>6, <2>1
  <2>5. QED
    BY <1>1, <1>2, <1>5, <1>6, <1>9, <2>1, <2>2, <2>3, <2>4 DEF AloneOk, Indexable
<1>10. QED
  BY <1>8, <1>9

LEMMA PutNextKeeps ==
  ASSUME RepoInv, NEW p \in Path, PutNext(p) PROVE RepoInv'
<1>1. PICK v \in Version : v = job.read[p]
  BY DEF RepoInv, RepoTypeOK, JobType
<1>2. /\ job.phase = "put" /\ p \in job.todo /\ Begin(Indexer, p, v)
      /\ job' = [job EXCEPT !.todo = @ \ {p}]
      /\ raced' = (IF Busy(p) THEN raced \cup {p} ELSE raced)
      /\ UNCHANGED <<tree, faults, pending, unseen, lost, quiet>>
  BY <1>1 DEF PutNext
<1>3. v # NoFile /\ v \notin Unparsable
  BY <1>1, <1>2 DEF RepoInv, JobOk
<1>4. p \in Tracked => v = Parsed(disk[p])
  BY <1>1, <1>2, <1>3 DEF RepoInv, InSync, Parsed
<1>5. Alone => v = disk[p]
  BY <1>1, <1>2, <1>3 DEF RepoInv, AloneOk
<1>6. AloneOk'
  BY <1>2, <1>5, JobAlone
<1>7. QED
  BY <1>2, <1>4, <1>6, JobWrites

LEMMA DeleteNextKeeps ==
  ASSUME RepoInv, NEW p \in Path, DeleteNext(p) PROVE RepoInv'
<1>1. /\ job.phase = "delete" /\ p \in job.todo /\ Begin(Indexer, p, NoFile)
      /\ job' = [job EXCEPT !.todo = @ \ {p}]
      /\ raced' = (IF Busy(p) THEN raced \cup {p} ELSE raced)
      /\ UNCHANGED <<tree, faults, pending, unseen, lost, quiet>>
  BY DEF DeleteNext
<1>2. p \notin job.walk /\ NoFile \in Version
  BY <1>1 DEF RepoInv, JobOk, Version
<1>3. p \in Tracked => NoFile = Parsed(disk[p])
  BY <1>1, <1>2, ParsedType DEF RepoInv, InSync
<1>4. Alone => NoFile = disk[p]
  BY <1>2 DEF RepoInv, AloneOk
<1>5. AloneOk'
  BY <1>1, <1>2, <1>4, JobAlone
<1>6. QED
  BY <1>1, <1>2, <1>3, <1>5, JobWrites

-----------------------------------------------------------------------------
\* The steps that do not touch the store.
LEMMA StoreStays ==
  ASSUME RepoInv, UNCHANGED <<vars, raced>>, Alone' => Alone \/ Idle(Indexer)
  PROVE  /\ TypeOK' /\ OverlapsNoted' /\ WritesSound' /\ RestComplete'
         /\ UNCHANGED <<record, files, op, raced>>
<1>1. UNCHANGED <<record, live, terms, member, df, files, op, torn, raced>>
  BY DEF vars
<1>2. TypeOK'
  BY <1>1 DEF RepoInv, RepoTypeOK, TypeOK, Idle
<1>3. OverlapsNoted'
  BY <1>1 DEF RepoInv, OverlapsNoted, Idle
<1>4. WritesSound'
  <2> SUFFICES ASSUME NEW d \in Client
               PROVE  Apt(op'[d]) /\ (Trusted(d)' => Sound(op[d])')
    BY DEF WritesSound
  <2>1. PICK o \in OpType : o = op[d]
    BY DEF RepoInv, RepoTypeOK, TypeOK
  <2>2. Trusted(d)' => Trusted(d) \/ o.stage = "idle"
    BY <1>1, <2>1 DEF Trusted, Idle
  <2>3. op'[d] = o /\ Apt(o) /\ (Trusted(d)' => Sound(o))
    BY <1>1, <2>1, <2>2 DEF RepoInv, WritesSound, Sound, Pipeline
  <2>4. Sound(o) => Sound(o)'
    BY <1>1, DataStays
  <2>5. Sound(o)' => Sound(op[d])'
    BY <2>3 DEF Sound
  <2>6. QED
    BY <2>3, <2>4, <2>5
<1>5. RestComplete'
  <2>1. \A q \in Path : Changing(q)' <=> Changing(q)
    BY <1>1 DEF Changing
  <2>2. QED
    BY <1>1, <2>1, DataStays DEF RepoInv, RestComplete
<1>6. QED
  BY <1>1, <1>2, <1>3, <1>4, <1>5

LEMMA EditKeeps ==
  ASSUME RepoInv, NEW p \in Path, NEW v \in Version, AgentEdit(p, v) \/ OutsideEdit(p, v)
  PROVE  RepoInv'
<1>1. /\ disk' = [disk EXCEPT ![p] = v] /\ edits' \in 0..MaxEdits
      /\ pending \subseteq pending' /\ pending' \subseteq pending \cup {p}
      /\ unseen \ {p} \subseteq unseen' /\ unseen' \subseteq unseen \cup {p}
      /\ p \in pending' \/ p \in unseen'
      /\ quiet' = FALSE /\ UNCHANGED <<vars, faults, job, lost, raced>>
  BY ThreadAssumption DEF AgentEdit, OutsideEdit, RepoInv, RepoTypeOK
<1>2. /\ TypeOK' /\ OverlapsNoted' /\ WritesSound' /\ RestComplete'
      /\ UNCHANGED <<record, files, op, raced>> /\ ~Alone'
  BY <1>1, StoreStays DEF Alone
<1>3. RepoTypeOK'
  <2>1. disk' \in [Path -> Version] /\ \A q \in Path \ {p} : disk'[q] = disk[q]
    BY <1>1 DEF RepoInv, RepoTypeOK
  <2>2. pending' \in SUBSET Path /\ unseen' \in SUBSET Path
    BY <1>1 DEF RepoInv, RepoTypeOK
  <2>3. QED
    BY <1>1, <1>2, <2>1, <2>2 DEF RepoInv, RepoTypeOK
<1>4. JobOk'
  BY <1>1, <1>2 DEF RepoInv, JobOk, Idle
<1>5. InSync'
  <2>1. Tracked' \subseteq Tracked \ {p}
    BY <1>1 DEF Tracked
  <2>2. \A q \in Tracked' : disk'[q] = disk[q] /\ (Busy(q)' <=> Busy(q))
    BY <1>1, <1>2, <2>1 DEF RepoInv, RepoTypeOK, Busy, Idle, Tracked
  <2>3. QED
    BY <1>1, <1>2, <2>1, <2>2 DEF RepoInv, InSync, Idle, Parsed
<1>6. QED
  BY <1>2, <1>3, <1>4, <1>5 DEF RepoInv, AloneOk

LEMMA LoseRequestKeeps ==
  ASSUME RepoInv, NEW p \in Path, LoseRequest(p) PROVE RepoInv'
<1>1. /\ pending' = pending \ {p} /\ lost' = lost \cup {p}
      /\ faults' \in 0..MaxFaults
      /\ UNCHANGED <<vars, disk, edits, job, unseen, raced, quiet>>
  BY ThreadAssumption DEF LoseRequest, RepoInv, RepoTypeOK, tree
<1>2. /\ TypeOK' /\ OverlapsNoted' /\ WritesSound' /\ RestComplete'
      /\ UNCHANGED <<record, files, op, raced>> /\ (Alone' <=> Alone)
  BY <1>1, StoreStays DEF Alone
<1>3. RepoTypeOK'
  BY <1>1, <1>2 DEF RepoInv, RepoTypeOK
<1>4. JobOk'
  BY <1>1, <1>2 DEF RepoInv, JobOk, Idle
<1>5. InSync'
  <2>1. Tracked' \subseteq Tracked
    BY <1>1 DEF Tracked
  <2>2. \A q \in Tracked : Busy(q)' <=> Busy(q)
    BY <1>2 DEF Busy, Idle
  <2>3. QED
    BY <1>1, <1>2, <2>1, <2>2 DEF RepoInv, InSync, Idle, Parsed
<1>6. AloneOk'
  BY <1>1, <1>2 DEF RepoInv, AloneOk, Indexable, Puts, Idle
<1>7. QED
  BY <1>2, <1>3, <1>4, <1>5, <1>6 DEF RepoInv

\* A step of the job that only changes what the job remembers.
LEMMA JobMoves ==
  ASSUME RepoInv, UNCHANGED <<vars, tree, pending, unseen, lost, raced>>,
         faults' \in 0..MaxFaults, quiet' \in BOOLEAN, job' \in JobType, JobOk',
         Alone' => Alone \/ Idle(Indexer),
         \A p \in Tracked :
           /\ job'.phase \in {"parse", "put"} /\ p \in job'.todo
                /\ job'.read[p] # NoFile => job'.read[p] = disk[p]
           /\ job'.phase # "off" /\ p \notin job'.walk => disk[p] = NoFile,
         AloneOk'
  PROVE  RepoInv'
<1>1. /\ TypeOK' /\ OverlapsNoted' /\ WritesSound' /\ RestComplete'
      /\ UNCHANGED <<record, files, op, raced>>
  BY StoreStays
<1>2. UNCHANGED <<disk, edits, pending, unseen, lost>>
  BY DEF tree
<1>3. RepoTypeOK'
  BY <1>1, <1>2 DEF RepoInv, RepoTypeOK
<1>4. InSync'
  <2>1. Tracked' = Tracked
    BY <1>1, <1>2 DEF Tracked
  <2>2. \A q \in Tracked : Busy(q)' <=> Busy(q)
    BY <1>1 DEF Busy, Idle
  <2>3. QED
    BY <1>1, <1>2, <2>1, <2>2 DEF RepoInv, InSync, Idle, Parsed
<1>5. QED
  BY <1>1, <1>3, <1>4 DEF RepoInv

LEMMA StartIndexKeeps ==
  ASSUME RepoInv, StartIndex PROVE RepoInv'
<1> DEFINE walk == {p \in Path : disk[p] # NoFile}
           x == [NoJob EXCEPT !.phase = "compare", !.walk = walk, !.todo = walk]
<1>1. /\ Idle(Indexer) /\ job' = x /\ quiet' = (\A h \in Handler : Idle(h))
      /\ UNCHANGED <<vars, tree, faults, pending, unseen, lost, raced>>
      /\ UNCHANGED <<op, record, files, disk>>
  BY DEF StartIndex, vars, tree
<1>2. /\ x \in JobType /\ x.phase = "compare" /\ x.walk = walk /\ x.todo = walk
      /\ x.changed = {} /\ \A p \in Path : x.read[p] = NoFile
  BY NoJobType DEF JobType, Phase
<1> HIDE DEF x
<1>3. JobOk'
  BY <1>1, <1>2, ParsedType DEF JobOk, Idle
<1>4. AloneOk'
  <2> SUFFICES ASSUME Alone' PROVE AloneOk'
    BY DEF AloneOk
  <2>1. \A h \in Handler : Idle(h)'
    BY <1>1 DEF Alone, Idle
  <2>2. QED
    BY <1>1, <1>2, <2>1 DEF AloneOk
<1>5. faults' \in 0..MaxFaults /\ quiet' \in BOOLEAN /\ job' \in JobType
  BY <1>1, <1>2 DEF RepoInv, RepoTypeOK
<1>6. \A p \in Tracked :
        /\ job'.phase \in {"parse", "put"} /\ p \in job'.todo
             /\ job'.read[p] # NoFile => job'.read[p] = disk[p]
        /\ job'.phase # "off" /\ p \notin job'.walk => disk[p] = NoFile
  BY <1>1, <1>2 DEF Tracked
<1>7. QED
  BY <1>1, <1>3, <1>4, <1>5, <1>6, JobMoves

LEMMA CompareKeeps ==
  ASSUME RepoInv, NEW p \in Path, Compare(p) PROVE RepoInv'
<1>1. /\ job.phase = "compare" /\ p \in job.todo
      /\ job' = [job EXCEPT !.todo = @ \ {p},
                   !.changed = IF disk[p] # NoFile /\ disk[p] = record[p]
                                 THEN @ ELSE @ \cup {p}]
      /\ UNCHANGED <<vars, tree, faults, pending, unseen, lost, raced, quiet>>
      /\ UNCHANGED <<op, record, files, disk>>
  BY DEF Compare, vars, tree, notes
<1>2. /\ job' \in JobType /\ job'.phase = "compare" /\ job'.walk = job.walk
      /\ job'.todo = job.todo \ {p} /\ job'.read = job.read
      /\ job.changed \subseteq job'.changed /\ job'.changed \subseteq job.changed \cup {p}
      /\ record[p] = disk[p] \/ p \in job'.changed
  BY <1>1 DEF RepoInv, RepoTypeOK, JobType
<1>3. JobOk'
  BY <1>1, <1>2 DEF RepoInv, JobOk, Idle
<1>4. AloneOk'
  BY <1>1, <1>2 DEF RepoInv, AloneOk, Alone, Idle
<1>5. \A q \in Tracked : q \notin job'.walk => disk[q] = NoFile
  BY <1>1, <1>2 DEF RepoInv, InSync
<1>6. QED
  BY <1>1, <1>2, <1>3, <1>4, <1>5, JobMoves DEF RepoInv, RepoTypeOK, Alone

LEMMA ParseChangedKeeps ==
  ASSUME RepoInv, ParseChanged PROVE RepoInv'
<1>1. /\ job.phase = "compare" /\ job.todo = {}
      /\ job' = [job EXCEPT !.phase = "parse", !.todo = job.changed, !.changed = {}]
      /\ UNCHANGED <<vars, tree, faults, pending, unseen, lost, raced, quiet>>
      /\ UNCHANGED <<op, record, files, disk>>
  BY DEF ParseChanged, vars, tree, notes
<1>2. /\ job' \in JobType /\ job'.phase = "parse" /\ job'.walk = job.walk
      /\ job'.todo = job.changed /\ job'.read = job.read /\ job'.changed = {}
      /\ \A q \in Path : job.read[q] = NoFile
  BY <1>1 DEF RepoInv, RepoTypeOK, JobType, Phase, JobOk
<1>3. JobOk'
  BY <1>1, <1>2 DEF RepoInv, JobOk, Idle
<1>4. AloneOk'
  <2> SUFFICES ASSUME Alone' PROVE AloneOk'
    BY DEF AloneOk
  <2>1. Alone /\ job'.todo \in SUBSET Path
    BY <1>1, <1>2 DEF Alone, JobType
  <2>2. \A q \in Path : Indexable(q) => record[q] = disk[q] \/ q \in job'.todo
    BY <1>1, <1>2, <2>1 DEF RepoInv, AloneOk, Indexable
  <2>3. QED
    BY <1>1, <1>2, <2>1, <2>2 DEF RepoInv, AloneOk, Indexable, Idle
<1>5. \A q \in Tracked : q \notin job'.walk => disk[q] = NoFile
  BY <1>1, <1>2 DEF RepoInv, InSync
<1>6. QED
  BY <1>1, <1>2, <1>3, <1>4, <1>5, JobMoves DEF RepoInv, RepoTypeOK, Alone, Tracked

LEMMA ParseFileKeeps ==
  ASSUME RepoInv, NEW p \in Path, ParseFile(p) PROVE RepoInv'
<1>1. /\ job.phase = "parse" /\ p \in job.todo
      /\ job' = (IF Parsed(disk[p]) = NoFile
                   THEN [job EXCEPT !.todo = @ \ {p}]
                   ELSE [job EXCEPT !.read[p] = disk[p]])
      /\ UNCHANGED <<vars, tree, faults, pending, unseen, lost, raced, quiet>>
      /\ UNCHANGED <<op, record, files, disk>>
  BY DEF ParseFile, vars, tree, notes
<1>2. /\ job' \in JobType /\ job'.phase = "parse" /\ job'.walk = job.walk
      /\ job'.changed = job.changed /\ job'.todo \subseteq job.todo
      /\ \A q \in Path : job'.read[q] = job.read[q] \/ job'.read[q] = disk[q]
      /\ \A q \in Path \ {p} : job'.read[q] = job.read[q]
      /\ Indexable(p) => job'.todo = job.todo
      /\ job.todo \ {p} \subseteq job'.todo
      /\ job'.read[p] \notin Unparsable \/ job'.read[p] = job.read[p]
  BY <1>1 DEF RepoInv, RepoTypeOK, JobType, Indexable, Parsed
<1>3. JobOk'
  BY <1>1, <1>2 DEF RepoInv, JobOk, Idle
<1>4. AloneOk'
  <2> SUFFICES ASSUME Alone' PROVE AloneOk'
    BY DEF AloneOk
  <2>1. Alone /\ job'.todo \in SUBSET Path
    BY <1>1, <1>2 DEF Alone, JobType
  <2>2. \A q \in Path : Indexable(q) => record[q] = disk[q] \/ q \in job'.todo
    BY <1>1, <1>2, <2>1 DEF RepoInv, AloneOk
  <2>3. QED
    BY <1>1, <1>2, <2>1, <2>2 DEF RepoInv, AloneOk, Indexable, Idle
<1>5. \A q \in Tracked :
        /\ q \in job'.todo /\ job'.read[q] # NoFile => job'.read[q] = disk[q]
        /\ q \notin job'.walk => disk[q] = NoFile
  BY <1>1, <1>2 DEF RepoInv, InSync, Tracked
<1>6. QED
  BY <1>1, <1>2, <1>3, <1>4, <1>5, JobMoves DEF RepoInv, RepoTypeOK, Alone

LEMMA PutAllKeeps ==
  ASSUME RepoInv, PutAll PROVE RepoInv'
<1>1. /\ job.phase = "parse" /\ \A p \in job.todo : job.read[p] # NoFile
      /\ job' = [job EXCEPT !.phase = "put"]
      /\ UNCHANGED <<vars, tree, faults, pending, unseen, lost, raced, quiet>>
      /\ UNCHANGED <<op, record, files, disk>>
  BY DEF PutAll, vars, tree, notes
<1>2. /\ job' \in JobType /\ job'.phase = "put" /\ job'.walk = job.walk
      /\ job'.todo = job.todo /\ job'.read = job.read /\ job'.changed = job.changed
      /\ Idle(Indexer)
  BY <1>1 DEF RepoInv, RepoTypeOK, JobType, Phase, JobOk
<1>3. JobOk'
  BY <1>1, <1>2 DEF RepoInv, JobOk
<1>4. AloneOk'
  <2> SUFFICES ASSUME Alone' PROVE AloneOk'
    BY DEF AloneOk
  <2>1. Alone
    BY <1>1 DEF Alone
  <2>2. QED
    BY <1>1, <1>2, <2>1 DEF RepoInv, AloneOk, Indexable, Idle
<1>5. \A q \in Tracked :
        /\ q \in job'.todo /\ job'.read[q] # NoFile => job'.read[q] = disk[q]
        /\ q \notin job'.walk => disk[q] = NoFile
  BY <1>1, <1>2 DEF RepoInv, InSync
<1>6. QED
  BY <1>1, <1>2, <1>3, <1>4, <1>5, JobMoves DEF RepoInv, RepoTypeOK, Alone

LEMMA ListFilesKeeps ==
  ASSUME RepoInv, ListFiles PROVE RepoInv'
<1>1. /\ job.phase = "put" /\ job.todo = {} /\ Idle(Indexer)
      /\ job' = [job EXCEPT !.phase = "delete", !.todo = files \ job.walk]
      /\ UNCHANGED <<vars, tree, faults, pending, unseen, lost, raced, quiet>>
      /\ UNCHANGED <<op, record, files, disk>>
  BY DEF ListFiles, vars, tree, notes
<1>2. /\ job' \in JobType /\ job'.phase = "delete" /\ job'.walk = job.walk
      /\ job'.todo = files \ job.walk /\ job'.read = job.read
      /\ job'.changed = job.changed
  BY <1>1 DEF RepoInv, RepoTypeOK, TypeOK, JobType, Phase
<1>3. JobOk'
  BY <1>1, <1>2 DEF RepoInv, JobOk
<1>4. AloneOk'
  <2> SUFFICES ASSUME Alone' PROVE AloneOk'
    BY DEF AloneOk
  <2>1. Alone
    BY <1>1 DEF Alone
  <2>2. \A q \in Path : Indexable(q) => record[q] = disk[q]
    BY <1>1, <2>1 DEF RepoInv, AloneOk, Puts
  <2>3. QED
    BY <1>1, <1>2, <2>1, <2>2 DEF RepoInv, AloneOk, Indexable, Idle
<1>5. \A q \in Tracked : q \notin job'.walk => disk[q] = NoFile
  BY <1>1, <1>2 DEF RepoInv, InSync
<1>6. QED
  BY <1>1, <1>2, <1>3, <1>4, <1>5, JobMoves DEF RepoInv, RepoTypeOK, Alone

LEMMA JobEndKeeps ==
  ASSUME RepoInv, EndIndex \/ AbortIndex PROVE RepoInv'
<1>1. /\ Idle(Indexer) /\ job' = NoJob /\ UNCHANGED op
      /\ UNCHANGED <<vars, tree, pending, unseen, lost, raced>>
  BY DEF EndIndex, AbortIndex, notes, vars
<1>2. quiet' \in BOOLEAN
  BY DEF EndIndex, AbortIndex, RepoInv, RepoTypeOK, notes
<1>3. faults' \in 0..MaxFaults
  BY ThreadAssumption DEF EndIndex, AbortIndex, RepoInv, RepoTypeOK
<1>4. JobOk'
  BY <1>1, NoJobType, ParsedType DEF JobOk, Idle
<1>5. QED
  BY <1>1, <1>2, <1>3, <1>4, NoJobType, JobMoves DEF AloneOk, Alone

-----------------------------------------------------------------------------
LEMMA RepoInitOk == RepoInit => RepoInv
<1> SUFFICES ASSUME RepoInit PROVE RepoInv
  OBVIOUS
<1>1. \A c \in Client : op[c] = NoOp
  BY DEF RepoInit, Init
<1>2. TypeOK
  BY <1>1, NoOpType DEF RepoInit, Init, TypeOK, Version, Idle
<1>3. RepoTypeOK
  <2>1. quiet \in BOOLEAN
    BY DEF RepoInit
  <2>2. edits \in 0..MaxEdits /\ faults \in 0..MaxFaults
    BY ThreadAssumption DEF RepoInit
  <2>3. /\ pending \in SUBSET Path /\ unseen \in SUBSET Path
        /\ lost \in SUBSET Path /\ raced \in SUBSET Path
    BY DEF RepoInit
  <2>4. QED
    BY <1>2, <2>1, <2>2, <2>3, NoJobType DEF RepoInit, RepoTypeOK
<1>4. JobOk /\ OverlapsNoted /\ WritesSound
  BY <1>1, NoOpType, NoJobType, ParsedType, ThreadAssumption
  DEF RepoInit, JobOk, OverlapsNoted, WritesSound, Apt, Sound, Idle, Pipeline
<1>5. RestComplete
  BY DEF RepoInit, Init, RestComplete, Complete, Bodies
<1>6. InSync
  <2>1. \A p \in Tracked : disk[p] = NoFile
    BY DEF RepoInit, Tracked
  <2>2. \A p \in Tracked : record[p] = Parsed(disk[p])
    BY <2>1, ParsedType DEF RepoInit, Init, Tracked
  <2>3. QED
    BY <1>1, <2>2, NoOpType, NoJobType DEF RepoInit, InSync, Idle
<1>7. AloneOk
  BY DEF RepoInit, AloneOk, Alone
<1>8. QED
  BY <1>3, <1>4, <1>5, <1>6, <1>7 DEF RepoInv

LEMMA RepoNextKeeps == RepoInv /\ [RepoNext]_repoVars => RepoInv'
<1> SUFFICES ASSUME RepoInv, [RepoNext]_repoVars PROVE RepoInv'
  OBVIOUS
<1>1. CASE \E p \in Path, v \in Version : AgentEdit(p, v) \/ OutsideEdit(p, v)
  BY <1>1, EditKeeps
<1>2. CASE \E p \in Path : LoseRequest(p)
  BY <1>2, LoseRequestKeeps
<1>3. CASE \E h \in Handler, p \in Path : ReindexFile(h, p)
  BY <1>3, ReindexFileKeeps
<1>4. CASE StartIndex \/ AbortIndex
  BY <1>4, StartIndexKeeps, JobEndKeeps
<1>5. CASE JobStep
  BY <1>5, CompareKeeps, ParseFileKeeps, PutNextKeeps, DeleteNextKeeps,
     ParseChangedKeeps, PutAllKeeps, ListFilesKeeps, JobEndKeeps DEF JobStep
<1>6. CASE \E c \in Client : StoreStep(c) \/ StoreError(c)
  BY <1>6, StoreStepKeeps, StoreErrorKeeps
<1>7. CASE UNCHANGED repoVars
  <2>1. UNCHANGED <<vars, tree, faults, pending, job, unseen, lost, raced, quiet>>
    BY <1>7 DEF repoVars, tree, notes
  <2>2. UNCHANGED <<op, record, files, disk>>
    BY <2>1 DEF vars, tree
  <2>3. JobOk' /\ AloneOk'
    BY <2>1, <2>2 DEF RepoInv, JobOk, AloneOk, Alone, Puts, Indexable, Idle
  <2>4. QED
    BY <2>1, <2>3, JobMoves DEF RepoInv, RepoTypeOK, InSync, Alone
<1>8. QED
  BY <1>1, <1>2, <1>3, <1>4, <1>5, <1>6, <1>7 DEF RepoNext

LEMMA RepoInvariance == RepoSpec => []RepoInv
BY RepoInitOk, RepoNextKeeps, PTL DEF RepoSpec

(* The store, the working tree, the requests, the job and the notes kept   *)
(* of them have their types.                                               *)
THEOREM RepoTypeCorrect == RepoSpec => []RepoTypeOK
<1>1. RepoInv => RepoTypeOK
  BY DEF RepoInv
<1>2. QED
  BY <1>1, RepoInvariance, PTL

(* ReindexFile and index_repo, however they interleave: the record of a    *)
(* path follows the agent's edits wherever their writes did not overlap.   *)
THEOREM RecordsFollowEdits == RepoSpec => []UnracedInSync
<1>1. RepoInv => UnracedInSync
  <2> SUFFICES ASSUME RepoInv, Calm, NEW p \in Tracked
               PROVE  record[p] = Parsed(disk[p])
    BY DEF UnracedInSync, Tracked
  <2>1. ~Busy(p)
    BY DEF Calm, Busy
  <2>2. QED
    BY <2>1 DEF RepoInv, InSync
<1>2. QED
  BY <1>1, RepoInvariance, PTL

(* ... and the chunks of its recorded content are all stored, wherever the *)
(* writes did not overlap and the last one did not fail.                   *)
THEOREM NoOverlapNoLoss == RepoSpec => []UnracedComplete
<1>1. RepoInv => UnracedComplete
  <2> SUFFICES ASSUME RepoInv, NEW p \in Path \ raced, Settled(p)
               PROVE  Complete(p)
    BY DEF UnracedComplete, Complete
  <2>1. ~Changing(p) /\ p \notin torn
    BY DEF Settled, Busy, Changing, Idle, Pipeline
  <2>2. QED
    BY <2>1 DEF RepoInv, RestComplete
<1>2. QED
  BY <1>1, RepoInvariance, PTL

(* A full index that ran alone repairs what races and failures left: every *)
(* indexable file is recorded as it is on disk, no missing file is listed. *)
THEOREM QuietIndexRepairs == RepoSpec => QuietIndexSyncs
<1>1. RepoInv /\ EndIndex /\ quiet =>
        \A p \in Path : /\ Indexable(p) => record[p] = disk[p]
                        /\ disk[p] = NoFile => p \notin files
  <2> SUFFICES ASSUME RepoInv, EndIndex, quiet, NEW p \in Path
               PROVE  /\ Indexable(p) => record[p] = disk[p]
                      /\ disk[p] = NoFile => p \notin files
    OBVIOUS
  <2>1. job.phase = "delete" /\ job.todo = {} /\ Idle(Indexer) /\ Alone
    BY DEF EndIndex, Alone
  <2>2. QED
    BY <2>1 DEF RepoInv, AloneOk, Puts
<1>2. QED
  BY <1>1, RepoInvariance, PTL DEF QuietIndexSyncs, RepoSpec

-----------------------------------------------------------------------------
(***************************************************************************)
(* Chunker.                                                                *)
(***************************************************************************)
(***************************************************************************)
(* Segments in order.                                                       *)
(***************************************************************************)
Affinity == {"either", "fwd", "back"}
Segment == [start : Nat, end : Nat, affinity : Affinity]

Piece(s) == s \in Segment /\ s.start <= s.end /\ s.end - s.start < MaxLines

\* Segments that come one after the other, on the rows from a to b.
Pieces(q, a, b) ==
  /\ q \in Seq(Segment)
  /\ \A i \in 1..Len(q) : Piece(q[i]) /\ a <= q[i].start /\ q[i].end <= b
  /\ \A i, j \in 1..Len(q) : i < j => q[i].end < q[j].start

LEMMA Bounds == MaxLines \in Nat \ {0} /\ MinLines \in Nat \ {0} /\ Window \in Nat \ {0}
BY ChunkerAssumption

LEMMA FileIs ==
  ASSUME NEW f \in File
  PROVE  /\ EndRow(f) \in Int /\ -1 <= EndRow(f)
         /\ f.tree # <<>> => f.tree[1] \in TreeNode
BY ChunkerAssumption DEF EndRow

LEMMA SegIs ==
  ASSUME NEW a \in Nat, NEW b \in Nat, NEW f \in Affinity
  PROVE  Seg(a, b, f) \in Segment /\ Seg(a, b, f).start = a /\ Seg(a, b, f).end = b
BY DEF Seg, Segment

LEMMA NoPieces == \A a, b : Pieces(<<>>, a, b)
BY DEF Pieces

LEMMA OnePiece ==
  ASSUME NEW s, Piece(s), NEW a \in Int, NEW b \in Int, a <= s.start, s.end <= b
  PROVE  Pieces(<<s>>, a, b)
<1>1. s \in Segment
  BY DEF Piece
<1>2. <<s>> \in Seq(Segment) /\ Len(<<s>>) = 1 /\ <<s>>[1] = s
  BY <1>1
<1>3. PICK q : q = <<s>>
  OBVIOUS
<1>4. \A i \in 1..Len(q) : i = 1 /\ q[i] = s
  BY <1>2, <1>3
<1>5. \A i, j \in 1..Len(q) : ~(i < j)
  BY <1>4
<1>6. Pieces(q, a, b)
  BY <1>2, <1>3, <1>4, <1>5 DEF Pieces
<1>7. QED BY <1>3, <1>6

LEMMA PiecesWider ==
  ASSUME NEW q, NEW a \in Int, NEW b \in Int, NEW c \in Int, NEW d \in Int,
         Pieces(q, a, b), c <= a, b <= d
  PROVE  Pieces(q, c, d)
<1>1. ASSUME NEW i \in 1..Len(q) PROVE c <= q[i].start /\ q[i].end <= d
  <2>1. Piece(q[i]) /\ a <= q[i].start /\ q[i].end <= b
    BY DEF Pieces
  <2>2. q[i].start \in Int /\ q[i].end \in Int
    BY <2>1 DEF Piece, Segment
  <2>3. QED BY <2>1, <2>2
<1>2. QED BY <1>1 DEF Pieces

LEMMA PiecesJoin ==
  ASSUME NEW q, NEW r, NEW a \in Int, NEW b \in Int, NEW c \in Int,
         Pieces(q, a, b - 1), Pieces(r, b, c), a <= b, b <= c + 1
  PROVE  Pieces(q \o r, a, c)
<1>1. q \in Seq(Segment) /\ r \in Seq(Segment)
  BY DEF Pieces
<1>2. PICK m \in Nat, n \in Nat : m = Len(q) /\ n = Len(r)
  BY <1>1
<1>3. PICK s : s = q \o r
  OBVIOUS
<1>4. /\ s \in Seq(Segment) /\ Len(s) = m + n
      /\ \A i \in 1..m : s[i] = q[i]
      /\ \A i \in 1..(m + n) : i > m => s[i] = r[i - m]
  BY <1>1, <1>2, <1>3
<1>5. \A i \in 1..m : /\ Piece(q[i]) /\ a <= q[i].start /\ q[i].end <= b - 1
                      /\ q[i].start \in Int /\ q[i].end \in Int
  BY <1>2 DEF Pieces, Piece, Segment
<1>6. \A i \in 1..n : /\ Piece(r[i]) /\ b <= r[i].start /\ r[i].end <= c
                      /\ r[i].start \in Int /\ r[i].end \in Int
  BY <1>2 DEF Pieces, Piece, Segment
<1>7. \A i \in 1..(m + n) : i \in 1..m \/ (i > m /\ i - m \in 1..n)
  OBVIOUS
<1>8. ASSUME NEW i \in 1..(m + n) PROVE Piece(s[i]) /\ a <= s[i].start /\ s[i].end <= c
  <2>1. CASE i \in 1..m
    <3>1. s[i] = q[i]
      BY <1>4, <2>1
    <3>2. Piece(q[i]) /\ a <= q[i].start /\ q[i].end <= b - 1 /\ q[i].end \in Int
      BY <1>5, <2>1
    <3>3. q[i].end <= c
      BY <3>2
    <3>4. QED BY <3>1, <3>2, <3>3, Zenon
  <2>2. CASE i > m /\ i - m \in 1..n
    <3>1. PICK k \in 1..n : k = i - m
      BY <2>2
    <3>2. s[i] = r[k]
      BY <1>4, <2>2, <3>1
    <3>3. QED BY <1>6, <3>2
  <2>3. QED BY <1>7, <2>1, <2>2
<1>9. ASSUME NEW i \in 1..(m + n), NEW j \in 1..(m + n), i < j PROVE s[i].end < s[j].start
  <2>1. CASE j \in 1..m
    <3>1. i \in 1..m
      BY <1>9, <2>1
    <3>2. QED BY <1>2, <1>4, <1>9, <2>1, <3>1 DEF Pieces
  <2>2. CASE i \in 1..m /\ j > m
    <3>1. PICK k \in 1..n : k = j - m
      BY <1>7, <2>2
    <3>2. s[j] = r[k] /\ s[i] = q[i]
      BY <1>4, <2>2, <3>1
    <3>3. PICK x \in Int, y \in Int : x = q[i].end /\ y = r[k].start
      BY <1>5, <1>6, <2>2
    <3>4. x <= b - 1 /\ b <= y
      BY <1>5, <1>6, <2>2, <3>3
    <3>5. x < y
      BY <3>4
    <3>6. QED BY <3>2, <3>3, <3>5, Zenon
  <2>3. CASE i > m
    <3>1. PICK k \in 1..n, l \in 1..n : k = i - m /\ l = j - m
      BY <1>7, <1>9, <2>3
    <3>2. s[j] = r[l] /\ s[i] = r[k] /\ k < l
      BY <1>4, <1>9, <2>3, <3>1
    <3>3. QED BY <1>2, <3>2 DEF Pieces
  <2>4. QED BY <1>7, <1>9, <2>1, <2>2, <2>3
<1>10. Pieces(s, a, c)
  BY <1>4, <1>8, <1>9 DEF Pieces
<1>11. QED BY <1>3, <1>10

\* The rows from a to b, cut every MaxLines rows, are pieces.
LEMMA CutIs ==
  ASSUME NEW a \in Nat, NEW b \in Nat
  PROVE  Pieces(Cut(a, b), a, b)
<1>1. PICK M \in Nat \ {0} : M = MaxLines
  BY Bounds
<1>2. PICK n : n = (b - a + M) \div M
  OBVIOUS
<1>3. n \in Int /\ \A i \in 1..n : (i - 1) * M <= b - a
  <2>1. CASE b - a + M < 0
    <3>1. n \in Int /\ n < 0
      BY <1>2, <2>1
    <3>2. QED BY <3>1
  <2>2. CASE b - a + M >= 0
    <3>1. n \in Nat /\ M * n <= b - a + M
      BY <1>2, <2>2, Division
    <3>2. ASSUME NEW i \in 1..n PROVE (i - 1) * M <= b - a
      <4>1. M * i <= M * n
        BY <3>1, Products
      <4>2. M * i = (i - 1) * M + M /\ (i - 1) * M \in Int /\ M * n \in Int
        BY <3>1
      <4>3. QED BY <3>1, <4>1, <4>2
    <3>3. QED BY <3>1, <3>2
  <2>3. QED BY <2>1, <2>2
<1>4. PICK q : q = Cut(a, b)
  OBVIOUS
<1>5. q = [i \in 1..n |-> Seg(a + (i - 1) * M, Lesser(a + i * M - 1, b), "either")]
  BY <1>1, <1>2, <1>4 DEF Cut
<1>6. ASSUME NEW i \in 1..n
      PROVE  /\ Piece(q[i]) /\ q[i].start = a + (i - 1) * M /\ a <= q[i].start /\ q[i].end <= b
             /\ q[i].end <= a + i * M - 1
  <2>1. PICK x \in Nat, y \in Nat : x = a + (i - 1) * M /\ y = a + i * M - 1
    <3>1. i * M \in Nat /\ (i - 1) * M \in Nat /\ i * M = (i - 1) * M + M
      BY <1>3
    <3>2. QED BY <3>1
  <2>2. y = x + M - 1 /\ x <= b /\ a <= x
    <3>1. (i - 1) * M <= b - a /\ (i - 1) * M \in Nat /\ i * M = (i - 1) * M + M
      BY <1>3
    <3>2. QED BY <2>1, <3>1
  <2>3. q[i] = Seg(x, Lesser(y, b), "either")
    BY <1>5, <2>1
  <2>4. Lesser(y, b) \in Nat /\ Lesser(y, b) <= b /\ Lesser(y, b) <= y /\ x <= Lesser(y, b)
    BY <2>2 DEF Lesser
  <2>5. q[i] \in Segment /\ q[i].start = x /\ q[i].end = Lesser(y, b)
    BY <2>3, <2>4, SegIs DEF Affinity
  <2>6. QED BY <1>1, <2>1, <2>2, <2>4, <2>5 DEF Piece
<1>7. q \in Seq(Segment) /\ \A i \in 1..Len(q) : i \in 1..n
  <2>1. CASE n \in Nat
    <3>1. \A i \in 1..n : q[i] \in Segment
      BY <1>6 DEF Piece
    <3>2. q \in [1..n -> Segment]
      BY <1>5, <3>1
    <3>3. QED BY <2>1, <3>2
  <2>2. CASE n \notin Nat
    <3>1. 1..n = {}
      BY <1>3, <2>2
    <3>2. q = <<>>
      BY <1>5, <3>1
    <3>3. QED BY <3>2
  <2>3. QED BY <2>1, <2>2
<1>8. ASSUME NEW i \in 1..n, NEW j \in 1..n, i < j PROVE q[i].end < q[j].start
  <2>1. M * i <= M * (j - 1)
    BY <1>3, <1>8, Products
  <2>2. i * M = M * i /\ (j - 1) * M = M * (j - 1) /\ M * i \in Int /\ M * (j - 1) \in Int
    BY <1>3
  <2>3. q[i].end <= a + i * M - 1 /\ q[j].start = a + (j - 1) * M /\ q[i].end \in Int
    BY <1>6 DEF Piece, Segment
  <2>4. QED BY <2>1, <2>2, <2>3
<1>9. Pieces(q, a, b)
  BY <1>6, <1>7, <1>8 DEF Pieces
<1>10. QED BY <1>4, <1>9

-----------------------------------------------------------------------------
(***************************************************************************)
(* The units of a node.                                                     *)
(***************************************************************************)
LEMMA LeastOf ==
  ASSUME NEW T, T \subseteq Nat, T # {}
  PROVE  Min(T) \in T /\ \A i \in T : Min(T) <= i
<1>1. PICK m \in T : \A i \in T : m <= i
  BY LeastNumber
<1>2. PICK x : x = Min(T)
  OBVIOUS
<1>3. x \in T /\ \A i \in T : x <= i
  BY <1>1, <1>2 DEF Min
<1>4. QED BY <1>2, <1>3

LEMMA LargestIn ==
  ASSUME NEW a \in Int, NEW b \in Int, NEW T \in SUBSET (a..b), T # {}
  PROVE  Max(T) \in T /\ \A i \in T : i <= Max(T)
<1>1. IsFiniteSet(a..b)
  BY FS_Interval
<1>2. IsFiniteSet(T)
  BY <1>1, FS_Subset
<1>3. T \subseteq Int
  OBVIOUS
<1>4. QED BY <1>2, <1>3, LargestOf

LEMMA ChosenRises ==
  ASSUME NEW T, IsFiniteSet(T), T \subseteq Int
  PROVE  /\ Cardinality(T) \in Nat
         /\ \A i \in 1..Cardinality(T) : Chosen(T, i) \in T
         /\ \A i, j \in 1..Cardinality(T) : i < j => Chosen(T, i) < Chosen(T, j)
<1>1. /\ Cardinality(T) \in Nat
      /\ \A k \in 1..Cardinality(T) : Chosen(T, k) \in T /\ Place(T, Chosen(T, k)) = k
      /\ \A i, j \in T : i <= j <=> Place(T, i) <= Place(T, j)
  BY PlacesAre
<1>2. ASSUME NEW i \in 1..Cardinality(T), NEW j \in 1..Cardinality(T), i < j
      PROVE  Chosen(T, i) < Chosen(T, j)
  <2>1. PICK a \in T, b \in T : a = Chosen(T, i) /\ b = Chosen(T, j)
    BY <1>1
  <2>2. Place(T, a) = i /\ Place(T, b) = j
    BY <1>1, <2>1
  <2>3. b <= a <=> j <= i
    BY <1>1, <2>2
  <2>4. a \in Int /\ b \in Int
    OBVIOUS
  <2>5. QED BY <1>2, <2>1, <2>3, <2>4
<1>3. QED BY <1>1, <1>2

LEMMA NodeIs ==
  ASSUME NEW n \in TreeNode
  PROVE  /\ n.start \in Nat /\ n.end \in Nat /\ n.kids \in Seq(TreeNode)
         /\ \A i \in DOMAIN n.kids : n.kids[i].end <= n.end
BY ChunkerAssumption

\* Where the rows of the child i start.
FirstFree(kids, floor, i) ==
  Max({kids[i].start, floor} \cup {kids[j].end + 1 : j \in 1..(i - 1)})

LEMMA FirstFreeIs ==
  ASSUME NEW kids \in Seq(TreeNode), NEW floor \in Nat, NEW i \in DOMAIN kids
  PROVE  /\ FirstFree(kids, floor, i) \in Nat /\ floor <= FirstFree(kids, floor, i)
         /\ \A j \in 1..(i - 1) : kids[j].end < FirstFree(kids, floor, i)
<1>1. i \in Nat /\ \A j \in 1..(i - 1) : j \in DOMAIN kids
  OBVIOUS
<1>2. \A j \in DOMAIN kids : kids[j].start \in Nat /\ kids[j].end \in Nat
  BY NodeIs
<1>3. PICK f : f = [j \in 1..(i - 1) |-> kids[j].end + 1]
  OBVIOUS
<1>4. PICK E : E = {f[j] : j \in 1..(i - 1)}
  OBVIOUS
<1>5. IsFiniteSet(1..(i - 1)) /\ DOMAIN f = 1..(i - 1) /\ f = [j \in 1..(i - 1) |-> f[j]]
  <2>1. IsFiniteSet(1..(i - 1))
    BY <1>1, FS_Interval
  <2>2. DOMAIN f = 1..(i - 1) /\ f = [j \in 1..(i - 1) |-> f[j]]
    BY <1>3
  <2>3. QED BY <2>1, <2>2
<1>6. IsFiniteSet(E)
  BY <1>4, <1>5, FiniteImage
<1>7. PICK T : T = {kids[i].start, floor} \cup E
  OBVIOUS
<1>8. IsFiniteSet({kids[i].start, floor})
  <2>1. {kids[i].start, floor} = {kids[i].start} \cup {floor}
    OBVIOUS
  <2>2. IsFiniteSet({kids[i].start}) /\ IsFiniteSet({floor})
    BY FS_Singleton
  <2>3. QED BY <2>1, <2>2, FS_Union
<1>9. IsFiniteSet(T)
  BY <1>6, <1>7, <1>8, FS_Union
<1>10. T \subseteq Nat /\ floor \in T /\ \A j \in 1..(i - 1) : kids[j].end + 1 \in T
  BY <1>1, <1>2, <1>3, <1>4, <1>7
<1>11. Max(T) \in T /\ \A x \in T : x <= Max(T)
  <2>1. T \subseteq Int /\ T # {}
    BY <1>10
  <2>2. QED BY <1>9, <2>1, LargestOf
<1>12. FirstFree(kids, floor, i) = Max(T)
  BY <1>3, <1>4, <1>7 DEF FirstFree
<1>13. ASSUME NEW j \in 1..(i - 1) PROVE kids[j].end < Max(T)
  <2>1. kids[j].end + 1 <= Max(T) /\ kids[j].end \in Nat /\ Max(T) \in Nat
    BY <1>1, <1>2, <1>10, <1>11
  <2>2. QED BY <2>1
<1>14. QED BY <1>10, <1>11, <1>12, <1>13

\* A child on the rows it has left.
OwnRows == [node : TreeNode, end : Nat, start : Nat]

\* Children in order on rows from a to b, each ended where it ends or the file does.
InRows(ks, a, b, last) ==
  /\ ks \in Seq(OwnRows)
  /\ \A i \in 1..Len(ks) : /\ a <= ks[i].start /\ ks[i].start <= ks[i].end /\ ks[i].end <= b
                           /\ ks[i].end = Lesser(ks[i].node.end, last)
  /\ \A i, j \in 1..Len(ks) : i < j => ks[i].end < ks[j].start

LEMMA OwnedIs ==
  ASSUME NEW node \in TreeNode, NEW floor \in Nat, NEW last \in Int
  PROVE  InRows(Owned(node, floor, last), floor, Lesser(node.end, last), last)
<1>1. PICK kids : kids = node.kids
  OBVIOUS
<1>2. kids \in Seq(TreeNode) /\ \A i \in DOMAIN kids : kids[i].end <= node.end
  BY <1>1, NodeIs
<1>3. PICK own : own = [i \in DOMAIN kids |->
                          [node |-> kids[i], end |-> Lesser(kids[i].end, last),
                           start |-> FirstFree(kids, floor, i)]]
  OBVIOUS
<1>4. PICK T : T = {i \in DOMAIN kids : own[i].start <= own[i].end}
  OBVIOUS
<1>5. PICK ks : ks = Owned(node, floor, last)
  OBVIOUS
<1>6. ks = At(own, T)
  <2>1. DOMAIN own = DOMAIN kids
    BY <1>3
  <2>2. T = {i \in DOMAIN own : own[i].start <= own[i].end}
    BY <1>4, <2>1
  <2>3. QED BY <1>1, <1>3, <1>5, <2>2 DEF Owned, FirstFree
<1>7. PICK n \in Nat : n = Len(kids) /\ DOMAIN kids = 1..n
  BY <1>2
<1>8. T \in SUBSET (1..n)
  BY <1>4, <1>7
<1>9. IsFiniteSet(T) /\ T \subseteq Int
  <2>1. IsFiniteSet(1..n)
    BY FS_Interval
  <2>2. IsFiniteSet(T)
    BY <1>8, <2>1, FS_Subset
  <2>3. T \subseteq Int
    BY <1>8
  <2>4. QED BY <2>2, <2>3
<1>10. ASSUME NEW i \in T
       PROVE  /\ own[i] \in OwnRows /\ floor <= own[i].start /\ own[i].start <= own[i].end
              /\ own[i].end <= Lesser(node.end, last)
              /\ own[i].end = Lesser(own[i].node.end, last)
              /\ \A j \in T : j < i => own[j].end < own[i].start
  <2>1. i \in DOMAIN kids /\ kids[i] \in TreeNode
    BY <1>2, <1>7, <1>8
  <2>2. kids[i].end \in Nat /\ node.end \in Nat /\ kids[i].end <= node.end
    BY <1>2, <2>1, NodeIs
  <2>3. /\ FirstFree(kids, floor, i) \in Nat /\ floor <= FirstFree(kids, floor, i)
        /\ \A j \in 1..(i - 1) : kids[j].end < FirstFree(kids, floor, i)
    BY <1>2, <2>1, FirstFreeIs
  <2>4. /\ own[i].node = kids[i] /\ own[i].end = Lesser(kids[i].end, last)
        /\ own[i].start = FirstFree(kids, floor, i) /\ own[i].start <= own[i].end
    BY <1>3, <1>4, <2>1
  <2>5. Lesser(kids[i].end, last) \in Int /\ Lesser(kids[i].end, last) <= Lesser(node.end, last)
    BY <2>2 DEF Lesser
  <2>6. own[i].end \in Nat
    BY <2>3, <2>4, <2>5
  <2>7. own[i] \in OwnRows
    <3>1. own[i] = [node |-> kids[i], end |-> Lesser(kids[i].end, last),
                    start |-> FirstFree(kids, floor, i)]
      BY <1>3, <2>1
    <3>2. Lesser(kids[i].end, last) \in Nat
      BY <2>4, <2>6
    <3>3. QED BY <2>1, <2>3, <3>1, <3>2 DEF OwnRows
  <2>8. ASSUME NEW j \in T, j < i PROVE own[j].end < own[i].start
    <3>1. j \in DOMAIN kids /\ j \in 1..(i - 1)
      BY <1>7, <1>8, <2>8
    <3>2. own[j].end = Lesser(kids[j].end, last) /\ kids[j].end \in Nat
      BY <1>2, <1>3, <3>1, NodeIs
    <3>3. kids[j].end < own[i].start /\ own[i].start \in Nat
      BY <2>3, <2>4, <3>1
    <3>4. own[j].end <= kids[j].end /\ own[j].end \in Int
      BY <3>2 DEF Lesser
    <3>5. QED BY <3>2, <3>3, <3>4
  <2>9. QED BY <2>3, <2>4, <2>5, <2>7, <2>8
<1>11. ks \in Seq(OwnRows) /\ Len(ks) = Cardinality(T)
  <2>1. \A i \in T : own[i] \in OwnRows
    BY <1>10
  <2>2. At(own, T) \in Seq(OwnRows) /\ Len(At(own, T)) = Cardinality(T)
    BY <1>9, <2>1, AtWithin
  <2>3. QED BY <1>6, <2>2
<1>12. \A k \in 1..Cardinality(T) : ks[k] = own[Chosen(T, k)]
  <2>1. \A k \in 1..Cardinality(T) : At(own, T)[k] = own[Chosen(T, k)]
    BY <1>9, AtIs, Zenon
  <2>2. QED BY <1>6, <2>1
<1>13. /\ \A i \in 1..Cardinality(T) : Chosen(T, i) \in T
       /\ \A i, j \in 1..Cardinality(T) : i < j => Chosen(T, i) < Chosen(T, j)
  BY <1>9, ChosenRises
<1>14. InRows(ks, floor, Lesser(node.end, last), last)
  BY <1>10, <1>11, <1>12, <1>13 DEF InRows
<1>15. QED BY <1>5, <1>14

UnitRows == [start : Nat, own : Nat, end : Nat, node : TreeNode]

\* Units in order on rows from a to b; one that can be walked ends where its node does.
UnitsIn(us, a, b, last) ==
  /\ us \in Seq(UnitRows)
  /\ \A i \in 1..Len(us) : /\ a <= us[i].start /\ us[i].start <= us[i].own
                           /\ us[i].own <= us[i].end /\ us[i].end <= b
                           /\ ~us[i].node.trivia => us[i].end = Lesser(us[i].node.end, last)
  /\ \A i, j \in 1..Len(us) : i < j => us[i].end < us[j].start

Comment(ks, i) == ks[i].node.trivia
FirstOf(ks, i) == Min({j \in 1..i : \A k \in j..(i - 1) : Comment(ks, k)})
EndOf(ks, i) == Max({j \in i..Len(ks) : \A k \in i..j : Comment(ks, k)})
CarriedTo(ks, i) == ~Comment(ks, i) /\ ks[i].node.named
UnitOf(ks, i) ==
  IF Comment(ks, i)
    THEN [start |-> ks[i].start, own |-> ks[i].start, end |-> ks[EndOf(ks, i)].end,
          node |-> ks[i].node]
    ELSE [start |-> IF CarriedTo(ks, i) THEN ks[FirstOf(ks, i)].start ELSE ks[i].start,
          own |-> ks[i].start, end |-> ks[i].end, node |-> ks[i].node]
HeadsOf(ks) ==
  {i \in DOMAIN ks :
     Comment(ks, i) => /\ FirstOf(ks, i) = i
                       /\ EndOf(ks, i) = Len(ks) \/ ~CarriedTo(ks, EndOf(ks, i) + 1)}

LEMMA UnitsAre ==
  ASSUME NEW node, NEW floor, NEW last
  PROVE  LET ks == Owned(node, floor, last) IN
         Units(node, floor, last) = At([i \in DOMAIN ks |-> UnitOf(ks, i)], HeadsOf(ks))
BY DEF Units, UnitOf, HeadsOf, Comment, FirstOf, EndOf, CarriedTo

LEMMA RunOfComments ==
  ASSUME NEW ks, NEW n \in Nat, n = Len(ks), NEW i \in 1..n
  PROVE  /\ FirstOf(ks, i) \in 1..i
         /\ \A k \in FirstOf(ks, i)..(i - 1) : Comment(ks, k)
         /\ \A m \in 1..i : (\A k \in m..(i - 1) : Comment(ks, k)) => FirstOf(ks, i) <= m
         /\ Comment(ks, i) =>
              /\ EndOf(ks, i) \in i..n
              /\ \A k \in i..EndOf(ks, i) : Comment(ks, k)
              /\ \A m \in i..n : (\A k \in i..m : Comment(ks, k)) => m <= EndOf(ks, i)
<1>1. PICK c : c = [k \in 1..n |-> Comment(ks, k)]
  OBVIOUS
<1>2. PICK F : F = {j \in 1..i : \A k \in j..(i - 1) : Comment(ks, k)}
  OBVIOUS
<1>3. i \in F
  BY <1>2
<1>4. F \subseteq Nat /\ F # {}
  BY <1>2, <1>3
<1>5. Min(F) \in F /\ \A m \in F : Min(F) <= m
  BY <1>4, LeastOf
<1>6. FirstOf(ks, i) = Min(F)
  BY <1>2 DEF FirstOf
<1>7. ASSUME Comment(ks, i)
      PROVE  /\ EndOf(ks, i) \in i..n
             /\ \A k \in i..EndOf(ks, i) : Comment(ks, k)
             /\ \A m \in i..n : (\A k \in i..m : Comment(ks, k)) => m <= EndOf(ks, i)
  <2>1. PICK E : E = {j \in i..n : \A k \in i..j : Comment(ks, k)}
    OBVIOUS
  <2>2. i \in E
    <3>1. i \in i..n /\ \A k \in i..i : k = i
      OBVIOUS
    <3>2. QED BY <1>7, <2>1, <3>1
  <2>3. E \in SUBSET (i..n) /\ E # {} /\ i \in Int /\ n \in Int
    BY <2>1, <2>2
  <2>4. Max(E) \in E /\ \A m \in E : m <= Max(E)
    BY <2>3, LargestIn
  <2>5. EndOf(ks, i) = Max(E)
    BY <2>1 DEF EndOf
  <2>6. PICK e : e = Max(E)
    OBVIOUS
  <2>7. /\ e \in i..n /\ \A k \in i..e : Comment(ks, k)
        /\ \A m \in i..n : (\A k \in i..m : Comment(ks, k)) => m <= e
    BY <2>1, <2>4, <2>6
  <2>8. QED BY <2>5, <2>6, <2>7
<1>8. PICK f : f = Min(F)
  OBVIOUS
<1>9. /\ f \in 1..i /\ \A k \in f..(i - 1) : Comment(ks, k)
      /\ \A m \in 1..i : (\A k \in m..(i - 1) : Comment(ks, k)) => f <= m
  BY <1>2, <1>5, <1>8
<1>10. QED BY <1>6, <1>7, <1>8, <1>9

\* Where the unit of a head starts and ends among the children: a unit starts
\* with the first of its comments, and a run of comments of its own takes them all.
FromOf(ks, i) == IF CarriedTo(ks, i) THEN FirstOf(ks, i) ELSE i
ToOf(ks, i) == IF Comment(ks, i) THEN EndOf(ks, i) ELSE i

LEMMA HeadsApart ==
  ASSUME NEW ks, NEW n \in Nat, n = Len(ks), DOMAIN ks = 1..n,
         NEW i \in HeadsOf(ks), NEW j \in HeadsOf(ks), i < j
  PROVE  /\ FromOf(ks, i) \in 1..i /\ ToOf(ks, i) \in i..n
         /\ FromOf(ks, j) \in 1..j /\ ToOf(ks, i) < FromOf(ks, j)
<1>1. i \in 1..n /\ j \in 1..n
  BY DEF HeadsOf
<1>2. PICK fi : fi = FirstOf(ks, i)
  OBVIOUS
<1>3. PICK fj : fj = FirstOf(ks, j)
  OBVIOUS
<1>4. PICK e : e = EndOf(ks, i)
  OBVIOUS
<1>5. fi \in 1..i
  BY <1>1, <1>2, RunOfComments
<1>6. /\ fj \in 1..j /\ \A k \in fj..(j - 1) : Comment(ks, k)
      /\ \A m \in 1..j : (\A k \in m..(j - 1) : Comment(ks, k)) => fj <= m
  BY <1>1, <1>3, RunOfComments
<1>7. Comment(ks, i) =>
        /\ e \in i..n /\ \A k \in i..e : Comment(ks, k)
        /\ \A m \in i..n : (\A k \in i..m : Comment(ks, k)) => m <= e
  BY <1>1, <1>4, RunOfComments
<1>8. Comment(ks, i) => e = n \/ ~CarriedTo(ks, e + 1)
  BY <1>4 DEF HeadsOf
<1>9. Comment(ks, j) => fj = j
  BY <1>3 DEF HeadsOf
<1>10. FromOf(ks, i) \in 1..i /\ ToOf(ks, i) \in i..n /\ FromOf(ks, j) \in 1..j
  BY <1>1, <1>2, <1>3, <1>4, <1>5, <1>6, <1>7 DEF FromOf, ToOf
<1>11. CASE ~Comment(ks, i)
  <2>1. ToOf(ks, i) = i
    BY <1>11 DEF ToOf
  <2>2. fj > i
    BY <1>1, <1>6, <1>11
  <2>3. FromOf(ks, j) = fj \/ FromOf(ks, j) = j
    BY <1>3 DEF FromOf
  <2>4. QED BY <1>10, <2>1, <2>2, <2>3
<1>12. CASE Comment(ks, i)
  <2>1. ToOf(ks, i) = e /\ e \in i..n /\ \A k \in i..e : Comment(ks, k)
    BY <1>4, <1>7, <1>12 DEF ToOf
  <2>2. e < j
    <3>1. SUFFICES ASSUME j <= e PROVE FALSE
      BY <1>1, <2>1
    <3>2. Comment(ks, j) /\ \A k \in i..(j - 1) : Comment(ks, k)
      BY <1>1, <2>1, <3>1
    <3>3. fj <= i
      BY <1>1, <1>6, <3>2
    <3>4. QED BY <1>1, <1>9, <3>2, <3>3
  <2>3. CarriedTo(ks, j) => e < fj
    <3>1. SUFFICES ASSUME CarriedTo(ks, j), fj <= e PROVE FALSE
      BY <1>6, <2>1
    <3>2. ASSUME NEW k \in i..(j - 1) PROVE Comment(ks, k)
      <4>1. CASE k <= e
        BY <1>1, <2>1, <4>1
      <4>2. CASE k > e
        BY <1>1, <1>6, <2>1, <3>1, <4>2
      <4>3. QED BY <1>1, <2>1, <4>1, <4>2
    <3>3. j - 1 <= e
      BY <1>1, <1>7, <1>12, <3>2
    <3>4. e + 1 = j
      BY <1>1, <2>1, <2>2, <3>3
    <3>5. QED BY <1>1, <1>8, <1>12, <3>1, <3>4
  <2>4. QED BY <1>3, <1>10, <2>1, <2>2, <2>3 DEF FromOf
<1>13. QED BY <1>10, <1>11, <1>12

LEMMA UnitOfHead ==
  ASSUME NEW ks, NEW a \in Nat, NEW b \in Int, NEW last \in Int, InRows(ks, a, b, last),
         NEW n \in Nat, n = Len(ks), NEW i \in HeadsOf(ks)
  PROVE  /\ FromOf(ks, i) \in 1..n /\ ToOf(ks, i) \in 1..n
         /\ UnitOf(ks, i) \in UnitRows
         /\ UnitOf(ks, i).start = ks[FromOf(ks, i)].start
         /\ UnitOf(ks, i).end = ks[ToOf(ks, i)].end
         /\ a <= UnitOf(ks, i).start /\ UnitOf(ks, i).start <= UnitOf(ks, i).own
         /\ UnitOf(ks, i).own <= UnitOf(ks, i).end /\ UnitOf(ks, i).end <= b
         /\ ~UnitOf(ks, i).node.trivia =>
              UnitOf(ks, i).end = Lesser(UnitOf(ks, i).node.end, last)
<1>1. ks \in Seq(OwnRows) /\ DOMAIN ks = 1..n
  BY DEF InRows
<1>2. i \in 1..n
  BY <1>1 DEF HeadsOf
<1>3. \A k \in 1..n : /\ ks[k].node \in TreeNode /\ ks[k].start \in Nat /\ ks[k].end \in Nat
                      /\ a <= ks[k].start /\ ks[k].start <= ks[k].end /\ ks[k].end <= b
                      /\ ks[k].end = Lesser(ks[k].node.end, last)
  <2>1. \A k \in 1..n : ks[k] \in OwnRows
    BY <1>1
  <2>2. \A k \in 1..n : /\ a <= ks[k].start /\ ks[k].start <= ks[k].end /\ ks[k].end <= b
                        /\ ks[k].end = Lesser(ks[k].node.end, last)
    BY DEF InRows
  <2>3. QED BY <2>1, <2>2 DEF OwnRows
<1>4. \A k, l \in 1..n : k < l => ks[k].end < ks[l].start
  BY DEF InRows
<1>5. FirstOf(ks, i) \in 1..i /\ (Comment(ks, i) => EndOf(ks, i) \in i..n)
  BY <1>2, RunOfComments
<1>6. PICK f : f = FromOf(ks, i)
  OBVIOUS
<1>7. PICK t : t = ToOf(ks, i)
  OBVIOUS
<1>8. f \in 1..i /\ t \in i..n
  BY <1>2, <1>5, <1>6, <1>7 DEF FromOf, ToOf
<1>9. f \in 1..n /\ t \in 1..n /\ f <= i /\ i <= t
  BY <1>2, <1>8
<1>10. PICK u : u = UnitOf(ks, i)
  OBVIOUS
<1>11. u = [start |-> ks[f].start, own |-> ks[i].start, end |-> ks[t].end, node |-> ks[i].node]
  <2>1. CASE Comment(ks, i)
    <3>1. f = i /\ t = EndOf(ks, i)
      BY <1>6, <1>7, <2>1 DEF FromOf, ToOf, CarriedTo
    <3>2. QED BY <1>10, <2>1, <3>1 DEF UnitOf
  <2>2. CASE ~Comment(ks, i)
    <3>1. t = i
      BY <1>7, <2>2 DEF ToOf
    <3>2. ks[f].start = IF CarriedTo(ks, i) THEN ks[FirstOf(ks, i)].start ELSE ks[i].start
      BY <1>6 DEF FromOf
    <3>3. QED BY <1>10, <2>2, <3>1, <3>2 DEF UnitOf
  <2>3. QED BY <2>1, <2>2
<1>12. u \in UnitRows
  BY <1>2, <1>3, <1>9, <1>11 DEF UnitRows
<1>13. ks[f].start <= ks[i].start /\ ks[i].start <= ks[t].end
  <2>1. f < i => ks[f].start <= ks[f].end /\ ks[f].end < ks[i].start
    BY <1>2, <1>3, <1>4, <1>9
  <2>2. i < t => ks[i].start <= ks[i].end /\ ks[i].end < ks[t].start /\ ks[t].start <= ks[t].end
    BY <1>2, <1>3, <1>4, <1>9
  <2>3. f = i \/ f < i
    BY <1>2, <1>8
  <2>4. i = t \/ i < t
    BY <1>2, <1>8
  <2>5. ks[f].start \in Nat /\ ks[f].end \in Nat /\ ks[i].start \in Nat /\ ks[i].end \in Nat
        /\ ks[t].start \in Nat /\ ks[t].end \in Nat /\ ks[i].start <= ks[i].end
    BY <1>2, <1>3, <1>9
  <2>6. ks[f].start <= ks[i].start
    <3>1. CASE f = i
      <4>1. ks[f].start = ks[i].start /\ ks[i].start \in Nat
        BY <2>5, <3>1, Zenon
      <4>2. QED BY <4>1
    <3>2. CASE f < i
      <4>1. PICK x \in Nat, y \in Nat, z \in Nat :
              x = ks[f].start /\ y = ks[f].end /\ z = ks[i].start
        BY <2>5
      <4>2. x <= y /\ y < z
        BY <2>1, <3>2, <4>1
      <4>3. x <= z
        BY <4>2
      <4>4. QED BY <4>1, <4>3
    <3>3. QED BY <2>3, <3>1, <3>2
  <2>7. ks[i].start <= ks[t].end
    <3>1. CASE i = t
      <4>1. ks[i].start <= ks[i].end
        BY <2>5
      <4>2. QED BY <3>1, <4>1, Zenon
    <3>2. CASE i < t
      <4>1. PICK x \in Nat, y \in Nat, z \in Nat, w \in Nat :
              /\ x = ks[i].start /\ y = ks[i].end
              /\ z = ks[t].start /\ w = ks[t].end
        BY <2>5
      <4>2. x <= y /\ y < z /\ z <= w
        BY <2>2, <3>2, <4>1
      <4>3. x <= w
        BY <4>2
      <4>4. QED BY <4>1, <4>3
    <3>3. QED BY <2>4, <3>1, <3>2
  <2>8. QED BY <2>6, <2>7
<1>14. ~u.node.trivia => u.end = Lesser(u.node.end, last)
  <2>1. SUFFICES ASSUME ~Comment(ks, i) PROVE u.end = Lesser(u.node.end, last)
    BY <1>11 DEF Comment
  <2>2. t = i
    BY <1>7, <2>1 DEF ToOf
  <2>3. QED BY <1>2, <1>3, <1>11, <2>2
<1>15. a <= ks[f].start /\ ks[t].end <= b
  BY <1>3, <1>9
<1>16. u.start = ks[f].start /\ u.own = ks[i].start /\ u.end = ks[t].end
  BY <1>11
<1>17. /\ a <= u.start /\ u.start <= u.own /\ u.own <= u.end /\ u.end <= b
  BY <1>13, <1>15, <1>16
<1>18. QED BY <1>6, <1>7, <1>9, <1>10, <1>12, <1>14, <1>16, <1>17

\* The units of a node are in order on the rows the node has left.
LEMMA UnitsInOrder ==
  ASSUME NEW node \in TreeNode, NEW floor \in Nat, NEW last \in Int
  PROVE  UnitsIn(Units(node, floor, last), floor, Lesser(node.end, last), last)
<1>1. PICK ks : ks = Owned(node, floor, last)
  OBVIOUS
<1>2. PICK b \in Int : b = Lesser(node.end, last)
  BY NodeIs DEF Lesser
<1>3. InRows(ks, floor, b, last)
  BY <1>1, <1>2, OwnedIs
<1>4. PICK n \in Nat : n = Len(ks) /\ DOMAIN ks = 1..n
  BY <1>3 DEF InRows
<1>5. PICK H : H = HeadsOf(ks)
  OBVIOUS
<1>6. H \in SUBSET (1..n)
  BY <1>4, <1>5 DEF HeadsOf
<1>7. IsFiniteSet(H)
  <2>1. IsFiniteSet(1..n)
    BY FS_Interval
  <2>2. QED BY <1>6, <2>1, FS_Subset
<1>8. H \subseteq Int
  BY <1>6
<1>9. PICK q : q = [i \in DOMAIN ks |-> UnitOf(ks, i)]
  OBVIOUS
<1>10. PICK us : us = Units(node, floor, last)
  OBVIOUS
<1>11. us = At(q, H)
  BY <1>1, <1>5, <1>9, <1>10, UnitsAre
<1>12. \A i \in H : q[i] = UnitOf(ks, i)
  BY <1>4, <1>6, <1>9
<1>13. ASSUME NEW i \in H
       PROVE  /\ FromOf(ks, i) \in 1..n /\ ToOf(ks, i) \in 1..n
              /\ q[i] \in UnitRows
              /\ q[i].start = ks[FromOf(ks, i)].start /\ q[i].end = ks[ToOf(ks, i)].end
              /\ floor <= q[i].start /\ q[i].start <= q[i].own
              /\ q[i].own <= q[i].end /\ q[i].end <= b
              /\ ~q[i].node.trivia => q[i].end = Lesser(q[i].node.end, last)
  BY <1>3, <1>4, <1>5, <1>12, UnitOfHead
<1>14. ASSUME NEW i \in H, NEW j \in H, i < j PROVE q[i].end < q[j].start
  <2>1. ToOf(ks, i) < FromOf(ks, j)
    BY <1>4, <1>5, <1>14, HeadsApart
  <2>2. ks[ToOf(ks, i)].end < ks[FromOf(ks, j)].start
    BY <1>3, <1>4, <1>13, <2>1 DEF InRows
  <2>3. QED BY <1>13, <2>2
<1>15. us \in Seq(UnitRows) /\ Len(us) = Cardinality(H)
  <2>1. \A i \in H : q[i] \in UnitRows
    BY <1>13
  <2>2. At(q, H) \in Seq(UnitRows) /\ Len(At(q, H)) = Cardinality(H)
    BY <1>7, <1>8, <2>1, AtWithin
  <2>3. QED BY <1>11, <2>2
<1>16. \A k \in 1..Cardinality(H) : us[k] = q[Chosen(H, k)]
  BY <1>7, <1>8, <1>11, AtIs
<1>17. /\ \A i \in 1..Cardinality(H) : Chosen(H, i) \in H
       /\ \A i, j \in 1..Cardinality(H) : i < j => Chosen(H, i) < Chosen(H, j)
  BY <1>7, <1>8, ChosenRises
<1>18. UnitsIn(us, floor, b, last)
  <2>1. ASSUME NEW k \in 1..Len(us)
        PROVE  /\ floor <= us[k].start /\ us[k].start <= us[k].own
               /\ us[k].own <= us[k].end /\ us[k].end <= b
               /\ ~us[k].node.trivia => us[k].end = Lesser(us[k].node.end, last)
    <3>1. PICK i \in H : us[k] = q[i]
      BY <1>15, <1>16, <1>17
    <3>2. QED BY <1>13, <3>1, Zenon
  <2>2. ASSUME NEW k \in 1..Len(us), NEW l \in 1..Len(us), k < l
        PROVE  us[k].end < us[l].start
    <3>1. PICK i \in H, j \in H : us[k] = q[i] /\ us[l] = q[j] /\ i < j
      BY <1>15, <1>16, <1>17, <2>2
    <3>2. QED BY <1>14, <3>1, Zenon
  <2>3. QED BY <1>15, <2>1, <2>2 DEF UnitsIn
<1>19. QED BY <1>2, <1>10, <1>18

-----------------------------------------------------------------------------
(***************************************************************************)
(* The walk over the tree.  Its calls are on rows one after the other, the *)
(* last call's first: those of calls[k] are from g[k] to g[k + 1] - 1, what *)
(* they fill is before g[1] and from w on, what they gave out is before w. *)
(***************************************************************************)
Call == [units : Seq(UnitRows), acc : Seq(Segment), own : Seq(Nat), flushed : BOOLEAN,
         depth : Nat]

CallsFrom(cs, g, last) ==
  /\ cs \in Seq(Call) /\ g \in Seq(Nat) /\ Len(g) = Len(cs) + 1
  /\ \A k \in 1..Len(cs) : g[k] <= g[k + 1] /\ UnitsIn(cs[k].units, g[k], g[k + 1] - 1, last)
  /\ \A k \in 2..Len(cs) : cs[k].acc = <<>>

AtMostOne(q) == q = <<>> \/ \E s \in Segment : q = <<s>>

Walk(ss, cs, w, g, last) ==
  /\ CallsFrom(cs, g, last)
  /\ w \in Nat /\ w <= g[1] /\ Pieces(ss, 0, w - 1)
  /\ cs # <<>> => AtMostOne(cs[1].acc) /\ Pieces(cs[1].acc, w, g[1] - 1)

LEMMA CallsPop ==
  ASSUME NEW cs, NEW g, NEW last, CallsFrom(cs, g, last), cs # <<>>
  PROVE  /\ CallsFrom(Tail(cs), Tail(g), last)
         /\ Tail(cs) # <<>> => Tail(cs)[1].acc = <<>>
         /\ cs[1] \in Call /\ Tail(cs) \in Seq(Call) /\ Tail(g)[1] = g[2]
         /\ g[1] \in Nat /\ g[2] \in Nat /\ g[1] <= g[2]
         /\ UnitsIn(cs[1].units, g[1], g[2] - 1, last)
<1>1. cs \in Seq(Call) /\ g \in Seq(Nat) /\ Len(g) = Len(cs) + 1
  BY Zenon DEF CallsFrom
<1>2. PICK n \in Nat : n + 1 = Len(cs)
  <2>1. Len(cs) \in Nat /\ Len(cs) # 0
    BY <1>1
  <2>2. Len(cs) - 1 \in Nat /\ Len(cs) - 1 + 1 = Len(cs)
    BY <2>1
  <2>3. QED BY <2>2
<1>3. PICK d : d = Tail(cs)
  OBVIOUS
<1>4. PICK h : h = Tail(g)
  OBVIOUS
<1>5. d \in Seq(Call) /\ Len(d) = n /\ \A k \in 1..n : d[k] = cs[k + 1]
  BY <1>1, <1>2, <1>3
<1>6. h \in Seq(Nat) /\ Len(h) = n + 1 /\ \A k \in 1..(n + 1) : h[k] = g[k + 1]
  BY <1>1, <1>2, <1>4
<1>7. \A k \in 1..(n + 1) :
        g[k] <= g[k + 1] /\ UnitsIn(cs[k].units, g[k], g[k + 1] - 1, last)
  BY <1>2 DEF CallsFrom
<1>8. \A k \in 2..(n + 1) : cs[k].acc = <<>>
  BY <1>2 DEF CallsFrom
<1>9. ASSUME NEW k \in 1..n
      PROVE  h[k] <= h[k + 1] /\ UnitsIn(d[k].units, h[k], h[k + 1] - 1, last)
  <2>1. PICK l \in 1..(n + 1) : l = k + 1
    OBVIOUS
  <2>2. d[k] = cs[k + 1]
    BY <1>5
  <2>3. k \in 1..(n + 1) /\ k + 1 \in 1..(n + 1)
    OBVIOUS
  <2>4. h[k] = g[k + 1] /\ h[k + 1] = g[k + 1 + 1]
    BY <1>6, <2>3
  <2>5. g[l] <= g[l + 1] /\ UnitsIn(cs[l].units, g[l], g[l + 1] - 1, last)
    BY <1>7
  <2>6. QED BY <2>1, <2>2, <2>4, <2>5
<1>10. ASSUME NEW k \in 1..n PROVE d[k].acc = <<>>
  BY <1>5, <1>8
<1>11. CallsFrom(d, h, last)
  BY <1>5, <1>6, <1>9, <1>10 DEF CallsFrom
<1>12. d # <<>> => d[1].acc = <<>>
  BY <1>5, <1>10
<1>13. cs[1] \in Call /\ h[1] = g[2] /\ g[1] \in Nat /\ g[2] \in Nat
  BY <1>1, <1>2, <1>6
<1>14. 1 \in 1..(n + 1) /\ 1 + 1 = 2
  OBVIOUS
<1>15. g[1] <= g[2] /\ UnitsIn(cs[1].units, g[1], g[2] - 1, last)
  BY <1>7, <1>14
<1>16. QED BY <1>3, <1>4, <1>5, <1>11, <1>12, <1>13, <1>15

LEMMA CallsPush ==
  ASSUME NEW cs, NEW g, NEW last, CallsFrom(cs, g, last), cs # <<>> => cs[1].acc = <<>>,
         NEW fr \in Call, NEW c \in Nat, c <= g[1], UnitsIn(fr.units, c, g[1] - 1, last)
  PROVE  /\ CallsFrom(<<fr>> \o cs, <<c>> \o g, last)
         /\ <<fr>> \o cs # <<>> /\ (<<fr>> \o cs)[1] = fr /\ (<<c>> \o g)[1] = c
<1>1. cs \in Seq(Call) /\ g \in Seq(Nat) /\ Len(g) = Len(cs) + 1
  BY DEF CallsFrom
<1>2. PICK n \in Nat : n = Len(cs)
  BY <1>1
<1>3. PICK d : d = <<fr>> \o cs
  OBVIOUS
<1>4. PICK h : h = <<c>> \o g
  OBVIOUS
<1>5. d \in Seq(Call) /\ Len(d) = n + 1 /\ d[1] = fr /\ \A k \in 1..n : d[k + 1] = cs[k]
  BY <1>1, <1>2, <1>3
<1>6. h \in Seq(Nat) /\ Len(h) = n + 2 /\ h[1] = c /\ \A k \in 1..(n + 1) : h[k + 1] = g[k]
  BY <1>1, <1>2, <1>4
<1>7. \A k \in 1..n : g[k] <= g[k + 1] /\ UnitsIn(cs[k].units, g[k], g[k + 1] - 1, last)
  BY <1>2 DEF CallsFrom
<1>8. \A k \in 1..n : cs[k].acc = <<>>
  <2>1. \A k \in 2..n : cs[k].acc = <<>>
    BY <1>2 DEF CallsFrom
  <2>2. n # 0 => cs[1].acc = <<>>
    BY <1>1, <1>2
  <2>3. \A k \in 1..n : (k = 1 /\ n # 0) \/ k \in 2..n
    OBVIOUS
  <2>4. QED BY <2>1, <2>2, <2>3
<1>9. ASSUME NEW k \in 1..(n + 1)
      PROVE  h[k] <= h[k + 1] /\ UnitsIn(d[k].units, h[k], h[k + 1] - 1, last)
  <2>1. CASE k = 1
    <3>1. h[k] = c /\ h[k + 1] = g[1] /\ d[k] = fr
      BY <1>5, <1>6, <2>1
    <3>2. QED BY <3>1
  <2>2. CASE k # 1
    <3>1. PICK l \in 1..n : k = l + 1
      <4>1. k - 1 \in 1..n /\ k - 1 + 1 = k
        BY <2>2
      <4>2. QED BY <4>1
    <3>2. d[l + 1] = cs[l]
      BY <1>5
    <3>3. l \in 1..(n + 1) /\ l + 1 \in 1..(n + 1)
      OBVIOUS
    <3>4. h[l + 1] = g[l] /\ h[l + 1 + 1] = g[l + 1]
      BY <1>6, <3>3
    <3>5. g[l] <= g[l + 1] /\ UnitsIn(cs[l].units, g[l], g[l + 1] - 1, last)
      BY <1>7
    <3>6. QED BY <3>1, <3>2, <3>4, <3>5
  <2>3. QED BY <2>1, <2>2
<1>10. ASSUME NEW k \in 2..(n + 1) PROVE d[k].acc = <<>>
  <2>1. PICK l \in 1..n : k = l + 1
    <3>1. k - 1 \in 1..n /\ k - 1 + 1 = k
      OBVIOUS
    <3>2. QED BY <3>1
  <2>2. QED BY <1>5, <1>8, <2>1
<1>11. CallsFrom(d, h, last)
  BY <1>5, <1>6, <1>9, <1>10 DEF CallsFrom
<1>12. d # <<>>
  BY <1>5
<1>13. d[1] = fr /\ h[1] = c
  BY <1>5, <1>6
<1>14. QED BY <1>3, <1>4, <1>11, <1>12, <1>13

\* The first of the units, and those after it.
LEMMA FirstUnit ==
  ASSUME NEW us, NEW a \in Nat, NEW b \in Int, NEW last, UnitsIn(us, a, b, last), us # <<>>
  PROVE  /\ us[1] \in UnitRows /\ a <= us[1].start /\ us[1].start <= us[1].own
         /\ us[1].own <= us[1].end /\ us[1].end <= b
         /\ ~us[1].node.trivia => us[1].end = Lesser(us[1].node.end, last)
         /\ UnitsIn(Tail(us), us[1].end + 1, b, last) /\ Tail(us) \in Seq(UnitRows)
<1>1. us \in Seq(UnitRows)
  BY Zenon DEF UnitsIn
<1>2. PICK n \in Nat : n + 1 = Len(us)
  <2>1. Len(us) \in Nat /\ Len(us) # 0
    BY <1>1
  <2>2. Len(us) - 1 \in Nat /\ Len(us) - 1 + 1 = Len(us)
    BY <2>1
  <2>3. QED BY <2>2
<1>3. PICK v : v = Tail(us)
  OBVIOUS
<1>4. v \in Seq(UnitRows) /\ Len(v) = n /\ \A k \in 1..n : v[k] = us[k + 1]
  BY <1>1, <1>2, <1>3
<1>5. \A i \in 1..(n + 1) :
        /\ a <= us[i].start /\ us[i].start <= us[i].own
        /\ us[i].own <= us[i].end /\ us[i].end <= b
        /\ ~us[i].node.trivia => us[i].end = Lesser(us[i].node.end, last)
  BY <1>2 DEF UnitsIn
<1>6. \A i, j \in 1..(n + 1) : i < j => us[i].end < us[j].start
  BY <1>2 DEF UnitsIn
<1>7. \A i \in 1..(n + 1) : us[i] \in UnitRows /\ us[i].start \in Nat /\ us[i].end \in Nat
  <2>1. \A i \in 1..(n + 1) : us[i] \in UnitRows
    BY <1>1, <1>2
  <2>2. QED BY <2>1 DEF UnitRows
<1>8. 1 \in 1..(n + 1) /\ \A k \in 1..n : k + 1 \in 1..(n + 1) /\ 1 < k + 1
  OBVIOUS
<1>9. ASSUME NEW k \in 1..n
      PROVE  /\ us[1].end + 1 <= v[k].start /\ v[k].start <= v[k].own
             /\ v[k].own <= v[k].end /\ v[k].end <= b
             /\ ~v[k].node.trivia => v[k].end = Lesser(v[k].node.end, last)
  <2>1. PICK l \in 1..(n + 1) : l = k + 1 /\ v[k] = us[l] /\ 1 < l
    BY <1>4, <1>8
  <2>2. us[1].end < us[l].start /\ us[1].end \in Nat /\ us[l].start \in Nat
    BY <1>6, <1>7, <1>8, <2>1
  <2>3. us[1].end + 1 <= v[k].start
    BY <2>1, <2>2
  <2>4. QED BY <1>5, <2>1, <2>3
<1>10. ASSUME NEW k \in 1..n, NEW l \in 1..n, k < l PROVE v[k].end < v[l].start
  <2>1. v[k] = us[k + 1] /\ v[l] = us[l + 1] /\ k + 1 < l + 1
    BY <1>4, <1>10
  <2>2. QED BY <1>6, <1>8, <2>1
<1>11. UnitsIn(v, us[1].end + 1, b, last)
  BY <1>4, <1>9, <1>10 DEF UnitsIn
<1>12. QED BY <1>3, <1>4, <1>5, <1>7, <1>8, <1>11

LEMMA SegmentIs ==
  ASSUME NEW s \in Segment
  PROVE  s.start \in Nat /\ s.end \in Nat /\ s.affinity \in Affinity
BY DEF Segment

LEMMA PieceOf ==
  ASSUME NEW s, NEW a, NEW b, Pieces(<<s>>, a, b)
  PROVE  Piece(s) /\ s \in Segment /\ a <= s.start /\ s.end <= b
<1>1. PICK q : q = <<s>>
  OBVIOUS
<1>2. Len(q) = 1 /\ q[1] = s /\ 1 \in 1..Len(q)
  BY <1>1
<1>3. Piece(q[1]) /\ a <= q[1].start /\ q[1].end <= b
  BY <1>1, <1>2 DEF Pieces
<1>4. QED BY <1>2, <1>3 DEF Piece

LEMMA Affine ==
  ASSUME NEW s, NEW a \in Int, NEW b \in Int, Pieces(<<s>>, a, b), NEW f \in Affinity
  PROVE  Pieces(<<WithAffinity(s, f)>>, a, b)
<1>1. Piece(s) /\ s \in Segment /\ a <= s.start /\ s.end <= b
  BY PieceOf
<1>2. PICK t : t = WithAffinity(s, f)
  OBVIOUS
<1>3. t \in Segment /\ t.start = s.start /\ t.end = s.end
  BY <1>1, <1>2 DEF WithAffinity, Segment
<1>4. Piece(t)
  BY <1>1, <1>3 DEF Piece
<1>5. QED BY <1>1, <1>2, <1>3, <1>4, OnePiece

LEMMA AbsorbIs ==
  ASSUME NEW s \in Segment, NEW t \in Segment
  PROVE  /\ Absorb(s, t) \in Segment
         /\ Absorb(s, t).start = Lesser(s.start, t.start)
         /\ Absorb(s, t).end = Greater(s.end, t.end)
<1>1. Lesser(s.start, t.start) \in Nat /\ Greater(s.end, t.end) \in Nat
  BY SegmentIs DEF Lesser, Greater
<1>2. Absorb(s, t) = [s EXCEPT !.start = Lesser(s.start, t.start), !.end = Greater(s.end, t.end)]
  BY DEF Absorb, Segment
<1>3. PICK a \in Nat, b \in Nat : a = Lesser(s.start, t.start) /\ b = Greater(s.end, t.end)
  BY <1>1
<1>4. PICK r : r = [s EXCEPT !.start = a, !.end = b]
  OBVIOUS
<1>5. r \in Segment /\ r.start = a /\ r.end = b
  BY <1>4 DEF Segment
<1>6. QED BY <1>2, <1>3, <1>4, <1>5

LEMMA WholeIs ==
  ASSUME NEW u \in UnitRows
  PROVE  /\ u.start \in Nat /\ u.own \in Nat /\ u.end \in Nat /\ u.node \in TreeNode
         /\ Whole(u) \in Segment /\ Whole(u).start = u.start /\ Whole(u).end = u.end
<1>1. u.start \in Nat /\ u.own \in Nat /\ u.end \in Nat /\ u.node \in TreeNode
  BY DEF UnitRows
<1>2. Whole(u) \in Segment /\ Whole(u).start = u.start /\ Whole(u).end = u.end
  BY <1>1, SegIs DEF Whole, Affinity
<1>3. QED BY <1>1, <1>2

\* The next unit comes after what is being filled.
LEMMA NextUnit ==
  ASSUME NEW ss, NEW cs, NEW w, NEW g, NEW last, Walk(ss, cs, w, g, last),
         cs # <<>>, cs[1].units # <<>>, NEW u, u = cs[1].units[1]
  PROVE  /\ u \in UnitRows /\ w \in Nat /\ w <= u.start /\ u.start <= u.own /\ u.own <= u.end
         /\ ~u.node.trivia => u.end = Lesser(u.node.end, last)
         /\ Pieces(ss, 0, w - 1) /\ cs[1] \in Call
         /\ AtMostOne(cs[1].acc) /\ Pieces(cs[1].acc, w, u.start - 1)
<1>1. CallsFrom(cs, g, last) /\ w \in Nat /\ w <= g[1] /\ Pieces(ss, 0, w - 1)
  BY DEF Walk
<1>2. AtMostOne(cs[1].acc) /\ Pieces(cs[1].acc, w, g[1] - 1)
  BY DEF Walk
<1>3. /\ cs[1] \in Call /\ g[1] \in Nat /\ g[2] \in Nat /\ g[1] <= g[2]
      /\ UnitsIn(cs[1].units, g[1], g[2] - 1, last)
  BY <1>1, CallsPop
<1>4. g[2] - 1 \in Int
  BY <1>3
<1>5. /\ u \in UnitRows /\ g[1] <= u.start /\ u.start <= u.own /\ u.own <= u.end
      /\ ~u.node.trivia => u.end = Lesser(u.node.end, last)
  BY <1>3, <1>4, FirstUnit
<1>6. u.start \in Nat
  BY <1>5, WholeIs
<1>7. w <= u.start /\ g[1] - 1 <= u.start - 1 /\ g[1] - 1 \in Int /\ u.start - 1 \in Int
  <2>1. PICK x \in Nat, y \in Nat : x = g[1] /\ y = u.start
    BY <1>3, <1>6
  <2>2. w <= x /\ x <= y /\ w \in Nat
    BY <1>1, <1>5, <2>1
  <2>3. QED BY <2>1, <2>2
<1>8. Pieces(cs[1].acc, w, u.start - 1)
  BY <1>1, <1>2, <1>7, PiecesWider
<1>9. QED BY <1>1, <1>2, <1>3, <1>5, <1>7, <1>8

\* The walk after a unit was taken.
LEMMA WalkGoesOn ==
  ASSUME NEW ss, NEW cs, NEW w, NEW g, NEW last, Walk(ss, cs, w, g, last),
         cs # <<>>, cs[1].units # <<>>, NEW u, u = cs[1].units[1],
         NEW fr \in Call, fr.units = Tail(cs[1].units),
         NEW tt, NEW x \in Nat, x <= u.end + 1, Pieces(tt, 0, x - 1),
         AtMostOne(fr.acc), Pieces(fr.acc, x, u.end)
  PROVE  \E h : Walk(tt, <<fr>> \o Tail(cs), x, h, last) /\ h[1] = u.end + 1
<1>1. CallsFrom(cs, g, last)
  BY DEF Walk
<1>2. /\ CallsFrom(Tail(cs), Tail(g), last)
      /\ Tail(cs) # <<>> => Tail(cs)[1].acc = <<>>
      /\ Tail(g)[1] = g[2] /\ g[1] \in Nat /\ g[2] \in Nat
      /\ UnitsIn(cs[1].units, g[1], g[2] - 1, last)
  BY <1>1, CallsPop
<1>3. g[2] - 1 \in Int
  BY <1>2
<1>4. /\ u \in UnitRows /\ u.end <= g[2] - 1
      /\ UnitsIn(fr.units, u.end + 1, g[2] - 1, last)
  BY <1>2, <1>3, FirstUnit
<1>5. u.end \in Nat
  BY <1>4, WholeIs
<1>6. PICK c \in Nat : c = u.end + 1
  BY <1>5
<1>a. PICK below : below = Tail(cs)
  OBVIOUS
<1>b. PICK r : r = Tail(g)
  OBVIOUS
<1>7. c <= r[1] /\ UnitsIn(fr.units, c, r[1] - 1, last)
  <2>1. r[1] = g[2] /\ u.end <= g[2] - 1 /\ g[2] \in Nat
    BY <1>2, <1>4, <1>b
  <2>2. c <= r[1]
    <3>1. PICK e \in Nat, h \in Nat : e = u.end /\ h = g[2]
      BY <1>5, <2>1
    <3>2. c = e + 1 /\ e <= h - 1
      BY <1>6, <2>1, <3>1
    <3>3. c <= h
      BY <3>2
    <3>4. QED BY <2>1, <3>1, <3>3, Zenon
  <2>3. UnitsIn(fr.units, c, r[1] - 1, last)
    BY <1>4, <1>6, <2>1, Zenon
  <2>4. QED BY <2>2, <2>3
<1>8. PICK d : d = <<fr>> \o below
  OBVIOUS
<1>9. PICK h : h = <<c>> \o r
  OBVIOUS
<1>10. CallsFrom(d, h, last) /\ d # <<>> /\ d[1] = fr /\ h[1] = c
  <2>1. CallsFrom(below, r, last) /\ (below # <<>> => below[1].acc = <<>>)
    BY <1>2, <1>a, <1>b
  <2>2. /\ CallsFrom(<<fr>> \o below, <<c>> \o r, last)
        /\ <<fr>> \o below # <<>> /\ (<<fr>> \o below)[1] = fr /\ (<<c>> \o r)[1] = c
    BY <1>7, <2>1, CallsPush
  <2>3. QED BY <1>8, <1>9, <2>2, Zenon
<1>11. c - 1 = u.end
  BY <1>5, <1>6
<1>12. Pieces(fr.acc, x, c - 1)
  BY <1>11
<1>13. x <= c
  BY <1>6
<1>14. Walk(tt, d, x, h, last)
  BY <1>10, <1>12, <1>13 DEF Walk
<1>15. QED BY <1>6, <1>8, <1>a, <1>10, <1>14

\* What is given out before a segment or a split node.
LEMMA FlushedIs ==
  ASSUME Taking, NEW w \in Int, NEW b \in Int, AtMostOne(Top.acc), Pieces(Top.acc, w, b)
  PROVE  Pieces(Flushed, w, b)
<1>1. CASE Top.acc = <<>>
  BY <1>1, NoPieces DEF Flushed
<1>2. CASE Top.acc # <<>>
  <2>1. PICK s \in Segment : Top.acc = <<s>>
    BY <1>2 DEF AtMostOne
  <2>2. Top.acc[1] = s
    BY <2>1
  <2>3. PICK f \in Affinity : f = IF Fits THEN "either" ELSE "fwd"
    BY DEF Affinity
  <2>4. Flushed = <<WithAffinity(s, f)>>
    BY <1>2, <2>2, <2>3 DEF Flushed
  <2>5. Pieces(<<s>>, w, b)
    BY <2>1
  <2>6. QED BY <2>4, <2>5, Affine
<1>3. QED BY <1>1, <1>2

Walking == \E w, g : Walk(segs, calls, w, g, EndRow(file))

LEMMA CallIs ==
  ASSUME NEW c \in Call
  PROVE  /\ c = [units |-> c.units, acc |-> c.acc, own |-> c.own, flushed |-> c.flushed,
                 depth |-> c.depth]
         /\ c.units \in Seq(UnitRows) /\ c.acc \in Seq(Segment) /\ c.own \in Seq(Nat)
         /\ c.flushed \in BOOLEAN /\ c.depth \in Nat
BY DEF Call

\* What the loop does with the call on top.
Moved(c, acc, own, flushed) ==
  [units |-> Tail(c.units), acc |-> acc, own |-> own, flushed |-> flushed, depth |-> c.depth]

LEMMA Fields ==
  ASSUME NEW a, NEW b, NEW d, NEW e, NEW f, NEW x,
         NEW r, r = [units |-> a, acc |-> b, own |-> d, flushed |-> e, depth |-> f]
  PROVE  /\ [r EXCEPT !.units = x] = [units |-> x, acc |-> b, own |-> d, flushed |-> e, depth |-> f]
         /\ [r EXCEPT !.acc = x] = [units |-> a, acc |-> x, own |-> d, flushed |-> e, depth |-> f]
         /\ [r EXCEPT !.own = x] = [units |-> a, acc |-> b, own |-> x, flushed |-> e, depth |-> f]
         /\ [r EXCEPT !.flushed = x] = [units |-> a, acc |-> b, own |-> d, flushed |-> x, depth |-> f]
         /\ r.units = a
OBVIOUS

LEMMA FilledMoves ==
  ASSUME NEW c \in Call, NEW acc, NEW own
  PROVE  [[c EXCEPT !.acc = acc, !.own = own] EXCEPT !.units = Tail(@)]
           = Moved(c, acc, own, c.flushed)
<1>1. PICK a, b, d, e, f : c = [units |-> a, acc |-> b, own |-> d, flushed |-> e, depth |-> f]
  BY CallIs
<1>2. PICK v : v = Tail(a)
  OBVIOUS
<1>3. PICK c1 : c1 = [c EXCEPT !.acc = acc]
  OBVIOUS
<1>4. c1 = [units |-> a, acc |-> acc, own |-> d, flushed |-> e, depth |-> f]
  BY <1>1, <1>3, Fields
<1>5. PICK c2 : c2 = [c1 EXCEPT !.own = own]
  OBVIOUS
<1>6. c2 = [units |-> a, acc |-> acc, own |-> own, flushed |-> e, depth |-> f]
  BY <1>4, <1>5, Fields
<1>7. [c2 EXCEPT !.units = v] = [units |-> v, acc |-> acc, own |-> own, flushed |-> e, depth |-> f]
  BY <1>6, Fields
<1>8. Tail(c2.units) = v
  BY <1>2, <1>6
<1>9. Moved(c, acc, own, c.flushed)
        = [units |-> v, acc |-> acc, own |-> own, flushed |-> e, depth |-> f]
  BY <1>1, <1>2 DEF Moved
<1>10. QED BY <1>3, <1>5, <1>7, <1>8, <1>9, Zenon

Filled(c, acc, own, flushed) == [c EXCEPT !.acc = acc, !.own = own, !.flushed = flushed]
NextOf(c) == [c EXCEPT !.units = Tail(@)]

LEMMA StartedMoves ==
  ASSUME NEW c \in Call, NEW acc, NEW own, NEW flushed
  PROVE  NextOf(Filled(c, acc, own, flushed)) = Moved(c, acc, own, flushed)
<1>1. PICK a, b, d, e, f : c = [units |-> a, acc |-> b, own |-> d, flushed |-> e, depth |-> f]
  BY CallIs
<1>2. PICK v : v = Tail(a)
  OBVIOUS
<1>3. PICK c1 : c1 = [c EXCEPT !.acc = acc]
  OBVIOUS
<1>4. c1 = [units |-> a, acc |-> acc, own |-> d, flushed |-> e, depth |-> f]
  BY <1>1, <1>3, Fields
<1>5. PICK c2 : c2 = [c1 EXCEPT !.own = own]
  OBVIOUS
<1>6. c2 = [units |-> a, acc |-> acc, own |-> own, flushed |-> e, depth |-> f]
  BY <1>4, <1>5, Fields
<1>7. PICK c3 : c3 = [c2 EXCEPT !.flushed = flushed]
  OBVIOUS
<1>8. c3 = [units |-> a, acc |-> acc, own |-> own, flushed |-> flushed, depth |-> f]
  BY <1>6, <1>7, Fields
<1>9. [c3 EXCEPT !.units = v]
        = [units |-> v, acc |-> acc, own |-> own, flushed |-> flushed, depth |-> f]
  BY <1>8, Fields
<1>10. Tail(c3.units) = v
  BY <1>2, <1>8
<1>11. Moved(c, acc, own, flushed)
         = [units |-> v, acc |-> acc, own |-> own, flushed |-> flushed, depth |-> f]
  BY <1>1, <1>2 DEF Moved
<1>12. Filled(c, acc, own, flushed) = c3
  BY <1>3, <1>5, <1>7, Zenon DEF Filled
<1>13. QED BY <1>9, <1>10, <1>11, <1>12, Zenon DEF NextOf

LEMMA EmptiedMoves ==
  ASSUME NEW c \in Call, NEW acc, NEW flushed
  PROVE  /\ [[c EXCEPT !.acc = acc, !.flushed = flushed] EXCEPT !.units = Tail(@)]
              = Moved(c, acc, c.own, flushed)
         /\ [c EXCEPT !.units = Tail(@), !.acc = acc, !.flushed = flushed]
              = Moved(c, acc, c.own, flushed)
<1>1. PICK a, b, d, e, f : c = [units |-> a, acc |-> b, own |-> d, flushed |-> e, depth |-> f]
  BY CallIs
<1>2. PICK v : v = Tail(a)
  OBVIOUS
<1>3. PICK c1 : c1 = [c EXCEPT !.acc = acc]
  OBVIOUS
<1>4. c1 = [units |-> a, acc |-> acc, own |-> d, flushed |-> e, depth |-> f]
  BY <1>1, <1>3, Fields
<1>5. PICK c2 : c2 = [c1 EXCEPT !.flushed = flushed]
  OBVIOUS
<1>6. c2 = [units |-> a, acc |-> acc, own |-> d, flushed |-> flushed, depth |-> f]
  BY <1>4, <1>5, Fields
<1>7. [c2 EXCEPT !.units = v]
        = [units |-> v, acc |-> acc, own |-> d, flushed |-> flushed, depth |-> f]
  BY <1>6, Fields
<1>8. Tail(c2.units) = v
  BY <1>2, <1>6
<1>9. Moved(c, acc, c.own, flushed)
        = [units |-> v, acc |-> acc, own |-> d, flushed |-> flushed, depth |-> f]
  BY <1>1, <1>2 DEF Moved
<1>10. PICK c3 : c3 = [c EXCEPT !.units = v]
  OBVIOUS
<1>11. c3 = [units |-> v, acc |-> b, own |-> d, flushed |-> e, depth |-> f]
  BY <1>1, <1>10, Fields
<1>12. PICK c4 : c4 = [c3 EXCEPT !.acc = acc]
  OBVIOUS
<1>13. c4 = [units |-> v, acc |-> acc, own |-> d, flushed |-> e, depth |-> f]
  BY <1>11, <1>12, Fields
<1>14. [c4 EXCEPT !.flushed = flushed]
         = [units |-> v, acc |-> acc, own |-> d, flushed |-> flushed, depth |-> f]
  BY <1>13, Fields
<1>15. Tail(c.units) = v
  BY <1>1, <1>2
<1>16. [[c EXCEPT !.acc = acc, !.flushed = flushed] EXCEPT !.units = Tail(@)]
         = Moved(c, acc, c.own, flushed)
  BY <1>3, <1>5, <1>7, <1>8, <1>9, Zenon
<1>17. [c EXCEPT !.units = Tail(@), !.acc = acc, !.flushed = flushed]
         = Moved(c, acc, c.own, flushed)
  BY <1>9, <1>10, <1>12, <1>14, <1>15, Zenon
<1>18. QED BY <1>16, <1>17

\* The call on top, without its first unit.
LEMMA NextTop ==
  ASSUME NEW c \in Call, c.units # <<>>, NEW acc \in Seq(Segment), NEW own \in Seq(Nat),
         NEW flushed \in BOOLEAN
  PROVE  Moved(c, acc, own, flushed) \in Call
<1>1. c.units \in Seq(UnitRows) /\ c.depth \in Nat
  BY DEF Call
<1>2. Tail(c.units) \in Seq(UnitRows)
  BY <1>1
<1>3. QED BY <1>1, <1>2 DEF Call, Moved

LEMMA WalkStep ==
  ASSUME Taking, Walking, NEW acc, AtMostOne(acc), NEW own \in Seq(Nat), NEW flushed \in BOOLEAN,
         NEW x \in Nat, x <= Unit.end + 1, Pieces(segs', 0, x - 1), Pieces(acc, x, Unit.end),
         file' = file,
         calls' = <<Moved(Top, acc, own, flushed)>> \o Tail(calls)
  PROVE  Walking'
<1>1. PICK w, g : Walk(segs, calls, w, g, EndRow(file))
  BY DEF Walking
<1>2. calls # <<>> /\ calls[1].units # <<>> /\ Unit = calls[1].units[1] /\ Top = calls[1]
  BY DEF Taking, Unit, Top
<1>3. Top \in Call
  BY <1>1, <1>2, NextUnit
<1>4. acc \in Seq(Segment)
  BY DEF Pieces
<1>5. PICK fr : fr = Moved(Top, acc, own, flushed)
  OBVIOUS
<1>6. fr \in Call
  BY <1>2, <1>3, <1>4, <1>5, NextTop
<1>7. fr.units = Tail(calls[1].units) /\ fr.acc = acc
  BY <1>2, <1>5 DEF Moved
<1>8. PICK u : u = Unit
  OBVIOUS
<1>9. PICK tt : tt = segs'
  OBVIOUS
<1>10. u = calls[1].units[1] /\ x <= u.end + 1 /\ Pieces(tt, 0, x - 1)
       /\ AtMostOne(fr.acc) /\ Pieces(fr.acc, x, u.end)
  BY <1>2, <1>7, <1>8, <1>9
<1>11. PICK h : Walk(tt, <<fr>> \o Tail(calls), x, h, EndRow(file))
  BY <1>1, <1>2, <1>6, <1>7, <1>10, WalkGoesOn
<1>12. EndRow(file') = EndRow(file) /\ segs' = tt /\ calls' = <<fr>> \o Tail(calls)
  BY <1>5, <1>9
<1>13. Walk(segs', calls', x, h, EndRow(file'))
  BY <1>11, <1>12
<1>14. QED BY <1>13 DEF Walking

\* The unit at hand and what is being filled.
LEMMA AtHand ==
  ASSUME Taking, Walking
  PROVE  /\ Unit \in UnitRows /\ Top \in Call /\ AtMostOne(Top.acc)
         /\ Unit.start \in Nat /\ Unit.own \in Nat /\ Unit.end \in Nat /\ Unit.node \in TreeNode
         /\ Unit.start <= Unit.own /\ Unit.own <= Unit.end
         /\ ~Unit.node.trivia => Unit.end = Lesser(Unit.node.end, EndRow(file))
         /\ \E w \in Nat : /\ w <= Unit.start /\ Pieces(segs, 0, w - 1)
                           /\ Pieces(Top.acc, w, Unit.start - 1)
<1>1. PICK w, g : Walk(segs, calls, w, g, EndRow(file))
  BY DEF Walking
<1>2. calls # <<>> /\ calls[1].units # <<>> /\ Unit = calls[1].units[1] /\ Top = calls[1]
  BY DEF Taking, Unit, Top
<1>3. PICK u : u = Unit
  OBVIOUS
<1>4. u = calls[1].units[1]
  BY <1>2, <1>3
<1>5. /\ u \in UnitRows /\ w \in Nat /\ w <= u.start /\ u.start <= u.own /\ u.own <= u.end
      /\ ~u.node.trivia => u.end = Lesser(u.node.end, EndRow(file))
      /\ Pieces(segs, 0, w - 1) /\ calls[1] \in Call
      /\ AtMostOne(calls[1].acc) /\ Pieces(calls[1].acc, w, u.start - 1)
  BY <1>1, <1>2, <1>4, NextUnit
<1>6. u.start \in Nat /\ u.own \in Nat /\ u.end \in Nat /\ u.node \in TreeNode
  BY <1>5, WholeIs
<1>7. QED BY <1>2, <1>3, <1>5, <1>6

LEMMA JoinKeeps ==
  ASSUME Walking, Join
  PROVE  Walking'
<1> USE DEF Join
<1>1. /\ Unit \in UnitRows /\ Top \in Call /\ AtMostOne(Top.acc)
      /\ Unit.start \in Nat /\ Unit.own \in Nat /\ Unit.end \in Nat
      /\ Unit.start <= Unit.own /\ Unit.own <= Unit.end
  BY AtHand
<1>2. PICK w \in Nat : /\ w <= Unit.start /\ Pieces(segs, 0, w - 1)
                       /\ Pieces(Top.acc, w, Unit.start - 1)
  BY AtHand
<1>3. Top.acc # <<>> /\ Unit.end - Top.acc[1].start < MaxLines
  BY DEF Joins
<1>4. PICK s \in Segment : Top.acc = <<s>>
  BY <1>1, <1>3 DEF AtMostOne
<1>5. Top.acc[1] = s
  BY <1>4
<1>6. Piece(s) /\ w <= s.start /\ s.end <= Unit.start - 1
  BY <1>2, <1>4, PieceOf
<1>7. PICK t : t = Absorb(s, Whole(Unit))
  OBVIOUS
<1>8. /\ t \in Segment /\ t.start = Lesser(s.start, Unit.start)
      /\ t.end = Greater(s.end, Unit.end)
  BY <1>1, <1>7, WholeIs, AbsorbIs
<1>9. s.start \in Nat /\ s.end \in Nat /\ s.start <= s.end
  BY <1>6, SegmentIs DEF Piece
<1>10. t.start = s.start /\ t.end = Unit.end
  BY <1>1, <1>6, <1>8, <1>9 DEF Lesser, Greater
<1>11. Piece(t)
  BY <1>1, <1>3, <1>5, <1>6, <1>8, <1>9, <1>10 DEF Piece
<1>12. PICK acc : acc = <<t>>
  OBVIOUS
<1>13. Pieces(acc, w, Unit.end) /\ AtMostOne(acc)
  <2>1. w <= t.start /\ t.end <= Unit.end
    BY <1>1, <1>6, <1>10
  <2>2. Pieces(<<t>>, w, Unit.end)
    BY <1>1, <1>11, <2>1, OnePiece
  <2>3. QED BY <1>8, <1>12, <2>2 DEF AtMostOne
<1>14. PICK own \in Seq(Nat) : own = IF Top.own = <<>> THEN <<Unit.start>> ELSE Top.own
  <2>1. Top.own \in Seq(Nat)
    BY <1>1, CallIs
  <2>2. <<Unit.start>> \in Seq(Nat)
    BY <1>1
  <2>3. QED BY <2>1, <2>2
<1>15. Top.flushed \in BOOLEAN
  BY <1>1, CallIs
<1>16. calls' = <<Moved(Top, acc, own, Top.flushed)>> \o Tail(calls)
  <2>1. <<Absorb(Top.acc[1], Whole(Unit))>> = acc
    BY <1>5, <1>7, <1>12, Zenon
  <2>2. Replace([Top EXCEPT !.acc = <<Absorb(Top.acc[1], Whole(Unit))>>,
                            !.own = IF Top.own = <<>> THEN <<Unit.start>> ELSE Top.own])
    OBVIOUS
  <2>3. Replace([Top EXCEPT !.acc = acc, !.own = own])
    BY <1>14, <2>1, <2>2, Zenon
  <2>4. calls' = <<[[Top EXCEPT !.acc = acc, !.own = own] EXCEPT !.units = Tail(@)]>> \o Tail(calls)
    BY <2>3, Zenon DEF Replace
  <2>5. [[Top EXCEPT !.acc = acc, !.own = own] EXCEPT !.units = Tail(@)]
          = Moved(Top, acc, own, Top.flushed)
    <3>1. Top \in Call
      BY <1>1
    <3>2. QED BY <3>1, FilledMoves, Zenon
  <2>6. QED BY <2>4, <2>5, Zenon
<1>17. w <= Unit.end + 1 /\ Pieces(segs', 0, w - 1) /\ file' = file
  BY <1>1, <1>2
<1>18. Taking
  OBVIOUS
<1> HIDE DEF Join
<1>19. QED BY <1>13, <1>15, <1>16, <1>17, <1>18, WalkStep

LEMMA StartSegmentKeeps ==
  ASSUME Walking, StartSegment
  PROVE  Walking'
<1>0. /\ Taking /\ Fits /\ segs' = segs \o Flushed /\ file' = file
      /\ Replace([Top EXCEPT !.acc = <<Whole(Unit)>>, !.own = <<Unit.start>>,
                             !.flushed = Top.flushed \/ Top.acc # <<>>])
  BY DEF StartSegment
<1>1. /\ Unit \in UnitRows /\ Top \in Call /\ AtMostOne(Top.acc)
      /\ Unit.start \in Nat /\ Unit.end \in Nat /\ Unit.start <= Unit.end
  <2>1. /\ Unit \in UnitRows /\ Top \in Call /\ AtMostOne(Top.acc)
        /\ Unit.start \in Nat /\ Unit.own \in Nat /\ Unit.end \in Nat
        /\ Unit.start <= Unit.own /\ Unit.own <= Unit.end
    BY <1>0, AtHand
  <2>2. QED BY <2>1
<1>2. PICK w \in Nat : /\ w <= Unit.start /\ Pieces(segs, 0, w - 1)
                       /\ Pieces(Top.acc, w, Unit.start - 1)
  BY <1>0, AtHand
<1>3. Pieces(segs', 0, Unit.start - 1)
  <2>1. PICK c \in Int : c = Unit.start - 1
    BY <1>1
  <2>2. Pieces(Flushed, w, c)
    BY <1>0, <1>1, <1>2, <2>1, FlushedIs
  <2>3. 0 <= w /\ w <= c + 1
    BY <1>1, <1>2, <2>1
  <2>4. Pieces(segs \o Flushed, 0, c)
    BY <1>2, <2>2, <2>3, PiecesJoin
  <2>5. QED BY <1>0, <2>1, <2>4
<1>4. PICK acc : acc = <<Whole(Unit)>>
  OBVIOUS
<1>5. AtMostOne(acc) /\ Pieces(acc, Unit.start, Unit.end)
  <2>1. PICK s : s = Whole(Unit)
    OBVIOUS
  <2>2. s \in Segment /\ s.start = Unit.start /\ s.end = Unit.end
    BY <1>1, <2>1, WholeIs
  <2>3. Piece(s)
    BY <1>0, <1>1, <2>2 DEF Piece, Fits
  <2>4. Pieces(<<s>>, Unit.start, Unit.end)
    BY <1>1, <2>2, <2>3, OnePiece
  <2>5. QED BY <1>4, <2>1, <2>2, <2>4 DEF AtMostOne
<1>6. <<Unit.start>> \in Seq(Nat) /\ (Top.flushed \/ Top.acc # <<>>) \in BOOLEAN
  BY <1>1
<1>7. PICK own \in Seq(Nat) : own = <<Unit.start>>
  BY <1>6
<1>8. PICK flushed \in BOOLEAN : flushed = (Top.flushed \/ Top.acc # <<>>)
  OBVIOUS
<1>9. calls' = <<Moved(Top, acc, own, flushed)>> \o Tail(calls)
  <2>1. Replace(Filled(Top, acc, own, flushed))
    BY <1>0, <1>4, <1>7, <1>8, Zenon DEF Filled
  <2>2. calls' = <<NextOf(Filled(Top, acc, own, flushed))>> \o Tail(calls)
    BY <2>1, Zenon DEF Replace, NextOf
  <2>3. NextOf(Filled(Top, acc, own, flushed)) = Moved(Top, acc, own, flushed)
    <3>1. Top \in Call
      BY <1>1
    <3>2. QED BY <3>1, StartedMoves, Zenon
  <2>4. QED BY <2>2, <2>3, Zenon
<1>10. Unit.start <= Unit.end + 1
  BY <1>1
<1>11. QED BY <1>0, <1>1, <1>3, <1>5, <1>9, <1>10, WalkStep

LEMMA CutCommentsKeeps ==
  ASSUME Walking, CutComments
  PROVE  Walking'
<1>0. /\ Taking /\ segs' = segs \o Flushed \o Cut(Unit.start, Unit.end) /\ file' = file
      /\ Replace([Top EXCEPT !.acc = <<>>, !.flushed = TRUE])
  BY DEF CutComments
<1>1. /\ Unit \in UnitRows /\ Top \in Call /\ AtMostOne(Top.acc)
      /\ Unit.start \in Nat /\ Unit.end \in Nat /\ Unit.start <= Unit.end
  <2>1. /\ Unit \in UnitRows /\ Top \in Call /\ AtMostOne(Top.acc)
        /\ Unit.start \in Nat /\ Unit.own \in Nat /\ Unit.end \in Nat
        /\ Unit.start <= Unit.own /\ Unit.own <= Unit.end
    BY <1>0, AtHand
  <2>2. QED BY <2>1
<1>2. PICK w \in Nat : /\ w <= Unit.start /\ Pieces(segs, 0, w - 1)
                       /\ Pieces(Top.acc, w, Unit.start - 1)
  BY <1>0, AtHand
<1>3. Pieces(segs', 0, Unit.end)
  <2>1. PICK c \in Int : c = Unit.start - 1
    BY <1>1
  <2>2. Pieces(Flushed, w, c)
    BY <1>0, <1>1, <1>2, <2>1, FlushedIs
  <2>3. 0 <= w /\ w <= c + 1
    BY <1>1, <1>2, <2>1
  <2>4. Pieces(segs \o Flushed, 0, c)
    BY <1>2, <2>2, <2>3, PiecesJoin
  <2>5. Pieces(Cut(Unit.start, Unit.end), Unit.start, Unit.end)
    BY <1>1, CutIs
  <2>6. PICK q : q = segs \o Flushed
    OBVIOUS
  <2>7. Pieces(q, 0, Unit.start - 1) /\ 0 <= Unit.start /\ Unit.start <= Unit.end + 1
    BY <1>1, <2>1, <2>4, <2>6
  <2>8. Pieces(q \o Cut(Unit.start, Unit.end), 0, Unit.end)
    BY <1>1, <2>5, <2>7, PiecesJoin
  <2>9. QED BY <1>0, <2>6, <2>8
<1>4. PICK x \in Nat : x = Unit.end + 1
  BY <1>1
<1>5. Pieces(segs', 0, x - 1) /\ x <= Unit.end + 1
  <2>1. x - 1 = Unit.end
    BY <1>1, <1>4
  <2>2. QED BY <1>1, <1>3, <1>4, <2>1
<1>6. calls' = <<Moved(Top, <<>>, Top.own, TRUE)>> \o Tail(calls)
  <2>1. calls' = <<[[Top EXCEPT !.acc = <<>>, !.flushed = TRUE] EXCEPT !.units = Tail(@)]>>
                   \o Tail(calls)
    BY <1>0, Zenon DEF Replace
  <2>2. [[Top EXCEPT !.acc = <<>>, !.flushed = TRUE] EXCEPT !.units = Tail(@)]
          = Moved(Top, <<>>, Top.own, TRUE)
    <3>1. Top \in Call
      BY <1>1
    <3>2. QED BY <3>1, EmptiedMoves, Zenon
  <2>3. QED BY <2>1, <2>2, Zenon
<1>7. AtMostOne(<<>>) /\ Pieces(<<>>, x, Unit.end) /\ Top.own \in Seq(Nat)
  BY <1>1, NoPieces, CallIs DEF AtMostOne
<1>8. QED BY <1>0, <1>5, <1>6, <1>7, WalkStep

LEMMA ReturnKeeps ==
  ASSUME Walking, Return
  PROVE  Walking'
<1>0. /\ calls # <<>> /\ Top.units = <<>> /\ file' = file /\ calls' = Tail(calls)
      /\ segs' = segs \o (IF Top.acc # <<>> /\ Top.flushed
                            THEN <<WithAffinity(Top.acc[1], "back")>> ELSE Top.acc)
  BY DEF Return
<1>1. PICK w, g : Walk(segs, calls, w, g, EndRow(file))
  BY DEF Walking
<1>2. /\ CallsFrom(calls, g, EndRow(file)) /\ w \in Nat /\ w <= g[1] /\ Pieces(segs, 0, w - 1)
      /\ AtMostOne(Top.acc) /\ Pieces(Top.acc, w, g[1] - 1)
  BY <1>0, <1>1 DEF Walk, Top
<1>3. /\ CallsFrom(Tail(calls), Tail(g), EndRow(file))
      /\ Tail(calls) # <<>> => Tail(calls)[1].acc = <<>>
      /\ Tail(g)[1] = g[2] /\ g[1] \in Nat /\ g[2] \in Nat /\ g[1] <= g[2]
  BY <1>0, <1>2, CallsPop
<1>4. PICK c \in Int : c = g[1] - 1
  BY <1>3
<1>5. PICK q : q = IF Top.acc # <<>> /\ Top.flushed
                     THEN <<WithAffinity(Top.acc[1], "back")>> ELSE Top.acc
  OBVIOUS
<1>6. Pieces(q, w, c)
  <2>1. CASE Top.acc = <<>>
    BY <1>5, <2>1, NoPieces
  <2>2. CASE Top.acc # <<>>
    <3>1. PICK s \in Segment : Top.acc = <<s>>
      BY <1>2, <2>2 DEF AtMostOne
    <3>2. Top.acc[1] = s /\ Pieces(<<s>>, w, c)
      BY <1>2, <1>4, <3>1
    <3>3. Pieces(<<WithAffinity(s, "back")>>, w, c)
      <4>1. w \in Int /\ c \in Int /\ "back" \in Affinity
        BY <1>2 DEF Affinity
      <4>2. Pieces(<<s>>, w, c)
        BY <3>2
      <4>3. QED BY <4>1, <4>2, Affine
    <3>4. q = <<WithAffinity(s, "back")>> \/ q = <<s>>
      BY <1>5, <3>1, <3>2
    <3>5. QED BY <3>2, <3>3, <3>4
  <2>3. QED BY <2>1, <2>2
<1>7. 0 <= w /\ w <= c + 1
  BY <1>2, <1>3, <1>4
<1>8. Pieces(segs \o q, 0, c)
  BY <1>2, <1>6, <1>7, PiecesJoin
<1>9. Pieces(segs', 0, g[1] - 1)
  BY <1>0, <1>4, <1>5, <1>8
<1>10. PICK below : below = Tail(calls)
  OBVIOUS
<1>11. PICK r : r = Tail(g)
  OBVIOUS
<1>12. below # <<>> => AtMostOne(below[1].acc) /\ Pieces(below[1].acc, g[1], r[1] - 1)
  BY <1>3, <1>10, NoPieces DEF AtMostOne
<1>13. g[1] <= r[1] /\ CallsFrom(below, r, EndRow(file))
  BY <1>3, <1>10, <1>11
<1>14. PICK tt : tt = segs'
  OBVIOUS
<1>15. Walk(tt, below, g[1], r, EndRow(file))
  BY <1>3, <1>9, <1>12, <1>13, <1>14 DEF Walk
<1>16. EndRow(file') = EndRow(file) /\ segs' = tt /\ calls' = below
  BY <1>0, <1>10, <1>14
<1>17. Walk(segs', calls', g[1], r, EndRow(file'))
  BY <1>15, <1>16
<1>18. QED BY <1>17 DEF Walking

\* The comments of a unit that is walked, with the header before them: carried
\* into its first piece, or given out.
LEMMA CarriedIs ==
  ASSUME NEW u \in UnitRows, u.start <= u.own, NEW y \in Nat, y <= u.start,
         NEW prefix, AtMostOne(prefix), Pieces(prefix, y, u.start - 1)
  PROVE  /\ AtMostOne(Carried(prefix, u))
         /\ ~TooLong(Carried(prefix, u)) => Pieces(Carried(prefix, u), y, u.own - 1)
<1>1. u.start \in Nat /\ u.own \in Nat
  BY WholeIs
<1>2. PICK trivia : trivia = IF HasTrivia(u) THEN <<Seg(u.start, u.own - 1, "fwd")>> ELSE <<>>
  OBVIOUS
<1>3. PICK t : t = Seg(u.start, u.own - 1, "fwd")
  OBVIOUS
<1>4. HasTrivia(u) => /\ trivia = <<t>> /\ t \in Segment /\ t.start = u.start
                      /\ t.end = u.own - 1 /\ u.start <= u.own - 1
  <2>1. SUFFICES ASSUME HasTrivia(u)
                 PROVE  /\ trivia = <<t>> /\ t \in Segment /\ t.start = u.start
                        /\ t.end = u.own - 1 /\ u.start <= u.own - 1
    OBVIOUS
  <2>2. u.start < u.own /\ u.own - 1 \in Nat
    BY <1>1, <2>1 DEF HasTrivia
  <2>3. t \in Segment /\ t.start = u.start /\ t.end = u.own - 1
    BY <1>1, <1>3, <2>2, SegIs DEF Affinity
  <2>4. QED BY <1>1, <1>2, <1>3, <2>1, <2>2, <2>3
<1>5. ~HasTrivia(u) => trivia = <<>>
  BY <1>2
<1>6. PICK C : C = Carried(prefix, u)
  OBVIOUS
<1>7. C = IF prefix # <<>> /\ trivia # <<>> THEN <<Absorb(prefix[1], trivia[1])>>
          ELSE prefix \o trivia
  BY <1>2, <1>6 DEF Carried
<1>8. C = <<>> \/ \E c \in Segment : /\ C = <<c>> /\ y <= c.start /\ c.start <= c.end
                                     /\ c.end <= u.own - 1
  <2>1. CASE prefix = <<>> /\ HasTrivia(u)
    <3>1. C = trivia
      BY <1>4, <1>7, <2>1
    <3>2. QED BY <1>1, <1>4, <2>1, <3>1
  <2>2. CASE prefix = <<>> /\ ~HasTrivia(u)
    BY <1>5, <1>7, <2>2
  <2>3. CASE prefix # <<>>
    <3>1. PICK p \in Segment : prefix = <<p>>
      BY <2>3 DEF AtMostOne
    <3>2. Piece(p) /\ y <= p.start /\ p.end <= u.start - 1
      BY <3>1, PieceOf
    <3>3. p.start \in Nat /\ p.end \in Nat /\ p.start <= p.end
      BY <3>2, SegmentIs DEF Piece
    <3>4. CASE ~HasTrivia(u)
      <4>1. C = <<p>>
        BY <1>5, <1>7, <3>1, <3>4
      <4>2. p.end <= u.own - 1
        BY <1>1, <3>2, <3>3
      <4>3. QED BY <3>2, <3>3, <4>1, <4>2
    <3>5. CASE HasTrivia(u)
      <4>1. trivia # <<>> /\ trivia[1] = t /\ prefix[1] = p
        BY <1>4, <3>1, <3>5
      <4>2. C = <<Absorb(p, t)>>
        BY <1>7, <2>3, <4>1
      <4>3. PICK c : c = Absorb(p, t)
        OBVIOUS
      <4>4. c \in Segment /\ c.start = Lesser(p.start, t.start) /\ c.end = Greater(p.end, t.end)
        BY <1>4, <3>5, <4>3, AbsorbIs
      <4>5. c.start = p.start /\ c.end = u.own - 1
        BY <1>1, <1>4, <3>2, <3>3, <3>5, <4>4 DEF Lesser, Greater
      <4>6. c.start <= c.end
        BY <1>1, <1>4, <3>2, <3>3, <3>5, <4>5
      <4>7. y <= c.start /\ c.end <= u.own - 1
        BY <1>1, <3>2, <4>5
      <4>8. C = <<c>>
        BY <4>2, <4>3
      <4>9. QED BY <4>4, <4>6, <4>7, <4>8
    <3>6. QED BY <3>4, <3>5
  <2>4. QED BY <2>1, <2>2, <2>3
<1>9. AtMostOne(C)
  BY <1>8 DEF AtMostOne
<1>10. ASSUME ~TooLong(C) PROVE Pieces(C, y, u.own - 1)
  <2>1. CASE C = <<>>
    BY <2>1, NoPieces
  <2>2. CASE C # <<>>
    <3>1. PICK c \in Segment : /\ C = <<c>> /\ y <= c.start /\ c.start <= c.end
                               /\ c.end <= u.own - 1
      BY <1>8, <2>2
    <3>2. C[1] = c
      BY <3>1
    <3>3. c.start \in Nat /\ c.end \in Nat /\ MaxLines \in Nat \ {0}
      BY SegmentIs, Bounds
    <3>4. ~(Rows(c) > MaxLines \div 2)
      BY <1>10, <2>2, <3>2 DEF TooLong
    <3>5. c.end - c.start < MaxLines
      BY <3>3, <3>4 DEF Rows
    <3>6. Piece(c)
      BY <3>1, <3>5 DEF Piece
    <3>7. u.own - 1 \in Int
      BY <1>1
    <3>8. QED BY <3>1, <3>6, <3>7, OnePiece
  <2>3. QED BY <2>1, <2>2
<1>11. QED BY <1>6, <1>9, <1>10

LEMMA OnTheirOwnIs ==
  ASSUME NEW u \in UnitRows, u.start <= u.own, NEW y \in Nat, y <= u.start,
         NEW prefix, AtMostOne(prefix), Pieces(prefix, y, u.start - 1)
  PROVE  Pieces(OnTheirOwn(prefix, u), y, u.own - 1)
<1>1. u.start \in Nat /\ u.own \in Nat
  BY WholeIs
<1>2. PICK b \in Int, c \in Int : b = u.start - 1 /\ c = u.own - 1
  BY <1>1
<1>3. PICK from : from = Greater(IF prefix = <<>> THEN u.start ELSE prefix[1].end + 1, u.start)
  OBVIOUS
<1>4. PICK P : P = IF prefix = <<>> THEN <<>> ELSE <<WithAffinity(prefix[1], "fwd")>>
  OBVIOUS
<1>5. PICK Q : Q = IF HasTrivia(u) THEN Cut(from, u.own - 1) ELSE <<>>
  OBVIOUS
<1>6. OnTheirOwn(prefix, u) = P \o Q
  BY <1>3, <1>4, <1>5 DEF OnTheirOwn
<1>7. from = u.start /\ Pieces(P, y, u.start - 1)
  <2>1. CASE prefix = <<>>
    <3>1. from = u.start
      BY <1>1, <1>3, <2>1 DEF Greater
    <3>2. QED BY <1>4, <2>1, <3>1, NoPieces
  <2>2. CASE prefix # <<>>
    <3>1. PICK p \in Segment : prefix = <<p>>
      BY <2>2 DEF AtMostOne
    <3>2. prefix[1] = p /\ Pieces(<<p>>, y, b)
      BY <1>2, <3>1
    <3>3. p.end \in Nat /\ p.end <= b
      BY <3>2, PieceOf, SegmentIs
    <3>4. from = u.start
      BY <1>1, <1>2, <1>3, <2>2, <3>2, <3>3 DEF Greater
    <3>5. "fwd" \in Affinity
      BY DEF Affinity
    <3>6. Pieces(<<WithAffinity(p, "fwd")>>, y, b)
      BY <3>2, <3>5, Affine
    <3>7. QED BY <1>2, <1>4, <2>2, <3>2, <3>4, <3>6
  <2>3. QED BY <2>1, <2>2
<1>8. Pieces(Q, u.start, c)
  <2>1. CASE HasTrivia(u)
    <3>1. c \in Nat
      BY <1>1, <1>2, <2>1 DEF HasTrivia
    <3>2. Pieces(Cut(u.start, c), u.start, c)
      BY <1>1, <3>1, CutIs
    <3>3. QED BY <1>2, <1>5, <1>7, <2>1, <3>2
  <2>2. CASE ~HasTrivia(u)
    BY <1>5, <2>2, NoPieces
  <2>3. QED BY <2>1, <2>2
<1>9. u.start <= c + 1
  BY <1>1, <1>2
<1>10. Pieces(P \o Q, y, c)
  BY <1>1, <1>2, <1>7, <1>8, <1>9, PiecesJoin
<1>11. QED BY <1>2, <1>6, <1>10

\* What is given out before the unit, and what is carried into it.
LEMMA Prefixed ==
  ASSUME NEW u \in UnitRows, u.start <= u.own, NEW y \in Nat, y <= u.start,
         NEW prefix, AtMostOne(prefix), Pieces(prefix, y, u.start - 1),
         NEW ss, Pieces(ss, 0, y - 1)
  PROVE  \E z \in Nat :
           /\ z <= u.own
           /\ Pieces(ss \o (IF TooLong(Carried(prefix, u)) THEN OnTheirOwn(prefix, u) ELSE <<>>),
                     0, z - 1)
           /\ AtMostOne(IF TooLong(Carried(prefix, u)) THEN <<>> ELSE Carried(prefix, u))
           /\ Pieces(IF TooLong(Carried(prefix, u)) THEN <<>> ELSE Carried(prefix, u),
                     z, u.own - 1)
<1>1. u.start \in Nat /\ u.own \in Nat
  BY WholeIs
<1>2. CASE TooLong(Carried(prefix, u))
  <2>1. Pieces(OnTheirOwn(prefix, u), y, u.own - 1)
    BY OnTheirOwnIs
  <2>2. PICK c \in Int : c = u.own - 1
    BY <1>1
  <2>3. 0 <= y /\ y <= c + 1
    BY <1>1, <2>2
  <2>4. Pieces(ss \o OnTheirOwn(prefix, u), 0, c)
    BY <2>1, <2>2, <2>3, PiecesJoin
  <2>5. AtMostOne(<<>>) /\ Pieces(<<>>, u.own, u.own - 1)
    BY NoPieces DEF AtMostOne
  <2>6. u.own <= u.own
    BY <1>1
  <2>7. QED BY <1>1, <1>2, <2>2, <2>4, <2>5, <2>6
<1>3. CASE ~TooLong(Carried(prefix, u))
  <2>1. AtMostOne(Carried(prefix, u)) /\ Pieces(Carried(prefix, u), y, u.own - 1)
    BY <1>3, CarriedIs
  <2>2. ss \o <<>> = ss
    BY DEF Pieces
  <2>3. y <= u.own
    BY <1>1
  <2>4. QED BY <1>3, <2>1, <2>2, <2>3
<1>4. QED BY <1>2, <1>3

\* The node's own piece, with what is carried into it, or its rows cut.
LEMMA OwnPieces ==
  ASSUME NEW u \in UnitRows, u.own <= u.end, NEW z \in Nat, z <= u.own,
         NEW carry, AtMostOne(carry), Pieces(carry, z, u.own - 1),
         NEW start, start = IF carry = <<>> THEN u.own ELSE carry[1].start
  PROVE  Pieces(IF u.end - start >= MaxLines THEN Cut(start, u.end)
                ELSE <<IF carry = <<>> THEN Seg(u.own, u.end, "either")
                       ELSE Absorb(Seg(u.own, u.end, "either"), carry[1])>>, z, u.end)
<1>1. u.own \in Nat /\ u.end \in Nat
  BY WholeIs
<1>2. PICK own : own = Seg(u.own, u.end, "either")
  OBVIOUS
<1>3. own \in Segment /\ own.start = u.own /\ own.end = u.end
  BY <1>1, <1>2, SegIs DEF Affinity
<1>4. PICK piece : piece = IF carry = <<>> THEN own ELSE Absorb(own, carry[1])
  OBVIOUS
<1>5. /\ start \in Nat /\ z <= start /\ start <= u.end
      /\ piece \in Segment /\ piece.start = start /\ piece.end = u.end
  <2>1. CASE carry = <<>>
    BY <1>1, <1>3, <1>4, <2>1
  <2>2. CASE carry # <<>>
    <3>1. PICK c \in Segment : carry = <<c>>
      BY <2>2 DEF AtMostOne
    <3>2. carry[1] = c /\ Piece(c) /\ z <= c.start /\ c.end <= u.own - 1
      BY <3>1, PieceOf
    <3>3. c.start \in Nat /\ c.end \in Nat /\ c.start <= c.end
      BY <3>2, SegmentIs DEF Piece
    <3>4. start = c.start /\ piece = Absorb(own, c)
      BY <1>4, <2>2, <3>2
    <3>5. piece \in Segment /\ piece.start = Lesser(own.start, c.start)
          /\ piece.end = Greater(own.end, c.end)
      BY <1>3, <3>4, AbsorbIs
    <3>6. piece.start = c.start /\ piece.end = u.end
      BY <1>1, <1>3, <3>2, <3>3, <3>5 DEF Lesser, Greater
    <3>7. start <= u.end
      BY <1>1, <3>2, <3>3, <3>4
    <3>8. QED BY <3>2, <3>3, <3>4, <3>5, <3>6, <3>7
  <2>3. QED BY <2>1, <2>2
<1>6. CASE u.end - start >= MaxLines
  <2>1. Pieces(Cut(start, u.end), start, u.end)
    BY <1>1, <1>5, CutIs
  <2>2. Pieces(Cut(start, u.end), z, u.end)
    BY <1>1, <1>5, <2>1, PiecesWider
  <2>3. QED BY <1>6, <2>2
<1>7. CASE ~(u.end - start >= MaxLines)
  <2>1. Piece(piece)
    BY <1>1, <1>5, <1>7, Bounds DEF Piece
  <2>2. Pieces(<<piece>>, z, u.end)
    BY <1>1, <1>5, <2>1, OnePiece
  <2>3. QED BY <1>2, <1>4, <1>7, <2>2
<1>8. QED BY <1>6, <1>7

LEMMA DescendKeeps ==
  ASSUME Walking, file \in File, Descend
  PROVE  Walking'
<1>1. PICK pre : pre = IF IsHeader THEN Top.acc ELSE <<>>
  OBVIOUS
<1>2. PICK first : first = segs \o (IF IsHeader THEN <<>> ELSE Flushed)
  OBVIOUS
<1>3. PICK carry : carry = IF TooLong(Carried(pre, Unit)) THEN <<>> ELSE Carried(pre, Unit)
  OBVIOUS
<1>4. PICK before : before = first \o (IF TooLong(Carried(pre, Unit))
                                         THEN OnTheirOwn(pre, Unit) ELSE <<>>)
  OBVIOUS
<1>5. PICK start : start = IF carry = <<>> THEN Unit.own ELSE carry[1].start
  OBVIOUS
<1>6. PICK piece : piece = IF Unit.end - start >= MaxLines THEN Cut(start, Unit.end)
                           ELSE <<IF carry = <<>> THEN Seg(Unit.own, Unit.end, "either")
                                  ELSE Absorb(Seg(Unit.own, Unit.end, "either"), carry[1])>>
  OBVIOUS
<1>7. PICK rest : rest = [Top EXCEPT !.units = Tail(@), !.acc = <<>>, !.flushed = TRUE]
  OBVIOUS
<1>8. /\ Taking /\ file' = file
      /\ \/ segs' = before \o piece /\ calls' = <<rest>> \o Tail(calls)
         \/ /\ segs' = before
            /\ calls' = <<Frame(Unit.node, Unit.own, carry, Top.depth + 1), rest>> \o Tail(calls)
  BY <1>1, <1>2, <1>3, <1>4, <1>5, <1>6, <1>7 DEF Descend
<1>9. ~Unit.node.trivia
  BY DEF Descend, IsHeader
<1>10. /\ Unit \in UnitRows /\ Top \in Call /\ AtMostOne(Top.acc)
       /\ Unit.start \in Nat /\ Unit.own \in Nat /\ Unit.end \in Nat /\ Unit.node \in TreeNode
       /\ Unit.start <= Unit.own /\ Unit.own <= Unit.end
       /\ ~Unit.node.trivia => Unit.end = Lesser(Unit.node.end, EndRow(file))
  BY <1>8, AtHand
<1>11. PICK w \in Nat : /\ w <= Unit.start /\ Pieces(segs, 0, w - 1)
                        /\ Pieces(Top.acc, w, Unit.start - 1)
  BY <1>8, AtHand
<1>12. PICK y \in Nat : /\ y <= Unit.start /\ AtMostOne(pre) /\ Pieces(pre, y, Unit.start - 1)
                        /\ Pieces(first, 0, y - 1)
  <2>1. CASE IsHeader
    <3>1. pre = Top.acc /\ first = segs \o <<>>
      BY <1>1, <1>2, <2>1
    <3>2. first = segs
      BY <1>11, <3>1 DEF Pieces
    <3>3. QED BY <1>10, <1>11, <3>1, <3>2
  <2>2. CASE ~IsHeader
    <3>1. pre = <<>> /\ first = segs \o Flushed
      BY <1>1, <1>2, <2>2
    <3>2. PICK c \in Int : c = Unit.start - 1
      BY <1>10
    <3>3. Pieces(Flushed, w, c)
      BY <1>8, <1>10, <1>11, <3>2, FlushedIs
    <3>4. 0 <= w /\ w <= c + 1
      BY <1>10, <1>11, <3>2
    <3>5. Pieces(segs \o Flushed, 0, c)
      BY <1>11, <3>3, <3>4, PiecesJoin
    <3>6. AtMostOne(<<>>) /\ Pieces(<<>>, Unit.start, Unit.start - 1) /\ Unit.start <= Unit.start
      BY <1>10, NoPieces DEF AtMostOne
    <3>7. QED BY <1>10, <3>1, <3>2, <3>5, <3>6
  <2>3. QED BY <2>1, <2>2
<1>13. PICK z \in Nat : /\ z <= Unit.own /\ Pieces(before, 0, z - 1)
                        /\ AtMostOne(carry) /\ Pieces(carry, z, Unit.own - 1)
  <2>1. PICK u : u = Unit
    OBVIOUS
  <2>2. u \in UnitRows /\ u.start <= u.own /\ y <= u.start /\ Pieces(pre, y, u.start - 1)
    BY <1>10, <1>12, <2>1
  <2>3. \E z \in Nat :
           /\ z <= u.own
           /\ Pieces(first \o (IF TooLong(Carried(pre, u)) THEN OnTheirOwn(pre, u) ELSE <<>>),
                     0, z - 1)
           /\ AtMostOne(IF TooLong(Carried(pre, u)) THEN <<>> ELSE Carried(pre, u))
           /\ Pieces(IF TooLong(Carried(pre, u)) THEN <<>> ELSE Carried(pre, u),
                     z, u.own - 1)
    BY <1>12, <2>2, Prefixed
  <2>4. QED BY <1>3, <1>4, <2>1, <2>3, Zenon
<1>14. PICK c : c = Top
  OBVIOUS
<1>15. rest = Moved(Top, <<>>, Top.own, TRUE)
  <2>1. c \in Call
    <3>1. Top \in Call
      BY <1>10, Zenon
    <3>2. QED BY <1>14, <3>1
  <2>2. [c EXCEPT !.units = Tail(@), !.acc = <<>>, !.flushed = TRUE] = Moved(c, <<>>, c.own, TRUE)
    BY <2>1, EmptiedMoves
  <2>3. QED BY <1>7, <1>14, <2>2, Zenon
<1>16. Top.own \in Seq(Nat)
  BY <1>10, CallIs
<1>17. CASE segs' = before \o piece /\ calls' = <<rest>> \o Tail(calls)
  <2>1. Pieces(piece, z, Unit.end)
    <3>1. PICK u : u = Unit
      OBVIOUS
    <3>2. /\ u \in UnitRows /\ u.own <= u.end /\ z <= u.own /\ Pieces(carry, z, u.own - 1)
          /\ start = IF carry = <<>> THEN u.own ELSE carry[1].start
      BY <1>5, <1>10, <1>13, <3>1
    <3>3. Pieces(IF u.end - start >= MaxLines THEN Cut(start, u.end)
                 ELSE <<IF carry = <<>> THEN Seg(u.own, u.end, "either")
                        ELSE Absorb(Seg(u.own, u.end, "either"), carry[1])>>, z, u.end)
      BY <1>13, <3>2, OwnPieces
    <3>4. QED BY <1>6, <3>1, <3>3, Zenon
  <2>2. 0 <= z /\ z <= Unit.end + 1
    BY <1>10, <1>13
  <2>3. Pieces(before \o piece, 0, Unit.end)
    BY <1>10, <1>13, <2>1, <2>2, PiecesJoin
  <2>4. PICK x \in Nat : x = Unit.end + 1
    BY <1>10
  <2>5. x - 1 = Unit.end /\ x <= Unit.end + 1
    BY <1>10, <2>4
  <2>6. Pieces(segs', 0, x - 1)
    BY <1>17, <2>3, <2>5
  <2>7. AtMostOne(<<>>) /\ Pieces(<<>>, x, Unit.end)
    BY NoPieces DEF AtMostOne
  <2>8. calls' = <<Moved(Top, <<>>, Top.own, TRUE)>> \o Tail(calls)
    BY <1>15, <1>17
  <2>9. QED BY <1>8, <1>16, <2>5, <2>6, <2>7, <2>8, WalkStep
<1>18. CASE /\ segs' = before
            /\ calls' = <<Frame(Unit.node, Unit.own, carry, Top.depth + 1), rest>> \o Tail(calls)
  <2>1. PICK v, g : Walk(segs, calls, v, g, EndRow(file))
    BY DEF Walking
  <2>2. calls # <<>> /\ calls[1].units # <<>> /\ Unit = calls[1].units[1] /\ Top = calls[1]
    BY <1>8 DEF Taking, Unit, Top
  <2>3. rest \in Call /\ rest.units = Tail(calls[1].units) /\ rest.acc = <<>>
    <3>1. <<>> \in Seq(Segment) /\ TRUE \in BOOLEAN
      OBVIOUS
    <3>2. Moved(Top, <<>>, Top.own, TRUE) \in Call
      BY <1>10, <1>16, <2>2, <3>1, NextTop
    <3>3. QED BY <1>15, <2>2, <3>2 DEF Moved
  <2>4. PICK u : u = Unit
    OBVIOUS
  <2>5. u = calls[1].units[1] /\ u.end \in Nat /\ u.own \in Nat /\ u.own <= u.end
    BY <1>10, <2>2, <2>4
  <2>6. z <= u.end + 1
    BY <1>13, <2>4, <2>5
  <2>7. AtMostOne(rest.acc) /\ Pieces(rest.acc, z, u.end)
    BY <2>3, NoPieces DEF AtMostOne
  <2>8. PICK h : /\ Walk(before, <<rest>> \o Tail(calls), z, h, EndRow(file))
                 /\ h[1] = u.end + 1
    BY <1>13, <2>1, <2>2, <2>3, <2>5, <2>6, <2>7, WalkGoesOn
  <2>9. PICK cs : cs = <<rest>> \o Tail(calls)
    OBVIOUS
  <2>10. CallsFrom(cs, h, EndRow(file))
    BY <2>8, <2>9 DEF Walk
  <2>11. Tail(calls) \in Seq(Call)
    BY <2>1, <2>2, CallsPop DEF Walk
  <2>12. cs \in Seq(Call) /\ cs # <<>> /\ cs[1] = rest
    <3>1. PICK q \in Seq(Call) : q = Tail(calls)
      BY <2>11
    <3>2. cs = <<rest>> \o q /\ rest \in Call
      BY <2>3, <2>9, <3>1
    <3>3. QED BY <3>2
  <2>13. PICK fr : fr = Frame(Unit.node, Unit.own, carry, Top.depth + 1)
    OBVIOUS
  <2>14. fr = [units |-> Units(u.node, u.own, EndRow(file)), acc |-> carry, own |-> <<>>,
               flushed |-> FALSE, depth |-> Top.depth + 1]
    BY <2>4, <2>13 DEF Frame
  <2>15. EndRow(file) \in Int /\ u.node \in TreeNode
         /\ u.end = Lesser(u.node.end, EndRow(file))
    <3>1. u.node \in TreeNode /\ u.end = Lesser(u.node.end, EndRow(file))
      BY <1>9, <1>10, <2>4
    <3>2. u.node.end \in Nat
      BY <3>1, NodeIs
    <3>3. EndRow(file) \in Int
      BY FileIs
    <3>4. QED BY <3>1, <3>3
  <2>16. UnitsIn(fr.units, u.own, u.end, EndRow(file))
    BY <2>5, <2>14, <2>15, UnitsInOrder
  <2>17. fr \in Call
    <3>1. fr.units \in Seq(UnitRows)
      BY <2>16 DEF UnitsIn
    <3>2. Top.depth + 1 \in Nat
      BY <1>10, CallIs
    <3>3. carry \in Seq(Segment)
      BY <1>13 DEF Pieces
    <3>4. Units(u.node, u.own, EndRow(file)) \in Seq(UnitRows)
      BY <2>14, <3>1
    <3>5. QED BY <2>14, <3>2, <3>3, <3>4 DEF Call
  <2>18. u.own <= h[1] /\ UnitsIn(fr.units, u.own, h[1] - 1, EndRow(file))
    <3>1. h[1] - 1 = u.end /\ u.own <= h[1]
      BY <2>5, <2>8
    <3>2. QED BY <2>16, <3>1
  <2>19. PICK d : d = <<fr>> \o cs
    OBVIOUS
  <2>20. PICK k : k = <<u.own>> \o h
    OBVIOUS
  <2>21. CallsFrom(d, k, EndRow(file)) /\ d[1] = fr /\ k[1] = u.own
    <3>1. cs # <<>> => cs[1].acc = <<>>
      BY <2>3, <2>12
    <3>2. /\ CallsFrom(<<fr>> \o cs, <<u.own>> \o h, EndRow(file))
          /\ <<fr>> \o cs # <<>> /\ (<<fr>> \o cs)[1] = fr /\ (<<u.own>> \o h)[1] = u.own
      BY <2>5, <2>10, <2>17, <2>18, <3>1, CallsPush
    <3>3. QED BY <2>19, <2>20, <3>2, Zenon
  <2>22. fr.acc = carry /\ z <= k[1] /\ Pieces(carry, z, k[1] - 1)
    BY <1>13, <2>4, <2>14, <2>21
  <2>23. Walk(before, d, z, k, EndRow(file))
    BY <1>13, <2>21, <2>22 DEF Walk
  <2>24. calls' = d
    <3>1. PICK q \in Seq(Call) : q = Tail(calls)
      BY <2>11
    <3>2. <<fr, rest>> \o q = <<fr>> \o (<<rest>> \o q)
      BY <2>3, <2>17
    <3>3. QED BY <1>18, <2>9, <2>13, <2>19, <3>1, <3>2
  <2>25. EndRow(file') = EndRow(file) /\ segs' = before
    BY <1>8, <1>18
  <2>26. Walk(segs', calls', z, k, EndRow(file'))
    BY <2>23, <2>24, <2>25
  <2>27. QED BY <2>26 DEF Walking
<1>19. QED BY <1>8, <1>17, <1>18

LEMMA WalkStarts ==
  ASSUME ChunkerInit, stage = "split"
  PROVE  Walking
<1>1. file \in File /\ segs = <<>> /\ file.tree # <<>> /\ calls = <<Frame(file.tree[1], 0, <<>>, 0)>>
  BY DEF ChunkerInit
<1>2. PICK n \in TreeNode : n = file.tree[1]
  BY <1>1, FileIs
<1>3. PICK last \in Int : last = EndRow(file) /\ -1 <= last
  BY <1>1, FileIs
<1>4. PICK b \in Int : b = Lesser(n.end, last) /\ b + 1 \in Nat
  BY <1>3, NodeIs DEF Lesser
<1>5. PICK fr : fr = Frame(n, 0, <<>>, 0)
  OBVIOUS
<1>6. fr = [units |-> Units(n, 0, last), acc |-> <<>>, own |-> <<>>, flushed |-> FALSE,
            depth |-> 0]
  BY <1>3, <1>5 DEF Frame
<1>7. UnitsIn(fr.units, 0, b, last)
  BY <1>4, <1>6, UnitsInOrder
<1>8. fr \in Call
  <2>1. fr.units \in Seq(UnitRows)
    BY <1>7 DEF UnitsIn
  <2>2. Units(n, 0, last) \in Seq(UnitRows)
    BY <1>6, <2>1
  <2>3. QED BY <1>6, <2>2 DEF Call
<1>9. PICK c \in Nat : c = b + 1
  BY <1>4
<1>10. PICK g : g = <<c>>
  OBVIOUS
<1>11. g \in Seq(Nat) /\ Len(g) = 1 /\ g[1] = c
  BY <1>10
<1>12. CallsFrom(<<>>, g, last)
  BY <1>11 DEF CallsFrom
<1>13. UnitsIn(fr.units, 0, g[1] - 1, last) /\ 0 <= g[1]
  <2>1. g[1] - 1 = b
    BY <1>9, <1>11
  <2>2. QED BY <1>7, <1>11, <2>1
<1>14. PICK d : d = <<fr>> \o <<>>
  OBVIOUS
<1>15. PICK h : h = <<0>> \o g
  OBVIOUS
<1>16. CallsFrom(d, h, last) /\ d[1] = fr /\ h[1] = 0
  <2>1. PICK e : e = <<>>
    OBVIOUS
  <2>2. PICK z \in Nat : z = 0
    OBVIOUS
  <2>3. CallsFrom(e, g, last) /\ (e # <<>> => e[1].acc = <<>>)
    BY <1>12, <2>1
  <2>4. z <= g[1] /\ UnitsIn(fr.units, z, g[1] - 1, last)
    BY <1>13, <2>2
  <2>5. /\ CallsFrom(<<fr>> \o e, <<z>> \o g, last)
        /\ (<<fr>> \o e)[1] = fr /\ (<<z>> \o g)[1] = z
    BY <1>8, <2>3, <2>4, CallsPush
  <2>6. QED BY <1>14, <1>15, <2>1, <2>2, <2>5, Zenon
<1>17. fr.acc = <<>>
  BY <1>6
<1>18. AtMostOne(d[1].acc) /\ Pieces(d[1].acc, 0, h[1] - 1) /\ Pieces(<<>>, 0, 0 - 1)
  BY <1>16, <1>17, NoPieces DEF AtMostOne
<1>19. Walk(<<>>, d, 0, h, last)
  BY <1>16, <1>18 DEF Walk
<1>20. calls = d
  BY <1>1, <1>2, <1>5, <1>8, <1>14
<1>21. Walk(segs, calls, 0, h, EndRow(file))
  BY <1>1, <1>3, <1>19, <1>20
<1>22. QED BY <1>21 DEF Walking

-----------------------------------------------------------------------------
(***************************************************************************)
(* Segments that end on rows that are not blank.                            *)
(***************************************************************************)
TextRows(f) == NonBlank(f, 0, EndRow(f))

Ends(s, f) == Piece(s) /\ s.start \in TextRows(f) /\ s.end \in TextRows(f)

InLine(q, f) ==
  /\ q \in Seq(Segment)
  /\ \A i \in 1..Len(q) : Ends(q[i], f)
  /\ \A i, j \in 1..Len(q) : i < j => q[i].end < q[j].start

Apart(q, f) ==
  /\ q \in Seq(Segment)
  /\ \A i \in 1..Len(q) : Ends(q[i], f)
  /\ \A i, j \in 1..Len(q) : i # j => q[i].end < q[j].start \/ q[j].end < q[i].start

RowsOf(q) == UNION {q[i].start..q[i].end : i \in DOMAIN q}

LEMMA CoveredIs == Covered = RowsOf(segs) /\ Stray = TextRows(file) \ RowsOf(segs)
BY DEF Covered, RowsOf, Stray, TextRows

LEMMA RowsAre ==
  ASSUME NEW q, NEW r
  PROVE  r \in RowsOf(q) <=> \E i \in DOMAIN q : r \in q[i].start..q[i].end
BY DEF RowsOf

LEMMA TextRowsAre ==
  ASSUME NEW f \in File, NEW r
  PROVE  r \in TextRows(f) <=> r \in Nat /\ r <= EndRow(f) /\ ~Blank(f, r)
BY FileIs DEF TextRows, NonBlank

LEMMA EndsIs ==
  ASSUME NEW s, NEW f, Ends(s, f)
  PROVE  /\ s \in Segment /\ s.start \in Nat /\ s.end \in Nat /\ s.start <= s.end
         /\ s.end - s.start < MaxLines
BY DEF Ends, Piece, Segment

\* The rows of the segment i that trimming leaves.
LeftOf(f, s, i) == NonBlank(f, s[i].start, Lesser(s[i].end, EndRow(f)))

LEMMA TrimIs ==
  ASSUME NEW f \in File, NEW s, NEW a \in Int, NEW b \in Int, Pieces(s, a, b)
  PROVE  InLine(Trim(f, s), f)
<1>1. PICK n \in Nat : n = Len(s) /\ DOMAIN s = 1..n
  BY DEF Pieces
<1>2. PICK kept : kept = {i \in DOMAIN s : LeftOf(f, s, i) # {}}
  OBVIOUS
<1>3. PICK own : own = [i \in kept |-> Seg(Min(LeftOf(f, s, i)), Max(LeftOf(f, s, i)), s[i].affinity)]
  OBVIOUS
<1>4. PICK q : q = Trim(f, s)
  OBVIOUS
<1>5. q = At(own, kept)
  BY <1>2, <1>3, <1>4 DEF Trim, LeftOf
<1>6. kept \in SUBSET (1..n)
  BY <1>1, <1>2
<1>7. IsFiniteSet(kept) /\ kept \subseteq Int
  <2>1. IsFiniteSet(1..n)
    BY FS_Interval
  <2>2. IsFiniteSet(kept)
    BY <1>6, <2>1, FS_Subset
  <2>3. kept \subseteq Int
    BY <1>6
  <2>4. QED BY <2>2, <2>3
<1>8. \A i \in 1..n : /\ Piece(s[i]) /\ s[i].start \in Nat /\ s[i].end \in Nat
                      /\ s[i].affinity \in Affinity /\ s[i].end - s[i].start < MaxLines
  BY <1>1 DEF Pieces, Piece, Segment
<1>9. ASSUME NEW i \in kept
      PROVE  /\ own[i] \in Segment /\ Ends(own[i], f)
             /\ s[i].start <= own[i].start /\ own[i].end <= s[i].end
  <2>1. i \in 1..n /\ LeftOf(f, s, i) # {}
    BY <1>2, <1>6
  <2>2. PICK x \in Nat, y \in Nat : x = s[i].start /\ y = s[i].end /\ y - x < MaxLines
    BY <1>8, <2>1
  <2>3. PICK c \in Int : c = Lesser(y, EndRow(f)) /\ c <= y /\ c <= EndRow(f)
    BY FileIs, <2>2 DEF Lesser
  <2>4. PICK T : T = LeftOf(f, s, i)
    OBVIOUS
  <2>5. T = {r \in x..c : ~Blank(f, r)}
    BY <2>2, <2>3, <2>4 DEF LeftOf, NonBlank
  <2>6. T \in SUBSET (x..c) /\ T # {} /\ T \subseteq Nat
    BY <2>1, <2>4, <2>5
  <2>7. Min(T) \in T /\ \A r \in T : Min(T) <= r
    BY <2>6, LeastOf
  <2>8. Max(T) \in T /\ \A r \in T : r <= Max(T)
    <3>1. PICK W \in SUBSET (x..c) : W = T
      BY <2>6
    <3>2. W # {}
      BY <2>6, <3>1
    <3>3. x \in Int /\ c \in Int
      BY <2>2
    <3>4. Max(W) \in W /\ \A r \in W : r <= Max(W)
      BY <3>1, <3>2, <3>3, LargestIn, Zenon
    <3>5. QED BY <3>1, <3>4
  <2>9. PICK lo \in T, hi \in T : lo = Min(T) /\ hi = Max(T) /\ lo <= hi
    BY <2>7, <2>8
  <2>10. own[i] = Seg(lo, hi, s[i].affinity)
    BY <1>3, <2>4, <2>9
  <2>11. /\ lo \in Nat /\ hi \in Nat /\ x <= lo /\ hi <= y /\ hi <= EndRow(f) /\ lo <= EndRow(f)
         /\ ~Blank(f, lo) /\ ~Blank(f, hi)
    <3>1. lo \in x..c /\ hi \in x..c /\ ~Blank(f, lo) /\ ~Blank(f, hi)
      BY <2>5
    <3>2. EndRow(f) \in Int
      BY FileIs
    <3>3. QED BY <2>3, <3>1, <3>2
  <2>12. own[i] \in Segment /\ own[i].start = lo /\ own[i].end = hi
    BY <1>8, <2>1, <2>10, <2>11, SegIs
  <2>13. Piece(own[i])
    <3>1. hi - lo < MaxLines
      BY <2>2, <2>11, Bounds
    <3>2. QED BY <2>9, <2>12, <3>1 DEF Piece
  <2>14. lo \in TextRows(f) /\ hi \in TextRows(f)
    BY <2>11, TextRowsAre
  <2>15. QED BY <2>2, <2>11, <2>12, <2>13, <2>14 DEF Ends
<1>10. q \in Seq(Segment) /\ Len(q) = Cardinality(kept)
  <2>1. \A i \in kept : own[i] \in Segment
    BY <1>9
  <2>2. At(own, kept) \in Seq(Segment) /\ Len(At(own, kept)) = Cardinality(kept)
    BY <1>7, <2>1, AtWithin
  <2>3. QED BY <1>5, <2>2
<1>11. \A k \in 1..Cardinality(kept) : q[k] = own[Chosen(kept, k)]
  <2>1. \A k \in 1..Cardinality(kept) : At(own, kept)[k] = own[Chosen(kept, k)]
    BY <1>7, AtIs, Zenon
  <2>2. QED BY <1>5, <2>1
<1>12. /\ \A i \in 1..Cardinality(kept) : Chosen(kept, i) \in kept
       /\ \A i, j \in 1..Cardinality(kept) : i < j => Chosen(kept, i) < Chosen(kept, j)
  BY <1>7, ChosenRises
<1>13. ASSUME NEW i \in kept, NEW j \in kept, i < j PROVE own[i].end < own[j].start
  <2>1. s[i].end < s[j].start /\ i \in 1..n /\ j \in 1..n
    BY <1>1, <1>6, <1>13 DEF Pieces
  <2>2. own[i].end <= s[i].end /\ s[j].start <= own[j].start
    BY <1>9
  <2>3. own[i].end \in Nat /\ own[j].start \in Nat
    BY <1>9, EndsIs
  <2>4. QED BY <1>8, <2>1, <2>2, <2>3
<1>14. InLine(q, f)
  BY <1>9, <1>10, <1>11, <1>12, <1>13 DEF InLine
<1>15. QED BY <1>4, <1>14

\* The stretch of rows that Cover gives out keeps the segments apart.
LEMMA CoverAdds ==
  ASSUME file \in File, Apart(segs, file), stage = "cover", Cover, Stray # {}
  PROVE  Apart(segs', file)
<1>1. PICK T : T = Stray
  OBVIOUS
<1>2. T \subseteq Nat /\ T # {} /\ \A r \in T : r \in TextRows(file) /\ r \notin RowsOf(segs)
  BY <1>1, CoveredIs, TextRowsAre
<1>3. Min(T) \in T /\ \A i \in T : Min(T) <= i
  BY <1>2, LeastOf
<1>4. PICK r \in T : r = Min(T)
  BY <1>3
<1>5. PICK M \in Nat \ {0} : M = MaxLines
  BY Bounds
<1>6. PICK c \in Int : c = Lesser(r + M - 1, EndRow(file)) /\ c <= r + M - 1 /\ c <= EndRow(file)
                       /\ (r <= EndRow(file) => r <= c)
  BY <1>2, FileIs DEF Lesser
<1>7. PICK run : run = {e \in r..c : r..e \cap Covered = {}}
  OBVIOUS
<1>8. r \in Nat /\ r <= EndRow(file) /\ r \in TextRows(file) /\ r \notin RowsOf(segs)
  BY <1>2, TextRowsAre
<1>9. PICK W \in SUBSET (r..c) : W = run \cap T
  BY <1>7
<1>10. W # {}
  <2>1. r..r = {r} /\ r \in r..c
    BY <1>6, <1>8
  <2>2. r \in run
    BY <1>7, <1>8, <2>1, CoveredIs
  <2>3. QED BY <1>9, <2>2
<1>11. Max(W) \in W /\ \A i \in W : i <= Max(W)
  <2>1. r \in Int /\ c \in Int
    BY <1>8
  <2>2. QED BY <1>9, <1>10, <2>1, LargestIn, Zenon
<1>12. PICK m \in W : m = Max(W)
  BY <1>11
<1>13. /\ m \in Nat /\ r <= m /\ m <= r + M - 1 /\ m \in TextRows(file)
       /\ r..m \cap RowsOf(segs) = {}
  <2>1. m \in r..c /\ m \in T /\ r..m \cap Covered = {}
    BY <1>7, <1>9
  <2>2. m \in Int /\ r <= m /\ m <= c
    BY <1>6, <1>8, <2>1
  <2>3. QED BY <1>2, <1>6, <1>8, <2>1, <2>2, CoveredIs
<1>14. PICK new : new = Seg(r, m, "either")
  OBVIOUS
<1>15. new \in Segment /\ new.start = r /\ new.end = m
  BY <1>8, <1>13, <1>14, SegIs DEF Affinity
<1>16. Ends(new, file)
  <2>1. m - r < MaxLines
    BY <1>5, <1>8, <1>13
  <2>2. QED BY <1>8, <1>13, <1>15, <2>1 DEF Ends, Piece
<1>17. segs' = Append(segs, new)
  <2>1. segs' = Append(segs, Seg(Min(T), Max({e \in Min(T)..Lesser(Min(T) + M - 1, EndRow(file)) :
                                              Min(T)..e \cap Covered = {}} \cap T), "either"))
    BY <1>1, <1>5 DEF Cover
  <2>2. run = {e \in Min(T)..Lesser(Min(T) + M - 1, EndRow(file)) : Min(T)..e \cap Covered = {}}
    BY <1>4, <1>6, <1>7
  <2>3. Max(run \cap T) = m
    BY <1>9, <1>12
  <2>4. QED BY <1>4, <1>14, <2>1, <2>2, <2>3
<1>18. PICK n \in Nat : n = Len(segs) /\ DOMAIN segs = 1..n
  BY DEF Apart
<1>19. PICK q : q = segs'
  OBVIOUS
<1>20. /\ q \in Seq(Segment) /\ Len(q) = n + 1 /\ q[n + 1] = new
       /\ \A i \in 1..n : q[i] = segs[i]
  BY <1>15, <1>17, <1>18, <1>19 DEF Apart
<1>21. ASSUME NEW i \in 1..n PROVE segs[i].end < r \/ m < segs[i].start
  <2>1. segs[i].start \in Nat /\ segs[i].end \in Nat /\ segs[i].start <= segs[i].end
    BY <1>18, EndsIs DEF Apart
  <2>2. \A k : k \in segs[i].start..segs[i].end => k \notin r..m
    BY <1>13, <1>18, RowsAre
  <2>3. PICK x \in Nat, y \in Nat : x = segs[i].start /\ y = segs[i].end /\ x <= y
    BY <2>1
  <2>4. CASE x <= r
    <3>1. ~(r <= y)
      BY <1>8, <1>13, <2>2, <2>3, <2>4
    <3>2. QED BY <1>8, <2>3, <3>1
  <2>5. CASE r < x
    <3>1. ~(x <= m)
      BY <1>8, <1>13, <2>2, <2>3, <2>5
    <3>2. QED BY <1>13, <2>3, <3>1
  <2>6. QED BY <1>8, <2>3, <2>4, <2>5
<1>22. \A i \in 1..(n + 1) : i \in 1..n \/ i = n + 1
  OBVIOUS
<1>23. \A i \in 1..(n + 1) : Ends(q[i], file)
  BY <1>16, <1>18, <1>20, <1>22 DEF Apart
<1>24. ASSUME NEW i \in 1..(n + 1), NEW j \in 1..(n + 1), i # j
       PROVE  q[i].end < q[j].start \/ q[j].end < q[i].start
  <2>1. CASE i \in 1..n /\ j \in 1..n
    BY <1>18, <1>20, <1>24, <2>1 DEF Apart
  <2>2. CASE i \in 1..n /\ j = n + 1
    BY <1>15, <1>20, <1>21, <2>2
  <2>3. CASE i = n + 1 /\ j \in 1..n
    BY <1>15, <1>20, <1>21, <2>3
  <2>4. QED BY <1>22, <1>24, <2>1, <2>2, <2>3
<1>25. Apart(q, file)
  BY <1>20, <1>23, <1>24 DEF Apart
<1>26. QED BY <1>19, <1>25

LEMMA ListedSo ==
  ASSUME NEW S, NEW R, InOneOrder(S, R), NEW l, l = ListedBy(S, R), NEW m, m = Cardinality(S)
  PROVE  /\ l \in Seq(S) /\ Len(l) = m /\ ToSet(l) = S /\ DOMAIN l = 1..m
         /\ \A i, j \in 1..m : i < j <=> <<l[i], l[j]>> \in R
<1>1. ListedBy(S, R) \in Seq(S) /\ Len(ListedBy(S, R)) = Cardinality(S)
  BY ListedIs
<1>2. ToSet(ListedBy(S, R)) = S /\ DOMAIN ListedBy(S, R) = 1..Cardinality(S)
  BY ListedIs
<1>3. \A i, j \in 1..Cardinality(S) :
        i < j <=> <<ListedBy(S, R)[i], ListedBy(S, R)[j]>> \in R
  BY ListedIs
<1>4. QED BY <1>1, <1>2, <1>3

\* Segments that are apart, sorted by where they start.
ByStart(s, S, R) == S = ToSet(s) /\ \A x, y \in S : <<x, y>> \in R <=> x.start < y.start

LEMMA SortedIs ==
  ASSUME NEW s, NEW f, Apart(s, f), NEW S, NEW R, ByStart(s, S, R)
  PROVE  InLine(ListedBy(S, R), f) /\ RowsOf(ListedBy(S, R)) = RowsOf(s)
<1>1. PICK n \in Nat : n = Len(s) /\ DOMAIN s = 1..n
  BY DEF Apart
<1>2. S = ToSet(s)
  BY DEF ByStart
<1>3. S = {s[i] : i \in 1..n}
  BY <1>1, <1>2 DEF ToSet
<1>4. IsFiniteSet(S)
  <2>1. IsFiniteSet(1..n)
    BY FS_Interval
  <2>2. s = [i \in 1..n |-> s[i]]
    BY <1>1 DEF Apart
  <2>3. DOMAIN s = 1..n
    BY <1>1
  <2>4. QED BY <1>3, <2>1, <2>2, <2>3, FiniteImage, Zenon
<1>5. \A x \in S : /\ Ends(x, f) /\ x \in Segment /\ x.start \in Nat /\ x.end \in Nat
                   /\ x.start <= x.end
  <2>1. \A x \in S : Ends(x, f)
    BY <1>1, <1>3 DEF Apart
  <2>2. QED BY <2>1, EndsIs
<1>6. \A x, y \in S : x # y => x.end < y.start \/ y.end < x.start
  BY <1>1, <1>3 DEF Apart
<1>8. \A x, y \in S : <<x, y>> \in R <=> x.start < y.start
  BY DEF ByStart
<1>9. InOneOrder(S, R)
  <2>1. \A x \in S : <<x, x>> \notin R
    BY <1>5, <1>8
  <2>2. \A x, y, z \in S : <<x, y>> \in R /\ <<y, z>> \in R => <<x, z>> \in R
    BY <1>5, <1>8
  <2>3. \A x, y \in S : x # y => <<x, y>> \in R \/ <<y, x>> \in R
    <3>1. ASSUME NEW x \in S, NEW y \in S, x # y PROVE x.start < y.start \/ y.start < x.start
      BY <1>5, <1>6, <3>1
    <3>2. QED BY <1>8, <3>1
  <2>4. QED BY <1>4, <2>1, <2>2, <2>3 DEF InOneOrder
<1>10. PICK l : l = ListedBy(S, R)
  OBVIOUS
<1>11. PICK m \in Nat : m = Cardinality(S)
  BY <1>4, FS_CardinalityType
<1>12. /\ l \in Seq(S) /\ Len(l) = m /\ ToSet(l) = S /\ DOMAIN l = 1..m
       /\ \A i, j \in 1..m : i < j <=> <<l[i], l[j]>> \in R
  BY <1>9, <1>10, <1>11, ListedSo
<1>14. l \in Seq(Segment) /\ \A i \in 1..m : l[i] \in S
  <2>1. l \in Seq(S) /\ Len(l) = m
    BY <1>12
  <2>2. \A i \in 1..m : l[i] \in S
    BY <2>1
  <2>3. S \subseteq Segment
    BY <1>5
  <2>4. \A i \in 1..m : l[i] \in Segment
    BY <2>2, <2>3
  <2>5. l \in [1..m -> Segment]
    BY <1>12, <2>4
  <2>6. QED BY <2>2, <2>5
<1>15. ASSUME NEW i \in 1..m, NEW j \in 1..m, i < j PROVE l[i].end < l[j].start
  <2>1. PICK x \in S, y \in S : x = l[i] /\ y = l[j]
    BY <1>14
  <2>2. x.start < y.start
    BY <1>8, <1>12, <1>15, <2>1
  <2>3. x # y
    BY <1>5, <2>2
  <2>4. x.end < y.start
    BY <1>5, <1>6, <2>2, <2>3
  <2>5. QED BY <2>1, <2>4
<1>16. InLine(l, f)
  BY <1>5, <1>12, <1>14, <1>15 DEF InLine
<1>17. RowsOf(l) = RowsOf(s)
  <2>1. RowsOf(l) = UNION {x.start..x.end : x \in ToSet(l)}
    BY DEF RowsOf, ToSet
  <2>2. RowsOf(s) = UNION {x.start..x.end : x \in ToSet(s)}
    BY DEF RowsOf, ToSet
  <2>3. QED BY <1>2, <1>12, <2>1, <2>2
<1>18. QED BY <1>10, <1>16, <1>17

\* All rows that are not blank are in the segments or after the last of them.
ReadSoFar(q, f) ==
  InLine(q, f)
    /\ \A r \in TextRows(f) : r \in RowsOf(q) \/ (q # <<>> => q[Len(q)].end < r)

LEMMA UnreadIs ==
  ASSUME file \in File, ReadSoFar(segs, file)
  PROVE  \A r : r \in Unread <=>
                  r \in TextRows(file) /\ (segs # <<>> => segs[Len(segs)].end < r)
<1>1. PICK last \in Int : last = EndRow(file)
  BY FileIs
<1>2. CASE segs = <<>>
  BY <1>1, <1>2 DEF Unread, TextRows, NonBlank
<1>3. CASE segs # <<>>
  <2>1. segs \in Seq(Segment) /\ \A i \in 1..Len(segs) : Ends(segs[i], file)
    BY DEF ReadSoFar, InLine
  <2>2. Len(segs) \in 1..Len(segs)
    BY <1>3, <2>1
  <2>3. PICK e \in Nat : e = segs[Len(segs)].end
    BY <2>1, <2>2, EndsIs
  <2>4. Unread = NonBlank(file, e + 1, last)
    BY <1>1, <1>3, <2>3 DEF Unread
  <2>5. TextRows(file) = NonBlank(file, 0, last)
    BY <1>1 DEF TextRows
  <2>6. \A r : r \in NonBlank(file, e + 1, last) <=> r \in NonBlank(file, 0, last) /\ e < r
    BY <1>1 DEF NonBlank
  <2>7. QED BY <1>3, <2>3, <2>4, <2>5, <2>6
<1>4. QED BY <1>2, <1>3

LEMMA WindowSizeIs ==
  WindowSize \in Nat \ {0} /\ WindowSize <= MaxLines
BY Bounds DEF WindowSize, Lesser, Greater

LEMMA WindowEndIs ==
  ASSUME NEW f \in File, NEW s, s \in TextRows(f)
  PROVE  /\ WindowEnd(f, s) \in TextRows(f) /\ s <= WindowEnd(f, s)
         /\ WindowEnd(f, s) - s < MaxLines
<1>1. s \in Nat /\ s <= EndRow(f) /\ ~Blank(f, s)
  BY TextRowsAre
<1>2. PICK last \in Int : last = EndRow(f)
  BY FileIs
<1>3. PICK hard \in Nat : hard = s + WindowSize - 1 /\ hard - s < MaxLines /\ s <= hard
  BY <1>1, WindowSizeIs, Bounds
<1>4. PICK m \in Nat : m = s + MinLines
  BY <1>1, Bounds
<1>5. PICK blanks \in SUBSET (m..(hard + 1)) : blanks = {b \in m..(hard + 1) : Blank(f, b)}
  OBVIOUS
<1>6. PICK end : end = IF hard >= last THEN last
                       ELSE IF blanks = {} THEN hard ELSE Max(blanks) - 1
  OBVIOUS
<1>7. end \in Int /\ end <= hard /\ end <= last
  <2>1. CASE hard >= last
    BY <1>2, <1>3, <1>6, <2>1
  <2>2. CASE ~(hard >= last) /\ blanks = {}
    BY <1>2, <1>3, <1>6, <2>2
  <2>3. CASE ~(hard >= last) /\ blanks # {}
    <3>1. m \in Int /\ hard + 1 \in Int
      BY <1>3, <1>4
    <3>2. Max(blanks) \in blanks
      BY <1>5, <2>3, <3>1, LargestIn, Zenon
    <3>3. Max(blanks) \in Int /\ Max(blanks) <= hard + 1
      BY <1>3, <1>4, <1>5, <3>2
    <3>4. end = Max(blanks) - 1
      BY <1>6, <2>3
    <3>5. QED BY <1>2, <1>3, <2>3, <3>3, <3>4
  <2>4. QED BY <2>1, <2>2, <2>3
<1>8. PICK T : T = NonBlank(f, s, end) \cup {s}
  OBVIOUS
<1>9. WindowEnd(f, s) = Max(T)
  BY <1>2, <1>3, <1>4, <1>5, <1>6, <1>8 DEF WindowEnd
<1>10. \A r \in T : r \in Nat /\ s <= r /\ r <= hard /\ r <= last /\ ~Blank(f, r)
  BY <1>1, <1>2, <1>3, <1>7, <1>8 DEF NonBlank
<1>11. T \in SUBSET (s..hard) /\ T # {} /\ s \in Int /\ hard \in Int
  BY <1>1, <1>3, <1>8, <1>10
<1>12. Max(T) \in T
  BY <1>11, LargestIn, Zenon
<1>13. PICK e \in T : e = Max(T)
  BY <1>12
<1>14. e \in Nat /\ s <= e /\ e <= hard /\ e <= last /\ ~Blank(f, e)
  BY <1>10
<1>15. e \in TextRows(f)
  BY <1>2, <1>14, TextRowsAre
<1>16. e - s < MaxLines
  BY <1>1, <1>3, <1>14, Bounds
<1>17. QED BY <1>9, <1>13, <1>14, <1>15, <1>16

LEMMA WindowTaken ==
  ASSUME file \in File, ReadSoFar(segs, file), TakeWindow, Unread # {}
  PROVE  ReadSoFar(segs', file)
<1>1. PICK T : T = Unread
  OBVIOUS
<1>2. \A r : r \in T <=> r \in TextRows(file) /\ (segs # <<>> => segs[Len(segs)].end < r)
  BY <1>1, UnreadIs
<1>3. T \subseteq Nat /\ T # {}
  BY <1>1, <1>2, TextRowsAre
<1>4. Min(T) \in T /\ \A r \in T : Min(T) <= r
  BY <1>3, LeastOf
<1>5. PICK s \in T : s = Min(T) /\ \A r \in T : s <= r
  BY <1>4
<1>6. s \in TextRows(file)
  BY <1>2
<1>7. PICK e : e = WindowEnd(file, s)
  OBVIOUS
<1>8. e \in TextRows(file) /\ s <= e /\ e - s < MaxLines /\ s \in Nat /\ e \in Nat
  BY <1>6, <1>7, WindowEndIs, TextRowsAre
<1>9. PICK new : new = Seg(s, e, "back")
  OBVIOUS
<1>10. new \in Segment /\ new.start = s /\ new.end = e
  BY <1>8, <1>9, SegIs DEF Affinity
<1>11. Ends(new, file)
  BY <1>6, <1>8, <1>10 DEF Ends, Piece
<1>12. segs' = Append(segs, new)
  BY <1>1, <1>5, <1>7, <1>9 DEF TakeWindow
<1>13. PICK n \in Nat : n = Len(segs) /\ DOMAIN segs = 1..n /\ segs \in Seq(Segment)
  BY DEF ReadSoFar, InLine
<1>14. PICK q : q = segs'
  OBVIOUS
<1>15. /\ q \in Seq(Segment) /\ Len(q) = n + 1 /\ DOMAIN q = 1..(n + 1) /\ q[n + 1] = new
       /\ \A i \in 1..n : q[i] = segs[i]
  BY <1>10, <1>12, <1>13, <1>14
<1>16. /\ \A i \in 1..n : Ends(segs[i], file)
       /\ \A i, j \in 1..n : i < j => segs[i].end < segs[j].start
       /\ \A r \in TextRows(file) : r \in RowsOf(segs) \/ (segs # <<>> => segs[n].end < r)
  BY <1>13 DEF ReadSoFar, InLine
<1>17. \A i \in 1..n : segs[i].start \in Nat /\ segs[i].end \in Nat
                       /\ segs[i].start <= segs[i].end
  BY <1>16, EndsIs
<1>18. ASSUME NEW i \in 1..n PROVE segs[i].end < s
  <2>1. n \in 1..n /\ segs # <<>>
    BY <1>13
  <2>2. segs[n].end < s
    BY <1>2, <1>13, <2>1
  <2>3. CASE i = n
    BY <2>2, <2>3
  <2>4. CASE i < n
    <3>1. segs[i].end < segs[n].start
      BY <1>16, <2>1, <2>4
    <3>2. QED BY <1>8, <1>17, <2>1, <2>2, <3>1
  <2>5. QED BY <2>3, <2>4
<1>19. \A i \in 1..(n + 1) : i \in 1..n \/ i = n + 1
  OBVIOUS
<1>20. \A i \in 1..(n + 1) : Ends(q[i], file)
  BY <1>11, <1>15, <1>16, <1>19
<1>21. ASSUME NEW i \in 1..(n + 1), NEW j \in 1..(n + 1), i < j PROVE q[i].end < q[j].start
  <2>1. i \in 1..n
    BY <1>21
  <2>2. CASE j \in 1..n
    BY <1>15, <1>16, <1>21, <2>1, <2>2
  <2>3. CASE j = n + 1
    BY <1>10, <1>15, <1>18, <2>1, <2>3
  <2>4. QED BY <1>19, <2>2, <2>3
<1>22. InLine(q, file)
  BY <1>15, <1>20, <1>21 DEF InLine
<1>23. ASSUME NEW r \in TextRows(file) PROVE r \in RowsOf(q) \/ q[Len(q)].end < r
  <2>1. r \in Nat
    BY TextRowsAre
  <2>2. CASE r \in RowsOf(segs)
    <3>1. PICK i \in 1..n : r \in segs[i].start..segs[i].end
      BY <1>13, <2>2, RowsAre
    <3>2. i \in DOMAIN q /\ r \in q[i].start..q[i].end
      BY <1>15, <3>1
    <3>3. QED BY <3>2, RowsAre
  <2>3. CASE r \notin RowsOf(segs)
    <3>1. r \in T
      BY <1>2, <1>13, <1>16, <2>3
    <3>2. s <= r
      BY <1>5, <3>1
    <3>3. CASE r <= e
      <4>1. n + 1 \in DOMAIN q /\ q[n + 1].start = s /\ q[n + 1].end = e
        BY <1>10, <1>15
      <4>2. r \in q[n + 1].start..q[n + 1].end
        BY <1>8, <2>1, <3>2, <3>3, <4>1
      <4>3. QED BY <4>1, <4>2, RowsAre
    <3>4. CASE e < r
      BY <1>10, <1>15, <3>4
    <3>5. QED BY <1>8, <2>1, <3>3, <3>4
  <2>4. QED BY <2>2, <2>3
<1>24. ReadSoFar(q, file)
  BY <1>22, <1>23 DEF ReadSoFar
<1>25. QED BY <1>14, <1>24

-----------------------------------------------------------------------------
(***************************************************************************)
(* Merging.                                                                 *)
(***************************************************************************)
LEMMA OneAfterOther ==
  ASSUME NEW S, NEW a \in Seq(S), NEW b \in Seq(S), NEW c \in Nat, c = Len(a),
         NEW d \in Nat, d = Len(b), NEW r, r = a \o b
  PROVE  /\ r \in Seq(S) /\ Len(r) = c + d /\ \A k \in 1..c : r[k] = a[k]
         /\ \A k \in 1..(c + d) : k > c => r[k] = b[k - c]
OBVIOUS

\* All of q but the element i.
Without(S, q, n, i, r) ==
  /\ r \in Seq(S) /\ Len(r) = n - 1
  /\ \A k \in 1..(i - 1) : r[k] = q[k]
  /\ \A k \in i..(n - 1) : r[k] = q[k + 1]

LEMMA RemovedIs ==
  ASSUME NEW S, NEW q \in Seq(S), NEW n \in Nat, n = Len(q), NEW i \in 1..n
  PROVE  Without(S, q, n, i, RemoveAt(q, i))
<1>1. PICK a : a = SubSeq(q, 1, i - 1)
  OBVIOUS
<1>2. PICK b : b = SubSeq(q, i + 1, n)
  OBVIOUS
<1>3. a \in Seq(S) /\ Len(a) = i - 1 /\ \A k \in 1..(i - 1) : a[k] = q[k]
  BY <1>1
<1>4. b \in Seq(S) /\ Len(b) = n - i /\ \A k \in 1..(n - i) : b[k] = q[i + k]
  BY <1>2
<1>5. RemoveAt(q, i) = a \o b
  BY <1>1, <1>2 DEF RemoveAt
<1>6. PICK r : r = a \o b
  OBVIOUS
<1>7. /\ r \in Seq(S) /\ Len(r) = n - 1 /\ \A k \in 1..(i - 1) : r[k] = a[k]
      /\ \A k \in i..(n - 1) : r[k] = b[k - (i - 1)]
  <2>1. i - 1 \in Nat /\ n - i \in Nat
    OBVIOUS
  <2>2. PICK c \in Nat, d \in Nat : c = i - 1 /\ d = n - i
    BY <2>1
  <2>3. a \in Seq(S) /\ c = Len(a) /\ b \in Seq(S) /\ d = Len(b)
    BY <1>3, <1>4, <2>2
  <2>4. /\ r \in Seq(S) /\ Len(r) = c + d /\ \A k \in 1..c : r[k] = a[k]
        /\ \A k \in 1..(c + d) : k > c => r[k] = b[k - c]
    BY <1>6, <2>3, OneAfterOther
  <2>5. \A k \in i..(n - 1) : k \in 1..(c + d) /\ k > c
    BY <2>2
  <2>6. c + d = n - 1
    BY <2>2
  <2>7. QED BY <2>2, <2>4, <2>5, <2>6
<1>8. ASSUME NEW k \in i..(n - 1) PROVE r[k] = q[k + 1]
  <2>1. k - (i - 1) \in 1..(n - i) /\ i + (k - (i - 1)) = k + 1
    OBVIOUS
  <2>2. b[k - (i - 1)] = q[i + (k - (i - 1))]
    BY <1>4, <2>1
  <2>3. QED BY <1>7, <2>1, <2>2
<1>9. QED BY <1>3, <1>5, <1>6, <1>7, <1>8 DEF Without

\* The segment i is not undersized or fits with no neighbour.
StaysAlone(q, i) ==
  Rows(q[i]) < MinLines =>
    /\ i > 1 => q[i].end - q[i - 1].start >= MaxLines
    /\ i < Len(q) => q[i + 1].end - q[i].start >= MaxLines

Merging(q, f, m) ==
  /\ InLine(q, f) /\ TextRows(f) \subseteq RowsOf(q)
  /\ m \in 1..(Len(q) + 1)
  /\ \A i \in 1..(m - 1) : StaysAlone(q, i)

LEMMA StaysAloneIs ==
  ASSUME NEW f, InLine(segs, f), NEW i \in 1..Len(segs)
  PROVE  StaysAlone(segs, i) <=> (Undersized(i) => ~Fit(BackRows(i)) /\ ~Fit(FwdRows(i)))
<1>1. PICK n \in Nat : n = Len(segs)
  BY DEF InLine
<1>2. \A k \in 1..n : segs[k].start \in Nat /\ segs[k].end \in Nat
  BY <1>1, EndsIs DEF InLine
<1>3. Fit(BackRows(i)) <=> i > 1 /\ ~(segs[i].end - segs[i - 1].start >= MaxLines)
  <2>1. CASE i = 1
    BY <2>1 DEF Fit, BackRows
  <2>2. CASE i # 1
    <3>1. i - 1 \in 1..n /\ i > 1
      BY <1>1, <2>2
    <3>2. PICK x \in Nat, y \in Nat : x = segs[i - 1].start /\ y = segs[i].end
      BY <1>1, <1>2, <3>1
    <3>3. BackRows(i) = <<y - x + 1>>
      BY <2>2, <3>2 DEF BackRows
    <3>4. Fit(BackRows(i)) <=> y - x + 1 <= MaxLines
      BY <3>3 DEF Fit
    <3>5. y - x + 1 <= MaxLines <=> ~(y - x >= MaxLines)
      BY Bounds
    <3>6. QED BY <3>1, <3>2, <3>4, <3>5
  <2>3. QED BY <2>1, <2>2
<1>4. Fit(FwdRows(i)) <=> i < n /\ ~(segs[i + 1].end - segs[i].start >= MaxLines)
  <2>1. CASE i = n
    BY <1>1, <2>1 DEF Fit, FwdRows
  <2>2. CASE i # n
    <3>1. i + 1 \in 1..n /\ i < n
      BY <1>1, <2>2
    <3>2. PICK x \in Nat, y \in Nat : x = segs[i].start /\ y = segs[i + 1].end
      BY <1>1, <1>2, <3>1
    <3>3. FwdRows(i) = <<y - x + 1>>
      BY <1>1, <2>2, <3>2 DEF FwdRows
    <3>4. Fit(FwdRows(i)) <=> y - x + 1 <= MaxLines
      BY <3>3 DEF Fit
    <3>5. y - x + 1 <= MaxLines <=> ~(y - x >= MaxLines)
      BY Bounds
    <3>6. QED BY <3>1, <3>2, <3>4, <3>5
  <2>3. QED BY <2>1, <2>2
<1>5. QED BY <1>1, <1>3, <1>4 DEF StaysAlone, Undersized

\* The segments k and k + 1 as one.
Joined(q, r, k) ==
  /\ r \in Seq(Segment) /\ Len(r) = Len(q) - 1
  /\ \A i \in 1..(k - 1) : r[i] = q[i]
  /\ r[k].start = q[k].start /\ r[k].end = q[k + 1].end
  /\ \A i \in (k + 1)..(Len(q) - 1) : r[i] = q[i + 1]

LEMMA JoinedIs ==
  ASSUME NEW q, NEW f, InLine(q, f), TextRows(f) \subseteq RowsOf(q),
         NEW n \in Nat, n = Len(q), NEW k \in 1..(n - 1),
         NEW r, Joined(q, r, k), q[k + 1].end - q[k].start < MaxLines,
         \A i \in 1..(k - 1) : StaysAlone(q, i)
  PROVE  Merging(r, f, k)
<1>1. /\ q \in Seq(Segment) /\ DOMAIN q = 1..n
      /\ \A i \in 1..n : Ends(q[i], f) /\ q[i].start \in Nat /\ q[i].end \in Nat
                         /\ q[i].start <= q[i].end
      /\ \A i, j \in 1..n : i < j => q[i].end < q[j].start
  BY EndsIs DEF InLine
<1>2. /\ r \in Seq(Segment) /\ Len(r) = n - 1 /\ DOMAIN r = 1..(n - 1)
      /\ \A i \in 1..(k - 1) : r[i] = q[i]
      /\ r[k].start = q[k].start /\ r[k].end = q[k + 1].end
      /\ \A i \in (k + 1)..(n - 1) : r[i] = q[i + 1]
  BY DEF Joined
<1>3. k \in 1..n /\ k + 1 \in 1..n /\ n - 1 \in Nat
  OBVIOUS
<1>4. \A i \in 1..(n - 1) : i \in 1..(k - 1) \/ i = k \/ i \in (k + 1)..(n - 1)
  OBVIOUS
<1>5. q[k].end < q[k + 1].start /\ q[k].start < q[k + 1].end
  <2>1. q[k].end < q[k + 1].start
    BY <1>1, <1>3
  <2>2. QED BY <1>1, <1>3, <2>1
<1>6. Ends(r[k], f)
  <2>1. r[k] \in Segment
    BY <1>2
  <2>2. r[k].start \in TextRows(f) /\ r[k].end \in TextRows(f)
    BY <1>1, <1>2, <1>3 DEF Ends
  <2>3. r[k].start <= r[k].end /\ r[k].end - r[k].start < MaxLines
    BY <1>1, <1>2, <1>3, <1>5
  <2>4. QED BY <2>1, <2>2, <2>3 DEF Ends, Piece
<1>7. ASSUME NEW i \in 1..(n - 1) PROVE Ends(r[i], f)
  <2>1. CASE i \in 1..(k - 1)
    BY <1>1, <1>2, <2>1
  <2>2. CASE i \in (k + 1)..(n - 1)
    <3>1. i + 1 \in 1..n
      OBVIOUS
    <3>2. QED BY <1>1, <1>2, <2>2, <3>1
  <2>3. QED BY <1>4, <1>6, <2>1, <2>2
\* The segments that a place of r stands for.
<1>8. ASSUME NEW i \in 1..(n - 1)
      PROVE  \E a, b \in 1..n :
               /\ r[i].start = q[a].start /\ r[i].end = q[b].end
               /\ a = (IF i <= k THEN i ELSE i + 1) /\ b = (IF i < k THEN i ELSE i + 1)
  <2>1. i \in 1..n /\ i + 1 \in 1..n
    OBVIOUS
  <2>2. CASE i \in 1..(k - 1)
    BY <1>2, <2>1, <2>2
  <2>3. CASE i = k
    BY <1>2, <2>1, <2>3
  <2>4. CASE i \in (k + 1)..(n - 1)
    BY <1>2, <2>1, <2>4
  <2>5. QED BY <1>4, <2>2, <2>3, <2>4
<1>9. ASSUME NEW i \in 1..(n - 1), NEW j \in 1..(n - 1), i < j PROVE r[i].end < r[j].start
  <2>1. PICK b \in 1..n : r[i].end = q[b].end /\ b = (IF i < k THEN i ELSE i + 1)
    BY <1>8
  <2>2. PICK a \in 1..n : r[j].start = q[a].start /\ a = (IF j <= k THEN j ELSE j + 1)
    BY <1>8
  <2>3. b < a
    BY <1>9, <2>1, <2>2
  <2>4. QED BY <1>1, <2>1, <2>2, <2>3
<1>10. InLine(r, f)
  BY <1>2, <1>7, <1>9 DEF InLine
<1>11. ASSUME NEW x \in TextRows(f) PROVE x \in RowsOf(r)
  <2>1. PICK i \in 1..n : x \in q[i].start..q[i].end
    BY <1>1, RowsAre
  <2>2. CASE i < k
    <3>1. i \in DOMAIN r /\ x \in r[i].start..r[i].end
      BY <1>2, <2>1, <2>2
    <3>2. QED BY <3>1, RowsAre
  <2>3. CASE i = k \/ i = k + 1
    <3>1. k \in DOMAIN r
      BY <1>2
    <3>2. x \in Int /\ q[k].start <= x /\ x <= q[k + 1].end
      BY <1>1, <1>3, <1>5, <2>1, <2>3
    <3>3. x \in r[k].start..r[k].end
      BY <1>1, <1>2, <1>3, <3>2
    <3>4. QED BY <3>1, <3>3, RowsAre
  <2>4. CASE i > k + 1
    <3>1. PICK j \in (k + 1)..(n - 1) : j + 1 = i
      BY <2>4
    <3>2. r[j] = q[i]
      BY <1>2, <3>1
    <3>3. j \in DOMAIN r
      BY <1>2, <3>1
    <3>4. x \in r[j].start..r[j].end
      BY <2>1, <3>2
    <3>5. QED BY <3>3, <3>4, RowsAre
  <2>5. QED BY <2>2, <2>3, <2>4
<1>12. ASSUME NEW i \in 1..(k - 1) PROVE StaysAlone(r, i)
  <2>1. i \in 1..n /\ i < n /\ i + 1 \in 1..n /\ StaysAlone(q, i) /\ i < n - 1
    OBVIOUS
  <2>2. r[i] = q[i]
    BY <1>2
  <2>3. i > 1 => r[i - 1] = q[i - 1]
    BY <1>2
  <2>4. r[i + 1].end >= q[i + 1].end
    <3>1. CASE i + 1 < k
      <4>1. i + 1 \in 1..(k - 1)
        BY <3>1
      <4>2. r[i + 1] = q[i + 1]
        BY <1>2, <4>1
      <4>3. q[i + 1].end \in Nat
        BY <1>1, <2>1
      <4>4. QED BY <4>2, <4>3
    <3>2. CASE i + 1 = k
      <4>1. r[i + 1].end = q[k + 1].end /\ q[i + 1].end = q[k].end
        BY <1>2, <3>2
      <4>2. q[k].end \in Nat /\ q[k + 1].end \in Nat /\ q[k].end <= q[k + 1].end
        <5>1. q[k + 1].start <= q[k + 1].end
          BY <1>1, <1>3
        <5>2. q[k + 1].start \in Nat /\ q[k].end \in Nat /\ q[k + 1].end \in Nat
          BY <1>1, <1>3
        <5>3. QED BY <1>5, <5>1, <5>2
      <4>3. QED BY <4>1, <4>2
    <3>3. QED BY <3>1, <3>2
  <2>5. r[i + 1].end \in Nat /\ q[i + 1].end \in Nat /\ q[i].start \in Nat
    <3>1. i + 1 \in 1..(n - 1)
      OBVIOUS
    <3>2. QED BY <1>1, <1>7, <2>1, <3>1, EndsIs
  <2>6. CASE Rows(q[i]) < MinLines
    <3>1. q[i + 1].end - q[i].start >= MaxLines
      BY <2>1, <2>6 DEF StaysAlone
    <3>2. r[i + 1].end - r[i].start >= MaxLines
      <4>1. PICK u \in Nat, v \in Nat, w \in Nat :
              u = r[i + 1].end /\ v = q[i + 1].end /\ w = q[i].start
        BY <2>5
      <4>2. u >= v /\ v - w >= MaxLines
        BY <2>4, <3>1, <4>1
      <4>3. u - w >= MaxLines
        BY <4>2, Bounds
      <4>4. QED BY <2>2, <4>1, <4>3
    <3>3. i > 1 => r[i].end - r[i - 1].start >= MaxLines
      BY <2>1, <2>2, <2>3, <2>6 DEF StaysAlone
    <3>4. QED BY <3>2, <3>3 DEF StaysAlone
  <2>7. CASE ~(Rows(q[i]) < MinLines)
    BY <2>2, <2>7 DEF StaysAlone
  <2>8. QED BY <2>6, <2>7
<1>13. k \in 1..(Len(r) + 1)
  BY <1>2
<1>14. QED BY <1>10, <1>11, <1>12, <1>13 DEF Merging

LEMMA MergeBackKeeps ==
  ASSUME file \in File, Merging(segs, file, at), MergeBack
  PROVE  Merging(segs', file, at')
<1>1. PICK n \in Nat : n = Len(segs)
  BY DEF Merging, InLine
<1>2. /\ segs \in Seq(Segment)
      /\ \A i \in 1..n : segs[i] \in Segment /\ segs[i].start \in Nat /\ segs[i].end \in Nat
                         /\ segs[i].start <= segs[i].end
      /\ \A i, j \in 1..n : i < j => segs[i].end < segs[j].start
  BY <1>1, EndsIs DEF Merging, InLine
<1>3. /\ at \in 1..n /\ Fit(BackRows(at)) /\ at' = at - 1
      /\ segs' = [RemoveAt(segs, at) EXCEPT ![at - 1] = Absorb(@, segs[at])]
  BY <1>1 DEF MergeBack, GoBack, Merging
<1>4. at # 1
  BY <1>3 DEF Fit, BackRows
<1>5. PICK k \in 1..(n - 1) : k = at - 1 /\ at = k + 1
  BY <1>3, <1>4
<1>6. k \in 1..n /\ k + 1 \in 1..n
  OBVIOUS
<1>7. segs[k + 1].end - segs[k].start < MaxLines
  <2>1. BackRows(at) = <<segs[k + 1].end - segs[k].start + 1>>
    BY <1>4, <1>5 DEF BackRows
  <2>2. PICK x \in Nat, y \in Nat : x = segs[k].start /\ y = segs[k + 1].end
    BY <1>2, <1>6
  <2>3. y - x + 1 <= MaxLines
    BY <1>3, <2>1, <2>2 DEF Fit
  <2>4. QED BY <2>2, <2>3, Bounds
<1>8. PICK rem : rem = RemoveAt(segs, k + 1)
  OBVIOUS
<1>9. /\ rem \in Seq(Segment) /\ Len(rem) = n - 1
      /\ \A i \in 1..k : rem[i] = segs[i]
      /\ \A i \in (k + 1)..(n - 1) : rem[i] = segs[i + 1]
  <2>1. PICK m \in 1..n : m = k + 1
    BY <1>6
  <2>2. segs \in Seq(Segment) /\ n = Len(segs)
    BY <1>1, <1>2
  <2>3. Without(Segment, segs, n, m, RemoveAt(segs, m))
    BY <2>2, RemovedIs
  <2>4. m - 1 = k /\ rem = RemoveAt(segs, m)
    BY <1>8, <2>1
  <2>5. QED BY <2>1, <2>3, <2>4 DEF Without
<1>10. PICK new \in Segment : new = Absorb(segs[k], segs[k + 1])
  BY <1>2, <1>6, AbsorbIs
<1>11. new.start = segs[k].start /\ new.end = segs[k + 1].end
  <2>1. /\ Absorb(segs[k], segs[k + 1]).start = Lesser(segs[k].start, segs[k + 1].start)
        /\ Absorb(segs[k], segs[k + 1]).end = Greater(segs[k].end, segs[k + 1].end)
    BY <1>2, <1>6, AbsorbIs
  <2>2. segs[k].start <= segs[k + 1].start /\ segs[k].end <= segs[k + 1].end
    <3>1. PICK a \in Nat, b \in Nat, c \in Nat, d \in Nat :
            /\ a = segs[k].start /\ b = segs[k].end
            /\ c = segs[k + 1].start /\ d = segs[k + 1].end
      BY <1>2, <1>6
    <3>2. a <= b /\ c <= d
      BY <1>2, <1>6, <3>1
    <3>3. b < c
      BY <1>2, <1>6, <3>1
    <3>4. QED BY <3>1, <3>2, <3>3
  <2>3. segs[k].end \in Nat /\ segs[k + 1].end \in Nat
    BY <1>2, <1>6
  <2>4. QED BY <1>10, <2>1, <2>2, <2>3 DEF Lesser, Greater
<1>12. PICK r : r = [rem EXCEPT ![k] = new]
  OBVIOUS
<1>13. segs' = r
  <2>1. rem[k] = segs[k]
    BY <1>9
  <2>2. segs' = [rem EXCEPT ![k] = Absorb(rem[k], segs[k + 1])]
    BY <1>3, <1>5, <1>8
  <2>3. QED BY <1>10, <1>12, <2>1, <2>2
<1>14. Joined(segs, r, k)
  <2>1. DOMAIN rem = 1..(n - 1) /\ k \in 1..(n - 1)
    BY <1>9
  <2>2. /\ r \in Seq(Segment) /\ Len(r) = n - 1 /\ r[k] = new
        /\ \A i \in 1..(n - 1) : i # k => r[i] = rem[i]
    BY <1>9, <1>12, <2>1
  <2>3. \A i \in 1..(k - 1) : i \in 1..(n - 1) /\ i # k /\ i \in 1..k
    OBVIOUS
  <2>4. \A i \in (k + 1)..(n - 1) : i \in 1..(n - 1) /\ i # k
    OBVIOUS
  <2>5. QED BY <1>1, <1>9, <1>11, <2>2, <2>3, <2>4 DEF Joined
<1>15. \A i \in 1..(k - 1) : StaysAlone(segs, i)
  BY <1>5 DEF Merging
<1>16. Merging(r, file, k)
  <2>1. InLine(segs, file) /\ TextRows(file) \subseteq RowsOf(segs)
    BY DEF Merging
  <2>2. QED BY <1>1, <1>7, <1>14, <1>15, <2>1, JoinedIs
<1>17. QED BY <1>3, <1>5, <1>13, <1>16

LEMMA MergeFwdKeeps ==
  ASSUME file \in File, Merging(segs, file, at), MergeFwd
  PROVE  Merging(segs', file, at')
<1>1. PICK n \in Nat : n = Len(segs)
  BY DEF Merging, InLine
<1>2. /\ segs \in Seq(Segment)
      /\ \A i \in 1..n : segs[i] \in Segment /\ segs[i].start \in Nat /\ segs[i].end \in Nat
                         /\ segs[i].start <= segs[i].end
      /\ \A i, j \in 1..n : i < j => segs[i].end < segs[j].start
  BY <1>1, EndsIs DEF Merging, InLine
<1>3. /\ at \in 1..n /\ Fit(FwdRows(at)) /\ at' = at
      /\ segs' = [RemoveAt(segs, at) EXCEPT ![at] = Absorb(@, segs[at])]
  BY <1>1 DEF MergeFwd, Merging
<1>4. at # n
  BY <1>1, <1>3 DEF Fit, FwdRows
<1>5. PICK k \in 1..(n - 1) : k = at
  BY <1>3, <1>4
<1>6. k \in 1..n /\ k + 1 \in 1..n
  OBVIOUS
<1>7. segs[k + 1].end - segs[k].start < MaxLines
  <2>1. FwdRows(at) = <<segs[k + 1].end - segs[k].start + 1>>
    BY <1>1, <1>4, <1>5 DEF FwdRows
  <2>2. PICK x \in Nat, y \in Nat : x = segs[k].start /\ y = segs[k + 1].end
    BY <1>2, <1>6
  <2>3. y - x + 1 <= MaxLines
    BY <1>3, <2>1, <2>2 DEF Fit
  <2>4. QED BY <2>2, <2>3, Bounds
<1>8. PICK rem : rem = RemoveAt(segs, k)
  OBVIOUS
<1>9. /\ rem \in Seq(Segment) /\ Len(rem) = n - 1
      /\ \A i \in 1..(k - 1) : rem[i] = segs[i]
      /\ \A i \in k..(n - 1) : rem[i] = segs[i + 1]
  <2>1. segs \in Seq(Segment) /\ n = Len(segs)
    BY <1>1, <1>2
  <2>2. Without(Segment, segs, n, k, RemoveAt(segs, k))
    BY <1>6, <2>1, RemovedIs
  <2>3. QED BY <1>8, <2>2 DEF Without
<1>10. PICK new \in Segment : new = Absorb(segs[k + 1], segs[k])
  BY <1>2, <1>6, AbsorbIs
<1>11. new.start = segs[k].start /\ new.end = segs[k + 1].end
  <2>1. /\ Absorb(segs[k + 1], segs[k]).start = Lesser(segs[k + 1].start, segs[k].start)
        /\ Absorb(segs[k + 1], segs[k]).end = Greater(segs[k + 1].end, segs[k].end)
    BY <1>2, <1>6, AbsorbIs
  <2>2. segs[k].start < segs[k + 1].start /\ segs[k].end < segs[k + 1].end
    <3>1. PICK a \in Nat, b \in Nat, c \in Nat, d \in Nat :
            /\ a = segs[k].start /\ b = segs[k].end
            /\ c = segs[k + 1].start /\ d = segs[k + 1].end
      BY <1>2, <1>6
    <3>2. a <= b /\ c <= d
      BY <1>2, <1>6, <3>1
    <3>3. b < c
      BY <1>2, <1>6, <3>1
    <3>4. QED BY <3>1, <3>2, <3>3
  <2>3. /\ segs[k].end \in Nat /\ segs[k + 1].end \in Nat
        /\ segs[k].start \in Nat /\ segs[k + 1].start \in Nat
    BY <1>2, <1>6
  <2>4. QED BY <1>10, <2>1, <2>2, <2>3 DEF Lesser, Greater
<1>12. PICK r : r = [rem EXCEPT ![k] = new]
  OBVIOUS
<1>13. segs' = r
  <2>1. rem[k] = segs[k + 1]
    BY <1>9
  <2>2. segs' = [rem EXCEPT ![k] = Absorb(rem[k], segs[k])]
    BY <1>3, <1>5, <1>8
  <2>3. QED BY <1>10, <1>12, <2>1, <2>2
<1>14. Joined(segs, r, k)
  <2>1. DOMAIN rem = 1..(n - 1) /\ k \in 1..(n - 1)
    BY <1>9
  <2>2. /\ r \in Seq(Segment) /\ Len(r) = n - 1 /\ r[k] = new
        /\ \A i \in 1..(n - 1) : i # k => r[i] = rem[i]
    BY <1>9, <1>12, <2>1
  <2>3. \A i \in 1..(k - 1) : i \in 1..(n - 1) /\ i # k
    OBVIOUS
  <2>4. \A i \in (k + 1)..(n - 1) : i \in 1..(n - 1) /\ i # k /\ i \in k..(n - 1)
    OBVIOUS
  <2>5. QED BY <1>1, <1>9, <1>11, <2>2, <2>3, <2>4 DEF Joined
<1>15. \A i \in 1..(k - 1) : StaysAlone(segs, i)
  BY <1>5 DEF Merging
<1>16. Merging(r, file, k)
  <2>1. InLine(segs, file) /\ TextRows(file) \subseteq RowsOf(segs)
    BY DEF Merging
  <2>2. QED BY <1>1, <1>7, <1>14, <1>15, <2>1, JoinedIs
<1>17. QED BY <1>3, <1>5, <1>13, <1>16

LEMMA SkipKeeps ==
  ASSUME Merging(segs, file, at), Skip
  PROVE  Merging(segs', file, at')
<1>1. PICK n \in Nat : n = Len(segs)
  BY DEF Merging, InLine
<1>2. InLine(segs, file) /\ at \in 1..n /\ at' = at + 1 /\ segs' = segs
  BY <1>1 DEF Skip, Merging
<1>3. Undersized(at) => ~Fit(BackRows(at)) /\ ~Fit(FwdRows(at))
  BY DEF Skip
<1>4. StaysAlone(segs, at)
  BY <1>1, <1>2, <1>3, StaysAloneIs
<1>5. \A i \in 1..((at + 1) - 1) : StaysAlone(segs, i)
  <2>1. \A i \in 1..((at + 1) - 1) : i \in 1..(at - 1) \/ i = at
    BY <1>2
  <2>2. QED BY <1>4, <2>1 DEF Merging
<1>6. at + 1 \in 1..(n + 1)
  BY <1>2
<1>7. TextRows(file) \subseteq RowsOf(segs)
  BY DEF Merging
<1>8. Merging(segs, file, at + 1)
  BY <1>1, <1>2, <1>5, <1>6, <1>7 DEF Merging
<1>9. QED BY <1>2, <1>8

LEMMA MergingStarts ==
  ASSUME NEW q, NEW f, InLine(q, f), TextRows(f) \subseteq RowsOf(q)
  PROVE  Merging(q, f, 1)
<1>1. Len(q) \in Nat
  BY DEF InLine
<1>2. 1 \in 1..(Len(q) + 1) /\ \A i \in 1..(1 - 1) : FALSE
  BY <1>1
<1>3. QED BY <1>2 DEF Merging

\* The chunks are the merged segments.
LEMMA DescribeKeeps ==
  ASSUME file \in File, Merging(segs, file, at), Describe
  PROVE  ChunksSound'
<1>1. PICK n \in Nat : n = Len(segs) /\ DOMAIN segs = 1..n
  BY DEF Merging, InLine
<1>2. \A i \in 1..n : /\ Ends(segs[i], file) /\ segs[i].start \in Nat /\ segs[i].end \in Nat
                      /\ segs[i].start <= segs[i].end /\ segs[i].end - segs[i].start < MaxLines
  BY <1>1, EndsIs DEF Merging, InLine
<1>3. \A i, j \in 1..n : i < j => segs[i].end < segs[j].start
  BY <1>1 DEF Merging, InLine
<1>4. \A i \in 1..n : StaysAlone(segs, i)
  <2>1. at \in 1..(n + 1) /\ at > n /\ \A i \in 1..(at - 1) : StaysAlone(segs, i)
    BY <1>1 DEF Merging, Describe
  <2>2. at - 1 = n
    BY <2>1
  <2>3. QED BY <2>1, <2>2
<1>5. file' = file /\ segs' = [i \in DOMAIN segs |->
       [start |-> segs[i].start, end |-> segs[i].end,
        symbol |-> Symbol(file, segs[i]), defines |-> Defines(file, segs[i])]]
  BY DEF Describe
<1>6. PICK q : q = segs'
  OBVIOUS
<1>7. /\ DOMAIN q = 1..n /\ q = [i \in 1..n |-> q[i]]
      /\ \A i \in 1..n : q[i].start = segs[i].start /\ q[i].end = segs[i].end
  BY <1>1, <1>5, <1>6
<1>8. Len(q) = n
  <2>1. PICK Q : Q = {q[i] : i \in 1..n}
    OBVIOUS
  <2>2. q \in [1..n -> Q]
    BY <1>7, <2>1
  <2>3. q \in Seq(Q)
    BY <2>2
  <2>4. QED BY <1>7, <2>3
<1>9. ASSUME NEW i \in 1..n
      PROVE  /\ q[i].start <= q[i].end /\ Rows(q[i]) <= MaxLines
             /\ {q[i].start, q[i].end} \subseteq TextRows(file)
             /\ i > 1 => q[i - 1].end < q[i].start
             /\ Undersized(i)' => ~Fit(BackRows(i))' /\ ~Fit(FwdRows(i))'
  <2>1. q[i].start <= q[i].end /\ q[i].start = segs[i].start /\ q[i].end = segs[i].end
    BY <1>2, <1>7
  <2>2. Rows(q[i]) <= MaxLines
    <3>1. PICK x \in Nat, y \in Nat : x = segs[i].start /\ y = segs[i].end /\ y - x < MaxLines
      BY <1>2
    <3>2. Rows(q[i]) = y - x + 1
      BY <2>1, <3>1 DEF Rows
    <3>3. QED BY <3>1, <3>2, Bounds
  <2>3. {q[i].start, q[i].end} \subseteq TextRows(file)
    BY <1>2, <2>1 DEF Ends
  <2>4. i > 1 => q[i - 1].end < q[i].start
    <3>1. CASE i > 1
      <4>1. i - 1 \in 1..n /\ i - 1 < i
        BY <3>1
      <4>2. segs[i - 1].end < segs[i].start
        BY <1>3, <4>1
      <4>3. QED BY <1>7, <4>1, <4>2
    <3>2. QED BY <3>1
  <2>5. BackRows(i)' = BackRows(i)
    <3>1. CASE i = 1
      BY <3>1 DEF BackRows
    <3>2. CASE i # 1
      <4>1. i - 1 \in 1..n
        BY <3>2
      <4>2. QED BY <1>6, <1>7, <4>1 DEF BackRows
    <3>3. QED BY <3>1, <3>2
  <2>6. FwdRows(i)' = FwdRows(i)
    <3>1. CASE i = n
      BY <1>1, <1>6, <1>8, <3>1 DEF FwdRows
    <3>2. CASE i # n
      <4>1. i + 1 \in 1..n
        BY <3>2
      <4>2. QED BY <1>1, <1>6, <1>7, <1>8, <3>2, <4>1 DEF FwdRows
    <3>3. QED BY <3>1, <3>2
  <2>7. Undersized(i)' <=> Undersized(i)
    BY <1>6, <2>1 DEF Undersized, Rows
  <2>8. Undersized(i) => ~Fit(BackRows(i)) /\ ~Fit(FwdRows(i))
    <3>1. i \in 1..Len(segs) /\ InLine(segs, file)
      BY <1>1 DEF Merging
    <3>2. QED BY <1>4, <3>1, StaysAloneIs
  <2>9. Undersized(i)' => ~Fit(BackRows(i))' /\ ~Fit(FwdRows(i))'
    BY <2>5, <2>6, <2>7, <2>8 DEF Fit
  <2>10. QED BY <2>1, <2>2, <2>3, <2>4, <2>9
<1>10. TextRows(file) \subseteq RowsOf(q)
  <2>1. TextRows(file) \subseteq RowsOf(segs)
    BY DEF Merging
  <2>2. RowsOf(q) = RowsOf(segs)
    BY <1>1, <1>7 DEF RowsOf
  <2>3. QED BY <2>1, <2>2
<1>11. Covered' = RowsOf(q) /\ NonBlank(file', 0, EndRow(file')) = TextRows(file)
  BY <1>5, <1>6 DEF Covered, RowsOf, TextRows
<1>12. DOMAIN segs' = 1..n
  BY <1>6, <1>7
<1>13. \A i \in DOMAIN segs' :
         /\ segs'[i].start <= segs'[i].end /\ Rows(segs'[i]) <= MaxLines
         /\ {segs'[i].start, segs'[i].end} \subseteq NonBlank(file', 0, EndRow(file'))
         /\ i > 1 => segs'[i - 1].end < segs'[i].start
         /\ Undersized(i)' => ~Fit(BackRows(i))' /\ ~Fit(FwdRows(i))'
  BY <1>6, <1>9, <1>11, <1>12
<1>14. NonBlank(file', 0, EndRow(file')) \subseteq Covered'
  BY <1>10, <1>11
<1>15. QED BY <1>13, <1>14 DEF ChunksSound

-----------------------------------------------------------------------------
(***************************************************************************)
(* What holds in each stage.                                                *)
(***************************************************************************)
ChunkInv ==
  /\ file \in File
  /\ stage \in {"split", "cover", "text", "merge", "done"}
  /\ stage \in {"split", "cover", "text"} => at = 1
  /\ stage = "split" => Walking
  /\ stage = "cover" => Apart(segs, file)
  /\ stage = "text" => ReadSoFar(segs, file)
  /\ stage = "merge" => Merging(segs, file, at)
  /\ ChunksSound

LEMMA ChunkInvInit ==
  ASSUME ChunkerInit
  PROVE  ChunkInv
<1>1. file \in File /\ at = 1 /\ stage \in {"text", "split"} /\ segs = <<>>
  BY DEF ChunkerInit
<1>2. stage = "split" => Walking
  BY WalkStarts
<1>3. ReadSoFar(segs, file)
  <2>1. InLine(<<>>, file)
    BY DEF InLine
  <2>2. QED BY <1>1, <2>1 DEF ReadSoFar
<1>4. ChunksSound
  BY <1>1 DEF ChunksSound, Done
<1>5. QED BY <1>1, <1>2, <1>3, <1>4 DEF ChunkInv

\* A step of the walk.
LEMMA WalkKeeps ==
  ASSUME ChunkInv, Join \/ StartSegment \/ CutComments \/ Descend \/ Return
  PROVE  ChunkInv'
<1>1. stage = "split" /\ file' = file /\ stage' = stage /\ at' = at
  BY DEF Join, StartSegment, CutComments, Descend, Return, Taking
<1>2. Walking /\ file \in File /\ at = 1
  BY <1>1 DEF ChunkInv
<1>3. Walking'
  <2>1. CASE Join
    BY <1>2, <2>1, JoinKeeps
  <2>2. CASE StartSegment
    BY <1>2, <2>2, StartSegmentKeeps
  <2>3. CASE CutComments
    BY <1>2, <2>3, CutCommentsKeeps
  <2>4. CASE Descend
    BY <1>2, <2>4, DescendKeeps
  <2>5. CASE Return
    BY <1>2, <2>5, ReturnKeeps
  <2>6. QED BY <2>1, <2>2, <2>3, <2>4, <2>5
<1>4. ChunksSound'
  BY <1>1 DEF ChunksSound, Done
<1>5. QED BY <1>1, <1>2, <1>3, <1>4, Zenon DEF ChunkInv

LEMMA TrimAllKeeps ==
  ASSUME ChunkInv, TrimAll
  PROVE  ChunkInv'
<1>1. stage = "split" /\ file' = file /\ stage' = "cover" /\ at' = at /\ segs' = Trim(file, segs)
  BY DEF TrimAll
<1>2. Walking /\ file \in File /\ at = 1
  BY <1>1 DEF ChunkInv
<1>3. PICK w \in Nat : Pieces(segs, 0, w - 1)
  BY <1>2 DEF Walking, Walk
<1>4. w - 1 \in Int
  BY <1>3
<1>5. InLine(Trim(file, segs), file)
  BY <1>2, <1>3, <1>4, TrimIs
<1>6. Apart(Trim(file, segs), file)
  <2>1. PICK q : q = Trim(file, segs)
    OBVIOUS
  <2>2. InLine(q, file)
    BY <1>5, <2>1
  <2>3. PICK n \in Nat : n = Len(q)
    BY <2>2 DEF InLine
  <2>4. \A i, j \in 1..n : i # j => i < j \/ j < i
    OBVIOUS
  <2>5. Apart(q, file)
    BY <2>2, <2>3, <2>4 DEF InLine, Apart
  <2>6. QED BY <2>1, <2>5
<1>7. Apart(segs', file')
  BY <1>1, <1>6
<1>8. ChunksSound'
  BY <1>1 DEF ChunksSound, Done
<1>9. QED BY <1>1, <1>2, <1>7, <1>8 DEF ChunkInv

LEMMA InOrderIs ==
  ASSUME NEW S, NEW R, \A x, y \in S : <<x, y>> \in R <=> x.start < y.start
  PROVE  InOrder(S, LAMBDA x, y : x.start < y.start) = ListedBy(S, R)
<1>1. \A x \in S : {y \in S : y.start < x.start} = Ahead(S, R, x)
  BY DEF Ahead
<1> DEFINE chosen(k) == CHOOSE x \in S : Cardinality({y \in S : y.start < x.start}) = k - 1
           listed(k) == CHOOSE x \in S : Cardinality(Ahead(S, R, x)) = k - 1
           m == Cardinality(S)
<1>2. ASSUME NEW k PROVE chosen(k) = listed(k)
  BY <1>1, Zenon
<1>3. ListedBy(S, R) = [k \in 1..m |-> listed(k)]
  BY DEF ListedBy
<1>4. InOrder(S, LAMBDA x, y : x.start < y.start) = [k \in 1..m |-> chosen(k)]
  BY DEF InOrder
<1> HIDE DEF chosen, listed, m
<1>5. QED BY <1>2, <1>3, <1>4

LEMMA CoverKeeps ==
  ASSUME ChunkInv, Cover
  PROVE  ChunkInv'
<1>1. stage = "cover" /\ file' = file /\ at' = at
  BY DEF Cover
<1>2. file \in File /\ at = 1 /\ Apart(segs, file)
  BY <1>1 DEF ChunkInv
<1>3. CASE Stray # {}
  <2>1. Apart(segs', file')
    BY <1>1, <1>2, <1>3, CoverAdds
  <2>2. stage' = stage
    BY <1>3 DEF Cover
  <2>3. ChunksSound'
    BY <1>1, <2>2 DEF ChunksSound, Done
  <2>4. QED BY <1>1, <1>2, <2>1, <2>2, <2>3 DEF ChunkInv
<1>4. CASE Stray = {}
  <2>1. /\ stage' = "merge"
        /\ segs' = InOrder(ToSet(segs), LAMBDA x, y : x.start < y.start)
    BY <1>4 DEF Cover
  <2>2. PICK S : S = ToSet(segs)
    OBVIOUS
  <2>3. PICK R : R = {p \in S \X S : p[1].start < p[2].start}
    OBVIOUS
  <2>4. \A x, y \in S : <<x, y>> \in R <=> x.start < y.start
    BY <2>3
  <2>5. ByStart(segs, S, R)
    BY <2>2, <2>4 DEF ByStart
  <2>6. InLine(ListedBy(S, R), file) /\ RowsOf(ListedBy(S, R)) = RowsOf(segs)
    BY <1>2, <2>5, SortedIs
  <2>7. segs' = ListedBy(S, R)
    <3>1. InOrder(S, LAMBDA x, y : x.start < y.start) = ListedBy(S, R)
      BY <2>4, InOrderIs
    <3>2. QED BY <2>1, <2>2, <3>1
  <2>8. TextRows(file) \subseteq RowsOf(segs)
    BY <1>4, CoveredIs
  <2>9. PICK q : q = ListedBy(S, R)
    OBVIOUS
  <2>10. InLine(q, file) /\ TextRows(file) \subseteq RowsOf(q)
    BY <2>6, <2>8, <2>9
  <2>11. Merging(q, file, 1)
    BY <2>10, MergingStarts
  <2>12. Merging(segs', file', at')
    <3>1. segs' = q
      BY <2>7, <2>9, Zenon
    <3>2. QED BY <1>1, <1>2, <2>11, <3>1
  <2>13. stage' = "merge"
    BY <1>4 DEF Cover
  <2>14. ChunksSound'
    BY <2>13 DEF ChunksSound, Done
  <2>15. QED BY <1>1, <1>2, <2>12, <2>13, <2>14 DEF ChunkInv
<1>5. QED BY <1>3, <1>4

LEMMA TakeWindowKeeps ==
  ASSUME ChunkInv, TakeWindow
  PROVE  ChunkInv'
<1>1. stage = "text" /\ file' = file /\ at' = at
  BY DEF TakeWindow
<1>2. file \in File /\ at = 1 /\ ReadSoFar(segs, file)
  BY <1>1 DEF ChunkInv
<1>3. CASE Unread # {}
  <2>1. ReadSoFar(segs', file')
    BY <1>1, <1>2, <1>3, WindowTaken
  <2>2. stage' = stage
    BY <1>3 DEF TakeWindow
  <2>3. ChunksSound'
    BY <1>1, <2>2 DEF ChunksSound, Done
  <2>4. QED BY <1>1, <1>2, <2>1, <2>2, <2>3 DEF ChunkInv
<1>4. CASE Unread = {}
  <2>1. stage' = "merge" /\ segs' = segs
    BY <1>4 DEF TakeWindow
  <2>2. InLine(segs, file)
    BY <1>2 DEF ReadSoFar
  <2>3. ASSUME NEW r \in TextRows(file) PROVE r \in RowsOf(segs)
    <3>1. ~(segs # <<>> => segs[Len(segs)].end < r)
      BY <1>2, <1>4, UnreadIs
    <3>2. QED BY <1>2, <3>1 DEF ReadSoFar
  <2>4. Merging(segs, file, 1)
    BY <2>2, <2>3, MergingStarts
  <2>5. Merging(segs', file', at')
    BY <1>1, <1>2, <2>1, <2>4
  <2>6. ChunksSound'
    BY <2>1 DEF ChunksSound, Done
  <2>7. QED BY <1>1, <1>2, <2>1, <2>5, <2>6 DEF ChunkInv
<1>5. QED BY <1>3, <1>4

LEMMA MergeKeeps ==
  ASSUME ChunkInv, Skip \/ MergeBack \/ MergeFwd
  PROVE  ChunkInv'
<1>1. stage = "merge" /\ file' = file /\ stage' = stage
  BY DEF Skip, MergeBack, MergeFwd
<1>2. file \in File /\ Merging(segs, file, at)
  BY <1>1 DEF ChunkInv
<1>3. Merging(segs', file', at')
  BY <1>1, <1>2, SkipKeeps, MergeBackKeeps, MergeFwdKeeps
<1>4. ChunksSound'
  BY <1>1 DEF ChunksSound, Done
<1>5. QED BY <1>1, <1>2, <1>3, <1>4 DEF ChunkInv

LEMMA ChunkInvKept ==
  ASSUME ChunkInv, [ChunkerNext]_chunkerVars
  PROVE  ChunkInv'
<1>1. CASE Join \/ StartSegment \/ CutComments \/ Descend \/ Return
  BY <1>1, WalkKeeps
<1>2. CASE TrimAll
  BY <1>2, TrimAllKeeps
<1>3. CASE Cover
  BY <1>3, CoverKeeps
<1>4. CASE TakeWindow
  BY <1>4, TakeWindowKeeps
<1>5. CASE Skip \/ MergeBack \/ MergeFwd
  BY <1>5, MergeKeeps
<1>6. CASE Describe
  <2>1. stage = "merge" /\ file' = file /\ stage' = "done"
    BY <1>6 DEF Describe
  <2>2. file \in File /\ Merging(segs, file, at)
    BY <2>1 DEF ChunkInv
  <2>3. ChunksSound'
    BY <1>6, <2>2, DescribeKeeps
  <2>4. QED BY <2>1, <2>2, <2>3 DEF ChunkInv
<1>7. CASE UNCHANGED chunkerVars
  <2>1. /\ file' = file /\ calls' = calls /\ segs' = segs /\ at' = at /\ stage' = stage
    BY <1>7 DEF chunkerVars
  <2>2. Walking' <=> Walking
    BY <2>1 DEF Walking
  <2>3. ChunksSound' <=> ChunksSound
    BY <2>1 DEF ChunksSound, Done, Undersized, BackRows, FwdRows, Covered
  <2>4. QED BY <2>1, <2>2, <2>3 DEF ChunkInv
<1>8. QED BY <1>1, <1>2, <1>3, <1>4, <1>5, <1>6, <1>7 DEF ChunkerNext

\* The chunks of a file are in order, apart and within max_lines, they begin
\* and end on rows that are not blank and have all of these, whatever its
\* tree; and no undersized one fits with a neighbour (chunk_source_with).
THEOREM ChunksAreSound == ChunkerSpec => []ChunksSound
<1>1. ChunkerInit => ChunkInv
  BY ChunkInvInit
<1>2. ChunkInv /\ [ChunkerNext]_chunkerVars => ChunkInv'
  BY ChunkInvKept
<1>3. ChunkInv => ChunksSound
  BY DEF ChunkInv
<1>4. QED BY <1>1, <1>2, <1>3, PTL DEF ChunkerSpec
=============================================================================
