------------------------------- MODULE Symbols -------------------------------
(***************************************************************************)
(* The definitions and references of a syntax tree (crates/laya-parse:     *)
(* defs.rs collect_symbols, describe; refs.rs extract, admissible; cast.rs *)
(* chunk_refs).  One walk with a cursor and three stacks beside it, without *)
(* recursion, meets every node once; Chunker takes the definitions it      *)
(* finds as given.                                                         *)
(*                                                                         *)
(* Which nodes of which language define or refer to a name is a table; a   *)
(* node of the model says which shape of rule it falls under.              *)
(***************************************************************************)
EXTENDS Integers, Sequences, FiniteSets

CONSTANTS
  SourceTrees,   \* nodes: [rule, body, ref, names, start, last, kids]; names: the
                 \* names it refers to, [byte, row, name]
  Inadmissible,  \* names of REF_STOPLIST, or too short
  MaxRefs        \* MAX_REFS

ASSUME SymbolsAssumption == MaxRefs \in Nat \ {0}

VARIABLES
  syntax,     \* the root of the tree
  path,       \* the cursor: the index of each child on the way to its node
  going,      \* "visit", "climb", "done"
  open,       \* the definitions that the node is in, as indices of defs
  pushed,     \* for each ancestor: whether it opened one
  ancestors,  \* the paths of the nodes above
  defs,       \* [node, start, end, parent]
  refs        \* [byte, row, name]

symbolVars == <<syntax, path, going, open, pushed, ancestors, defs, refs>>

SymbolsInit ==
  /\ syntax \in SourceTrees
  /\ path = <<>> /\ going = "visit"
  /\ open = <<>> /\ pushed = <<>> /\ ancestors = <<>>
  /\ defs = <<>> /\ refs = <<>>

Node(p) ==
  LET down[n \in 0..Len(p)] == IF n = 0 THEN syntax ELSE down[n - 1].kids[p[n]] IN
  down[Len(p)]
Above(p) == SubSeq(p, 1, Len(p) - 1)

\* describe: some nodes define something only if they have a body, some only if
\* they are children of the root.
Described(p) ==
  LET n == Node(p) IN
  \/ n.rule \in {"named", "anonymous"}
  \/ n.rule = "body" /\ n.body
  \/ n.rule = "top" /\ Len(p) = 1

\* extract: calls, types and imports refer to names; an identifier only as the
\* base of a class.
Extracted(p) ==
  LET n == Node(p) IN
  IF \/ n.ref \in {"call", "import"}
     \/ n.ref = "base" /\ ancestors # <<>> /\ Node(ancestors[Len(ancestors)]).ref = "heritage"
    THEN n.names ELSE <<>>

Definition(p) ==
  [node |-> p, start |-> Node(p).start, end |-> Node(p).last,
   parent |-> IF open = <<>> THEN 0 ELSE open[Len(open)]]
Opened(p) == IF Described(p) THEN Append(open, Len(defs) + 1) ELSE open

\* Faulty variant: a definition without children stays open.
VisitLeafOpen ==
  /\ going = "visit"
  /\ refs' = refs \o Extracted(path)
  /\ defs' = IF Described(path)
               THEN Append(defs, Definition(path)) ELSE defs
  /\ open' = Opened(path)
  /\ IF Node(path).kids # <<>>
       THEN /\ path' = Append(path, 1) /\ pushed' = Append(pushed, Described(path))
            /\ ancestors' = Append(ancestors, path)
            /\ UNCHANGED going
       ELSE going' = "climb" /\ UNCHANGED <<path, pushed, ancestors>>
  /\ UNCHANGED syntax

Visit ==
  /\ going = "visit"
  /\ refs' = refs \o Extracted(path)
  /\ defs' = IF Described(path)
               THEN Append(defs, Definition(path)) ELSE defs
  /\ IF Node(path).kids # <<>>
       THEN /\ path' = Append(path, 1) /\ pushed' = Append(pushed, Described(path))
            /\ ancestors' = Append(ancestors, path) /\ open' = Opened(path)
            /\ UNCHANGED going
       ELSE going' = "climb" /\ UNCHANGED <<path, pushed, ancestors, open>>
  /\ UNCHANGED syntax

HasSibling == path # <<>> /\ path[Len(path)] < Len(Node(Above(path)).kids)

ToSibling ==
  /\ going = "climb" /\ HasSibling
  /\ path' = [path EXCEPT ![Len(path)] = @ + 1]
  /\ going' = "visit"
  /\ UNCHANGED <<syntax, open, pushed, ancestors, defs, refs>>

ToParent ==
  /\ going = "climb" /\ ~HasSibling /\ path # <<>>
  /\ path' = Above(path)
  /\ ancestors' = SubSeq(ancestors, 1, Len(ancestors) - 1)
  /\ pushed' = SubSeq(pushed, 1, Len(pushed) - 1)
  /\ open' = IF pushed[Len(pushed)] THEN SubSeq(open, 1, Len(open) - 1) ELSE open
  /\ UNCHANGED <<syntax, going, defs, refs>>

\* Nested calls and imports give names out of order.
InOrderOfBytes(q) ==
  LET before(i) == {j \in DOMAIN q : q[j].byte < q[i].byte} IN
  [k \in 1..Len(q) |-> q[CHOOSE i \in DOMAIN q : Cardinality(before(i)) = k - 1]]

AtTheEnd ==
  /\ going = "climb" /\ ~HasSibling /\ path = <<>>
  /\ refs' = InOrderOfBytes(refs)
  /\ going' = "done"
  /\ UNCHANGED <<syntax, path, open, pushed, ancestors, defs>>

SymbolsNext == Visit \/ ToSibling \/ ToParent \/ AtTheEnd

\* chunk_refs of rows s to e, of a chunk that defines the names in own: from the
\* first reference on or after row s to the last one before the next row after e.
ChunkRefs(s, e, own) ==
  LET from == CHOOSE i \in 1..(Len(refs) + 1) :
                /\ \A j \in 1..(i - 1) : refs[j].row < s
                /\ i <= Len(refs) => refs[i].row >= s
      upTo == CHOOSE i \in from..(Len(refs) + 1) :
                /\ \A j \in from..(i - 1) : refs[j].row <= e
                /\ i <= Len(refs) => refs[i].row > e
      grow[i \in (from - 1)..(upTo - 1)] ==
        IF i = from - 1 THEN <<>>
        ELSE LET name == refs[i].name
                 out == grow[i - 1] IN
             IF \/ name \in Inadmissible \cup own \/ Len(out) = MaxRefs
                \/ \E k \in DOMAIN out : out[k] = name
               THEN out ELSE Append(out, name) IN
  grow[upTo - 1]

-----------------------------------------------------------------------------
AncestorsOf(p) == {SubSeq(p, 1, n) : n \in 0..(Len(p) - 1)}
Earlier(p, q) ==
  \/ p \in AncestorsOf(q)
  \/ \E n \in DOMAIN p : /\ n \in DOMAIN q /\ p[n] < q[n]
                         /\ \A m \in 1..(n - 1) : p[m] = q[m]

\* Whatever the tree, the walk meets each node once, in document order, with its
\* ancestors beside it; a definition's parent is the innermost definition around
\* it; and the names of any rows come in document order, without repetition, as
\* many as are kept.
SymbolsRight ==
  /\ going = "visit" => ancestors = [n \in 1..Len(path) |-> SubSeq(path, 1, n - 1)]
  /\ \A i, j \in DOMAIN defs : i < j => Earlier(defs[i].node, defs[j].node)
  /\ \A i \in DOMAIN defs :
       LET around == {j \in DOMAIN defs : defs[j].node \in AncestorsOf(defs[i].node)} IN
       IF around = {} THEN defs[i].parent = 0
       ELSE /\ defs[i].parent \in around
            /\ \A j \in around : j <= defs[i].parent
  /\ going = "done" =>
       \A s \in syntax.start..syntax.last : \A e \in s..syntax.last :
         LET out == ChunkRefs(s, e, {})
             here == {refs[i] : i \in {j \in DOMAIN refs : refs[j].row \in s..e}}
             first(name) == CHOOSE b \in {r.byte : r \in here} :
               /\ \E r \in here : r.byte = b /\ r.name = name
               /\ \A r \in here : r.name = name => b <= r.byte
             names == {r.name : r \in here} \ Inadmissible IN
         /\ \A k \in DOMAIN out :
              /\ out[k] \in names
              /\ k > 1 => first(out[k - 1]) < first(out[k])
         /\ \A name \in names \ {out[k] : k \in DOMAIN out} :
              Len(out) = MaxRefs /\ first(out[MaxRefs]) < first(name)
=============================================================================
