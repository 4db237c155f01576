---------------------------- MODULE MCAlgorithms ----------------------------
(* Four algorithms over data: how a file is cut into chunks, what its chunks *)
(* define and refer to, how a query of the store is planned and fused, how   *)
(* the model's inputs are built and batched.  They share nothing, so a       *)
(* behaviour has one of them at work, and the others still as they were.     *)
EXTENDS Chunker, Queries, Inputs, Symbols

CONSTANTS RowCount, w1, w2, w3, w4, c1, c2

VARIABLE subject

Leaf(start, end, named, trivia) ==
  [start |-> start, end |-> end, named |-> named, trivia |-> trivia,
   kids |-> <<>>]
Inner(kids) ==
  [start |-> kids[1].start, end |-> kids[Len(kids)].end, named |-> TRUE,
   trivia |-> FALSE, kids |-> kids]

Last1 == RowCount - 1

Intervals == {i \in (0..Last1) \X (0..Last1) : i[1] <= i[2]}

\* Children share a row at most.
After(node, others) == \A k \in others : node.end <= k.start

Tokens == {Leaf(i[1], i[2], FALSE, FALSE) : i \in {j \in Intervals : j[1] = j[2]}}
Comments == {Leaf(i[1], i[2], TRUE, TRUE) : i \in {j \in Intervals : j[2] - j[1] <= 1}}
Strings == {Leaf(i[1], i[2], TRUE, FALSE) : i \in Intervals}
Leaves == Tokens \cup Comments \cup Strings

Pairs(A, B) == {<<p[1], p[2]>> : p \in {q \in A \X B : q[1].end <= q[2].start}}

\* A definition: its header, and a body or a comment and an item.
Small == {Inner(<<p[1], p[2]>>) : p \in Pairs(Tokens, Strings)}
Large ==
  {Inner(<<t, c, s>>) : t \in Tokens, c \in Comments, s \in Strings \cup Small}

Ordered(kids) == \A i \in 1..(Len(kids) - 1) : kids[i].end <= kids[i + 1].start

Nodes == Leaves \cup Small \cup {n \in Large : Ordered(n.kids)}

Root(kids) ==
  [start |-> 0, end |-> Last1, named |-> TRUE, trivia |-> FALSE,
   kids |-> kids]

Blanks == {{}, {1, 4}}

\* One node; a comment or token and a node; two definitions or strings.
Trees ==
  {Root(<<n>>) : n \in Nodes}
    \cup {Root(p) : p \in Pairs(Comments \cup Tokens, Strings \cup Small)}
    \cup {Root(p) : p \in Pairs(Small, Small \cup Strings)}

\* Every node with children, but the root, is a definition.
DefsIn(node, parent, before) ==
  LET inner == SelectSeq(node.kids, LAMBDA k : k.kids # <<>>)
      def(n, p) == [start |-> n.start, end |-> n.end, parent |-> p] IN
  IF node.kids = <<>> THEN <<>>
  ELSE <<def(node, parent)>>
       \o [i \in DOMAIN inner |-> def(inner[i], before + 1)]

DefsOf(root) ==
  LET first == DefsIn(root.kids[1], 0, 0) IN
  IF Len(root.kids) = 1 THEN first
  ELSE first \o DefsIn(root.kids[2], 0, Len(first))

MCTreeNode == Nodes \cup Trees

MCFile ==
  {[rows |-> RowCount, blank |-> b, tree |-> <<t>>, defs |-> DefsOf(t)] :
     b \in Blanks, t \in Trees}
    \cup {[rows |-> RowCount, blank |-> b, tree |-> <<>>, defs |-> <<>>] :
            b \in SUBSET (0..Last1)}

-----------------------------------------------------------------------------
\* Words of which one is too short, one has two spellings.
MCWords == {<<>>, <<"x">>, <<w1, "W1">>, <<w3, w2>>, <<w2, w1, w3>>, <<w3, w4, "x">>,
            <<w1, w2, w3, w4>>, <<w4, w3, w4, w1, w2>>}
MCLower == [w \in {w1, w2, w3, w4, "W1", "x"} |-> IF w = "W1" THEN w1 ELSE w]
MCLegal == {w1, w2, w3, w4}
MCLength == [w \in MCLegal |-> IF w = w1 THEN 3 ELSE IF w = w2 THEN 5 ELSE 4]
MCFrequencies == [MCLegal -> {-1, 2, 4}]
MCScore == [w \in MCLegal |-> IF w = w3 THEN 3 ELSE 2]
MCOrder == [c \in {c1, c2} |-> IF c = c1 THEN 1 ELSE 2]

\* The smallest that is loaded, some with room to spare, some without.
MCBudgets ==
  {[head |-> b[1], max |-> b[2]] : b \in {<<4, 7>>, <<4, 8>>, <<6, 16>>, <<10, 13>>, <<10, 14>>}}
MCOptions == UNION {[1..k -> {0, 4}] : k \in 0..2} \cup {<<4, 4, 4>>, <<1, 4, 4, 4, 5>>}

-----------------------------------------------------------------------------
\* A tree of a root, its children on rows of their own, and theirs; names of
\* imports come out of order, a call's name after what is in the call.
Name(i, j, k) == CASE k = 0 -> "foo" [] k = 1 -> IF i = j THEN "bar" ELSE "baz" [] OTHER -> "new"
Ref(i, j, k) == [byte |-> 10 * (3 * i + j) + k, row |-> i, name |-> Name(i, j, k)]
Kinds ==
  {<<"none", "none">>, <<"named", "none">>, <<"anonymous", "import">>, <<"body", "call">>,
   <<"top", "base">>}
Inside ==
  {<<"none", "heritage">>, <<"named", "none">>, <<"top", "call">>}
SourceNode(kind, i, j, kids) ==
  [rule |-> kind[1], body |-> FALSE, ref |-> kind[2], start |-> i, last |-> i, kids |-> kids,
   names |-> IF kind[2] = "import" THEN <<Ref(i, j, 1), Ref(i, j, 0)>>
             ELSE <<Ref(i, j, IF kids = <<>> THEN 2 ELSE 1)>>]
LeavesAt(i, j) == {SourceNode(k, i, j, <<>>) : k \in Kinds}
InnersAt(i) ==
  {SourceNode(k, i, 2, q) : k \in Inside, q \in {<<l>> : l \in LeavesAt(i, 0)}
     \cup {<<l, m>> : l \in LeavesAt(i, 0), m \in LeavesAt(i, 1)}}
TopOfTree(kids) ==
  [rule |-> "none", body |-> FALSE, ref |-> "none", start |-> 0, last |-> 1, names |-> <<>>,
   kids |-> kids]
MCSourceTrees ==
  {TopOfTree(<<n, l>>) : n \in InnersAt(0), l \in LeavesAt(1, 0)}
    \cup {TopOfTree(<<l, n>>) : n \in InnersAt(1), l \in LeavesAt(0, 0)}

-----------------------------------------------------------------------------
mcVars == <<chunkerVars, queryVars, inputVars, symbolVars, subject>>

\* What is not at work has the first state of something small.
Works(name) == subject = name
MCInit ==
  /\ subject \in {"chunker", "symbols", "queries", "inputs"}
  /\ IF Works("chunker") THEN ChunkerInit
     ELSE file = [rows |-> 1, blank |-> {0}, tree |-> <<>>, defs |-> <<>>] /\ calls = <<>>
          /\ segs = <<>> /\ at = 1 /\ stage = "text"
  /\ IF Works("symbols") THEN SymbolsInit
     ELSE syntax = TopOfTree(<<>>) /\ path = <<>> /\ going = "visit" /\ open = <<>>
          /\ pushed = <<>> /\ ancestors = <<>> /\ defs = <<>> /\ refs = <<>>
  /\ IF Works("queries") THEN QueriesInit
     ELSE asked = <<>> /\ df = [w \in Legal |-> 1] /\ terms = <<>> /\ replies = <<>>
          /\ found = <<>> /\ qStage = "prepare"
  /\ IF Works("inputs") THEN InputsInit
     ELSE cfg = [head |-> 4, max |-> 8] /\ inputs = <<>> /\ failed = <<>> /\ batches = <<>>
MCNext ==
  \/ Works("chunker") /\ ChunkerNext /\ UNCHANGED <<queryVars, inputVars, symbolVars, subject>>
  \/ Works("symbols") /\ SymbolsNext /\ UNCHANGED <<chunkerVars, queryVars, inputVars, subject>>
  \/ Works("queries") /\ QueriesNext /\ UNCHANGED <<chunkerVars, inputVars, symbolVars, subject>>
  \/ Works("inputs") /\ InputsNext /\ UNCHANGED <<chunkerVars, queryVars, symbolVars, subject>>
MCSpec == MCInit /\ [][MCNext]_mcVars
=============================================================================
