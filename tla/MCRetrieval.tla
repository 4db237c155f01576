---------------------------- MODULE MCRetrieval ----------------------------
(* File f has chunks A, B and C, one after the other, with a blank line    *)
(* before C; file t is a test, file n prose.                               *)
EXTENDS Retrieval

CONSTANTS A, B, C, D, E, f, t, n, x, y, z

MCChunk == {A, B, C, D, E}

Row(path, start, end, text, test, defines, refs, line) ==
  [path |-> path, start |-> start, end |-> end, text |-> text, test |-> test,
   defines |-> defines, refs |-> refs, line |-> line]

\* B uses x and y in one line; n is not parsed.
MCInfo ==
  [c \in MCChunk |->
     CASE c = A -> Row(f, 1, 2, FALSE, FALSE, <<x>>, <<>>, [i \in {x, y, z} |-> 1])
       [] c = B -> Row(f, 3, 4, FALSE, FALSE, <<y>>, <<x>>, [i \in {x, y, z} |-> 3])
       [] c = C -> Row(f, 6, 6, FALSE, FALSE, <<>>, <<x, y>>, [i \in {x, y, z} |-> 6])
       [] c = D -> Row(t, 1, 2, FALSE, TRUE, <<>>, <<x, z>>, [i \in {x, y, z} |-> 2])
       [] c = E -> Row(n, 1, 2, TRUE, FALSE, <<>>, <<>>, [i \in {x, y, z} |-> 0])]

MCChunkOrder == <<A, B, C, D, E>>

MCAnswers ==
  {<<<<>>, <<>>, <<>>>>} \cup
  {<<hits, defining, path>> :
     hits \in {<<A, B, C, D, E>>, <<E, D, C, A>>},
     defining \in {<<>>, <<B, A>>},
     path \in {<<>>, <<E>>}}
MCGone == {{}, {C}}
MCStale == {{}, {f}}
MCNamed == {<<>>, <<z, y>>}
MCPromptLimit == [lines |-> 3, each |-> 2]
MCCallersLimit == [lines |-> 6, each |-> 4]
MCDefaultCaps == [map |-> 3, full |-> 2, related |-> 2]
MCFollowUpCaps == [map |-> 2, full |-> 1, related |-> 2]
MCLayaWeight == <<2>>
=============================================================================
