------------------------------ MODULE MCLookup ------------------------------
(* Four indexed files, one of them prose, one file too big to search, one   *)
(* of a type that is not indexed.  a, b and c are code in directory src; a  *)
(* and the prose are in directory pkg.                                      *)
EXTENDS Lookup

CONSTANTS a, b, c, n, g, o, src, pkg, x, w, j, Def

MCFile == {a, b, c, n, g, o}
MCKind == [f \in MCFile |-> IF f = g THEN "big" ELSE IF f = o THEN "other" ELSE "indexed"]
MCDir == [d \in {src, pkg} |-> IF d = src THEN {a, b, c, o} ELSE {a, n}]
MCWalkOrder == <<a, b, o, c, n, g>>

\* x is a name (code_shaped), w a plain word.
Has(lx, lw) == [t \in {x, w} |-> IF t = x THEN lx ELSE lw]
MCMatches ==
  [f \in MCFile |->
     CASE f = a -> <<Has({1, 2, 3}, {3}), Has({1}, {})>>
       [] f = b -> <<Has({2, 5}, {1})>>
       [] f = c -> <<Has({4}, {})>>
       [] f = n -> <<Has({7, 9}, {8})>>
       [] OTHER -> <<Has({1}, {1})>>]
MCHeaded == [f \in MCFile |-> IF f = a THEN {2} ELSE IF f = b THEN {5} ELSE {}]

Call(tokens, listed, scope) ==
  [method |-> "call", search |-> TRUE, tokens |-> tokens, listed |-> listed, scope |-> scope]
MCMessage ==
  {[method |-> "unparsed"], [method |-> "unknown"], [method |-> "ping"],
   [method |-> "call", search |-> FALSE],
   Call({}, FALSE, NoScope), Call({x}, FALSE, Missing), Call({x}, FALSE, Outside),
   Call({x, w}, FALSE, NoScope), Call({x, j}, FALSE, NoScope), Call({Def}, FALSE, src),
   Call({x, Def}, FALSE, NoScope), Call({x, w}, TRUE, NoScope), Call({w}, FALSE, src),
   Call({x}, FALSE, src), Call({w}, FALSE, pkg), Call({x}, FALSE, b), Call({x}, FALSE, g)}
MCRankings == {<<b>>, <<n, b, a>>, <<o>>}
=============================================================================
