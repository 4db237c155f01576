SPECIFICATION LookupSpec
CONSTANTS
  a = a  b = b  c = c  n = n  g = g  o = o  src = src  pkg = pkg
  x = x  w = w  j = j  Def = Def
  File <- MCFile
  Kind <- MCKind
  Prose = {n}
  Dir <- MCDir
  WalkOrder <- MCWalkOrder
  Matches <- MCMatches
  Headed <- MCHeaded
  Message <- MCMessage
  Framing = {Def}
  NoNames = {j}
  Shaped = {x}
  Rankings <- MCRankings
  NoScope = NoScope
  Missing = Missing
  Outside = Outside
  Nothing = Nothing
  Gone = 0
  Garbled = 99
  MaxIdents = 2
  MaxChars = 7
  SummaryMax = 1
  TailMax = 1
  FileLines = 2
  MaxWalk = 4
  MaxChanges = 1
  MaxErrors = 1
INVARIANTS CompleteTrue CountedNeverFits
