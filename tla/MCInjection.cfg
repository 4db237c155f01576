CONSTANTS
  Path = {p1, p2}
  Span = {a1, a2, b}
  PathOf <- MCPathOf
  Overlap <- MCOverlap
  Request = {r1, r2}
  p1 = p1
  p2 = p2
  a1 = a1
  a2 = a2
  b = b
  r1 = r1
  r2 = r2
  FullSpans = 2
  MaxSent = 1
  MaxEdits <- MCMaxEdits
  MaxPrompts = 2
  MaxMishaps = 1
  s1 = s1  s2 = s2  x = x  y = y  z = z
  t1 = t1  t2 = t2  t3 = t3  t4 = t4  name = name
  Sessions = {s1, s2}
  NoSession = NoSession
  Asker = {r1, r2}
  Prompts <- MCPrompts
  Results <- MCResults
  Nothing = Nothing
  MaxSessions = 1
  MaxWorking = 2
  FollowUpWords = 4
  QuotedWords = 3
  MaxAsked = 3
SYMMETRY Symmetry
SPECIFICATION MCSpec
INVARIANTS ProvidedReachesContext FollowsTopic WorkingBest
PROPERTY NothingInlinedTwice
