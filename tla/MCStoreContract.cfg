CONSTANTS
  Path = {p1, p2}
  p1 = p1
  p2 = p2
  c1 = c1
  c2 = c2
  Content = {v1, v2}
  Body = {b1, b2}
  Term = {t1, t2}
  Ident = {i1, i2}
  Client = {c1, c2}
  v1 = v1
  v2 = v2
  b1 = b1
  b2 = b2
  t1 = t1
  t2 = t2
  i1 = i1
  i2 = i2
  NoFile = NoFile
  MaxRetries = 1
  DfBound = 4
  Nothing = Nothing
  BodiesOf <- MCBodiesOf
  TermsOf <- MCTermsOf
  IdentsOf <- MCIdentsOf
SPECIFICATION MCSpec
INVARIANTS SettledComplete SettledExact DfExact
PROPERTY ImplementsFileIndex
