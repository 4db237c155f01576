CONSTANTS
  Path = {p1}
  Content = {v1, v2, bad}
  Unparsable = {bad}
  Body = {b1}
  Term = {}
  Ident = {i1}
  Handler = {h1}
  Indexer = ix
  Client <- MCClient
  v1 = v1
  v2 = v2
  bad = bad
  b1 = b1
  i1 = i1
  NoFile = NoFile
  MaxRetries = 0
  DfBound = 0
  MaxEdits = 2
  MaxFaults = 1
  BodiesOf <- MCBodiesOf
  TermsOf <- MCTermsOf
  IdentsOf <- MCIdentsOf
SPECIFICATION FairRepoSpec
INVARIANTS UnracedInSync UnracedComplete
PROPERTIES QuietIndexSyncs IndexEnds
