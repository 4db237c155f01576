CONSTANTS
  t1 = t1
  t2 = t2
  k1 = k1
  k2 = k2
  Caller = {c1, c2}
  Worker = {w1, w2}
  Task = {t1, t2}
  Candidates <- MCCandidates
  Budget = 3
  Cost <- MCCost
  Nobody = Nobody
  MaxFaults = 1
  MaxConns = 1
SPECIFICATION FairSpec
INVARIANTS
  SlotsExact
  CacheTruthful
  ResultsOwn
PROPERTIES
  Answered
