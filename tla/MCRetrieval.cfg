SPECIFICATION Spec
CONSTANTS
  A = A  B = B  C = C  D = D  E = E
  f = f  t = t  n = n
  x = x  y = y  z = z
  Name = {x, y, z}
  Chunk <- MCChunk
  Info <- MCInfo
  ChunkOrder <- MCChunkOrder
  KCandidates = 4
  MaxPerFile = 2
  RrfK = 60
  RrfUnit = 38122560
  MinKeep = 2
  PThreshold = 0
  MaxP = 1
  LayaWeight <- MCLayaWeight
  MaxMergeGap = 1
  MaxMergedLines = 4
  AmbiguousAbove = 1
  CallerLimit = 2
  PerSeedIdents = 2
  PerSeedDefines = 2
  RelatedPerFile = 1
  TestRefLimit = 2
  UsageIdents = 3
  UsageRefLimit = 2
  MaxChars = 12
  Budget = 12
  Header = 1
  Trust = 1
  Footer = 1
  Spare = 2
  Prose = {n}
  Answers <- MCAnswers
  Gone <- MCGone
  Named <- MCNamed
  ScoreTop = 3
  TopN = 3
  MaxLines = 6
  MaxRelated = 2
  PromptLimit <- MCPromptLimit
  CallersLimit <- MCCallersLimit
  TestRefs = 1
  DefaultCaps <- MCDefaultCaps
  FollowUpCaps <- MCFollowUpCaps
  Stale <- MCStale
  MaxPrompts = 2
INVARIANTS RespectsBoth UsesClaimTrue WithinCap
CHECK_DEADLOCK FALSE
