CONSTANTS
  Caller = {c1, c2}
  Slot = {s1, s2}
  c1 = c1
  c2 = c2
  s1 = s1
  s2 = s2
  NoSlot = NoSlot
  NoConn = NoConn
  Threshold = 2
  Cooldown = 2
  Skew = 1
  MaxRetries = 2
  MaxFaults = 2
SPECIFICATION FairSpec
INVARIANT BurnsOneRetry
PROPERTIES ProbesSpaced Recovers
