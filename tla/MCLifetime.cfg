CONSTANTS
  Daemon = {d1, d2, d3}
  Stop = {s1, s2}
  Hook = {k1}
  NoProcess = NoProcess
  MaxMishaps = 1
  d1 = d1
  d2 = d2
  d3 = d3
  s1 = s1
  s2 = s2
  k1 = k1
SPECIFICATION LifetimeFairSpec
INVARIANTS OwnsFiles StopEndsIt
PROPERTY ComesBack
CHECK_DEADLOCK FALSE
