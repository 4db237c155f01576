CONSTANTS
  Client = {c1, c2}
  Stopper = {c1}
  Moon = {m1, m2}
  Nobody = Nobody
  MaxFaults = 1
SPECIFICATION FairSpec
INVARIANTS
  OnePassword
  ReadyIsOurs
  PidfileNamesMoon
  StopStops
PROPERTY CallsEnd
