SPECIFICATION FairSpec
CONSTANTS
  s1 = s1
  s2 = s2
  None = None
  Servers = {s1, s2}
  First = s1
  MaxKeys = 2
  MaxTaps = 2
  MaxFaults = 1
INVARIANTS TypeOK ViewsAgreeAtRest
CHECK_DEADLOCK FALSE
PROPERTIES RowLimitsConverge ViewDecided
