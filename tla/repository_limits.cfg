SPECIFICATION FairSpec
CONSTANTS
  MaxId = 1
  MaxUsage = 1
  NoLimit = NoLimit
  t0 = t0
  t1 = t1
  t2 = t2
  Tasks = {t0, t1, t2}
  StartTask = t0
  NotRequested = NotRequested
  MaxFaults = 1
INVARIANTS
  TypeOK
  FilesInSync
  KeysDurable
  ProxyInSync
  LimitsEnforced
PROPERTY
  EnforcementConverges
