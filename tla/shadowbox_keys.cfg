SPECIFICATION Spec
CONSTANTS
  MaxId = 2
  MaxUsage = 0
  NoLimit = NoLimit
  t0 = t0
  t1 = t1
  w1 = w1
  w2 = w2
  Tasks = {t0}
  StartTask = t0
  NotRequested = NotRequested
  MaxFaults = 1
  Writes = {w1, w2}
  NoCaller = NoCaller
  StartCaller = StartCaller
  MaxCrashes = 1
SYMMETRY Symmetry
\* t0 is start()'s own: without requests this instance comes to rest.
CHECK_DEADLOCK FALSE
INVARIANTS
  NoLostReload
  EnabledKeysServed
  NoUnknownKeyServed
  RemovedKeysRefused
