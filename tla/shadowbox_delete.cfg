SPECIFICATION Spec
CONSTANTS
  MaxId = 2
  MaxUsage = 0
  NoLimit = NoLimit
  t0 = t0
  t1 = t1
  w1 = w1
  w2 = w2
  Tasks = {t0, t1}
  StartTask = t0
  NotRequested = NotRequested
  MaxFaults = 0
  Writes = {w1, w2}
  NoCaller = NoCaller
  StartCaller = StartCaller
  MaxCrashes = 0
SYMMETRY Symmetry
INVARIANT
  DeletedKeyRefused
