SPECIFICATION SerialSpec
CONSTANTS
  MaxId = 3
  Unsupported = {2}
  Callers = {}
  NoCaller = NoCaller
  w1 = w1
  w2 = w2
  w3 = w3
  Writes = {w1, w2}
  MaxCrashes = 2
INVARIANTS
  TypeOK
PROPERTIES
  UpdatesEventuallyServed
  ImplementsAccess
