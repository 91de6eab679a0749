SPECIFICATION FairSpec
CONSTANTS
  MaxFaults = 3
INVARIANTS
  TypeOK
  NoIdleAddress
  FulfilledForCause
PROPERTIES
  InstallHeardOf
  DeletedInstanceStops
CHECK_DEADLOCK FALSE
