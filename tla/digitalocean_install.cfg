SPECIFICATION FairSpec
CONSTANTS
  p1 = p1
  p2 = p2
  Polls = {p1, p2}
  MaxFaults = 2
\* A server that was deleted, or whose outcome is known, is at rest.
CHECK_DEADLOCK FALSE
INVARIANTS
  TypeOK
  ErrorHasCause
PROPERTY
  ImplementsInstall
