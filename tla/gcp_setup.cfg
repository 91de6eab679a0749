SPECIFICATION FairSpec
CONSTANTS
  p1 = p1
  p2 = p2
  s1 = s1
  s2 = s2
  Projects = {p1, p2}
  Starts = {s1, s2}
  MaxTaps = 6
  MaxFaults = 2
  None = None
INVARIANTS
  TypeOK
  ServerInHealthyProject
PROPERTIES
  BillingAccountNoticed
  WizardShowsAPage
CHECK_DEADLOCK FALSE
