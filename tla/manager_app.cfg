SPECIFICATION Spec
CONSTANTS
  d1 = d1
  i1 = i1
  u1 = u1
  ua = ua
  ub = ub
  f1 = f1
  Droplets = {d1}
  Instances = {i1}
  Urls = {u1}
  Users = {ua, ub}
  Owner <- OneOwner
  Flows = {f1}
  MaxTaps = 3
  MaxFaults = 1
  None = None
INVARIANTS
  TypeOK
  ListedServersKnown
  NoServerOfSignedOutAccount
  SignOutIsStored
  SelectionListed
  StoredManualServersListed
CHECK_DEADLOCK FALSE
