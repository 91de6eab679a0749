SPECIFICATION FairSpec
CONSTANTS
  k1 = k1
  k2 = k2
  b1 = b1
  b2 = b2
  b3 = b3
  b4 = b4
  c1 = c1
  c2 = c2
  Transfers = {b1, b2, b3, b4}
  Keys = {k1, k2}
  KeyOf <- MCKeyOf
  Sanctioned = {b4}
  MaxTransferred = 2
  Calls = {c1}
  MaxFaults = 0
PROPERTY
  OptedInIsReported
