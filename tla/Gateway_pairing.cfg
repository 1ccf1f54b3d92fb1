SPECIFICATION FairSpec
CONSTANTS
  NULL = NULL
  Chains = {k1, k2}
  Devices = {d1, d2}
  MaxEvents = 5
INVARIANTS
  
  StoredIsHeld
PROPERTIES
  Settles
CHECK_DEADLOCK FALSE
