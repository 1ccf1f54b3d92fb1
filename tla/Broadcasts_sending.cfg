SPECIFICATION Spec
CONSTANTS
  NULL = NULL
  b1 = b1
  o1 = o1
  r1 = r1
  r2 = r2
  r3 = r3
  s1 = s1
  s2 = s2
  Broadcasts = {b1}
  Recipients = {r1, r2, r3}
  Orgs = {o1}
  BroadcastOf <- OneCampaign
  OrgOf <- OneOrg
  Unroutable = {r3}
  Sweeps = {s1, s2}
  DueLimit = 1
  BatchSize = 1
  MaxFaults = 1
INVARIANTS
  ShownAsSent
  RepeatsAreBounded
  CancelLeaksBatches

  
CHECK_DEADLOCK FALSE
