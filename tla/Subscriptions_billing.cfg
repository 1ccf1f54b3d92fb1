SPECIFICATION MCSpec
CONSTANTS
  NULL = NULL
  FREE = FREE
  STARTER = STARTER
  PRO = PRO
  o1 = o1
  o2 = o2
  payer = payer
  order = order
  Orgs = {o1, o2}
  Charges <- MCCharges
  Plans = {STARTER, PRO}
  PlanOf <- MCPlanOf
  MonthsOf <- MCMonthsOf
  PayerOf <- MCPayerOf
  ProcessOf <- MCProcessOf
  Unnamed = {1}
  Claims <- MCClaims
  r1 = r1
  r2 = r2
  Handed <- MCHanded
  Manual <- MCManual
  Leavers = {o2}
  Requests = {r1, r2}
  Leaps = {2}
  MaxTime = 2
  MaxCrashes = 1
  Typed <- MCTyped
  PagePrices = {4956, 8900, 12000}
  Orders = {2, 12}
  Noise = {0}
INVARIANTS
  PlanIsBacked
  AccessIsPaidFor
  
  ChargedOnce
  PlanPaidFor
SYMMETRY MCSymmetry
CHECK_DEADLOCK FALSE
