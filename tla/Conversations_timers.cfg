SPECIFICATION Spec
CONSTANTS
  NULL = NULL
  Nodes <- MCNodes
  Fields = {"f", "g"}
  Texts <- MCTexts
  NumberOf <- MCNumberOf
  Parse <- MCParse
  MAX_RETRIES = 1
  GUARD_MAX = 5
  Convs = {c1, c2}
  FlowIds = {1, 2}
  Flow <- MCDripFlows
  Legacy = {}
  Bound = {}
  DefaultFlow = NULL
  Deletable = {}
  Switchable = {}
  Workers = {w1, w2}
  DelayWorkers = {d1}
  LOOP_MAX_REPLIES = 3
  OFFER_COUNT = 1
  BookingOutcomes = {}
  MaxInbound = 4
  MaxCrashes = 1
SYMMETRY MCWorkersAlike
INVARIANTS
  ActiveRowIsLive
  TimerPending
  StaleTimerIsNoOp
CHECK_DEADLOCK FALSE
