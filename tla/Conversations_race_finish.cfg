SPECIFICATION Spec
CONSTANTS
  NULL = NULL
  Nodes <- MCNodes
  Fields = {"f", "g"}
  Texts <- MCTexts
  NumberOf <- MCNumberOf
  Parse <- MCParse
  MAX_RETRIES = 1
  GUARD_MAX = 5
  Convs = {c1, c2, c3}
  FlowIds = {1, 2}
  Flow <- MCPlainFlows
  Legacy = {}
  Bound = {}
  DefaultFlow = NULL
  Deletable = {}
  Switchable = {}
  Workers = {w1, w2}
  DelayWorkers = {}
  LOOP_MAX_REPLIES = 3
  OFFER_COUNT = 1
  BookingOutcomes = {}
  MaxInbound = 5
  MaxCrashes = 0
PROPERTIES
  QuietAfterFinish
CHECK_DEADLOCK FALSE
