SPECIFICATION FairSpec
CONSTANTS
  NULL = NULL
  Nodes <- MCNodes
  Fields = {"f", "g"}
  Texts <- MCTexts
  NumberOf <- MCNumberOf
  Parse <- MCParse
  MAX_RETRIES = 1
  GUARD_MAX = 5
  Convs = {c1, c2, c3}
  FlowIds = {1, 2}
  Flow <- MCDripFlows
  Legacy = {}
  Bound = {}
  DefaultFlow = NULL
  Deletable = {}
  Switchable = {}
  Workers = {w1}
  DelayWorkers = {d1}
  LOOP_MAX_REPLIES = 3
  OFFER_COUNT = 1
  BookingOutcomes = {}
  MaxInbound = 3
  MaxCrashes = 0
PROPERTIES
  DelayEnds
CHECK_DEADLOCK FALSE
