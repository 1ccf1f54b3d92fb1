SPECIFICATION Spec
CONSTANTS
  NULL = NULL
  Nodes <- MCNodes
  Fields = {"f", "g"}
  Texts <- MCTexts
  NumberOf <- MCNumberOf
  Parse <- MCParse
  MAX_RETRIES = 1
  GUARD_MAX = 5
  Convs = {c1, c2, c3, c4, c5, c6}
  FlowIds = {1, 2}
  Flow <- MCBookingFlows
  Legacy = {c1}
  Bound = {}
  DefaultFlow = NULL
  Deletable = {1, 2}
  Switchable = {1}
  Workers = {w1}
  DelayWorkers = {}
  LOOP_MAX_REPLIES = 2
  OFFER_COUNT = 1
  BookingOutcomes = {"link", "slots"}
  MaxInbound = 3
  MaxCrashes = 1
INVARIANTS
  OneActive
  KeepsItsFlow
PROPERTIES
  QuietAfterFinish
  
  FieldsOnlyFromAnswers
CHECK_DEADLOCK FALSE
