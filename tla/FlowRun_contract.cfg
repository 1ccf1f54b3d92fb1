SPECIFICATION RunSpec
CONSTANTS
  NULL = NULL
  Nodes <- MCNodes
  Fields = {"f", "g"}
  Texts <- MCTexts
  NumberOf <- MCNumberOf
  Parse <- MCParse
  MAX_RETRIES = 2
  GUARD_MAX = 3
  Flows <- MCFlows
INVARIANTS
  RuntimeContract
  SavedFieldsAreAnswers
PROPERTIES
  RunEnds
CHECK_DEADLOCK FALSE
