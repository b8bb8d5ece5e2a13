CONSTANTS
  MaxNodes = 3
  MaxLeaves = 3
  MaxLen = 3
  MaxAssigns = 1
  MaxBatch = 2
  Backend = "vulkan"
  MayFail = TRUE
SPECIFICATION BoundsSpec
PROPERTIES FlaggedHoldsValue ResultsKept AssignDelivers
CHECK_DEADLOCK FALSE
