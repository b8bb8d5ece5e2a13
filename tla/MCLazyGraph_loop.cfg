CONSTANTS
  MaxNodes = 2
  MaxLeaves = 2
  MaxLen = 1
  MaxAssigns = 1
  MaxBatch = 2
  Backend = "vulkan"
  MayFail = FALSE
SPECIFICATION AssignsSpec
PROPERTIES AssignIsLoop
CHECK_DEADLOCK FALSE
