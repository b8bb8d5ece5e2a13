CONSTANTS
  RingSize = 2
  Ranges = {r1, r2, stg}
  Staging = stg
  NoRange = NoRange
  MaxSubmissions = 3
  SplitKSizes = {1}
  MaxNodes = 2
  MaxChunks = 2
  WaitsMayTimeOut = TRUE
  EndMayFail = FALSE
SPECIFICATION SafeSpec
INVARIANTS StagingSafe
SYMMETRY PoolSymmetry
CHECK_DEADLOCK FALSE
