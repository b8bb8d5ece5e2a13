CONSTANTS
  RingSize = 2
  Ranges = {r1, r2, stg}
  Staging = stg
  NoRange = NoRange
  MaxSubmissions = 3
  SplitKSizes = {1}
  MaxNodes = 2
  MaxChunks = 2
  WaitsMayTimeOut = FALSE
  EndMayFail = TRUE
SPECIFICATION SafeSpec
INVARIANTS RecorderReleased
SYMMETRY PoolSymmetry
CHECK_DEADLOCK FALSE
