CONSTANTS
  RingSize = 2
  Ranges = {r1, r2, r3, r4, stg}
  Staging = stg
  NoRange = NoRange
  MaxSubmissions = 3
  SplitKSizes = {1, 2}
  MaxNodes = 2
  MaxChunks = 2
  WaitsMayTimeOut = FALSE
  EndMayFail = FALSE
SPECIFICATION SafeSpec
INVARIANTS NoFreeInUse
SYMMETRY PoolSymmetry
CHECK_DEADLOCK FALSE
