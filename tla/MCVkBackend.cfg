CONSTANTS
  RingSize = 2
  Ranges = {r1, r2, r3, stg}
  Staging = stg
  NoRange = NoRange
  MaxSubmissions = 3
  SplitKSizes = {1}
  MaxNodes = 2
  MaxChunks = 2
  WaitsMayTimeOut = TRUE
  EndMayFail = FALSE
SPECIFICATION SafeSpec
INVARIANTS TypeOK NoFreeInUse OneOwner RecorderReleased NoBufferReuse NoRaces
PROPERTIES NoReuseInUse
SYMMETRY PoolSymmetry
CHECK_DEADLOCK FALSE
