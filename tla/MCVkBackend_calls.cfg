CONSTANTS
  RingSize = 2
  Ranges = {r1, r2, r3, stg}
  Staging = stg
  NoRange = NoRange
  MaxSubmissions = 2
  SplitKSizes = {1, 2}
  MaxNodes = 2
  MaxChunks = 2
  WaitsMayTimeOut = FALSE
  EndMayFail = TRUE
SPECIFICATION Spec
INVARIANTS StagingSafe
PROPERTIES ImplementsRecorder CallsReturn
CHECK_DEADLOCK FALSE
