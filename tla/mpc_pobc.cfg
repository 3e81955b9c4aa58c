CONSTANTS
  E <- ModesE
  Schedule <- ModesSchedule
  WordSize <- ModesWordSize
  Jobs <- MpcJobs
  Left <- ModesLeft
  Right <- ModesRight
  Undo <- ModesUndo
  JolteonCounterSize <- MCJolteonCounterSize
  JolteonCalls <- NoCalls
  EspeonCounterSize <- MCEspeonCounterSize
  EspeonCalls <- NoCalls
SPECIFICATION Spec
INVARIANT MpcDecryptsPobc
CHECK_DEADLOCK FALSE
