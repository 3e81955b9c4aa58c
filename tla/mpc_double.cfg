CONSTANTS
  E <- ModesE
  Schedule <- ModesSchedule
  WordSize <- ModesWordSize
  Jobs <- PmacJobs
  Left <- ModesLeft
  Right <- ModesRight
  Undo <- ModesUndo
  JolteonCounterSize <- MCJolteonCounterSize
  JolteonCalls <- NoCalls
  EspeonCounterSize <- MCEspeonCounterSize
  EspeonCalls <- NoCalls
SPECIFICATION Spec
INVARIANT DoubleIsByX
CHECK_DEADLOCK FALSE
