CONSTANTS
  E <- ModesE
  Schedule <- ModesSchedule
  WordSize <- ModesWordSize
  Jobs <- SivJobs
  Left <- ModesLeft
  Right <- ModesRight
  Undo <- ModesUndo
  JolteonCounterSize <- MCJolteonCounterSize
  JolteonCalls <- NoCalls
  EspeonCounterSize <- MCEspeonCounterSize
  EspeonCalls <- NoCalls
SPECIFICATION Spec
INVARIANT MatchesRecorded
CHECK_DEADLOCK FALSE
