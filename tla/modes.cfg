CONSTANTS
  E <- ModesE
  Schedule <- ModesSchedule
  WordSize <- ModesWordSize
  Jobs <- ModesJobs
  Left <- ModesLeft
  Right <- ModesRight
  Undo <- ModesUndo
  JolteonCounterSize <- MCJolteonCounterSize
  JolteonCalls <- MCJolteonCalls
  EspeonCounterSize <- MCEspeonCounterSize
  EspeonCalls <- MCEspeonCalls
SPECIFICATION Spec
INVARIANTS
  TypesOK
  EncryptsAsSpecified
  DistinctInputs
  PairsAreCounterMode
  RoundTrips
  CleanRejection
  ChangesNoticed
  TweaksDistinct
  EspeonTweaksApart
  PaddingsTold
  MatchesRecorded
  MpcDecrypts
CHECK_DEADLOCK FALSE
