SPECIFICATION FairSpec
CONSTANTS
  Base = 4
  MaxMessageLen = 2
  KeyLen = 1
  NonceLen = 1
  TagLen = 1
  ReadsNonce = FALSE
  FailLens = {}
  MallocOutcomes = {TRUE}
  Digits = 2
  NCycleCounts = 1
  SampleFiles <- MCSivFiles
  Careful = TRUE
  MaxSessions = 3
  MaxBoots = 2
  MaxDown = 4
INVARIANTS
  CountsBelong
PROPERTIES
  EndsWell
  Measures
CHECK_DEADLOCK FALSE
