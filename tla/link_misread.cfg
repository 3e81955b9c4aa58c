SPECIFICATION FairSpec
CONSTANTS
  Base = 4
  MaxMessageLen = 2
  KeyLen = 1
  NonceLen = 1
  TagLen = 1
  ReadsNonce = TRUE
  FailLens = {}
  MallocOutcomes = {TRUE}
  Digits = 2
  NCycleCounts = 1
  SampleFiles <- MCMisreadFiles
  Careful = TRUE
  MaxSessions = 3
  MaxBoots = 2
  MaxDown = 4
PROPERTIES
  ReceivesCount
CHECK_DEADLOCK FALSE
