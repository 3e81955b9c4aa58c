SPECIFICATION Spec
CONSTANTS
  Base = 4
  MaxMessageLen = 2
  KeyLen = 1
  NonceLen = 1
  TagLen = 1
  ReadsNonce = TRUE
  FailLens = {0}
  MallocOutcomes = {TRUE, FALSE}
  Digits = 2
  NCycleCounts = 1
  SampleFiles <- MCFaultFiles
  Careful = FALSE
  MaxSessions = 2
  MaxBoots = 2
  MaxDown = 4
INVARIANTS
  TypeOK
  CountsBelong
  NothingDiscarded
  NothingLost
  LinkInv
PROPERTIES
  ReplyMatches
  NoGarbage
CHECK_DEADLOCK FALSE
