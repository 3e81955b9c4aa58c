CONSTANTS
  Deltas <- MCDeltas
  Inputs <- MCInputs
  Arrays <- MCArrays
  Lengths <- MCLengths
  MemSize = 2
  Cells = 6
  Values <- MCValues
  MaxStore = 2
  Careful = TRUE
SPECIFICATION MCSpec
INVARIANTS
  TagCheckTypeOK
  Verdict
  SboxAgrees
  CipherAgrees
  DecryptionInverts
  ArraysOK
  LoadsStored
PROPERTY TagCheckTerminates
CHECK_DEADLOCK FALSE
