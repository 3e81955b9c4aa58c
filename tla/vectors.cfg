SPECIFICATION Spec
CONSTANTS
  ArgLists <- MCArgLists
  Stray = {0, 1}
INVARIANTS
  TypeOK
  LoadsGenerated
  LoadsChecked
  Reproducible
  FreshBytes
  MatchesBoard
PROPERTIES
  LoadsAllOrNothing
CHECK_DEADLOCK FALSE
