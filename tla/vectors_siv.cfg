SPECIFICATION Spec
CONSTANTS
  ArgLists <- MCSivArgLists
  Stray = {0, 1}
INVARIANTS
  NamedMode
CHECK_DEADLOCK FALSE
