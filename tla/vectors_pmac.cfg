SPECIFICATION Spec
CONSTANTS
  ArgLists <- MCPmacArgLists
  Stray = {0, 1}
INVARIANTS
  CheckSucceeds
CHECK_DEADLOCK FALSE
