CONSTANTS
  CommandLines <- MCCommandLines
  Numerals <- MCNumerals
SPECIFICATION Spec
INVARIANTS
  CompilesAll
CHECK_DEADLOCK FALSE
