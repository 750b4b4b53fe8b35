SPECIFICATION Spec
CONSTANTS
  External <- MCExternal
  Context <- MCContext
  Programs <- MCPrograms
  MaxClauses = 3
INVARIANTS
  ValueKept
  CardinalitySound
PROPERTIES
  Terminates
CHECK_DEADLOCK FALSE
