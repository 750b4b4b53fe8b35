CONSTANTS
  MaxArguments = 3
  MaxMatches = 4
SPECIFICATION Spec
INVARIANTS
  StandsAtNext
PROPERTIES
  Refines
  Terminates
