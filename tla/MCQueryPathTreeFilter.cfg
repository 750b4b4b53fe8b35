SPECIFICATION Spec
CONSTANTS
  Wildcard = Wildcard
  None = None
  Cases <- MCCases
INVARIANTS
  BuiltInPlace
  NothingLost
  NothingInvented
CHECK_DEADLOCK FALSE
