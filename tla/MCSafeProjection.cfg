SPECIFICATION Spec
CONSTANTS
  Wildcard = Wildcard
  None = None
  Cases <- MCCases
INVARIANT SafeProjection
CHECK_DEADLOCK FALSE
