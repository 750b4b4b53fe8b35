SPECIFICATION Spec
CONSTANTS
  Documents <- MCDocuments
  Steps <- MCSteps
  MaxSteps = 3
INVARIANTS
  ClaimsHold
PROPERTIES
  Refines
CHECK_DEADLOCK FALSE
