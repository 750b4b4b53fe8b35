CONSTANTS
  UINT_MAX = 255
  Words = {"a", "b"}
  MaxTokens = 3
  Operands <- MCOperands
  Ranges <- MCRanges
  Windows = {1, 2}
  MaxSteps = 2
SPECIFICATION Spec
INVARIANTS
  FindsOnlyWhatIsThere
  FindsWhatIsThere
CHECK_DEADLOCK FALSE
