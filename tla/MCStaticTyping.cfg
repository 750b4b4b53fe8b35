CONSTANTS
  UNLIMITED = 3
  Items <- MCItems
  Declared <- MCDeclared
  MaxHeld = 1
  MaxItems = 2
SPECIFICATION Spec
INVARIANTS Sound StaticMatchRight
CHECK_DEADLOCK FALSE
