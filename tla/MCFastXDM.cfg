CONSTANTS
  ElementNames <- MCElementNames
  AttributeNames <- MCAttributeNames
  Declarations <- MCDeclarations
  Leaves = {"comment"}
  Chunks <- MCChunks
  InitialNodes = 1
  InitialAttributes = 1
  InitialNamespaces = 1
  MaxEvents = 7
SPECIFICATION Spec
INVARIANTS
  LinksMatchTree AxesMatchTree OrderIsStrict
  CopyKept DataModelsAgree NoInheritKept
PROPERTY ImplementsTree
\* A finished document accepts nothing more.
CHECK_DEADLOCK FALSE
