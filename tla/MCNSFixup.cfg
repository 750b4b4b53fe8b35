CONSTANT Trees <- MCTrees
SPECIFICATION Spec
INVARIANTS NamesResolve DeclarationsKept
\* The events of a tree end.
CHECK_DEADLOCK FALSE
