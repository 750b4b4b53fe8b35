CONSTANT Cases <- MCCases
SPECIFICATION Spec
INVARIANTS TypeOK ChildrenAsAsked AttributesAsAsked NamespacesAgree TypesLoosened DocumentsSaved CopiesOnly
\* An application of a list ends.
CHECK_DEADLOCK FALSE
