SPECIFICATION Spec
CONSTANTS
  a = a
  b = b
  End = End
  h1 = h1
  h2 = h2
  r1 = r1
  r2 = r2
  Source <- MCSource
  Handles <- MCHandles
  Readers <- MCReaders
  ReadCounts <- MCReadCounts
  MaxSkip = 2
  MaxPos = 3
  MaxReads = 3
INVARIANTS
  TypeOK
  OneOwner
  BufferIsStretch
  ReadsCovered
PROPERTIES
  Refines
  LazyEvaluation
SYMMETRY Symmetry
CHECK_DEADLOCK FALSE
