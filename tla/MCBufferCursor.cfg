CONSTANTS
  ValidSessionIds <- MCValidSessionIds
  Buffers <- MCBuffers
  MaxLen = 2
  MaxDepth = 3

SPECIFICATION Spec

INVARIANT TypeOK
INVARIANT CommitNeverPanics

PROPERTY ImplementsAtomicReader
