\* Both BytesWriter and both BytesReader implementations, driven by the
\* same calls. The system never stops: reads can always be issued.
CONSTANTS
  ValidSessionIds <- MCValidSessionIds
  Values <- MCValues
  Blobs <- MCBlobs
  ReadLens <- MCReadLens
  Capacity = 3
  MaxCalls = 4

SPECIFICATION Spec

INVARIANT TypeOK
INVARIANT WritersAgree
INVARIANT ReadersAgree
