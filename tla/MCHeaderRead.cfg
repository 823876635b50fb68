CONSTANTS
  ValidSessionIds <- MCValidSessionIds
  PeerMessages <- MCPeerMessages
  Cancellable = FALSE

SPECIFICATION Spec

INVARIANT TypeOK
INVARIANT SyncDecodesPeer
INVARIANT AsyncStopsAtHeader
INVARIANT EntryPointsAgree

PROPERTY Terminates

\* Both receivers stop once they have a verdict and the stream is delivered.
CHECK_DEADLOCK FALSE
