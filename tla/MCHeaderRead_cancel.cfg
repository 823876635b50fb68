\* read_async may be dropped mid-header and called again on the same source.
CONSTANTS
  ValidSessionIds <- MCValidSessionIds
  PeerMessages <- MCPeerMessages
  Cancellable = TRUE

SPECIFICATION Spec

PROPERTY ImplementsAsyncHeaderRead
PROPERTY Terminates

\* Both receivers stop once they have a verdict and the stream is delivered.
CHECK_DEADLOCK FALSE
