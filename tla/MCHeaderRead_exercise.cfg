CONSTANTS
  ValidSessionIds <- MCValidSessionIds
  PeerMessages <- MCPeerMessages
  Cancellable = FALSE

SPECIFICATION Spec

INVARIANT ExerciseRejected

\* Both receivers stop once they have a verdict and the stream is delivered.
CHECK_DEADLOCK FALSE
