\* Progress with a sink that keeps the AsyncWrite contract (never Ok(0)).
CONSTANTS
  ValidSessionIds <- MCValidSessionIds
  Headers <- MCHeaders
  Payloads <- MCPayloads
  Capacities <- MCCapacities
  SinkWritesZero = FALSE

SPECIFICATION Spec

PROPERTY Delivered

\* Once the receiver has its verdict and payload and the stream is finished,
\* both tasks have returned: the system stops.
CHECK_DEADLOCK FALSE
