\* A sink that answers Ok(0), against the progress the AsyncWrite loops promise.
CONSTANTS
  ValidSessionIds <- MCValidSessionIds
  Headers <- MCHeaders
  Payloads <- MCPayloads
  Capacities <- MCCapacities
  SinkWritesZero = TRUE

SPECIFICATION Spec

PROPERTY Delivered

\* Once the receiver has its verdict and payload and the stream is finished,
\* both tasks have returned: the system stops.
CHECK_DEADLOCK FALSE
