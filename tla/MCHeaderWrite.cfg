\* Safety of the write and read paths, with a sink that may also answer
\* Ok(0): the task may then panic (debug build) or spin (release build).
CONSTANTS
  ValidSessionIds <- MCValidSessionIds
  Headers <- MCHeaders
  Payloads <- MCPayloads
  Capacities <- MCCapacities
  SinkWritesZero = TRUE

SPECIFICATION Spec

INVARIANT TypeOK
INVARIANT WriteToBufferAtomic
INVARIANT RoundTrip

\* Once the receiver has its verdict and payload and the stream is finished,
\* both tasks have returned: the system stops.  A spinning task also stops
\* every other step of the sender.
CHECK_DEADLOCK FALSE
