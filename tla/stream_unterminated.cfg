\* Streams with and without a limit.
SPECIFICATION Spec
CONSTANTS
  Setups <- Streams
  MaxOutput = 4
  LineEnds <- Lines
  MaxInt64 = 100
  Envelope = 1
INVARIANT
  StreamTerminated
CHECK_DEADLOCK FALSE
