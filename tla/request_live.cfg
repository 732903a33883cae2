\* Liveness: fewer requests, an output of up to two bytes.
SPECIFICATION FairSpec
CONSTANTS
  Setups <- FewSetups
  MaxOutput = 2
  LineEnds <- Lines
  MaxInt64 = 100
  Envelope = 1
PROPERTIES
  BoundedRequestEnds
  EndOfOutputEndsRequest
  ReapedUnlessCut
CHECK_DEADLOCK FALSE
