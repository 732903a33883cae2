\* Every kind of request, an output of up to four bytes in two lines.
SPECIFICATION Spec
CONSTANTS
  Setups <- AllSetups
  MaxOutput = 4
  LineEnds <- Lines
  MaxInt64 = 100
  Envelope = 1
INVARIANTS
  TypeOK
  CloseRunsAlone
  NothingLostInTransit
  SuccessIsComplete
  PartIsNoSuccess
  OneRpcAnswer
  StreamOrder
  StreamLines
  StrandedNeedsFailure
  WithinLimit
PROPERTIES
  RpcWireAtClose
  ResponserSettles
  AnswerAsPromised
CHECK_DEADLOCK FALSE
