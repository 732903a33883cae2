\* An unlimited or limited answer without a deadline.
SPECIFICATION FairSpec
CONSTANTS
  Setups <- Limited
  MaxOutput = 4
  LineEnds <- Lines
  MaxInt64 = 100
  Envelope = 1
PROPERTY
  EveryChildReaped
CHECK_DEADLOCK FALSE
