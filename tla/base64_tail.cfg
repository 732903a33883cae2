\* Answers in base64.
SPECIFICATION Spec
CONSTANTS
  Setups <- InBase64
  MaxOutput = 4
  LineEnds <- Lines
  MaxInt64 = 100
  Envelope = 1
INVARIANT
  Base64Complete
CHECK_DEADLOCK FALSE
