CONSTANTS
  RichNlas = FALSE
  Payloads <- MCPayloads
  Messages <- MCMessages
  Slacks   <- MCSlacks
  Fills    <- MCFills
SPECIFICATION Spec
INVARIANTS
  RoundTrip
CHECK_DEADLOCK FALSE
