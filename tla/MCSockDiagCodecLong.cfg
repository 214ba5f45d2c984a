CONSTANTS
  RichNlas = TRUE
  Payloads <- MCLongPayloads
  Messages <- NoMessages
  Slacks   <- MCSlacks
  Fills    <- MCFills
SPECIFICATION Spec
INVARIANTS
  DecodedSurvives
CHECK_DEADLOCK FALSE
