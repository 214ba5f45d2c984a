CONSTANTS
  RichNlas = TRUE
  Payloads <- MCPayloads
  Messages <- MCMessages
  Slacks   <- MCSlacks
  Fills    <- MCFills
SPECIFICATION Spec
INVARIANTS
  TypeOK
  Budget
  WholeAttributes
  RefusedForCause
  PanicExactly
  FullyWritten
  RoundTrip
  DecodedSurvives
  SentComesFirst
PROPERTIES
  Termination
  GetsOn
CHECK_DEADLOCK FALSE
