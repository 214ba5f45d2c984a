CONSTANTS
  BufLen   = 4
  DgramMax = 4
  MaxMsgs  = 4
  QueueMax = 2
  Msgs     <- MCMsgs
  DoneMsg  <- MCDoneMsg
  ErrorMsg <- MCErrorMsg
SPECIFICATION FairSpec
INVARIANTS
  NextInLine
  InFlightChained
  DoneMeansAll
  PanicOnlyOnUndecodable
  NeverWaitsInVain
PROPERTIES
  StreamSpec
  Termination
CHECK_DEADLOCK FALSE
