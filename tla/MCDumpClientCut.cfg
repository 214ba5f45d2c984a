CONSTANTS
  BufLen   = 4
  DgramMax = 6
  MaxMsgs  = 4
  QueueMax = 2
  Msgs     <- MCMsgs
  DoneMsg  <- MCDoneMsg
  ErrorMsg <- MCErrorMsg
SPECIFICATION Spec
INVARIANTS
  TypeOK
  NothingStale
  InOrder
PROPERTIES
  Headway
CHECK_DEADLOCK FALSE
