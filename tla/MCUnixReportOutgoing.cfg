CONSTANTS
  Names   = {path}
  Paths   = {path}
  Inodes  = {11}
  Backlog = 1
  RcvBuf  = 1
  SndBuf  = 2
  ShutdownByte <- MCShutdownByte
SPECIFICATION Spec
INVARIANT OutgoingTold
