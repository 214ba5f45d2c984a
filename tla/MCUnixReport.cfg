CONSTANTS
  Names   = {path, abstract}
  Paths   = {path}
  Inodes  = {11, 12, 13}
  Backlog = 2
  RcvBuf  = 2
  SndBuf  = 3
  ShutdownByte <- MCShutdownByte
SPECIFICATION Spec
INVARIANT AccessorsTell
