SPECIFICATION ReceiverSpec
CONSTANTS
  BufSz = 6
  Sz = 3
  MaxSent = 3
  CutAnywhere = TRUE
  Nul = Nul
  CR = CR
  LF = LF
  a = a
  b = b
  Byte <- MCByte
  Beyond <- OnlyNul
  PeerLine <- TextLine

PROPERTY EveryLineArrives
CHECK_DEADLOCK FALSE
