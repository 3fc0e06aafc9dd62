SPECIFICATION ReceiverSpec
CONSTANTS
  BufSz = 7
  Sz = 3
  MaxSent = 3
  CutAnywhere = FALSE
  Nul = Nul
  CR = CR
  LF = LF
  a = a
  b = b
  Byte <- MCByte
  Beyond <- NulOrText
  PeerLine <- BothLine
INVARIANT LinesInOrder
PROPERTY EveryLineArrives
CHECK_DEADLOCK FALSE
