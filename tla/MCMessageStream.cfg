SPECIFICATION Spec
CONSTANTS
  BufSz = 5
  MaxLine = 4
  Nul = Nul
  CR = CR
  LF = LF
  a = a
  b = b
  Byte <- MCByte
  Chunk <- TameChunk
INVARIANTS CountMatches LineReady
PROPERTIES RefusalReported ImplementsLines
