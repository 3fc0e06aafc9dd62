SPECIFICATION Spec
CONSTANTS
  BufSz = 4
  Nul = Nul
  a = a
  b = b
  Byte <- MCByte
  Chunk <- MCChunk
INVARIANTS TypeOK CursorsAgree
PROPERTY ImplementsTape
