SPECIFICATION Spec
CONSTANTS
  t1 = t1
  c1 = c1
  b1 = b1
  Threads = {t1}
  Chunks = {c1}
  Buffers = {b1}
  NoChunk = NoChunk
  NoBuffer = NoBuffer
  ChunkSize = 4
  HeaderSize = 2
  MessageSizes = {3}
SYMMETRY PoolSymmetry
INVARIANTS
  WritesFit
