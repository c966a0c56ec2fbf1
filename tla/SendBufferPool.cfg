SPECIFICATION Spec
CONSTANTS
  t1 = t1
  t2 = t2
  c1 = c1
  c2 = c2
  c3 = c3
  c4 = c4
  b1 = b1
  b2 = b2
  b3 = b3
  Threads = {t1, t2}
  Chunks = {c1, c2, c3, c4}
  Buffers = {b1, b2, b3}
  NoChunk = NoChunk
  NoBuffer = NoBuffer
  ChunkSize = 4
  HeaderSize = 1
  MessageSizes = {1, 6}
SYMMETRY PoolSymmetry
INVARIANTS
  TypeOK
  ChunkInOnePlace
  NoChunkLost
  BytesKept
  NeverNull
