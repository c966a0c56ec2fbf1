SPECIFICATION FairSpec
CONSTANTS
  HeaderSize = 4
  BufferSize = 6
  BufferCount = 2
  PacketSizes = {4, 5, 6}
  Layouts <- MCLayouts
INVARIANTS
  TypeOK
  Aligned
  BufferSound
PROPERTIES
  ImplementsPacketStream
