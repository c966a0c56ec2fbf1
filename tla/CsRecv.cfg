SPECIFICATION FairSpec
CONSTANTS
  Capacity = 7
  HeaderSize = 2
  PacketSizes = {4, 5, 7}
  Layouts <- MCLayouts
  HandlersThrow = TRUE
INVARIANTS
  TypeOK
  Aligned
  BufferSound
PROPERTIES
  ImplementsPacketStream
