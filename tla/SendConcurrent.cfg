SPECIFICATION FairSpec
CONSTANTS
  t1 = t1
  t2 = t2
  t3 = t3
  Threads = {t1, t2, t3}
  NoThread = NoThread
  MaxSends = 3
INVARIANTS
  TypeOK
  OneSender
  BatchRetained
  NoStrandedBuffer
  ExactStream
  SerialSendsAreSafe
PROPERTIES
  ImplementsStream
  EventuallySent
  TokenReturns
  CallsReturn
