\* Three threads and three buffers; no symmetry, for the liveness property.
SPECIFICATION FairSpec
CONSTANTS
  Threads = {t1, t2, t3}
  NoThread = NoThread
  MaxSends = 3
INVARIANTS
  TypeOK
  OneSend
  EndsOnce
PROPERTIES
  ImplementsStream
  EventuallySent
