SPECIFICATION Spec
CONSTANTS
  w1 = w1
  w2 = w2
  s1 = s1
  s2 = s2
  s3 = s3
  a1 = a1
  Workers = {w1, w2}
  Sessions = {s1, s2, s3}
  AcceptEvents = {a1}
  NoSession = NoSession
  NoAccept = NoAccept
SYMMETRY LifeSymmetry
INVARIANTS
  TypeOK
  CompletionsFindSession
  OneReceive
  CountMatches
  ListedWhileConnected
  ConnectedIsServed
PROPERTIES
  ImplementsLifeCycle
