SPECIFICATION FairSpec
CONSTANTS
  w1 = w1
  w2 = w2
  s1 = s1
  s2 = s2
  a1 = a1
  Workers = {w1, w2}
  Sessions = {s1, s2}
  AcceptEvents = {a1}
  NoSession = NoSession
  NoAccept = NoAccept
PROPERTIES
  Unlisted
  Rearmed
