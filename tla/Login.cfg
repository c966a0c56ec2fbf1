\* Three sessions, four ids and five logins: the counter wraps around.
SPECIFICATION Spec
CONSTANTS
  Sessions = {s1, s2, s3}
  NullBuffer = NullBuffer
  IdCount = 4
  MaxLogins = 5
SYMMETRY Symmetry
INVARIANTS
  TypeOK
  OnePlayerPerLogin
  RepliesMatchPlayers
