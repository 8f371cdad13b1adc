\* An invitation revoked while it is being accepted.
SPECIFICATION Spec
CONSTANTS
  u1 = u1
  u2 = u2
  u3 = u3
  i1 = i1
  i2 = i2
  j1 = j1
  s1 = s1
  s2 = s2
  NoRow = NoRow
  Users = {u1, u2, u3}
  Founder = u1
  DomainUsers = {u2, u3}
  Invitations = {i1}
  JoinRequests = {j1}
  Sessions = {s1, s2}
PROPERTIES
  RevokedNeverAccepted
CHECK_DEADLOCK FALSE
