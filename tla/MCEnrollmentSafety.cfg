\* Two invitations, a join request and two concurrent sessions.
SPECIFICATION Spec
CONSTANTS
  u1 = u1
  u2 = u2
  u3 = u3
  i1 = i1
  i2 = i2
  j1 = j1
  s1 = s1
  s2 = s2
  NoRow = NoRow
  Users = {u1, u2, u3}
  Founder = u1
  DomainUsers = {u2, u3}
  Invitations = {i1, i2}
  JoinRequests = {j1}
  Sessions = {s1, s2}
SYMMETRY EnrollmentSymmetry
INVARIANTS
  TypeOK
PROPERTIES
  JoinedOnInvitationOrApproval
  ResolvedOnce
  JoinsAtOnce
\* The ids are used up in the end, and the last owner cannot go.
CHECK_DEADLOCK FALSE
