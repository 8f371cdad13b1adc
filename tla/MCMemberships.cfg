\* Two requests at a time of three people, every operation and role; no symmetry,
\* because liveness is checked.
SPECIFICATION FairSpec
CONSTANTS
  u1 = u1
  u2 = u2
  u3 = u3
  q1 = q1
  q2 = q2
  NoRequest = NoRequest
  Users = {u1, u2, u3}
  Requests = {q1, q2}
  Founder = u1
  AssignableRoles = {"admin", "operator", "viewer"}
INVARIANTS
  TypeOK
  OwnerRemains
PROPERTIES
  AuthorizedAtCommit
  ChangesActAtOnce
  RequestsAnswered
