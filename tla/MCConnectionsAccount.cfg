\* One connection that changes its account.
SPECIFICATION Spec
CONSTANTS
  c1 = c1
  c2 = c2
  r1 = r1
  r2 = r2
  s1 = s1
  s2 = s2
  k1 = k1
  k2 = k2
  a1 = a1
  a2 = a2
  h1 = h1
  h2 = h2
  l1 = l1
  l2 = l2
  NoConnection = NoConnection
  NoSession = NoSession
  NoRun = NoRun
  NoScope = NoScope
  NoKey = NoKey
  Connections = {c1}
  Runs = {r1, r2}
  Keys = {k1, k2}
  Sessions = {s1, s2}
  Accounts = {a1, a2}
  Warehouses = {h1}
  Logins = {l1}
SYMMETRY ConnectionSymmetry
INVARIANTS
  WatermarkOfItsSource
\* Every connection exists in the end and every run is used up.
CHECK_DEADLOCK FALSE
