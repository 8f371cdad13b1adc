\* Requesters may be demoted and reinstated but never leave; no symmetry,
\* because liveness is checked.
SPECIFICATION FairSpec
CONSTANTS
  d1 = d1
  s1 = s1
  w1 = w1
  w2 = w2
  NoRun = NoRun
  NoWorker = NoWorker
  Orphan = Orphan
  Runs = {d1, s1}
  DbtRuns = {d1}
  Workers = {w1, w2}
  MaxAttempts = 3
  Backoff = 1
  RoleChanges = {"writer", "viewer"}
  ClockHorizon = 0
  MaxDisruptions = 1
PROPERTIES
  MembersRunsFinish
