\* A requester may leave the organization while the run of another waits.

SPECIFICATION FairSpec
CONSTANTS
  d1 = d1
  s1 = s1
  w1 = w1
  NoRun = NoRun
  NoWorker = NoWorker
  Orphan = Orphan
  Runs = {d1, s1}
  DbtRuns = {d1}
  Workers = {w1}
  MaxAttempts = 2
  Backoff = 1
  RoleChanges = {"none"}
  ClockHorizon = 0
  MaxDisruptions = 0
PROPERTIES
  MembersRunsFinish
CHECK_DEADLOCK FALSE
