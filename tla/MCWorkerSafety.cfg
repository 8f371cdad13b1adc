\* One dbt and one Snowflake run, two worker processes, every role change.
SPECIFICATION Spec
CONSTANTS
  d1 = d1
  s1 = s1
  w1 = w1
  w2 = w2
  NoRun = NoRun
  NoWorker = NoWorker
  Orphan = Orphan
  Runs = {d1, s1}
  DbtRuns = {d1}
  Workers = {w1, w2}
  MaxAttempts = 3
  Backoff = 1
  RoleChanges = {"writer", "viewer", "none", "deleted"}
  ClockHorizon = 0
  MaxDisruptions = 2
SYMMETRY WorkerSymmetry
INVARIANTS
  TypeOK
  AtMostOneRunning
  HolderOwnsItsAttempt
  ArtifactAgrees
  PayloadKeptForRetry
PROPERTIES
  OnlyTheHolderSettles
  FinishedIsFinal
  ImplementsQueue
\* A worker with an empty queue waits: with every account deleted nothing moves.
CHECK_DEADLOCK FALSE
