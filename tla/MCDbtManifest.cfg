\* Two manifests, one of them under a key too; two runs, two uploads at a time.
SPECIFICATION Spec
CONSTANTS
  a = a
  b = b
  k = k
  dependsOn = dependsOn
  other = other
  s1 = s1
  s2 = s2
  Resources = {a, b}
  Manifests <- TwoManifests
  Keys = {k}
  Kinds = {dependsOn, other}
  DependsOn = dependsOn
  Runs = {1, 2}
  Sessions = {s1, s2}
  MaxAttempts = 2
  Backoff = 1
  Horizon = 1
  Additions = 2
  NoManifest = NoManifest
  NoRun = NoRun
SYMMETRY SessionSymmetry
INVARIANTS
  TypeOK
  GraphIsOfManifest
  LatestIsApplied
PROPERTIES
  SummaryCountsChanges
  ImplementsQueue
\* The clock has an end, after which nobody need do anything.
CHECK_DEADLOCK FALSE
