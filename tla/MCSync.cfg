\* A run of the old version, a new one that takes over its rows, a reader; two
\* queries on pages of one, in windows of two days; credits are corrected.
SPECIFICATION Spec
CONSTANTS
  Queries = {1, 2}
  Runs = {old, r1}
  Old = old
  Readers = {u}
  Granted = {TRUE, FALSE}
  NoRun = NoRun
  NoQuery = NoQuery
  Day = 1
  Latency = 1
  Lookback = 2
  PageSize = 1
  MaxAttempts = 2
  Revisions = 2
  Horizon = 2
INVARIANTS TypeOK ReportComplete ReaderSeesReport
PROPERTIES ProcessedOnce ReportsKept AttributionEarned
\* The clock has an end, after which nobody need ask for anything.
CHECK_DEADLOCK FALSE
