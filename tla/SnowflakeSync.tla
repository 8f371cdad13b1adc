--------------------------- MODULE SnowflakeSync ---------------------------
(***************************************************************************)
(* How the worker imports a connection's query usage from Snowflake        *)
(* (process_snowflake_sync, iter_usage_pages), what reports it publishes   *)
(* (build_credit_summary) and what a reader is shown of them               *)
(* (latest_snowflake_summaries).                                           *)
(*                                                                         *)
(* A run has a window, fixed when it is asked for.  The window is imported *)
(* day by day, each day page by page, each page in one transaction; a      *)
(* finished day is a checkpoint that moves the connection's watermark.  An *)
(* attempt may end anywhere, and the next one resumes at the checkpoint.   *)
(* Meanwhile Snowflake reports a query late, and corrects what it has      *)
(* reported: windows overlap for that reason.                              *)
(*                                                                         *)
(* One connection and one active run of it (OneActiveSync and              *)
(* ScopeFixedWhileActive of SnowflakeConnections), one attempt at a time   *)
(* (IngestionWorker).                                                      *)
(***************************************************************************)
EXTENDS Integers, FiniteSets

CONSTANTS
  Queries,     \* ids of Snowflake queries, ordered
  Runs,        \* ids of sync_runs
  Old,         \* a run of a version that published no report
  Readers,     \* requests for the latest summaries
  Granted,     \* may the role read ACCESS_HISTORY: what may become of it
  NoRun, NoQuery,
  Day,         \* how much of a window is one checkpoint
  Latency,     \* source_latency_hours
  Lookback,    \* the seven days of a report, and of a first window
  PageSize,    \* USAGE_PAGE_SIZE
  MaxAttempts,
  Revisions,   \* bound: how often Snowflake states a query's credits
  Horizon      \* bound: the last moment of the clock

ASSUME QueriesAssumption ==
  Queries \subseteq Nat /\ IsFiniteSet(Queries) /\ NoQuery \notin Queries
ASSUME RunsAssumption == NoRun \notin Runs /\ Old \in Runs
ASSUME GrantedAssumption == FALSE \in Granted /\ Granted \subseteq BOOLEAN
ASSUME TimesAssumption ==
  /\ Day \in Nat \ {0} /\ Latency \in Nat \ {0} /\ Lookback \in Nat \ {0}
  /\ Latency < Lookback
ASSUME BoundsAssumption ==
  /\ PageSize \in Nat \ {0} /\ MaxAttempts \in Nat \ {0}
  /\ Revisions \in Nat \ {0} /\ Horizon \in Nat

VARIABLES
  now,
  ran, started, \* the queries that ran on the warehouse, and when
  credits,      \* what QUERY_ATTRIBUTION_HISTORY says of them; 0: nothing yet
  usage,        \* rows of query_usage
  watermark,    \* query_attribution_history of the connection's watermarks
  known,        \* is there one
  capable,      \* access_history of the connection's capabilities
  run,          \* rows of sync_runs
  report,       \* their published_summary
  latest,       \* the run that finished last
  worker,       \* the attempt under way
  reader        \* how far each reader is

source == <<now, ran, started, credits>>
conn   == <<watermark, known, capable>>
vars   == <<source, usage, conn, run, report, latest, worker, reader>>

Credits  == 0 .. Revisions
Active   == {"queued", "running"}
Finished == {"success", "partial"}
Reports  == [kind : {"none", "legacy", "frozen"}, credits : [Queries -> Credits],
             attributed : SUBSET Queries, available : BOOLEAN]
NoReport == [kind |-> "none", credits |-> [q \in Queries |-> 0],
             attributed |-> {}, available |-> FALSE]

(* looked: the access history answered when the row was last written.      *)
TypeOK ==
  /\ now \in Nat
  /\ ran \subseteq Queries
  /\ started \in [Queries -> Int]
  /\ credits \in [Queries -> Credits]
  /\ usage \in [Queries -> [run : Runs \cup {NoRun}, credits : Credits,
                            allocated : BOOLEAN, looked : BOOLEAN]]
  /\ watermark \in Int /\ known \in BOOLEAN /\ capable \in BOOLEAN
  /\ run \in [Runs ->
       [status : {"absent", "failed"} \cup Active \cup Finished, attempts : 0 .. MaxAttempts,
        windowed : BOOLEAN, from : Int, to : Int, completed : Int, processed : Nat]]
  /\ report \in [Runs -> Reports]
  /\ latest \in Runs \cup {NoRun}
  /\ worker \in
       [run : Runs \cup {NoRun},
        step : {"idle", "begin", "fetch", "store", "checkpoint", "publish"},
        after : Queries \cup {NoQuery}, page : SUBSET Queries, last : Queries \cup {NoQuery},
        got : [Queries -> Credits], access : BOOLEAN, trying : BOOLEAN,
        available : BOOLEAN, processed : Nat]
  /\ reader \in [Readers -> [step : {"idle", "looked", "aggregated", "answered"},
                             run : Runs \cup {NoRun}, report : Reports]]

NoRow   == [run |-> NoRun, credits |-> 0, allocated |-> FALSE, looked |-> FALSE]
Unasked == [status |-> "absent", attempts |-> 0, windowed |-> FALSE,
            from |-> 0, to |-> 0, completed |-> 0, processed |-> 0]
AtRest  == [run |-> NoRun, step |-> "idle", after |-> NoQuery, page |-> {},
            last |-> NoQuery, got |-> [q \in Queries |-> 0], access |-> FALSE, trying |-> FALSE,
            available |-> FALSE, processed |-> 0]
Unread  == [step |-> "idle", run |-> NoRun, report |-> NoReport]

FirstStatus(r, past, waiting) ==
  CASE r = Old /\ past -> IF capable THEN "success" ELSE "partial"
    [] r \in waiting   -> "queued"
    [] OTHER           -> "absent"

(* Queries ran before.  Nobody has imported them; or a run of the old      *)
(* version has, whose watermark may be missing or unreadable.  Perhaps     *)
(* that version has queued a run, without a window.                        *)
Init ==
  \E past \in BOOLEAN, waiting \in {{}} \cup {{r} : r \in Runs \ {Old}} :
    /\ now = 0
    /\ ran \in SUBSET Queries
    /\ started \in [Queries -> -Lookback .. 0]
    /\ \A q \in Queries : started[q] < 0 <=> q \in ran
    /\ credits = [q \in Queries |-> IF q \in ran THEN 1 ELSE 0]
    /\ watermark = 0 /\ known \in BOOLEAN /\ (known => past) /\ capable \in Granted
    /\ \E found \in SUBSET IF TRUE \in Granted THEN ran ELSE {} :
         usage = [q \in Queries |-> IF past /\ q \in ran
                    THEN [run |-> Old, credits |-> 1, allocated |-> q \in found, looked |-> capable]
                    ELSE NoRow]
    /\ run = [r \in Runs |-> [Unasked EXCEPT !.status = FirstStatus(r, past, waiting)]]
    /\ report = [r \in Runs |-> NoReport]
    /\ latest = IF past THEN Old ELSE NoRun
    /\ worker = AtRest
    /\ reader = [u \in Readers |-> Unread]

-----------------------------------------------------------------------------
(* Snowflake *)

(* A query runs; the history shows it, and has its last word about it,     *)
(* within the latency after its start.                                     *)
Settled(q) == started[q] + Latency < now

RunQuery(q) ==
  /\ q \notin ran
  /\ ran' = ran \cup {q}
  /\ started' = [started EXCEPT ![q] = now]
  /\ UNCHANGED <<now, credits, usage, conn, run, report, latest, worker, reader>>

Attribute(q) ==
  /\ q \in ran /\ ~Settled(q)
  /\ credits[q] < Revisions
  /\ credits' = [credits EXCEPT ![q] = @ + 1]
  /\ UNCHANGED <<now, ran, started, usage, conn, run, report, latest, worker, reader>>

Tick ==
  /\ now < Horizon
  /\ \A q \in ran : credits[q] = 0 => now < started[q] + Latency
  /\ now' = now + 1
  /\ UNCHANGED <<ran, started, credits, usage, conn, run, report, latest, worker, reader>>

-----------------------------------------------------------------------------
(* Requests *)

(* usage_window: from the watermark back over the source's latency.        *)
WindowStart(to) == IF known /\ watermark <= to THEN watermark - Latency ELSE to - Lookback

Idle == \A r \in Runs : run[r].status \notin Active

(* enqueue_snowflake_sync                                                  *)
Enqueue(r) ==
  /\ run[r].status = "absent" /\ Idle
  /\ run' = [run EXCEPT ![r] =
       [status |-> "queued", attempts |-> 0, windowed |-> TRUE, from |-> WindowStart(now),
        to |-> now, completed |-> WindowStart(now), processed |-> 0]]
  /\ UNCHANGED <<source, usage, conn, report, latest, worker, reader>>

(* validate_snowflake_connection learns anew whether the role may read the *)
(* access history.                                                         *)
Validate ==
  /\ Idle
  /\ capable' \in Granted
  /\ UNCHANGED <<source, usage, watermark, known, run, report, latest, worker, reader>>

-----------------------------------------------------------------------------
(* The worker *)

(* claim_sync_run                                                          *)
Claim(r) ==
  /\ worker = AtRest
  /\ run[r].status = "queued"
  /\ run' = [run EXCEPT ![r].status = "running", ![r].attempts = @ + 1]
  /\ worker' = [AtRest EXCEPT !.run = r, !.step = "begin"]
  /\ UNCHANGED <<source, usage, conn, report, latest, reader>>

(* The run gets its window if it has none, once for all attempts; the      *)
(* attempt resumes at the checkpoint.                                      *)
Windowed(row) ==
  IF row.windowed THEN row
  ELSE [row EXCEPT !.windowed = TRUE, !.from = WindowStart(now), !.to = now,
                   !.completed = WindowStart(now)]

Begin ==
  /\ worker.step = "begin"
  /\ LET row == Windowed(run[worker.run])
     IN /\ run' = [run EXCEPT ![worker.run] = row]
        /\ worker' = [worker EXCEPT
             !.step = IF row.completed < row.to THEN "fetch" ELSE "publish",
             !.access = capable, !.trying = capable, !.available = capable,
             !.processed = row.processed]
  /\ UNCHANGED <<source, usage, conn, report, latest, reader>>

Working  == run[worker.run]
SmallerOf(a, b) == IF a <= b THEN a ELSE b
ChunkEnd == SmallerOf(Working.completed + Day, Working.to)

(* order by start_time, query_id                                           *)
Before(p, q) == started[p] < started[q] \/ (started[p] = started[q] /\ p < q)

(* The rows of the chunk beyond the cursor.                                *)
RowsByTime ==
  {q \in ran : /\ credits[q] > 0
               /\ Working.completed <= started[q] /\ started[q] < ChunkEnd
               /\ worker.after # NoQuery => started[worker.after] < started[q]}

Rows ==
  {q \in ran : /\ credits[q] > 0
               /\ Working.completed <= started[q] /\ started[q] < ChunkEnd
               /\ worker.after # NoQuery => Before(worker.after, q)}

(* limit: the first of them up to last, all if they are few.               *)
IsPage(page, last, rows) ==
  /\ page \subseteq rows
  /\ Cardinality(page) <= PageSize
  /\ page # rows => Cardinality(page) = PageSize
  /\ last = NoQuery <=> page = {}
  /\ \A q \in rows \ {last} :
       IF q \in page THEN Before(q, last) ELSE page # {} => Before(last, q)

(* One page and what the access history says of it; once that was refused, *)
(* it is not asked again in this chunk.                                    *)
FetchPage ==
  /\ worker.step = "fetch"
  /\ \E page \in SUBSET Rows, trying \in {worker.trying, FALSE} :
     \E last \in page \cup {NoQuery} :
       /\ IsPage(page, last, Rows)
       /\ page = {} => trying = worker.trying
       /\ worker' = [worker EXCEPT
            !.step = IF page = {} THEN "checkpoint" ELSE "store",
            !.page = page, !.last = last, !.trying = trying,
            !.got = [q \in Queries |-> IF q \in page THEN credits[q] ELSE 0]]
  /\ UNCHANGED <<source, usage, conn, run, report, latest, reader>>

(* build_legacy_credit_summary: the rows that are the run's, by dataset.   *)
LegacySummary(r) ==
  LET rows == {q \in Queries : usage[q].run = r /\ usage[q].allocated}
  IN [kind |-> "legacy", attributed |-> rows, available |-> FALSE,
      credits |-> [q \in Queries |-> IF q \in rows THEN usage[q].credits ELSE 0]]

(* _preserve_legacy_report: a finished run that has no report yet gets the *)
(* one its rows tell, before the first of them is another run's.           *)
PreservedSuccesses(page) ==
  [r \in Runs |->
     IF /\ \E q \in page : usage[q].run = r
        /\ r # worker.run /\ run[r].status = "success" /\ report[r].kind = "none"
     THEN LegacySummary(r) ELSE report[r]]

Preserved(page) ==
  [r \in Runs |->
     IF /\ \E q \in page : usage[q].run = r
        /\ r # worker.run /\ run[r].status \in Finished /\ report[r].kind = "none"
     THEN LegacySummary(r) ELSE report[r]]

(* Upsert the page's rows.  Where the access history answered, found are   *)
(* those whose objects are datasets of the organization; the rest lose     *)
(* their allocations.  Where it did not, allocations stay.                 *)
Upserted(q, found) ==
  [run |-> worker.run, credits |-> worker.got[q], looked |-> worker.trying,
   allocated |-> IF worker.trying THEN q \in found ELSE usage[q].allocated]

Stored ==
  [worker EXCEPT
    !.step = IF Cardinality(worker.page) < PageSize THEN "checkpoint" ELSE "fetch",
    !.after = worker.last, !.last = NoQuery, !.page = {}, !.got = AtRest.got,
    !.available = @ /\ worker.trying, !.processed = @ + Cardinality(worker.page)]

StorePageCounting ==
  /\ worker.step = "store"
  /\ \E found \in SUBSET IF worker.trying THEN worker.page ELSE {} :
       usage' = [q \in Queries |-> IF q \in worker.page THEN Upserted(q, found) ELSE usage[q]]
  /\ report' = Preserved(worker.page)
  /\ worker' = Stored
  /\ run' = [run EXCEPT ![worker.run].processed = Stored.processed]
  /\ UNCHANGED <<source, conn, latest, reader>>

StorePage ==
  /\ worker.step = "store"
  /\ \E found \in SUBSET IF worker.trying THEN worker.page ELSE {} :
       usage' = [q \in Queries |-> IF q \in worker.page THEN Upserted(q, found) ELSE usage[q]]
  /\ report' = Preserved(worker.page)
  /\ worker' = Stored
  /\ UNCHANGED <<source, conn, run, latest, reader>>

(* A finished day.  What was lost of the access history is kept with the   *)
(* connection, so that a later attempt does not forget it.                 *)
CheckpointForgetting ==
  /\ worker.step = "checkpoint"
  /\ watermark' = IF known /\ watermark > ChunkEnd THEN watermark ELSE ChunkEnd
  /\ known' = TRUE
  /\ run' = [run EXCEPT ![worker.run].completed = ChunkEnd,
                        ![worker.run].processed = worker.processed]
  /\ worker' = [worker EXCEPT
       !.step = IF ChunkEnd < Working.to THEN "fetch" ELSE "publish",
       !.after = NoQuery, !.trying = worker.access]
  /\ UNCHANGED <<source, usage, capable, report, latest, reader>>

Checkpoint ==
  /\ worker.step = "checkpoint"
  /\ watermark' = IF known /\ watermark > ChunkEnd THEN watermark ELSE ChunkEnd
  /\ known' = TRUE
  /\ capable' = worker.available
  /\ run' = [run EXCEPT ![worker.run].completed = ChunkEnd,
                        ![worker.run].processed = worker.processed]
  /\ worker' = [worker EXCEPT
       !.step = IF ChunkEnd < Working.to THEN "fetch" ELSE "publish",
       !.after = NoQuery, !.trying = worker.access]
  /\ UNCHANGED <<source, usage, report, latest, reader>>

(* build_credit_summary: the last seven days of the connection's rows, of  *)
(* whatever run.                                                           *)
Frozen(to, available) ==
  LET rows == {q \in Queries : /\ usage[q].run # NoRun
                               /\ to - Lookback <= started[q] /\ started[q] < to}
  IN [kind |-> "frozen", available |-> available,
      credits |-> [q \in Queries |-> IF q \in rows THEN usage[q].credits ELSE 0],
      attributed |-> {q \in rows : available /\ usage[q].allocated}]

(* The result, the report and the run's end are one transaction.           *)
Publish ==
  /\ worker.step = "publish"
  /\ run' = [run EXCEPT ![worker.run].processed = worker.processed,
       ![worker.run].status = IF worker.available THEN "success" ELSE "partial"]
  /\ report' = [report EXCEPT ![worker.run] = Frozen(Working.to, worker.available)]
  /\ latest' = worker.run
  /\ worker' = AtRest
  /\ UNCHANGED <<source, usage, conn, reader>>

(* An error, a crash or a lost session, after which the run is retried or  *)
(* has failed; what was committed stays.                                   *)
FailLate ==
  /\ worker.run # NoRun
  /\ run' = [run EXCEPT ![worker.run].status =
       IF Working.attempts <= MaxAttempts THEN "queued" ELSE "failed"]
  /\ worker' = AtRest
  /\ UNCHANGED <<source, usage, conn, report, latest, reader>>

Fail ==
  /\ worker.run # NoRun
  /\ run' = [run EXCEPT ![worker.run].status =
       IF Working.attempts < MaxAttempts THEN "queued" ELSE "failed"]
  /\ worker' = AtRest
  /\ UNCHANGED <<source, usage, conn, report, latest, reader>>

-----------------------------------------------------------------------------
(* A reader: latest_snowflake_summaries.  Each statement sees what is      *)
(* committed when it starts.  A report that is there is answered at once,  *)
(* which is no step here.                                                  *)
Look(u) ==
  /\ reader[u] = Unread
  /\ latest # NoRun /\ report[latest].kind = "none"
  /\ reader' = [reader EXCEPT ![u] =
       [step |-> "looked", run |-> latest, report |-> NoReport]]
  /\ UNCHANGED <<source, usage, conn, run, report, latest, worker>>

Aggregate(u) ==
  /\ reader[u].step = "looked"
  /\ reader' = [reader EXCEPT ![u].step = "aggregated",
                              ![u].report = LegacySummary(reader[u].run)]
  /\ UNCHANGED <<source, usage, conn, run, report, latest, worker>>

AnswerAggregated(u) ==
  /\ reader[u].step = "aggregated"
  /\ reader' = [reader EXCEPT ![u].step = "answered"]
  /\ UNCHANGED <<source, usage, conn, run, report, latest, worker>>

(* The run's details once more: its report may have been captured, and its *)
(* rows moved, since.                                                      *)
Answer(u) ==
  /\ reader[u].step = "aggregated"
  /\ LET again == report[reader[u].run]
     IN reader' = [reader EXCEPT ![u].step = "answered",
          ![u].report = IF again.kind = "none" THEN @ ELSE again]
  /\ UNCHANGED <<source, usage, conn, run, report, latest, worker>>

Leave(u) ==
  /\ reader[u].step = "answered"
  /\ reader' = [reader EXCEPT ![u] = Unread]
  /\ UNCHANGED <<source, usage, conn, run, report, latest, worker>>

-----------------------------------------------------------------------------
Import ==
  \/ \E r \in Runs : Claim(r)
  \/ Begin
  \/ FetchPage
  \/ StorePage
  \/ Checkpoint
  \/ Publish
  \/ Fail

Read == \E u \in Readers : Look(u) \/ Aggregate(u) \/ Answer(u) \/ Leave(u)

Next ==
  \/ \E q \in Queries : RunQuery(q) \/ Attribute(q)
  \/ Tick
  \/ \E r \in Runs : Enqueue(r)
  \/ Validate
  \/ Import
  \/ Read

Spec == Init /\ [][Next]_vars

-----------------------------------------------------------------------------
(* Properties *)

(* A published report has every query of its seven days, up to the latency *)
(* before its end, with Snowflake's last word about its credits: overlap,  *)
(* retries and checkpoints leave no gap ("Revisit the source latency       *)
(* window", usage_window).                                                 *)
ReportComplete ==
  \A r \in Runs, q \in ran :
    /\ report[r].kind = "frozen"
    /\ run[r].to - Lookback <= started[q] /\ started[q] < run[r].to - Latency
    => report[r].credits[q] = credits[q]

(* What a finished run reports never changes, also when it is of the old   *)
(* version and a later run takes its rows over (_preserve_legacy_report).  *)
Shown(r) == IF report[r].kind = "none" THEN LegacySummary(r) ELSE report[r]

ReportsKept ==
  [][\A r \in Runs : run[r].status \in Finished => Shown(r)' = Shown(r)]_vars

(* A reader who looks at a report while a page captures it and moves its   *)
(* rows is shown that report all the same (latest_snowflake_summaries).    *)
ReaderSeesReport ==
  \A u \in Readers : reader[u].step = "answered" => reader[u].report = Shown(reader[u].run)

(* A run that says attribution is available has asked the access history   *)
(* about each of its queries, whatever attempt imported it.                *)
AttributionEarned ==
  [][\A r \in Runs : run[r].status = "running" /\ run'[r].status = "success"
       => \A q \in Queries : usage[q].run = r => usage[q].looked]_vars

(* The queries a run says it has processed are its rows: a day imported    *)
(* again by a retry counts once.                                           *)
ProcessedOnce ==
  [][\A r \in Runs : run[r].status = "running" /\ run'[r].status \in Finished
       => run'[r].processed = Cardinality({q \in Queries : usage[q].run = r})]_vars

(* From whatever an earlier version has left, the runs of a connection are *)
(* served as the queue promises (enqueue_snowflake_sync, claim_sync_run).  *)
Queue == INSTANCE SyncRunQueue WITH
  waiting <- {r \in Runs : run[r].status = "queued"},
  active  <- {r \in Runs : run[r].status = "running"},
  outcome <- [r \in Runs |->
                IF run[r].status \in Finished \cup {"failed"} THEN run[r].status ELSE "pending"],
  tries   <- [r \in Runs |-> run[r].attempts]

QueueSteps == [][Queue!Next]_(Queue!vars)
=============================================================================
