------------------------ MODULE SnowflakeSyncProofs ------------------------
(***************************************************************************)
(* Proofs about SnowflakeSync, for any set of queries, runs and readers,   *)
(* any page size, latency and number of attempts.  The argument: a query   *)
(* that a window has to report for good is settled when the window is      *)
(* fixed, so its row, once it agrees with Snowflake, agrees for ever       *)
(* (Final).  Then it is enough to follow three cursors: the watermark (all *)
(* before it, up to the latency, is final), the checkpoint of the active   *)
(* run, and the page within the day.                                       *)
(***************************************************************************)
EXTENDS SnowflakeSync, FiniteSetTheorems, TLAPS

(* The row of query_usage says what Snowflake says.                        *)
Final(q) == usage[q].run # NoRun /\ usage[q].credits = credits[q]

SettledShown == \A q \in ran : Settled(q) => credits[q] > 0

WatermarkPassed ==
  known => /\ watermark <= now
           /\ \A q \in ran :
                now - Lookback <= started[q] /\ started[q] < watermark - Latency => Final(q)

RunsShaped ==
  /\ \A r, s \in Runs : run[r].status \in Active /\ run[s].status \in Active => r = s
  /\ \A r \in Runs :
       /\ run[r].status = "queued" => run[r].attempts < MaxAttempts
       /\ run[r].windowed => run[r].completed <= run[r].to /\ run[r].to <= now
       /\ report[r].kind # "none" => run[r].status \in Finished
       /\ report[r].kind = "frozen" => run[r].windowed

WindowPassed ==
  \A r \in Runs : run[r].status \in Active /\ run[r].windowed =>
    /\ known => watermark <= run[r].to
    /\ \A q \in ran :
         /\ run[r].to - Lookback <= started[q] /\ started[q] < run[r].completed
         /\ started[q] < run[r].to - Latency
         => Final(q)

WorkerShaped ==
  /\ worker.run = NoRun <=> worker.step = "idle"
  /\ \A r \in Runs : run[r].status = "running" <=> worker.run = r
  /\ worker.step \notin {"idle", "begin"} => Working.windowed
  /\ worker.step = "publish" => Working.completed = Working.to

(* The queries of the day under way whose final credits are its to import. *)
Due(q) ==
  /\ q \in ran
  /\ Working.completed <= started[q] /\ started[q] < ChunkEnd
  /\ started[q] < Working.to - Latency

DayPassed ==
  /\ worker.step = "fetch" => \A q \in Queries : Due(q) =>
       Final(q) \/ worker.after = NoQuery \/ Before(worker.after, q)
  /\ worker.step = "store" => \A q \in Queries : Due(q) =>
       \/ Final(q)
       \/ q \in worker.page
       \/ Cardinality(worker.page) = PageSize /\ Before(worker.last, q)
  /\ worker.step = "checkpoint" => \A q \in Queries : Due(q) => Final(q)

PageShaped ==
  /\ worker.after # NoQuery => worker.after \in ran /\ worker.step # "begin"
  /\ worker.page \subseteq ran
  /\ worker.step = "store" =>
       /\ worker.last \in worker.page
       /\ \A q \in worker.page :
            started[q] < Working.to - Latency => worker.got[q] = credits[q]

Follows(u, r) ==
  /\ reader[u].run = r /\ run[r].status \in Finished
  /\ reader[u].step = "aggregated" /\ report[r].kind = "none" => reader[u].report = Shown(r)
  /\ reader[u].step = "answered" => reader[u].report = Shown(r)

ReadersFollow ==
  /\ latest # NoRun => run[latest].status \in Finished
  /\ \A u \in Readers : reader[u].step # "idle" => \E r \in Runs : Follows(u, r)

IInv ==
  /\ TypeOK
  /\ SettledShown /\ WatermarkPassed /\ RunsShaped /\ WindowPassed
  /\ WorkerShaped /\ PageShaped /\ DayPassed
  /\ ReportComplete /\ ReadersFollow

-----------------------------------------------------------------------------
(* TypeOK in parts that change together.                                   *)
SourceTypes ==
  /\ now \in Nat
  /\ ran \subseteq Queries
  /\ started \in [Queries -> Int]
  /\ credits \in [Queries -> Credits]

UsageRows == [run : Runs \cup {NoRun}, credits : Credits, allocated : BOOLEAN, looked : BOOLEAN]

UsageTypes == usage \in [Queries -> UsageRows]

ConnTypes == watermark \in Int /\ known \in BOOLEAN /\ capable \in BOOLEAN

RunRows ==
  [status : {"absent", "failed"} \cup Active \cup Finished, attempts : 0 .. MaxAttempts,
   windowed : BOOLEAN, from : Int, to : Int, completed : Int, processed : Nat]

RunTypes == run \in [Runs -> RunRows]

ReportTypes == report \in [Runs -> Reports] /\ latest \in Runs \cup {NoRun}

WorkerRows ==
  [run : Runs \cup {NoRun}, step : {"idle", "begin", "fetch", "store", "checkpoint", "publish"},
   after : Queries \cup {NoQuery}, page : SUBSET Queries, last : Queries \cup {NoQuery},
   got : [Queries -> Credits], access : BOOLEAN, trying : BOOLEAN,
   available : BOOLEAN, processed : Nat]

WorkerTypes == worker \in WorkerRows

ReaderTypes ==
  reader \in [Readers -> [step : {"idle", "looked", "aggregated", "answered"},
                         run : Runs \cup {NoRun}, report : Reports]]

LEMMA TypeParts ==
  /\ TypeOK <=> /\ SourceTypes /\ UsageTypes /\ ConnTypes /\ RunTypes
                /\ ReportTypes /\ WorkerTypes /\ ReaderTypes
  /\ TypeOK' <=> /\ SourceTypes' /\ UsageTypes' /\ ConnTypes' /\ RunTypes'
                 /\ ReportTypes' /\ WorkerTypes' /\ ReaderTypes'
BY DEF TypeOK, SourceTypes, UsageTypes, UsageRows, ConnTypes, RunTypes, RunRows, ReportTypes,
       WorkerTypes, WorkerRows, ReaderTypes

(* Reports and resting workers are of their types.                         *)
LEMMA Shapes ==
  /\ NoReport \in Reports
  /\ AtRest \in WorkerRows
  /\ UsageTypes => \A r \in Runs : LegacySummary(r) \in Reports /\ LegacySummary(r).kind = "legacy"
  /\ UsageTypes => \A to \in Int, available \in BOOLEAN : Frozen(to, available) \in Reports
<1>1. 0 \in Credits /\ [q \in Queries |-> 0] \in [Queries -> Credits]
  BY BoundsAssumption DEF Credits
<1>2. NoReport \in Reports
  BY <1>1 DEF NoReport, Reports
<1>3. AtRest \in WorkerRows
  BY <1>1 DEF AtRest, WorkerRows
<1>4. ASSUME UsageTypes, NEW r \in Runs
      PROVE  LegacySummary(r) \in Reports /\ LegacySummary(r).kind = "legacy"
  <2> DEFINE rows == {q \in Queries : usage[q].run = r /\ usage[q].allocated}
  <2>1. [q \in Queries |-> IF q \in rows THEN usage[q].credits ELSE 0] \in [Queries -> Credits]
    BY <1>1, <1>4 DEF UsageTypes, UsageRows
  <2> QED
    BY <2>1 DEF LegacySummary, Reports
<1>5. ASSUME UsageTypes, NEW to \in Int, NEW available \in BOOLEAN
      PROVE  Frozen(to, available) \in Reports
  <2> DEFINE rows == {q \in Queries : /\ usage[q].run # NoRun
                                      /\ to - Lookback <= started[q] /\ started[q] < to}
  <2>1. [q \in Queries |-> IF q \in rows THEN usage[q].credits ELSE 0] \in [Queries -> Credits]
    BY <1>1, <1>5 DEF UsageTypes, UsageRows
  <2> QED
    BY <2>1 DEF Frozen, Reports
<1> QED
  BY <1>2, <1>3, <1>4, <1>5

-----------------------------------------------------------------------------
LEMMA InitEstablishes == Init => IInv
<1> SUFFICES ASSUME Init PROVE IInv
  OBVIOUS
<1>1. SourceTypes
  BY BoundsAssumption, TimesAssumption DEF Init, SourceTypes, Credits
<1>2. ConnTypes
  BY GrantedAssumption DEF Init, ConnTypes
<1>3. UsageTypes
  BY RunsAssumption, BoundsAssumption, GrantedAssumption DEF Init, UsageTypes, UsageRows, Credits, NoRow
<1>4. /\ \A r \in Runs : /\ run[r].status \in {"absent", "queued"} \cup Finished
                         /\ run[r].attempts = 0 /\ ~run[r].windowed
      /\ \A r, s \in Runs : run[r].status = "queued" /\ run[s].status = "queued" => r = s
      /\ latest # NoRun => latest \in Runs /\ run[latest].status \in Finished
      /\ RunTypes
  <2>1. PICK past \in BOOLEAN, waiting \in {{}} \cup {{r} : r \in Runs \ {Old}} :
          /\ run = [r \in Runs |-> [Unasked EXCEPT !.status = FirstStatus(r, past, waiting)]]
          /\ latest = IF past THEN Old ELSE NoRun
    BY DEF Init
  <2>2. \A r \in Runs : /\ FirstStatus(r, past, waiting) \in {"absent", "queued"} \cup Finished
                        /\ FirstStatus(r, past, waiting) = "queued" => r \in waiting
    BY DEF FirstStatus, Finished
  <2>3. past => FirstStatus(Old, past, waiting) \in Finished
    BY DEF FirstStatus, Finished
  <2>4. \A r \in Runs : run[r] = [Unasked EXCEPT !.status = FirstStatus(r, past, waiting)]
    BY <2>1
  <2>5. \A r \in Runs : run[r].status = FirstStatus(r, past, waiting)
    BY <2>4 DEF Unasked
  <2>6. \A r \in Runs : run[r].attempts = 0 /\ ~run[r].windowed
    BY <2>4 DEF Unasked
  <2>7. RunTypes
    <3>1. \A status \in {"absent", "queued"} \cup Finished :
            [Unasked EXCEPT !.status = status] \in RunRows
      <4>1. 0 \in 0 .. MaxAttempts /\ 0 \in Int /\ 0 \in Nat
        BY BoundsAssumption
      <4> QED
        BY <4>1, Zenon DEF RunRows, Unasked, Active
    <3>2. \A r \in Runs : run[r] \in RunRows
      BY <2>2, <2>4, <3>1
    <3> QED
      BY <2>1, <3>2 DEF RunTypes
  <2> QED
    BY <2>1, <2>2, <2>3, <2>5, <2>6, <2>7, RunsAssumption
<1>5. ReportTypes /\ WorkerTypes /\ ReaderTypes
  BY <1>4, Shapes DEF Init, ReportTypes, WorkerTypes, ReaderTypes, Unread
<1>6. TypeOK
  BY <1>1, <1>2, <1>3, <1>4, <1>5, TypeParts
<1>7. SettledShown
  BY <1>1 DEF Init, SettledShown, SourceTypes
<1>8. WatermarkPassed
  <2>1. ASSUME known PROVE \A q \in ran : usage[q].run = Old /\ usage[q].credits = 1
    BY <1>1, <2>1 DEF Init, SourceTypes
  <2> QED
    BY <1>1, <2>1, RunsAssumption DEF Init, WatermarkPassed, Final, SourceTypes
<1>9. RunsShaped /\ WindowPassed
  <2>1. \A r \in Runs : report[r].kind = "none"
    BY DEF Init, NoReport
  <2>2. \A r \in Runs : run[r].status \in Active => run[r].status = "queued"
    BY <1>4 DEF Active, Finished
  <2> QED
    BY <1>4, <2>1, <2>2, BoundsAssumption DEF RunsShaped, WindowPassed
<1>10. WorkerShaped /\ PageShaped /\ DayPassed
  BY <1>4, RunsAssumption DEF Init, WorkerShaped, PageShaped, DayPassed, AtRest, Finished
<1>11. ReportComplete /\ ReadersFollow
  BY <1>4 DEF Init, ReportComplete, ReadersFollow, Unread, NoReport
<1> QED
  BY <1>6, <1>7, <1>8, <1>9, <1>10, <1>11 DEF IInv

-----------------------------------------------------------------------------
(* What is shown of finished runs stays, and readers with it.              *)
LEMMA ReadersStay ==
  ASSUME ReadersFollow, ReportTypes, reader' = reader, latest' = latest,
         \A r \in Runs : run[r].status \in Finished =>
           /\ run'[r].status \in Finished
           /\ Shown(r)' = Shown(r)
           /\ report[r].kind # "none" => report'[r] = report[r]
  PROVE  ReadersFollow'
<1>1. latest' # NoRun => run'[latest'].status \in Finished
  BY DEF ReadersFollow, ReportTypes
<1>2. \A u \in Readers, r \in Runs : Follows(u, r) => Follows(u, r)'
  BY DEF Follows
<1> QED
  BY <1>1, <1>2 DEF ReadersFollow

(* Frozen reports and the queries they are about stay.                     *)
LEMMA ReportsStay ==
  ASSUME ReportComplete, UNCHANGED source,
         \A r \in Runs : report'[r].kind = "frozen" =>
           report'[r] = report[r] /\ run'[r].to = run[r].to
  PROVE  ReportComplete'
BY DEF ReportComplete, source

-----------------------------------------------------------------------------
(* Snowflake: queries start now, and what is settled is settled.           *)
SourceGrows ==
  /\ now <= now'
  /\ \A q \in ran : q \in ran' /\ started'[q] = started[q]
  /\ \A q \in ran : Settled(q) => credits'[q] = credits[q]
  /\ \A q \in ran' \ ran : started'[q] = now

LEMMA OldNews ==
  ASSUME SourceTypes, SourceTypes', SourceGrows, NEW t \in Int, t <= now,
         NEW q \in ran', started'[q] < t - Latency
  PROVE  q \in ran /\ started'[q] = started[q] /\ credits'[q] = credits[q]
BY TimesAssumption DEF SourceTypes, SourceGrows, Settled

LEMMA SourceMoves ==
  ASSUME IInv, SourceTypes', SourceGrows,
         UNCHANGED <<usage, conn, run, report, latest, worker, reader>>
  PROVE  /\ WatermarkPassed' /\ RunsShaped' /\ WindowPassed' /\ WorkerShaped'
         /\ PageShaped' /\ DayPassed' /\ ReportComplete' /\ ReadersFollow'
<1>1. /\ SourceTypes /\ ConnTypes /\ RunTypes /\ ReportTypes /\ WorkerTypes
  BY TypeParts DEF IInv
<1>2. /\ usage' = usage /\ watermark' = watermark /\ known' = known /\ run' = run
      /\ report' = report /\ latest' = latest /\ worker' = worker /\ reader' = reader
      /\ Working' = Working /\ ChunkEnd' = ChunkEnd
  BY DEF conn, Working, ChunkEnd
<1>3. now <= now' /\ now' \in Nat /\ now \in Nat
  BY <1>1 DEF SourceGrows, SourceTypes
<1>4. WatermarkPassed'
  BY <1>1, <1>2, <1>3, OldNews, TimesAssumption
  DEF IInv, WatermarkPassed, Final, SourceTypes, ConnTypes
<1>5. RunsShaped'
  BY <1>1, <1>2, <1>3 DEF IInv, RunsShaped, RunTypes, RunRows
<1>6. WindowPassed'
  BY <1>1, <1>2, OldNews DEF IInv, WindowPassed, RunsShaped, Final, RunTypes, RunRows
<1>7. WorkerShaped'
  BY <1>2 DEF IInv, WorkerShaped
<1>8. ASSUME worker.step \notin {"idle", "begin"}
      PROVE  worker.run \in Runs /\ Working \in RunRows /\ Working.to <= now
  BY <1>1, <1>8 DEF IInv, WorkerShaped, RunsShaped, WorkerTypes, WorkerRows, RunTypes, Working
<1>9. PageShaped'
  <2>1. worker.after # NoQuery => worker.after \in ran'
    BY DEF IInv, PageShaped, SourceGrows
  <2>2. worker.page \subseteq ran'
    BY DEF IInv, PageShaped, SourceGrows
  <2>3. ASSUME worker.step = "store", NEW q \in worker.page, started'[q] < Working.to - Latency
        PROVE  worker.got[q] = credits'[q]
    BY <1>1, <1>8, <2>2, <2>3, OldNews DEF IInv, PageShaped, RunRows
  <2> QED
    BY <1>2, <2>1, <2>2, <2>3 DEF IInv, PageShaped
<1>10. DayPassed'
  <2>1. ASSUME worker.step \notin {"idle", "begin"}, NEW q \in Queries, Due(q)'
        PROVE  Due(q) /\ started'[q] = started[q] /\ Final(q)' = Final(q)
    BY <1>1, <1>2, <1>8, <2>1, OldNews DEF Due, Final, RunRows
  <2>2. \A p, q \in Queries : p \in ran /\ started'[q] = started[q] => Before(p, q)' = Before(p, q)
    BY DEF Before, SourceGrows
  <2>3. worker.step = "fetch" => \A q \in Queries : Due(q)' =>
          Final(q)' \/ worker.after = NoQuery \/ Before(worker.after, q)'
    BY <1>1, <2>1, <2>2 DEF IInv, DayPassed, PageShaped, SourceTypes
  <2>4. worker.step = "store" => \A q \in Queries : Due(q)' =>
          \/ Final(q)'
          \/ q \in worker.page
          \/ Cardinality(worker.page) = PageSize /\ Before(worker.last, q)'
    BY <1>1, <2>1, <2>2 DEF IInv, DayPassed, PageShaped, SourceTypes
  <2>5. worker.step = "checkpoint" => \A q \in Queries : Due(q)' => Final(q)'
    BY <2>1 DEF IInv, DayPassed
  <2> QED
    BY <1>2, <2>3, <2>4, <2>5 DEF DayPassed, Before
<1>11. ReportComplete'
  <2> SUFFICES ASSUME NEW r \in Runs, NEW q \in ran', report[r].kind = "frozen",
                      run[r].to - Lookback <= started'[q], started'[q] < run[r].to - Latency
               PROVE  report[r].credits[q] = credits'[q]
    BY <1>2 DEF ReportComplete
  <2>1. run[r].to \in Int /\ run[r].to <= now
    BY <1>1 DEF IInv, RunsShaped, RunTypes, RunRows
  <2> QED
    BY <1>1, <2>1, OldNews DEF IInv, ReportComplete
<1>12. ReadersFollow'
  BY <1>1, <1>2, ReadersStay DEF IInv, Shown, LegacySummary
<1> QED
  BY <1>4, <1>5, <1>6, <1>7, <1>9, <1>10, <1>11, <1>12

(* The parts of TypeOK that Snowflake leaves alone.                        *)
LEMMA SourceTypesSuffice ==
  ASSUME TypeOK, SourceTypes',
         UNCHANGED <<usage, conn, run, report, latest, worker, reader>>
  PROVE  TypeOK'
BY TypeParts DEF UsageTypes, ConnTypes, RunTypes, ReportTypes, WorkerTypes, ReaderTypes, conn

LEMMA RunQueryPreserves ==
  ASSUME IInv, NEW q \in Queries, RunQuery(q)
  PROVE  IInv'
<1>1. SourceTypes
  BY TypeParts DEF IInv
<1>2. SourceTypes' /\ SourceGrows
  BY <1>1 DEF RunQuery, SourceTypes, SourceGrows
<1>3. SettledShown'
  BY <1>1, TimesAssumption DEF RunQuery, IInv, SettledShown, Settled, SourceTypes
<1> QED
  BY <1>2, <1>3, SourceMoves, SourceTypesSuffice DEF RunQuery, IInv

LEMMA AttributePreserves ==
  ASSUME IInv, NEW q \in Queries, Attribute(q)
  PROVE  IInv'
<1>1. SourceTypes
  BY TypeParts DEF IInv
<1>2. /\ now' = now /\ ran' = ran /\ started' = started
      /\ \A p \in Queries : credits'[p] = IF p = q THEN credits[p] + 1 ELSE credits[p]
      /\ ~Settled(q) /\ credits[q] < Revisions
  BY <1>1 DEF Attribute, SourceTypes
<1>3. SourceTypes'
  BY <1>1, BoundsAssumption DEF Attribute, SourceTypes, Credits
<1>4. SourceGrows
  BY <1>1, <1>2 DEF SourceTypes, SourceGrows
<1>5. SettledShown'
  BY <1>1, <1>2 DEF IInv, SettledShown, Settled, SourceTypes
<1> QED
  BY <1>3, <1>4, <1>5, SourceMoves, SourceTypesSuffice DEF Attribute, IInv

LEMMA TickPreserves ==
  ASSUME IInv, Tick
  PROVE  IInv'
<1>1. SourceTypes
  BY TypeParts DEF IInv
<1>2. SourceTypes' /\ SourceGrows
  BY <1>1 DEF Tick, SourceTypes, SourceGrows
<1>3. SettledShown'
  BY <1>1, TimesAssumption DEF Tick, IInv, SettledShown, Settled, SourceTypes, Credits
<1> QED
  BY <1>2, <1>3, SourceMoves, SourceTypesSuffice DEF Tick, IInv

-----------------------------------------------------------------------------
(* Requests *)

(* A new window ends now and leaves out nothing that is not final.         *)
LEMMA WindowFacts ==
  ASSUME IInv
  PROVE  /\ now \in Int /\ WindowStart(now) \in Int /\ WindowStart(now) <= now
         /\ known => watermark <= now
         /\ \A q \in ran :
              now - Lookback <= started[q] /\ started[q] < WindowStart(now) => Final(q)
<1>1. SourceTypes /\ ConnTypes
  BY TypeParts DEF IInv
<1> QED
  BY <1>1, TimesAssumption DEF IInv, WatermarkPassed, WindowStart, SourceTypes, ConnTypes

(* Nothing runs when no run is active.                                     *)
LEMMA IdleRests ==
  ASSUME IInv, Idle
  PROVE  worker.run = NoRun /\ worker.step = "idle"
<1>1. WorkerTypes
  BY TypeParts DEF IInv
<1> QED
  BY <1>1 DEF IInv, WorkerShaped, WorkerTypes, WorkerRows, Idle, Active

LEMMA EnqueuePreserves ==
  ASSUME IInv, NEW r \in Runs, Enqueue(r)
  PROVE  IInv'
<1>1. /\ SourceTypes /\ UsageTypes /\ ConnTypes /\ RunTypes
      /\ ReportTypes /\ WorkerTypes /\ ReaderTypes
  BY TypeParts DEF IInv
<1>2. /\ now' = now /\ ran' = ran /\ started' = started /\ credits' = credits
      /\ usage' = usage /\ watermark' = watermark /\ known' = known /\ capable' = capable
      /\ report' = report /\ latest' = latest /\ worker' = worker /\ reader' = reader
  BY DEF Enqueue, source, conn
<1>3. worker.run = NoRun /\ worker.step = "idle"
  BY IdleRests DEF Enqueue
<1>4. /\ run' \in [Runs -> RunRows]
      /\ \A s \in Runs \ {r} : run'[s] = run[s] /\ run[s].status \notin Active
      /\ run'[r].status = "queued" /\ run'[r].attempts = 0 /\ run'[r].windowed
      /\ run'[r].to = now /\ run'[r].completed = WindowStart(now)
      /\ run[r].status = "absent"
  <2> DEFINE new == [status |-> "queued", attempts |-> 0, windowed |-> TRUE, from |-> WindowStart(now),
                     to |-> now, completed |-> WindowStart(now), processed |-> 0]
  <2>1. new \in RunRows
    BY <1>1, WindowFacts, BoundsAssumption DEF RunRows, Active
  <2>2. run' = [run EXCEPT ![r] = new]
    BY DEF Enqueue
  <2> QED
    BY <1>1, <2>1, <2>2 DEF RunTypes, Enqueue, Idle
<1>5. TypeOK'
  BY <1>1, <1>2, <1>4, TypeParts
  DEF SourceTypes, UsageTypes, ConnTypes, RunTypes, ReportTypes, WorkerTypes, ReaderTypes
<1>6. SettledShown' /\ WatermarkPassed'
  BY <1>2 DEF IInv, SettledShown, WatermarkPassed, Final, Settled
<1>7. RunsShaped'
  BY <1>1, <1>2, <1>4, WindowFacts, BoundsAssumption DEF IInv, RunsShaped, Active, Finished
<1>8. WindowPassed'
  BY <1>2, <1>4, WindowFacts DEF IInv, WindowPassed, Final
<1>9. WorkerShaped' /\ PageShaped' /\ DayPassed'
  BY <1>2, <1>3, <1>4, RunsAssumption DEF IInv, WorkerShaped, PageShaped, DayPassed, Active
<1>10. ReportComplete'
  <2>1. report[r].kind = "none"
    BY <1>4 DEF IInv, RunsShaped, Finished
  <2> QED
    BY <1>2, <1>4, <2>1, ReportsStay DEF IInv, source
<1>11. ReadersFollow'
  BY <1>1, <1>2, <1>4, ReadersStay DEF IInv, Shown, LegacySummary, Finished
<1> QED
  BY <1>5, <1>6, <1>7, <1>8, <1>9, <1>10, <1>11 DEF IInv

(* Only readers and the capability move.                                   *)
LEMMA ImportStays ==
  ASSUME IInv, UNCHANGED <<source, usage, watermark, known, run, report, latest, worker>>
  PROVE  /\ SettledShown' /\ WatermarkPassed' /\ RunsShaped' /\ WindowPassed'
         /\ WorkerShaped' /\ PageShaped' /\ DayPassed' /\ ReportComplete'
<1>1. /\ now' = now /\ ran' = ran /\ started' = started /\ credits' = credits
      /\ usage' = usage /\ watermark' = watermark /\ known' = known /\ run' = run
      /\ report' = report /\ latest' = latest /\ worker' = worker
  BY DEF source
<1>2. /\ SettledShown' /\ WatermarkPassed' /\ RunsShaped' /\ WindowPassed'
      /\ WorkerShaped' /\ PageShaped' /\ ReportComplete'
  BY <1>1 DEF IInv, SettledShown, Settled, WatermarkPassed, RunsShaped, WindowPassed,
              WorkerShaped, PageShaped, Final, Working, ReportComplete
<1>3. DayPassed'
  <2>1. /\ \A q \in Queries : Due(q)' = Due(q) /\ Final(q)' = Final(q)
        /\ \A p, q : Before(p, q)' = Before(p, q)
    BY <1>1 DEF Due, Final, Before, Working, ChunkEnd
  <2>2. /\ \A q : Before(worker.after, q)' = Before(worker.after, q)
        /\ \A q : Before(worker.last, q)' = Before(worker.last, q)
    BY <1>1 DEF Before
  <2> QED
    BY <1>1, <2>1, <2>2 DEF IInv, DayPassed
<1> QED
  BY <1>2, <1>3

LEMMA ValidatePreserves ==
  ASSUME IInv, Validate
  PROVE  IInv'
<1>1. /\ SourceTypes /\ UsageTypes /\ ConnTypes /\ RunTypes
      /\ ReportTypes /\ WorkerTypes /\ ReaderTypes
  BY TypeParts DEF IInv
<1>2. /\ now' = now /\ ran' = ran /\ started' = started /\ credits' = credits
      /\ usage' = usage /\ watermark' = watermark /\ known' = known /\ run' = run
      /\ report' = report /\ latest' = latest /\ worker' = worker /\ reader' = reader
  BY DEF Validate, source
<1>3. TypeOK'
  <2>1. capable' \in BOOLEAN
    BY GrantedAssumption DEF Validate
  <2> QED
    BY <1>1, <1>2, <2>1, TypeParts
    DEF SourceTypes, UsageTypes, ConnTypes, RunTypes, ReportTypes, WorkerTypes, ReaderTypes
<1>4. ReadersFollow'
  BY <1>1, <1>2, ReadersStay DEF IInv, Shown, LegacySummary
<1> QED
  BY <1>2, <1>3, <1>4, ImportStays DEF IInv, source

-----------------------------------------------------------------------------
(* The worker *)

(* What a working worker works on.                                         *)
LEMMA WorkingFacts ==
  ASSUME IInv, worker.step # "idle"
  PROVE  /\ worker.run \in Runs /\ Working \in RunRows /\ Working.status = "running"
         /\ \A r \in Runs \ {worker.run} : run[r].status \notin Active
         /\ report[worker.run].kind = "none"
         /\ worker.step # "begin" =>
              /\ Working.windowed /\ Working.completed <= Working.to /\ Working.to <= now
              /\ ChunkEnd \in Int /\ ChunkEnd <= Working.to
              /\ ChunkEnd <= Working.completed + Day
<1>1. RunTypes /\ WorkerTypes
  BY TypeParts DEF IInv
<1>2. worker.run \in Runs /\ Working \in RunRows /\ Working.status = "running"
  BY <1>1 DEF IInv, WorkerShaped, RunTypes, WorkerTypes, WorkerRows, Working
<1>3. /\ \A r \in Runs \ {worker.run} : run[r].status \notin Active
      /\ report[worker.run].kind = "none"
  BY <1>2 DEF IInv, RunsShaped, Active, Finished, Working
<1>4. ASSUME worker.step # "begin"
      PROVE  Working.windowed /\ Working.completed <= Working.to /\ Working.to <= now
  BY <1>2, <1>4 DEF IInv, WorkerShaped, RunsShaped, Working
<1> QED
  BY <1>2, <1>3, <1>4, TimesAssumption DEF ChunkEnd, SmallerOf, RunRows

LEMMA ClaimPreserves ==
  ASSUME IInv, NEW r \in Runs, Claim(r)
  PROVE  IInv'
<1>1. /\ SourceTypes /\ UsageTypes /\ ConnTypes /\ RunTypes
      /\ ReportTypes /\ WorkerTypes /\ ReaderTypes
  BY TypeParts DEF IInv
<1>2. /\ now' = now /\ ran' = ran /\ started' = started /\ credits' = credits
      /\ usage' = usage /\ watermark' = watermark /\ known' = known /\ capable' = capable
      /\ report' = report /\ latest' = latest /\ reader' = reader
  BY DEF Claim, source, conn
<1>3. /\ run' \in [Runs -> RunRows]
      /\ \A s \in Runs \ {r} : run'[s] = run[s] /\ run[s].status \notin Active
      /\ run[r].status = "queued" /\ run'[r].status = "running"
      /\ run'[r].windowed = run[r].windowed /\ run'[r].to = run[r].to
      /\ run'[r].completed = run[r].completed
  <2>1. /\ run[r] \in RunRows /\ run[r].status = "queued" /\ run[r].attempts + 1 \in 0 .. MaxAttempts
    BY <1>1, BoundsAssumption DEF Claim, IInv, RunsShaped, RunTypes, RunRows
  <2> DEFINE new == [run[r] EXCEPT !.status = "running", !.attempts = @ + 1]
  <2>2. new \in RunRows /\ new.status = "running" /\ new.windowed = run[r].windowed
        /\ new.to = run[r].to /\ new.completed = run[r].completed
    BY <2>1 DEF RunRows, Active
  <2>3. run' = [run EXCEPT ![r] = new]
    BY <1>1, <2>1 DEF Claim, RunTypes, RunRows
  <2> QED
    BY <1>1, <2>1, <2>2, <2>3 DEF IInv, RunsShaped, RunTypes, Active
<1>4. /\ worker' \in WorkerRows /\ worker'.run = r /\ worker'.step = "begin"
      /\ worker'.after = NoQuery /\ worker'.page = {}
  BY Shapes DEF Claim, AtRest, WorkerRows
<1>5. TypeOK'
  BY <1>1, <1>2, <1>3, <1>4, TypeParts
  DEF SourceTypes, UsageTypes, ConnTypes, RunTypes, ReportTypes, WorkerTypes, ReaderTypes
<1>6. SettledShown' /\ WatermarkPassed'
  BY <1>2 DEF IInv, SettledShown, WatermarkPassed, Final, Settled
<1>7. RunsShaped'
  BY <1>2, <1>3 DEF IInv, RunsShaped, Active, Finished
<1>8. WindowPassed'
  BY <1>2, <1>3 DEF IInv, WindowPassed, Final, Active
<1>9. WorkerShaped' /\ PageShaped' /\ DayPassed'
  BY <1>3, <1>4, RunsAssumption DEF WorkerShaped, PageShaped, DayPassed, Active
<1>10. ReportComplete'
  BY <1>2, <1>3, ReportsStay DEF IInv, source
<1>11. ReadersFollow'
  BY <1>1, <1>2, <1>3, ReadersStay DEF IInv, Shown, LegacySummary, Finished
<1> QED
  BY <1>5, <1>6, <1>7, <1>8, <1>9, <1>10, <1>11 DEF IInv

LEMMA BeginPreserves ==
  ASSUME IInv, Begin
  PROVE  IInv'
<1>1. /\ SourceTypes /\ UsageTypes /\ ConnTypes /\ RunTypes
      /\ ReportTypes /\ WorkerTypes /\ ReaderTypes
  BY TypeParts DEF IInv
<1>2. /\ now' = now /\ ran' = ran /\ started' = started /\ credits' = credits
      /\ usage' = usage /\ watermark' = watermark /\ known' = known /\ capable' = capable
      /\ report' = report /\ latest' = latest /\ reader' = reader
  BY DEF Begin, source, conn
<1>3. PICK r \in Runs : /\ r = worker.run /\ run[r] \in RunRows /\ run[r].status = "running"
                        /\ \A s \in Runs \ {r} : run[s].status \notin Active
                        /\ report[r].kind = "none"
  BY WorkingFacts DEF Begin, Working
<1> DEFINE row == Windowed(run[r])
<1>4. /\ row \in RunRows /\ row.status = "running" /\ row.windowed
      /\ row.completed <= row.to /\ row.to <= now
      /\ known => watermark <= row.to
      /\ \A q \in ran :
           row.to - Lookback <= started[q] /\ started[q] < row.completed
           /\ started[q] < row.to - Latency => Final(q)
  <2>1. CASE run[r].windowed
    BY <1>3, <2>1 DEF Windowed, IInv, RunsShaped, WindowPassed, Active
  <2>2. CASE ~run[r].windowed
    <3>1. row \in RunRows /\ row.status = "running" /\ row.windowed
          /\ row.completed = WindowStart(now) /\ row.to = now
      BY <1>3, <2>2, WindowFacts DEF Windowed, RunRows
    <3> QED
      BY <3>1, WindowFacts
  <2> QED
    BY <2>1, <2>2
<1>5. /\ run' \in [Runs -> RunRows] /\ run'[r] = row
      /\ \A s \in Runs \ {r} : run'[s] = run[s]
  BY <1>1, <1>3, <1>4 DEF Begin, RunTypes
<1>6. /\ worker' \in WorkerRows /\ worker'.run = r
      /\ worker'.step = IF row.completed < row.to THEN "fetch" ELSE "publish"
      /\ worker'.after = worker.after /\ worker'.page = worker.page
  BY <1>1, <1>3, <1>4 DEF Begin, WorkerTypes, WorkerRows, ConnTypes, RunRows
<1>7. TypeOK'
  BY <1>1, <1>2, <1>5, <1>6, TypeParts
  DEF SourceTypes, UsageTypes, ConnTypes, RunTypes, ReportTypes, WorkerTypes, ReaderTypes
<1>8. SettledShown' /\ WatermarkPassed'
  BY <1>2 DEF IInv, SettledShown, WatermarkPassed, Final, Settled
<1>9. RunsShaped'
  BY <1>2, <1>3, <1>4, <1>5 DEF IInv, RunsShaped, Active, Finished
<1>10. WindowPassed'
  BY <1>2, <1>3, <1>4, <1>5 DEF WindowPassed, Final
<1>11. WorkerShaped'
  BY <1>3, <1>4, <1>5, <1>6, RunsAssumption DEF WorkerShaped, Working, Active, RunRows
<1>12. PageShaped' /\ DayPassed'
  <2>1. worker.after = NoQuery
    BY DEF Begin, IInv, PageShaped
  <2> QED
    BY <1>2, <1>6, <2>1 DEF IInv, PageShaped, DayPassed
<1>13. ReportComplete'
  BY <1>2, <1>3, <1>5, ReportsStay DEF IInv, source
<1>14. ReadersFollow'
  BY <1>1, <1>2, <1>3, <1>4, <1>5, ReadersStay DEF IInv, Shown, LegacySummary, Finished
<1> QED
  BY <1>7, <1>8, <1>9, <1>10, <1>11, <1>12, <1>13, <1>14 DEF IInv

(* Only the attempt's place in its day and readers' queries move.          *)
LEMMA PlaceMoves ==
  ASSUME IInv, WorkerTypes', worker'.run = worker.run, worker.step # "idle",
         UNCHANGED <<source, usage, conn, run, report, latest, reader>>
  PROVE  /\ TypeOK' /\ SettledShown' /\ WatermarkPassed' /\ RunsShaped' /\ WindowPassed'
         /\ ReportComplete' /\ ReadersFollow'
         /\ Working' = Working /\ \A q \in Queries : Due(q)' = Due(q) /\ Final(q)' = Final(q)
<1>1. /\ SourceTypes /\ UsageTypes /\ ConnTypes /\ RunTypes /\ ReportTypes /\ ReaderTypes
  BY TypeParts DEF IInv
<1>2. /\ now' = now /\ ran' = ran /\ started' = started /\ credits' = credits
      /\ usage' = usage /\ watermark' = watermark /\ known' = known /\ capable' = capable
      /\ run' = run /\ report' = report /\ latest' = latest /\ reader' = reader
  BY DEF source, conn
<1>3. TypeOK'
  BY <1>1, <1>2, TypeParts
  DEF SourceTypes, UsageTypes, ConnTypes, RunTypes, ReportTypes, ReaderTypes
<1>4. /\ SettledShown' /\ WatermarkPassed' /\ RunsShaped' /\ WindowPassed' /\ ReportComplete'
  BY <1>2 DEF IInv, SettledShown, Settled, WatermarkPassed, RunsShaped, WindowPassed, Final,
              ReportComplete
<1>5. ReadersFollow'
  BY <1>1, <1>2, ReadersStay DEF IInv, Shown, LegacySummary
<1>6. Working' = Working /\ \A q \in Queries : Due(q)' = Due(q) /\ Final(q)' = Final(q)
  BY <1>2 DEF Working, Due, Final, ChunkEnd
<1> QED
  BY <1>3, <1>4, <1>5, <1>6

(* Of two queries one comes first.                                         *)
LEMMA Ordered ==
  ASSUME SourceTypes, NEW p \in Queries, NEW q \in Queries, ~Before(p, q), p # q
  PROVE  Before(q, p)
BY QueriesAssumption DEF SourceTypes, Before

LEMMA FetchPagePreserves ==
  ASSUME IInv, FetchPage
  PROVE  IInv'
<1>1. /\ SourceTypes /\ WorkerTypes
  BY TypeParts DEF IInv
<1>2. /\ worker.step = "fetch" /\ now' = now /\ ran' = ran /\ started' = started
      /\ credits' = credits /\ run' = run
  BY DEF FetchPage, source
<1> DEFINE After(page, trying, last) ==
             [worker EXCEPT
               !.step = IF page = {} THEN "checkpoint" ELSE "store",
               !.page = page, !.last = last, !.trying = trying,
               !.got = [q \in Queries |-> IF q \in page THEN credits[q] ELSE 0]]
<1>3. PICK page \in SUBSET Rows, trying \in {worker.trying, FALSE} :
        \E last \in page \cup {NoQuery} :
          IsPage(page, last, Rows) /\ worker' = After(page, trying, last)
  BY DEF FetchPage
<1>4. PICK last \in page \cup {NoQuery} :
        /\ IsPage(page, last, Rows)
        /\ worker' = After(page, trying, last)
  BY <1>3
<1>5. page \subseteq ran /\ page \subseteq Queries
  BY <1>1 DEF Rows, SourceTypes
<1>6. /\ worker' \in WorkerRows /\ worker'.run = worker.run
      /\ worker'.step = (IF page = {} THEN "checkpoint" ELSE "store")
      /\ worker'.after = worker.after /\ worker'.page = page /\ worker'.last = last
      /\ \A q \in page : worker'.got[q] = credits[q]
  <2>1. [q \in Queries |-> IF q \in page THEN credits[q] ELSE 0] \in [Queries -> Credits]
    BY <1>1, BoundsAssumption DEF SourceTypes, Credits
  <2>2. trying \in BOOLEAN
    BY <1>1 DEF WorkerTypes, WorkerRows
  <2> QED
    BY <1>1, <1>4, <1>5, <2>1, <2>2 DEF WorkerTypes, WorkerRows
<1>7. /\ TypeOK' /\ SettledShown' /\ WatermarkPassed' /\ RunsShaped' /\ WindowPassed'
      /\ ReportComplete' /\ ReadersFollow'
      /\ Working' = Working /\ \A q \in Queries : Due(q)' = Due(q) /\ Final(q)' = Final(q)
  BY <1>2, <1>6, PlaceMoves DEF FetchPage, WorkerTypes
<1>8. WorkerShaped'
  BY <1>2, <1>6, <1>7 DEF IInv, WorkerShaped
<1>9. last # NoQuery <=> page # {}
  BY <1>4 DEF IsPage
<1>10. PageShaped'
  BY <1>2, <1>4, <1>5, <1>6, <1>7, <1>9 DEF IInv, PageShaped
<1>11. ASSUME NEW q \in Queries, Due(q), ~Final(q)
       PROVE  q \in Rows
  <2>1. Settled(q)
    BY <1>1, <1>2, <1>11, WorkingFacts, TimesAssumption DEF Due, Settled, SourceTypes, RunRows
  <2>2. credits[q] > 0
    BY <1>11, <2>1 DEF IInv, SettledShown, Due
  <2>3. worker.after # NoQuery => Before(worker.after, q)
    BY <1>2, <1>11 DEF IInv, DayPassed
  <2> QED
    BY <1>11, <2>2, <2>3 DEF Rows, Due
<1>12. ASSUME NEW q \in Rows, q \notin page
       PROVE  page # {} /\ Cardinality(page) = PageSize /\ Before(last, q)
  <2>1. Cardinality(page) = PageSize
    BY <1>4, <1>12 DEF IsPage
  <2>2. page # {}
    BY <2>1, FS_EmptySet, BoundsAssumption
  <2>3. Before(last, q)
    BY <1>4, <1>9, <1>12, <2>2 DEF IsPage
  <2> QED
    BY <2>1, <2>2, <2>3
<1>13. DayPassed'
  <2>1. page = {} => \A q \in Queries : Due(q) => Final(q)
    BY <1>11, <1>12
  <2>2. \A q \in Queries : Due(q) =>
          Final(q) \/ q \in page \/ (Cardinality(page) = PageSize /\ Before(last, q))
    BY <1>11, <1>12
  <2>3. \A q \in Queries : Before(last, q)' = Before(last, q)
    BY <1>2 DEF Before
  <2> QED
    BY <1>6, <1>7, <2>1, <2>2, <2>3 DEF DayPassed, Before
<1> QED
  BY <1>7, <1>8, <1>10, <1>13 DEF IInv

(* A report of the old version is captured before its rows move.           *)
LEMMA CaptureFacts ==
  ASSUME IInv, StorePage
  PROVE  /\ ReportTypes'
         /\ \A r \in Runs :
              /\ report[r].kind # "none" => report'[r] = report[r]
              /\ report'[r].kind # "none" => report[r].kind # "none" \/ run[r].status \in Finished
              /\ report'[r].kind = "frozen" => report'[r] = report[r]
              /\ run[r].status \in Finished => Shown(r)' = Shown(r)
<1>1. UsageTypes /\ ReportTypes /\ WorkerTypes
  BY TypeParts DEF IInv
<1>2. report' = Preserved(worker.page) /\ latest' = latest
  BY DEF StorePage
<1>3. \A r \in Runs :
        \/ report'[r] = report[r]
        \/ /\ report[r].kind = "none" /\ run[r].status \in Finished
           /\ report'[r] = LegacySummary(r)
  BY <1>2 DEF Preserved
<1>4. ReportTypes'
  <2>1. report' \in [Runs -> Reports]
    BY <1>1, <1>2, Shapes DEF Preserved, ReportTypes
  <2> QED
    BY <1>1, <1>2, <2>1 DEF ReportTypes
<1>5. ASSUME NEW r \in Runs, run[r].status \in Finished
      PROVE  Shown(r)' = Shown(r)
  <2>1. CASE report[r].kind # "none"
    BY <1>3, <2>1 DEF Shown
  <2>2. r # worker.run /\ worker.run \in Runs
    BY <1>5, WorkingFacts DEF StorePage, Working, Finished
  <2>3. CASE report[r].kind = "none" /\ \E q \in worker.page : usage[q].run = r
    <3>1. report'[r] = LegacySummary(r)
      BY <1>2, <1>5, <2>2, <2>3 DEF Preserved
    <3> QED
      BY <1>1, <2>3, <3>1, Shapes DEF Shown
  <2>4. CASE report[r].kind = "none" /\ \A q \in worker.page : usage[q].run # r
    <3>1. report'[r] = report[r]
      BY <1>2, <2>4 DEF Preserved
    <3>2. \A q \in Queries : IF q \in worker.page THEN usage'[q].run = worker.run /\ usage[q].run # r
                                                  ELSE usage'[q] = usage[q]
      BY <2>4 DEF StorePage, Upserted
    <3> DEFINE rows == {q \in Queries : usage[q].run = r /\ usage[q].allocated}
    <3> DEFINE new == {q \in Queries : usage'[q].run = r /\ usage'[q].allocated}
    <3>3. new = rows
      BY <2>2, <3>2
    <3>4. [q \in Queries |-> IF q \in new THEN usage'[q].credits ELSE 0]
            = [q \in Queries |-> IF q \in rows THEN usage[q].credits ELSE 0]
      BY <2>2, <3>2, <3>3
    <3>5. LegacySummary(r)' = LegacySummary(r)
      BY <3>3, <3>4 DEF LegacySummary
    <3> QED
      BY <2>4, <3>1, <3>5 DEF Shown
  <2> QED
    BY <2>1, <2>3, <2>4
<1>6. UsageTypes => \A r \in Runs : LegacySummary(r).kind = "legacy"
  BY Shapes
<1> QED
  BY <1>1, <1>3, <1>4, <1>5, <1>6

LEMMA StorePagePreserves ==
  ASSUME IInv, StorePage
  PROVE  IInv'
<1>1. /\ SourceTypes /\ UsageTypes /\ ConnTypes /\ RunTypes
      /\ ReportTypes /\ WorkerTypes /\ ReaderTypes
  BY TypeParts DEF IInv
<1>2. /\ now' = now /\ ran' = ran /\ started' = started /\ credits' = credits
      /\ watermark' = watermark /\ known' = known /\ capable' = capable
      /\ run' = run /\ latest' = latest /\ reader' = reader
      /\ worker.step = "store" /\ worker' = Stored
  BY DEF StorePage, source, conn
<1>3. /\ worker.run \in Runs /\ worker.page \subseteq ran /\ worker.last \in worker.page
      /\ Working.to \in Int /\ Working.windowed
      /\ \A r \in Runs : run[r].status \in Active => r = worker.run
  BY <1>2, WorkingFacts DEF IInv, PageShaped, RunRows
<1>4. PICK found \in SUBSET Queries :
        usage' = [q \in Queries |-> IF q \in worker.page THEN Upserted(q, found) ELSE usage[q]]
  BY <1>1 DEF StorePage, WorkerTypes, WorkerRows
<1>5. UsageTypes'
  <2>1. ASSUME NEW q \in Queries PROVE Upserted(q, found) \in UsageRows
    <3> DEFINE allocated == IF worker.trying THEN q \in found ELSE usage[q].allocated
    <3>1. usage[q].allocated \in BOOLEAN /\ worker.trying \in BOOLEAN /\ worker.got[q] \in Credits
      BY <1>1 DEF UsageTypes, UsageRows, WorkerTypes, WorkerRows
    <3>2. allocated \in BOOLEAN
      <4>1. (q \in found) \in BOOLEAN
        OBVIOUS
      <4>2. CASE worker.trying
        BY <4>1, <4>2, Zenon
      <4>3. CASE ~worker.trying
        BY <3>1, <4>3, Zenon
      <4> QED
        BY <4>2, <4>3, Zenon
    <3> HIDE DEF allocated
    <3>3. [run |-> worker.run, credits |-> worker.got[q], looked |-> worker.trying,
           allocated |-> allocated] \in UsageRows
      BY <1>3, <3>1, <3>2 DEF UsageRows
    <3> QED
      BY <3>3 DEF Upserted, allocated
  <2> QED
    BY <1>1, <1>4, <2>1 DEF UsageTypes
<1>6. \A q \in worker.page : usage'[q].run = worker.run /\ usage'[q].credits = worker.got[q]
  BY <1>1, <1>3, <1>4 DEF Upserted, SourceTypes
<1>7. /\ worker' \in WorkerRows /\ worker'.run = worker.run /\ worker'.after = worker.last
      /\ worker'.page = {}
      /\ worker'.step = (IF Cardinality(worker.page) < PageSize THEN "checkpoint" ELSE "fetch")
  <2>1. Cardinality(worker.page) \in Nat
    BY <1>1, <1>3, QueriesAssumption, FS_Subset, FS_CardinalityType DEF SourceTypes
  <2>2. worker.last \in Queries
    BY <1>1, <1>3 DEF SourceTypes
  <2>3. (worker.available /\ worker.trying) \in BOOLEAN
    BY Zenon
  <2>4. AtRest.got \in [Queries -> Credits]
    BY Shapes DEF WorkerRows
  <2>5. worker.processed + Cardinality(worker.page) \in Nat
    BY <1>1, <2>1 DEF WorkerTypes, WorkerRows
  <2> QED
    BY <1>1, <1>2, <2>2, <2>3, <2>4, <2>5 DEF Stored, WorkerTypes, WorkerRows
<1>8. TypeOK'
  BY <1>1, <1>2, <1>5, <1>7, CaptureFacts, TypeParts
  DEF SourceTypes, ConnTypes, RunTypes, WorkerTypes, ReaderTypes
<1>9. \A q \in ran : started[q] < Working.to - Latency =>
        /\ Final(q) => Final(q)'
        /\ q \in worker.page => Final(q)'
  <2>1. ASSUME NEW q \in worker.page, started[q] < Working.to - Latency PROVE Final(q)'
    BY <1>2, <1>3, <1>6, <2>1, RunsAssumption DEF IInv, PageShaped, Final
  <2>2. ASSUME NEW q \in ran \ worker.page PROVE Final(q)' = Final(q)
    BY <1>1, <1>2, <1>4, <2>2 DEF Final, SourceTypes
  <2> QED
    BY <2>1, <2>2
<1>10. SettledShown'
  BY <1>2 DEF IInv, SettledShown, Settled
<1>11. WatermarkPassed'
  <2>1. known => watermark <= Working.to
    BY <1>2, <1>3, WorkingFacts DEF IInv, WindowPassed, Working, Active
  <2>2. known => \A q \in ran : started[q] < watermark - Latency => started[q] < Working.to - Latency
    BY <1>1, <1>3, <2>1, TimesAssumption DEF SourceTypes, ConnTypes
  <2> QED
    BY <1>2, <1>9, <2>2 DEF IInv, WatermarkPassed
<1>12. RunsShaped'
  BY <1>2, CaptureFacts DEF IInv, RunsShaped
<1>13. WindowPassed'
  BY <1>2, <1>3, <1>9 DEF IInv, WindowPassed, Working
<1>14. Working' = Working
  BY <1>2, <1>7 DEF Working
<1>15. WorkerShaped'
  BY <1>2, <1>3, <1>7, <1>14 DEF IInv, WorkerShaped
<1>16. PageShaped'
  BY <1>2, <1>3, <1>7 DEF IInv, PageShaped
<1>17. DayPassed'
  <2>1. \A q \in Queries : Due(q)' = Due(q)
    BY <1>2, <1>14 DEF Due, ChunkEnd
  <2>2. ASSUME NEW q \in Queries, Due(q)
        PROVE  Final(q)' \/ (Cardinality(worker.page) = PageSize /\ Before(worker.last, q))
    BY <1>2, <1>9, <2>2 DEF IInv, DayPassed, Due
  <2>3. Cardinality(worker.page) = PageSize => ~(Cardinality(worker.page) < PageSize)
    BY BoundsAssumption
  <2> QED
    BY <1>2, <1>7, <2>1, <2>2, <2>3 DEF DayPassed, Before
<1>18. ReportComplete'
  BY <1>2, CaptureFacts, ReportsStay DEF IInv, StorePage
<1>19. ReadersFollow'
  BY <1>1, <1>2, CaptureFacts, ReadersStay DEF IInv
<1> QED
  BY <1>8, <1>10, <1>11, <1>12, <1>13, <1>15, <1>16, <1>17, <1>18, <1>19 DEF IInv

LEMMA CheckpointPreserves ==
  ASSUME IInv, Checkpoint
  PROVE  IInv'
<1>1. /\ SourceTypes /\ UsageTypes /\ ConnTypes /\ RunTypes
      /\ ReportTypes /\ WorkerTypes /\ ReaderTypes
  BY TypeParts DEF IInv
<1>2. /\ now' = now /\ ran' = ran /\ started' = started /\ credits' = credits
      /\ usage' = usage /\ known' = TRUE /\ capable' = worker.available
      /\ report' = report /\ latest' = latest /\ reader' = reader
      /\ watermark' = (IF known /\ watermark > ChunkEnd THEN watermark ELSE ChunkEnd)
      /\ worker.step = "checkpoint"
  BY DEF Checkpoint, source
<1>3. PICK r \in Runs :
        /\ r = worker.run /\ run[r] \in RunRows /\ run[r] = Working /\ run[r].status = "running"
        /\ \A s \in Runs \ {r} : run[s].status \notin Active
        /\ report[r].kind = "none"
        /\ run[r].windowed /\ run[r].to <= now /\ ChunkEnd \in Int /\ ChunkEnd <= run[r].to
        /\ known => watermark <= run[r].to
  BY <1>2, WorkingFacts DEF Working, IInv, WindowPassed, Active
<1>4. /\ run' \in [Runs -> RunRows]
      /\ \A s \in Runs \ {r} : run'[s] = run[s]
      /\ run'[r].status = "running" /\ run'[r].windowed /\ run'[r].to = run[r].to
      /\ run'[r].completed = ChunkEnd
  <2> DEFINE new == [run[r] EXCEPT !.completed = ChunkEnd, !.processed = worker.processed]
  <2>1. new \in RunRows /\ new.status = "running" /\ new.windowed /\ new.to = run[r].to
        /\ new.completed = ChunkEnd
    BY <1>1, <1>3 DEF RunRows, WorkerTypes, WorkerRows
  <2>2. run' = [run EXCEPT ![r] = new]
    BY <1>1, <1>3 DEF Checkpoint, RunTypes, RunRows
  <2> QED
    BY <1>1, <2>1, <2>2 DEF RunTypes
<1>5. /\ worker' \in WorkerRows /\ worker'.run = r /\ worker'.after = NoQuery
      /\ worker'.page = worker.page
      /\ worker'.step = (IF ChunkEnd < run[r].to THEN "fetch" ELSE "publish")
  BY <1>1, <1>3 DEF Checkpoint, WorkerTypes, WorkerRows
<1>6. watermark' \in Int /\ watermark' <= run[r].to
  BY <1>1, <1>2, <1>3 DEF ConnTypes, RunRows
<1>7. TypeOK'
  <2>1. ConnTypes'
    BY <1>1, <1>2, <1>6 DEF ConnTypes, WorkerTypes, WorkerRows
  <2> QED
    BY <1>1, <1>2, <1>4, <1>5, <2>1, TypeParts
    DEF SourceTypes, UsageTypes, RunTypes, ReportTypes, WorkerTypes, ReaderTypes
<1>8. SettledShown'
  BY <1>2 DEF IInv, SettledShown, Settled
<1>9. \A q \in ran : /\ run[r].to - Lookback <= started[q] /\ started[q] < ChunkEnd
                     /\ started[q] < run[r].to - Latency
                     => Final(q)
  <2> SUFFICES ASSUME NEW q \in ran, run[r].to - Lookback <= started[q], started[q] < ChunkEnd,
                      started[q] < run[r].to - Latency
               PROVE  Final(q)
    OBVIOUS
  <2>1. CASE started[q] < run[r].completed
    BY <1>3, <2>1 DEF IInv, WindowPassed, Active
  <2>2. CASE run[r].completed <= started[q]
    BY <1>1, <1>2, <1>3, <2>2 DEF IInv, DayPassed, Due, SourceTypes
  <2>3. started[q] \in Int /\ run[r].completed \in Int
    BY <1>1, <1>3 DEF SourceTypes, RunRows
  <2> QED
    BY <2>1, <2>2, <2>3
<1>10. WatermarkPassed'
  <2>1. watermark' <= now
    BY <1>1, <1>3, <1>6 DEF RunRows, SourceTypes
  <2>2. ASSUME NEW q \in ran, now - Lookback <= started[q], started[q] < watermark' - Latency
        PROVE  Final(q)
    <3>1. CASE known /\ watermark' = watermark
      BY <2>2, <3>1 DEF IInv, WatermarkPassed
    <3>2. CASE watermark' = ChunkEnd
      BY <1>1, <1>3, <1>9, <2>2, <3>2, TimesAssumption DEF SourceTypes, RunRows
    <3> QED
      BY <1>2, <3>1, <3>2
  <2> QED
    BY <1>2, <2>1, <2>2 DEF WatermarkPassed, Final
<1>11. RunsShaped'
  BY <1>2, <1>3, <1>4 DEF IInv, RunsShaped, Active, Finished
<1>12. WindowPassed'
  BY <1>2, <1>3, <1>4, <1>6, <1>9 DEF WindowPassed, Final
<1>13. WorkerShaped'
  BY <1>3, <1>4, <1>5, RunsAssumption DEF WorkerShaped, Working, Active, RunRows
<1>14. PageShaped' /\ DayPassed'
  BY <1>2, <1>5 DEF IInv, PageShaped, DayPassed
<1>15. ReportComplete'
  BY <1>2, <1>3, <1>4, ReportsStay DEF IInv, source
<1>16. ReadersFollow'
  BY <1>1, <1>2, <1>3, <1>4, ReadersStay DEF IInv, Shown, LegacySummary, Finished
<1> QED
  BY <1>7, <1>8, <1>10, <1>11, <1>12, <1>13, <1>14, <1>15, <1>16 DEF IInv

LEMMA PublishPreserves ==
  ASSUME IInv, Publish
  PROVE  IInv'
<1>1. /\ SourceTypes /\ UsageTypes /\ ConnTypes /\ RunTypes
      /\ ReportTypes /\ WorkerTypes /\ ReaderTypes
  BY TypeParts DEF IInv
<1>2. /\ now' = now /\ ran' = ran /\ started' = started /\ credits' = credits
      /\ usage' = usage /\ watermark' = watermark /\ known' = known /\ capable' = capable
      /\ reader' = reader /\ latest' = worker.run /\ worker' = AtRest
      /\ worker.step = "publish"
  BY DEF Publish, source, conn
<1>3. PICK r \in Runs :
        /\ r = worker.run /\ run[r] \in RunRows /\ run[r] = Working /\ run[r].status = "running"
        /\ \A s \in Runs \ {r} : run[s].status \notin Active
        /\ run[r].windowed /\ run[r].completed = run[r].to
  BY <1>2, WorkingFacts DEF Working, IInv, WorkerShaped
<1>4. /\ run' \in [Runs -> RunRows]
      /\ \A s \in Runs \ {r} : run'[s] = run[s]
      /\ run'[r].status \in Finished /\ run'[r].windowed /\ run'[r].to = run[r].to
      /\ run'[r].completed = run[r].completed
  <2> DEFINE new == [run[r] EXCEPT !.processed = worker.processed,
                                   !.status = IF worker.available THEN "success" ELSE "partial"]
  <2>1. new \in RunRows /\ new.status \in Finished /\ new.windowed /\ new.to = run[r].to
        /\ new.completed = run[r].completed
    BY <1>1, <1>3 DEF RunRows, WorkerTypes, WorkerRows, Finished
  <2>2. run' = [run EXCEPT ![r] = new]
    BY <1>1, <1>3 DEF Publish, RunTypes, RunRows
  <2> QED
    BY <1>1, <2>1, <2>2 DEF RunTypes
<1> DEFINE frozen == Frozen(run[r].to, worker.available)
<1>5. /\ report' \in [Runs -> Reports] /\ report'[r] = frozen
      /\ \A s \in Runs \ {r} : report'[s] = report[s]
  BY <1>1, <1>3, Shapes DEF Publish, ReportTypes, WorkerTypes, WorkerRows, RunRows
<1>6. TypeOK'
  BY <1>1, <1>2, <1>3, <1>4, <1>5, Shapes, TypeParts
  DEF SourceTypes, UsageTypes, ConnTypes, RunTypes, ReportTypes, WorkerTypes, ReaderTypes
<1>7. SettledShown' /\ WatermarkPassed'
  BY <1>2 DEF IInv, SettledShown, WatermarkPassed, Final, Settled
<1>8. RunsShaped'
  BY <1>2, <1>3, <1>4, <1>5 DEF IInv, RunsShaped, Active, Finished
<1>9. WindowPassed'
  BY <1>3, <1>4 DEF WindowPassed, Active, Finished
<1>10. WorkerShaped' /\ PageShaped' /\ DayPassed'
  BY <1>2, <1>3, <1>4, RunsAssumption
  DEF WorkerShaped, PageShaped, DayPassed, AtRest, Active, Finished
<1>11. ReportComplete'
  <2> SUFFICES ASSUME NEW s \in Runs, NEW q \in ran, report'[s].kind = "frozen",
                      run'[s].to - Lookback <= started[q], started[q] < run'[s].to - Latency
               PROVE  report'[s].credits[q] = credits[q]
    BY <1>2 DEF ReportComplete
  <2>1. CASE s # r
    BY <1>4, <1>5, <2>1 DEF IInv, ReportComplete
  <2>2. CASE s = r
    <3>1. started[q] < run[r].to /\ q \in Queries
      BY <1>1, <1>3, <1>4, <2>2, TimesAssumption DEF SourceTypes, RunRows
    <3>2. Final(q)
      BY <1>3, <1>4, <2>2, <3>1 DEF IInv, WindowPassed, Active
    <3>3. frozen.credits[q] = usage[q].credits
      BY <1>4, <2>2, <3>1, <3>2 DEF Frozen, Final
    <3> QED
      BY <1>5, <2>2, <3>2, <3>3 DEF Final
  <2> QED
    BY <2>1, <2>2
<1>12. ReadersFollow'
  <2>1. \A s \in Runs : run[s].status \in Finished =>
          s # r /\ run'[s] = run[s] /\ report'[s] = report[s] /\ LegacySummary(s)' = LegacySummary(s)
    BY <1>2, <1>3, <1>4, <1>5 DEF LegacySummary, Finished
  <2>2. \A u \in Readers, s \in Runs : Follows(u, s) => Follows(u, s)'
    BY <1>2, <2>1 DEF Follows, Shown
  <2> QED
    BY <1>2, <1>3, <1>4, <2>2 DEF IInv, ReadersFollow
<1> QED
  BY <1>6, <1>7, <1>8, <1>9, <1>10, <1>11, <1>12 DEF IInv

LEMMA FailPreserves ==
  ASSUME IInv, Fail
  PROVE  IInv'
<1>1. /\ SourceTypes /\ UsageTypes /\ ConnTypes /\ RunTypes
      /\ ReportTypes /\ WorkerTypes /\ ReaderTypes
  BY TypeParts DEF IInv
<1>2. /\ now' = now /\ ran' = ran /\ started' = started /\ credits' = credits
      /\ usage' = usage /\ watermark' = watermark /\ known' = known /\ capable' = capable
      /\ report' = report /\ latest' = latest /\ reader' = reader /\ worker' = AtRest
      /\ worker.step # "idle"
  BY DEF Fail, source, conn, IInv, WorkerShaped
<1>3. PICK r \in Runs :
        /\ r = worker.run /\ run[r] \in RunRows /\ run[r] = Working /\ run[r].status = "running"
        /\ \A s \in Runs \ {r} : run[s].status \notin Active
        /\ report[r].kind = "none"
  BY <1>2, WorkingFacts DEF Working
<1>4. /\ run' \in [Runs -> RunRows]
      /\ \A s \in Runs \ {r} : run'[s] = run[s]
      /\ run'[r].status \in {"queued", "failed"}
      /\ run'[r].status = "queued" => run'[r].attempts < MaxAttempts
      /\ run'[r].windowed = run[r].windowed /\ run'[r].to = run[r].to
      /\ run'[r].completed = run[r].completed
  <2> DEFINE new == [run[r] EXCEPT !.status =
                       IF run[r].attempts < MaxAttempts THEN "queued" ELSE "failed"]
  <2>1. /\ new \in RunRows /\ new.status \in {"queued", "failed"}
        /\ new.status = "queued" => new.attempts < MaxAttempts
        /\ new.windowed = run[r].windowed /\ new.to = run[r].to
        /\ new.completed = run[r].completed
    BY <1>3 DEF RunRows, Active
  <2>2. run' = [run EXCEPT ![r] = new]
    BY <1>1, <1>3 DEF Fail, RunTypes, RunRows
  <2> QED
    BY <1>1, <2>1, <2>2 DEF RunTypes
<1>5. TypeOK'
  BY <1>1, <1>2, <1>4, Shapes, TypeParts
  DEF SourceTypes, UsageTypes, ConnTypes, RunTypes, ReportTypes, WorkerTypes, ReaderTypes
<1>6. SettledShown' /\ WatermarkPassed'
  BY <1>2 DEF IInv, SettledShown, WatermarkPassed, Final, Settled
<1>7. RunsShaped'
  BY <1>2, <1>3, <1>4 DEF IInv, RunsShaped, Active, Finished
<1>8. WindowPassed'
  BY <1>2, <1>3, <1>4 DEF IInv, WindowPassed, Final, Active
<1>9. WorkerShaped' /\ PageShaped' /\ DayPassed'
  BY <1>2, <1>3, <1>4, RunsAssumption DEF WorkerShaped, PageShaped, DayPassed, AtRest, Active
<1>10. ReportComplete'
  BY <1>2, <1>3, <1>4, ReportsStay DEF IInv, source
<1>11. ReadersFollow'
  BY <1>1, <1>2, <1>3, <1>4, ReadersStay DEF IInv, Shown, LegacySummary, Finished
<1> QED
  BY <1>5, <1>6, <1>7, <1>8, <1>9, <1>10, <1>11 DEF IInv

-----------------------------------------------------------------------------
(* A reader takes one step: what is left is to say where it is then.       *)
LEMMA ReaderMoves ==
  ASSUME IInv, NEW u \in Readers,
         UNCHANGED <<source, usage, conn, run, report, latest, worker>>,
         ReaderTypes', \A v \in Readers \ {u} : reader'[v] = reader[v],
         reader'[u].step # "idle" => \E r \in Runs : Follows(u, r)'
  PROVE  IInv'
<1>1. /\ SourceTypes /\ UsageTypes /\ ConnTypes /\ RunTypes /\ ReportTypes /\ WorkerTypes
  BY TypeParts DEF IInv
<1>2. /\ now' = now /\ ran' = ran /\ started' = started /\ credits' = credits
      /\ usage' = usage /\ watermark' = watermark /\ known' = known /\ capable' = capable
      /\ run' = run /\ report' = report /\ latest' = latest /\ worker' = worker
  BY DEF source, conn
<1>3. TypeOK'
  BY <1>1, <1>2, TypeParts
  DEF SourceTypes, UsageTypes, ConnTypes, RunTypes, ReportTypes, WorkerTypes
<1>4. ReadersFollow'
  <2>1. \A v \in Readers \ {u}, r \in Runs : Follows(v, r) => Follows(v, r)'
    BY <1>2 DEF Follows, Shown, LegacySummary
  <2> QED
    BY <1>2, <2>1 DEF IInv, ReadersFollow
<1> QED
  BY <1>2, <1>3, <1>4, ImportStays DEF IInv, conn

LEMMA ReadPreserves ==
  ASSUME IInv, Read
  PROVE  IInv'
<1>1. UsageTypes /\ ReportTypes /\ ReaderTypes
  BY TypeParts DEF IInv
<1>2. PICK u \in Readers : Look(u) \/ Aggregate(u) \/ Answer(u) \/ Leave(u)
  BY DEF Read
<1>3. CASE Look(u)
  <2>1. latest \in Runs /\ run[latest].status \in Finished
    BY <1>1, <1>3 DEF Look, IInv, ReadersFollow, ReportTypes
  <2>2. /\ reader'[u].step = "looked" /\ reader'[u].run = latest
        /\ \A v \in Readers \ {u} : reader'[v] = reader[v]
    BY <1>1, <1>3 DEF Look, ReaderTypes
  <2>3. Follows(u, latest)'
    BY <1>3, <2>1, <2>2 DEF Look, Follows
  <2>4. ReaderTypes'
    BY <1>1, <1>3, <2>1, Shapes DEF Look, ReaderTypes
  <2> QED
    BY <1>3, <2>1, <2>2, <2>3, <2>4, ReaderMoves DEF Look
<1>4. CASE Aggregate(u)
  <2>1. PICK r \in Runs : reader[u].run = r /\ run[r].status \in Finished
    BY <1>4 DEF Aggregate, IInv, ReadersFollow, Follows
  <2>2. LegacySummary(r)' = LegacySummary(r)
    BY <1>4 DEF Aggregate, LegacySummary
  <2>3. /\ reader'[u].run = r /\ reader'[u].step = "aggregated"
        /\ reader'[u].report = LegacySummary(r)
    BY <1>1, <1>4, <2>1 DEF Aggregate, ReaderTypes
  <2>4. Follows(u, r)'
    BY <1>4, <2>1, <2>2, <2>3 DEF Aggregate, Follows, Shown
  <2>5. ReaderTypes' /\ \A v \in Readers \ {u} : reader'[v] = reader[v]
    BY <1>1, <1>4, <2>1, Shapes DEF Aggregate, ReaderTypes
  <2> QED
    BY <1>4, <2>1, <2>4, <2>5, ReaderMoves DEF Aggregate
<1>5. CASE Answer(u)
  <2>1. PICK r \in Runs : Follows(u, r)
    BY <1>5 DEF Answer, IInv, ReadersFollow
  <2>2. LegacySummary(r)' = LegacySummary(r)
    BY <1>5 DEF Answer, LegacySummary
  <2>3. /\ reader'[u].run = r /\ reader'[u].step = "answered"
        /\ reader'[u].report = Shown(r)
    BY <1>1, <1>5, <2>1 DEF Answer, ReaderTypes, Follows, Shown
  <2>4. Follows(u, r)'
    BY <1>5, <2>1, <2>2, <2>3 DEF Answer, Follows, Shown
  <2>5. ReaderTypes' /\ \A v \in Readers \ {u} : reader'[v] = reader[v]
    BY <1>1, <1>5, <2>1 DEF Answer, ReaderTypes, ReportTypes, Follows
  <2> QED
    BY <1>5, <2>1, <2>4, <2>5, ReaderMoves DEF Answer
<1>6. CASE Leave(u)
  <2>1. /\ ReaderTypes' /\ \A v \in Readers \ {u} : reader'[v] = reader[v]
        /\ reader'[u].step = "idle"
    BY <1>1, <1>6, Shapes DEF Leave, Unread, ReaderTypes
  <2> QED
    BY <1>6, <2>1, ReaderMoves DEF Leave
<1> QED
  BY <1>2, <1>3, <1>4, <1>5, <1>6

-----------------------------------------------------------------------------
LEMMA StepPreserves == IInv /\ [Next]_vars => IInv'
<1> SUFFICES ASSUME IInv, [Next]_vars PROVE IInv'
  OBVIOUS
<1>1. CASE UNCHANGED vars
  <2>1. UNCHANGED <<source, usage, conn, run, report, latest, worker, reader>>
    BY <1>1 DEF vars
  <2>2. SourceTypes /\ SourceTypes' /\ SourceGrows
    BY <2>1, TypeParts DEF IInv, source, SourceTypes, SourceGrows
  <2>3. SettledShown'
    BY <2>1 DEF IInv, source, SettledShown, Settled
  <2> QED
    BY <2>1, <2>2, <2>3, SourceMoves, SourceTypesSuffice DEF IInv
<1>2. CASE \E q \in Queries : RunQuery(q) \/ Attribute(q)
  BY <1>2, RunQueryPreserves, AttributePreserves
<1>3. CASE Tick
  BY <1>3, TickPreserves
<1>4. CASE \E r \in Runs : Enqueue(r)
  BY <1>4, EnqueuePreserves
<1>5. CASE Validate
  BY <1>5, ValidatePreserves
<1>6. CASE Import
  BY <1>6, ClaimPreserves, BeginPreserves, FetchPagePreserves, StorePagePreserves,
     CheckpointPreserves, PublishPreserves, FailPreserves DEF Import
<1>7. CASE Read
  BY <1>7, ReadPreserves
<1> QED
  BY <1>1, <1>2, <1>3, <1>4, <1>5, <1>6, <1>7 DEF Next

(* The inductive invariant holds in every reachable state.                 *)
THEOREM Invariance == Spec => []IInv
BY InitEstablishes, StepPreserves, PTL DEF Spec

(* Row types, and no attempt beyond the limit (process_snowflake_sync,     *)
(* claim_sync_run).                                                        *)
THEOREM SyncTypes == Spec => []TypeOK
<1>1. IInv => TypeOK
  BY DEF IInv
<1> QED
  BY <1>1, Invariance, PTL

(* A published report lacks no query of its window that Snowflake has had  *)
(* the time to report, and has its last word (usage_window,                *)
(* iter_usage_pages, process_snowflake_sync), for any page size, latency,  *)
(* lookback and day, any interleaving of attempts and late queries.        *)
THEOREM ReportsAreComplete == Spec => []ReportComplete
<1>1. IInv => ReportComplete
  BY DEF IInv
<1> QED
  BY <1>1, Invariance, PTL

(* A reader is shown the report of the run it looked at, captured or not   *)
(* (latest_snowflake_summaries).                                           *)
THEOREM ReadersSeeReports == Spec => []ReaderSeesReport
<1>1. IInv => ReaderSeesReport
  BY DEF IInv, ReaderSeesReport, ReadersFollow, Follows
<1> QED
  BY <1>1, Invariance, PTL

LEMMA KeptByStep ==
  ASSUME IInv, [Next]_vars, NEW r \in Runs, run[r].status \in Finished
  PROVE  Shown(r)' = Shown(r)
<1>1. CASE StorePage
  BY <1>1, CaptureFacts
<1>2. CASE Publish
  <2>1. worker.run # r /\ worker.run \in Runs
    BY <1>2, WorkingFacts DEF Publish, Working, Finished
  <2>2. report'[r] = report[r]
    BY <1>2, <2>1, TypeParts DEF Publish, IInv, ReportTypes
  <2> QED
    BY <1>2, <2>2 DEF Publish, Shown, LegacySummary
<1>3. CASE UNCHANGED <<usage, report>>
  BY <1>3 DEF Shown, LegacySummary
<1>4. StorePage \/ Publish \/ UNCHANGED <<usage, report>>
  BY DEF Next, vars, RunQuery, Attribute, Tick, Enqueue, Validate, Import, Claim, Begin, FetchPage,
         Checkpoint, Fail, Read, Look, Aggregate, Answer, Leave
<1> QED
  BY <1>1, <1>2, <1>3, <1>4

(* What a finished run reports stays what it was                           *)
(* (_preserve_legacy_report).                                              *)
THEOREM ReportsNeverChange == Spec => ReportsKept
<1>1. IInv /\ [Next]_vars =>
        [\A r \in Runs : run[r].status \in Finished => Shown(r)' = Shown(r)]_vars
  BY KeptByStep
<1> QED
  BY <1>1, Invariance, PTL DEF Spec, ReportsKept

-----------------------------------------------------------------------------
(* The refinement: every step is a step of SyncRunQueue or stutters there. *)

(* A run that is taken for the first time has not been tried.              *)
AbsentUntried == \A r \in Runs : run[r].status = "absent" => run[r].attempts = 0

InQueue == {r \in Runs : run[r].status = "queued"}
InWork  == {r \in Runs : run[r].status = "running"}
Outcome ==
  [r \in Runs |->
     IF run[r].status \in Finished \cup {"failed"} THEN run[r].status ELSE "pending"]
Tries   == [r \in Runs |-> run[r].attempts]

LEMMA FirstUntried == Init => AbsentUntried
BY DEF Init, AbsentUntried, Unasked

(* What becomes of a run's window, checkpoint and count is invisible.      *)
LEMMA QueueStutter ==
  ASSUME AbsentUntried,
         \A r \in Runs : run'[r].status = run[r].status /\ run'[r].attempts = run[r].attempts
  PROVE  UNCHANGED Queue!vars /\ AbsentUntried'
BY DEF Queue!vars, AbsentUntried

LEMMA EnqueueSubmits ==
  ASSUME IInv, AbsentUntried, NEW r \in Runs, Enqueue(r)
  PROVE  Queue!Next /\ AbsentUntried'
<1>1. /\ run[r].status = "absent" /\ run[r].attempts = 0
      /\ run'[r].status = "queued" /\ run'[r].attempts = 0
      /\ \A s \in Runs \ {r} : run'[s] = run[s]
  BY TypeParts DEF Enqueue, IInv, RunTypes, AbsentUntried
<1>2. InQueue' = InQueue \cup {r} /\ r \notin InQueue \cup InWork /\ InWork' = InWork
  BY <1>1 DEF InQueue, InWork
<1>3. Outcome' = Outcome /\ Outcome[r] = "pending" /\ Tries' = Tries /\ Tries[r] = 0
  BY <1>1 DEF Outcome, Tries, Finished
<1>4. Queue!Submit(r)
  BY <1>2, <1>3 DEF Queue!Submit, InQueue, InWork, Outcome, Tries
<1> QED
  BY <1>1, <1>4 DEF Queue!Next, AbsentUntried

LEMMA ClaimTakes ==
  ASSUME IInv, AbsentUntried, NEW r \in Runs, Claim(r)
  PROVE  Queue!Next /\ AbsentUntried'
<1>1. run[r].status = "queued" /\ run \in [Runs -> RunRows] /\ run[r].attempts < MaxAttempts
  BY TypeParts DEF Claim, IInv, RunTypes, RunsShaped
<1>2. /\ run'[r].status = "running" /\ run'[r].attempts = run[r].attempts + 1
      /\ \A s \in Runs \ {r} : run'[s] = run[s]
  BY <1>1 DEF Claim, RunRows
<1>3. worker.run \notin Runs
  BY RunsAssumption DEF Claim, AtRest
<1>4. InWork = {}
  BY <1>3 DEF InWork, IInv, WorkerShaped
<1>5. InWork' = {r} /\ r \in InQueue /\ InQueue' = InQueue \ {r}
  BY <1>1, <1>2, <1>4 DEF InWork, InQueue
<1>6. Outcome' = Outcome
  BY <1>1, <1>2 DEF Outcome, Finished
<1>7. Tries' = [Tries EXCEPT ![r] = @ + 1] /\ Tries[r] = run[r].attempts
  BY <1>2 DEF Tries
<1>8. Queue!Take(r)
  BY <1>1, <1>4, <1>5, <1>6, <1>7 DEF Queue!Take, InQueue, InWork, Outcome, Tries
<1> QED
  BY <1>2, <1>8 DEF Queue!Next, AbsentUntried

(* An attempt ends: with a report, to be tried again, or for good.         *)
LEMMA AttemptEnds ==
  ASSUME IInv, AbsentUntried, Publish \/ Fail
  PROVE  Queue!Next /\ AbsentUntried'
<1>1. worker.step # "idle"
  BY DEF Publish, Fail, IInv, WorkerShaped
<1>2. PICK r \in Runs :
        /\ r = worker.run /\ run[r] \in RunRows /\ run[r].status = "running"
        /\ \A s \in Runs \ {r} : run[s].status \notin Active
  BY <1>1, WorkingFacts DEF Working
<1>3. run \in [Runs -> RunRows]
  BY TypeParts DEF IInv, RunTypes
<1>4. /\ run'[r].attempts = run[r].attempts
      /\ run'[r].status \in Finished \cup {"queued", "failed"}
      /\ run'[r].status = "queued" => run[r].attempts < MaxAttempts
      /\ run'[r].status = "failed" => run[r].attempts = MaxAttempts
      /\ \A s \in Runs \ {r} : run'[s] = run[s]
  BY <1>2, <1>3, BoundsAssumption DEF Publish, Fail, RunRows, Finished, Working
<1>5. InWork = {r} /\ InWork' = {}
  BY <1>2, <1>4 DEF InWork, Active, Finished
<1>6. Tries' = Tries /\ Tries[r] = run[r].attempts
  BY <1>4 DEF Tries
<1>7. AbsentUntried'
  BY <1>4 DEF AbsentUntried, Finished
<1>8. CASE run'[r].status = "queued"
  <2>1. InQueue' = InQueue \cup {r} /\ Outcome' = Outcome
    BY <1>2, <1>4, <1>8 DEF InQueue, Outcome, Finished
  <2>2. Queue!GiveBack(r)
    BY <1>4, <1>5, <1>6, <1>8, <2>1 DEF Queue!GiveBack, InQueue, InWork, Outcome, Tries
  <2> QED
    BY <1>7, <2>2 DEF Queue!Next
<1>9. CASE run'[r].status # "queued"
  <2>1. PICK result \in {"success", "partial", "failed"} : result = run'[r].status
    BY <1>4, <1>9 DEF Finished
  <2>2. InQueue' = InQueue /\ Outcome' = [Outcome EXCEPT ![r] = result]
    BY <1>2, <1>4, <2>1 DEF InQueue, Outcome, Finished
  <2>3. Queue!Settle(r, result)
    BY <1>4, <1>5, <1>6, <2>1, <2>2 DEF Queue!Settle, InQueue, InWork, Outcome, Tries
  <2> QED
    BY <1>7, <2>3 DEF Queue!Next
<1> QED
  BY <1>8, <1>9

LEMMA ProgressStutters ==
  ASSUME IInv, AbsentUntried, Begin \/ Checkpoint
  PROVE  UNCHANGED Queue!vars /\ AbsentUntried'
<1>1. worker.step # "idle"
  BY DEF Begin, Checkpoint
<1>2. PICK r \in Runs : r = worker.run /\ run[r] \in RunRows
  BY <1>1, WorkingFacts DEF Working
<1>3. run \in [Runs -> RunRows]
  BY TypeParts DEF IInv, RunTypes
<1>4. \A s \in Runs : run'[s].status = run[s].status /\ run'[s].attempts = run[s].attempts
  <2>1. CASE Begin
    <3> DEFINE row == Windowed(run[r])
    <3>1. row.status = run[r].status /\ row.attempts = run[r].attempts
      BY <1>2 DEF Windowed, RunRows
    <3>2. run' = [run EXCEPT ![r] = row]
      BY <1>2, <2>1 DEF Begin
    <3> HIDE DEF row
    <3> QED
      BY <1>3, <3>1, <3>2
  <2>2. CASE Checkpoint
    BY <1>2, <1>3, <2>2 DEF Checkpoint, RunRows
  <2> QED
    BY <2>1, <2>2
<1> QED
  BY <1>4, QueueStutter

LEMMA QueueStep ==
  IInv /\ AbsentUntried /\ [Next]_vars => [Queue!Next]_(Queue!vars) /\ AbsentUntried'
<1> SUFFICES ASSUME IInv, AbsentUntried, [Next]_vars
             PROVE  [Queue!Next]_(Queue!vars) /\ AbsentUntried'
  OBVIOUS
<1>1. CASE \E r \in Runs : Enqueue(r) \/ Claim(r)
  BY <1>1, EnqueueSubmits, ClaimTakes
<1>2. CASE Publish \/ Fail
  BY <1>2, AttemptEnds
<1>3. CASE Begin \/ Checkpoint
  BY <1>3, ProgressStutters
<1>4. CASE UNCHANGED run
  BY <1>4, QueueStutter
<1> QED
  BY <1>1, <1>2, <1>3, <1>4
     DEF Next, vars, RunQuery, Attribute, Tick, Validate, Import, FetchPage, StorePage,
         Read, Look, Aggregate, Answer, Leave

(* However pages, checkpoints, failures and retries interleave with        *)
(* Snowflake and its readers, seen from the runs it is the queue the       *)
(* worker implements (claim_sync_run, process_snowflake_sync).             *)
THEOREM SyncsStepAsQueue == Spec => QueueSteps
<1>1. Spec => [](IInv /\ AbsentUntried)
  BY Invariance, FirstUntried, QueueStep, PTL DEF Spec
<1> QED
  BY <1>1, QueueStep, PTL DEF Spec, QueueSteps
=============================================================================
