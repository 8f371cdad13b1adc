------------------------- MODULE SnowflakeRowsProofs -------------------------
(***************************************************************************)
(* Proofs about which rows of query_usage are a run's: that it has counted *)
(* each of them once, and asked the access history about each before it    *)
(* says so.  An attempt that ends leaves rows beyond the checkpoint that   *)
(* are not counted; the next attempt meets every one of them again,        *)
(* because a row that is there keeps its place in the day.                 *)
(***************************************************************************)
EXTENDS SnowflakeSyncProofs

Imported(r) == {q \in Queries : usage[q].run = r}

(* The rows up to the checkpoint, and up to the attempt's place in the day. *)
Passed(r) == {q \in Imported(r) : started[q] < run[r].completed}

Behind(q) ==
  IF worker.after = NoQuery THEN started[q] < Working.completed ELSE ~Before(worker.after, q)

Done == {q \in Imported(worker.run) : Behind(q)}

RowsOfRuns ==
  /\ \A q \in Queries : usage[q].run # NoRun => q \in ran /\ credits[q] > 0
  /\ \A r \in Runs :
       run[r].status = "absent" \/ (run[r].status \in Active /\ ~run[r].windowed)
         => Imported(r) = {}

Checkpointed(r) ==
  /\ run[r].processed = Cardinality(Passed(r))
  /\ capable => \A q \in Passed(r) : usage[q].looked
  /\ run[r].windowed =>
       \A q \in Imported(r) : started[q] < SmallerOf(run[r].completed + Day, run[r].to)

(* The page is next in the day, and reaches up to its last query.          *)
PageIsNext ==
  /\ \A q \in worker.page :
       /\ q \in ran /\ credits[q] > 0
       /\ Working.completed <= started[q] /\ started[q] < ChunkEnd
       /\ worker.after # NoQuery => Before(worker.after, q)
       /\ q = worker.last \/ Before(q, worker.last)
  /\ \A q \in Imported(worker.run) :
       \/ Behind(q)
       \/ q \in worker.page
       \/ Cardinality(worker.page) = PageSize /\ Before(worker.last, q)

Placed ==
  /\ worker.processed = Cardinality(Done)
  /\ worker.available => \A q \in Done : usage[q].looked
  /\ worker.after # NoQuery => Working.completed <= started[worker.after]
  /\ worker.step = "publish" => worker.after = NoQuery
  /\ worker.step = "checkpoint" => \A q \in Imported(worker.run) : Behind(q)
  /\ worker.step = "store" => PageIsNext

RowsInv ==
  /\ RowsOfRuns
  /\ \A r \in Runs : run[r].status \in Active => Checkpointed(r)
  /\ worker.step \notin {"idle", "begin"} => Placed

-----------------------------------------------------------------------------
(* Facts that the steps below share.                                       *)
LEMMA RowFacts ==
  ASSUME IInv, RowsInv
  PROVE  /\ \A r \in Runs : Imported(r) \subseteq ran
         /\ \A r \in Runs : \A q \in Imported(r) :
              q \in Queries /\ usage[q].run = r /\ credits[q] > 0
         /\ ran \subseteq Queries
         /\ worker.after # NoQuery => worker.after \in ran
<1>1. SourceTypes
  BY TypeParts DEF IInv
<1> QED
  BY <1>1, RunsAssumption DEF RowsInv, RowsOfRuns, Imported, SourceTypes, IInv, PageShaped

LEMMA BeforeTransitive ==
  ASSUME SourceTypes, NEW p \in Queries, NEW q \in Queries, NEW s \in Queries,
         Before(p, q), Before(q, s)
  PROVE  Before(p, s) /\ started[p] <= started[q] /\ ~Before(q, p)
BY QueriesAssumption DEF SourceTypes, Before

(* Snowflake moves on, or readers do, or the connection is validated.      *)
LEMMA RowsStay ==
  ASSUME IInv, RowsInv, UNCHANGED <<usage, run, worker>>,
         ran \subseteq ran', capable' = capable \/ Idle,
         \A q \in ran : started'[q] = started[q] /\ (credits[q] > 0 => credits'[q] > 0)
  PROVE  RowsInv'
<1>1. /\ \A r \in Runs : Imported(r)' = Imported(r) /\ Passed(r)' = Passed(r)
      /\ \A r \in Runs : \A q \in Imported(r) : started'[q] = started[q]
  BY RowFacts DEF Imported, Passed
<1>2. RowsOfRuns'
  BY <1>1 DEF RowsInv, RowsOfRuns
<1>3. ASSUME NEW r \in Runs, run[r].status \in Active
      PROVE  Checkpointed(r)'
  <2>1. capable' = capable
    BY <1>3 DEF Idle
  <2> QED
    BY <1>1, <1>3, <2>1 DEF RowsInv, Checkpointed, Passed, Imported
<1>4. ASSUME worker.step \notin {"idle", "begin"}
      PROVE  Placed'
  <2>1. worker.run \in Runs
    BY <1>4, WorkingFacts
  <2>2. Working' = Working /\ ChunkEnd' = ChunkEnd
    BY DEF Working, ChunkEnd
  <2>3. \A p, q \in ran : Before(p, q)' = Before(p, q)
    BY DEF Before
  <2>4. \A q \in ran : Behind(q)' = Behind(q)
    BY <2>2, <2>3, RowFacts DEF Behind, Before
  <2>5. Done' = Done
    BY <1>1, <2>1, <2>4, RowFacts DEF Done
  <2>6. ASSUME worker.step = "store"
        PROVE  PageIsNext'
    <3>1. PageIsNext /\ worker.last \in ran
      BY <1>4, <2>6 DEF RowsInv, Placed, IInv, PageShaped
    <3>2. /\ \A q \in ran : Before(q, worker.last)' = Before(q, worker.last)
          /\ \A q \in ran : Before(worker.last, q)' = Before(worker.last, q)
          /\ worker.after # NoQuery =>
               \A q \in ran : Before(worker.after, q)' = Before(worker.after, q)
      BY <2>3, <3>1, RowFacts DEF Before
    <3> QED
      BY <1>1, <2>1, <2>2, <2>4, <3>1, <3>2, RowFacts DEF PageIsNext
  <2> QED
    BY <1>1, <1>4, <2>1, <2>2, <2>4, <2>5, <2>6, RowFacts DEF RowsInv, Placed, Done
<1> QED
  BY <1>2, <1>3, <1>4 DEF RowsInv

(* A run's status moves, and no attempt is in its day then.                *)
LEMMA StatusMoves ==
  ASSUME IInv, RowsInv, UNCHANGED <<source, usage, capable>>,
         worker'.step \in {"idle", "begin"},
         \A r \in Runs : run'[r].status = "absent" => run[r].status = "absent",
         \A r \in Runs : run'[r].status \in Active =>
           /\ run[r].status \in Active
           /\ run'[r].windowed = run[r].windowed /\ run'[r].to = run[r].to
           /\ run'[r].completed = run[r].completed /\ run'[r].processed = run[r].processed
  PROVE  RowsInv'
<1>1. \A r \in Runs : Imported(r)' = Imported(r)
  BY DEF Imported
<1>2. RowsOfRuns'
  BY <1>1 DEF RowsInv, RowsOfRuns, source
<1>3. ASSUME NEW r \in Runs, run'[r].status \in Active
      PROVE  Checkpointed(r)'
  <2>1. Passed(r)' = Passed(r)
    BY <1>1, <1>3 DEF Passed, source
  <2> QED
    BY <1>1, <1>3, <2>1 DEF RowsInv, Checkpointed, source
<1> QED
  BY <1>2, <1>3 DEF RowsInv

LEMMA InitCounts == Init => RowsInv
<1> SUFFICES ASSUME Init PROVE RowsInv
  OBVIOUS
<1>1. IInv
  BY InitEstablishes
<1>2. \A r \in Runs : Unasked.processed = 0 /\ run[r].processed = 0 /\ ~run[r].windowed
  BY DEF Init, Unasked
<1>3. \A q \in Queries : usage[q].run # NoRun =>
        q \in ran /\ usage[q].run = Old /\ run[Old].status \in Finished
  <2>1. PICK past \in BOOLEAN, waiting \in {{}} \cup {{r} : r \in Runs \ {Old}} :
          /\ run = [r \in Runs |-> [Unasked EXCEPT !.status = FirstStatus(r, past, waiting)]]
          /\ \E found \in SUBSET IF TRUE \in Granted THEN ran ELSE {} :
               usage = [q \in Queries |-> IF past /\ q \in ran
                 THEN [run |-> Old, credits |-> 1, allocated |-> q \in found, looked |-> capable]
                 ELSE NoRow]
    BY DEF Init
  <2>2. past => run[Old].status \in Finished
    BY <2>1, RunsAssumption DEF FirstStatus, Finished, Unasked
  <2>3. \A q \in Queries : usage[q].run # NoRun => past /\ q \in ran /\ usage[q].run = Old
    BY <2>1 DEF NoRow
  <2> QED
    BY <2>2, <2>3
<1>4. \A r \in Runs : run[r].status \notin Finished => Imported(r) = {}
  BY <1>3, RunsAssumption DEF Imported
<1>5. \A q \in ran : credits[q] > 0
  BY TypeParts, <1>1 DEF Init, IInv, SourceTypes
<1>6. RowsOfRuns
  BY <1>3, <1>4, <1>5 DEF RowsOfRuns, Active, Finished
<1>7. ASSUME NEW r \in Runs, run[r].status \in Active
      PROVE  Checkpointed(r)
  <2>1. Imported(r) = {}
    BY <1>4, <1>7 DEF Active, Finished
  <2>2. Passed(r) = {} /\ Cardinality(Passed(r)) = 0
    BY <2>1, FS_EmptySet DEF Passed
  <2> QED
    BY <1>2, <2>1, <2>2 DEF Checkpointed
<1> QED
  BY <1>6, <1>7 DEF RowsInv, Init, AtRest

-----------------------------------------------------------------------------
(* One lemma for each step that does more.                                 *)
LEMMA EnqueueCounts ==
  ASSUME IInv, RowsInv, NEW r \in Runs, Enqueue(r)
  PROVE  RowsInv'
<1>1. RunTypes
  BY TypeParts DEF IInv
<1> DEFINE new == [status |-> "queued", attempts |-> 0, windowed |-> TRUE, from |-> WindowStart(now),
                   to |-> now, completed |-> WindowStart(now), processed |-> 0]
<1>2. /\ run'[r] = new /\ new.processed = 0 /\ run[r].status = "absent"
      /\ \A s \in Runs \ {r} : run'[s] = run[s] /\ run[s].status \notin Active
      /\ UNCHANGED <<usage, ran, started, credits, capable, worker>>
  BY <1>1 DEF Enqueue, RunTypes, Idle, source, conn
<1>3. worker.step = "idle"
  BY IdleRests DEF Enqueue
<1>4. \A s \in Runs : Imported(s)' = Imported(s)
  BY <1>2 DEF Imported
<1>5. Imported(r) = {} /\ Passed(r)' = {} /\ Cardinality(Passed(r)') = 0
  BY <1>2, <1>4, FS_EmptySet DEF RowsInv, RowsOfRuns, Passed
<1>6. Checkpointed(r)'
  BY <1>2, <1>4, <1>5 DEF Checkpointed
<1>7. RowsOfRuns'
  BY <1>2, <1>4, <1>5 DEF RowsInv, RowsOfRuns
<1> QED
  BY <1>2, <1>3, <1>6, <1>7 DEF RowsInv

LEMMA ClaimCounts ==
  ASSUME IInv, RowsInv, NEW r \in Runs, Claim(r)
  PROVE  RowsInv'
<1>1. RunTypes
  BY TypeParts DEF IInv
<1> DEFINE new == [run[r] EXCEPT !.status = "running", !.attempts = @ + 1]
<1>2. run[r] \in RunRows /\ run[r].status = "queued"
  BY <1>1 DEF Claim, RunTypes
<1>3. /\ new.status = "running" /\ new.windowed = run[r].windowed /\ new.to = run[r].to
      /\ new.completed = run[r].completed /\ new.processed = run[r].processed
  BY <1>2 DEF RunRows
<1>4. run' = [run EXCEPT ![r] = new]
  BY <1>1, <1>2 DEF Claim, RunTypes, RunRows
<1> HIDE DEF new
<1>5. worker'.step = "begin"
  BY DEF Claim, AtRest
<1> QED
  BY <1>1, <1>2, <1>3, <1>4, <1>5, StatusMoves DEF Claim, RunTypes, Active, conn

LEMMA FailCounts ==
  ASSUME IInv, RowsInv, Fail
  PROVE  RowsInv'
<1>1. RunTypes
  BY TypeParts DEF IInv
<1>2. PICK r \in Runs : r = worker.run /\ run[r] \in RunRows /\ run[r].status = "running"
  BY WorkingFacts DEF Fail, Working, IInv, WorkerShaped
<1> DEFINE new == [run[r] EXCEPT !.status =
                     IF run[r].attempts < MaxAttempts THEN "queued" ELSE "failed"]
<1>3. /\ new.status \in {"queued", "failed"}
      /\ new.windowed = run[r].windowed /\ new.to = run[r].to
      /\ new.completed = run[r].completed /\ new.processed = run[r].processed
  BY <1>2 DEF RunRows
<1>4. run' = [run EXCEPT ![r] = new]
  BY <1>1, <1>2 DEF Fail, RunTypes, RunRows, Working
<1> HIDE DEF new
<1>5. worker'.step = "idle"
  BY DEF Fail, AtRest
<1> QED
  BY <1>1, <1>2, <1>3, <1>4, <1>5, StatusMoves DEF Fail, RunTypes, Active, conn

LEMMA PublishCounts ==
  ASSUME IInv, RowsInv, Publish
  PROVE  RowsInv'
<1>1. RunTypes
  BY TypeParts DEF IInv
<1>2. PICK r \in Runs : r = worker.run /\ run[r] \in RunRows
  BY WorkingFacts DEF Publish, Working
<1> DEFINE new == [run[r] EXCEPT !.processed = worker.processed,
                                 !.status = IF worker.available THEN "success" ELSE "partial"]
<1>3. new.status \in {"success", "partial"}
  BY <1>2 DEF RunRows
<1>4. run' = [run EXCEPT ![r] = new]
  BY <1>1, <1>2 DEF Publish, RunTypes, RunRows
<1> HIDE DEF new
<1>5. worker'.step = "idle"
  BY DEF Publish, AtRest
<1> QED
  BY <1>1, <1>2, <1>3, <1>4, <1>5, StatusMoves DEF Publish, RunTypes, Active, conn

LEMMA BeginCounts ==
  ASSUME IInv, RowsInv, Begin
  PROVE  RowsInv'
<1>1. RunTypes /\ WorkerTypes
  BY TypeParts DEF IInv
<1>2. PICK r \in Runs : /\ r = worker.run /\ run[r] \in RunRows /\ run[r].status = "running"
                        /\ \A s \in Runs \ {r} : run[s].status \notin Active
  BY WorkingFacts DEF Begin, Working
<1> DEFINE row == Windowed(run[r])
<1>3. /\ row.windowed /\ row.status = "running" /\ row.processed = run[r].processed
      /\ run[r].windowed => row = run[r]
  BY <1>2 DEF Windowed, RunRows
<1>4. run'[r] = row /\ \A s \in Runs \ {r} : run'[s] = run[s]
  BY <1>1, <1>2 DEF Begin, RunTypes
<1>5. /\ worker'.run = r /\ worker'.step \in {"fetch", "publish"} /\ worker'.after = NoQuery
      /\ worker'.processed = row.processed /\ worker'.available = capable
  BY <1>1, <1>2 DEF Begin, WorkerTypes, WorkerRows, IInv, PageShaped
<1> HIDE DEF row
<1>6. UNCHANGED <<usage, ran, started, credits, capable>>
  BY DEF Begin, source, conn
<1>7. \A s \in Runs : Imported(s)' = Imported(s)
  BY <1>6 DEF Imported
<1>8. ~run[r].windowed => Imported(r) = {}
  BY <1>2 DEF RowsInv, RowsOfRuns, Active
<1>9. Passed(r)' = Passed(r)
  BY <1>3, <1>4, <1>6, <1>7, <1>8 DEF Passed
<1>10. Checkpointed(r)
  BY <1>2 DEF RowsInv, Active
<1>11. Checkpointed(r)'
  BY <1>3, <1>4, <1>6, <1>7, <1>8, <1>9, <1>10 DEF Checkpointed
<1>12. RowsOfRuns'
  BY <1>2, <1>3, <1>4, <1>6, <1>7 DEF RowsInv, RowsOfRuns, Active
<1>13. Placed'
  <2>1. Done' = Passed(r)'
    BY <1>4, <1>5, <1>6 DEF Done, Passed, Behind, Working
  <2> QED
    BY <1>3, <1>5, <1>6, <1>9, <1>10, <2>1 DEF Placed, Checkpointed
<1> QED
  BY <1>2, <1>4, <1>11, <1>12, <1>13 DEF RowsInv

LEMMA FetchPageCounts ==
  ASSUME IInv, RowsInv, FetchPage
  PROVE  RowsInv'
<1>1. SourceTypes /\ WorkerTypes
  BY TypeParts DEF IInv
<1>2. worker.step = "fetch" /\ UNCHANGED <<usage, ran, started, credits, capable, run>>
  BY DEF FetchPage, source, conn
<1> DEFINE After(page, trying, last) ==
             [worker EXCEPT
               !.step = IF page = {} THEN "checkpoint" ELSE "store",
               !.page = page, !.last = last, !.trying = trying,
               !.got = [q \in Queries |-> IF q \in page THEN credits[q] ELSE 0]]
<1>3. PICK page \in SUBSET Rows, trying \in {worker.trying, FALSE} :
        \E last \in page \cup {NoQuery} :
          IsPage(page, last, Rows) /\ worker' = After(page, trying, last)
  BY DEF FetchPage
<1>4. PICK last \in page \cup {NoQuery} :
        /\ IsPage(page, last, Rows)
        /\ worker' = After(page, trying, last)
  BY <1>3
<1>5. /\ worker'.run = worker.run /\ worker'.after = worker.after
      /\ worker'.processed = worker.processed /\ worker'.available = worker.available
      /\ worker'.page = page /\ worker'.last = last
      /\ worker'.step = (IF page = {} THEN "checkpoint" ELSE "store")
  BY <1>1, <1>4 DEF WorkerTypes, WorkerRows
<1> HIDE DEF After
<1>6. /\ Working' = Working /\ ChunkEnd' = ChunkEnd
      /\ \A r \in Runs : Imported(r)' = Imported(r) /\ Passed(r)' = Passed(r)
      /\ \A q : Behind(q)' = Behind(q)
      /\ Done' = Done
  BY <1>2, <1>5 DEF Working, ChunkEnd, Imported, Passed, Behind, Before, Done
<1>7. /\ worker.run \in Runs /\ Working \in RunRows /\ Checkpointed(worker.run) /\ Placed
      /\ Working.windowed
  BY <1>2, WorkingFacts DEF RowsInv, Active, Working
<1>8. ASSUME NEW q \in Imported(worker.run), ~Behind(q)
      PROVE  q \in Rows
  <2>1. q \in ran /\ q \in Queries /\ credits[q] > 0
    BY <1>7, RowFacts
  <2>2. started[q] < ChunkEnd
    BY <1>7 DEF Checkpointed, ChunkEnd, Working
  <2>3. CASE worker.after = NoQuery
    BY <1>1, <1>7, <1>8, <2>1, <2>2, <2>3 DEF Behind, Rows, SourceTypes, RunRows
  <2>4. CASE worker.after # NoQuery
    <3>1. worker.after \in Queries /\ Before(worker.after, q)
      BY <1>8, <2>4, RowFacts DEF Behind
    <3>2. started[worker.after] <= started[q]
      BY <1>1, <2>1, <3>1 DEF Before, SourceTypes
    <3>3. Working.completed <= started[q]
      BY <1>1, <1>7, <2>1, <2>4, <3>1, <3>2 DEF Placed, SourceTypes, RunRows
    <3> QED
      BY <2>1, <2>2, <3>1, <3>3 DEF Rows
  <2> QED
    BY <2>3, <2>4
<1>9. ASSUME NEW q \in Rows, q \notin page
      PROVE  page # {} /\ Cardinality(page) = PageSize /\ Before(last, q)
  <2>1. Cardinality(page) = PageSize
    BY <1>4, <1>9 DEF IsPage
  <2>2. page # {}
    BY <2>1, FS_EmptySet, BoundsAssumption
  <2>3. Before(last, q)
    BY <1>4, <1>9, <2>2 DEF IsPage
  <2> QED
    BY <2>1, <2>2, <2>3
<1>10. page # {} => PageIsNext'
  <2>1. \A q \in page : q = last \/ Before(q, last)
    BY <1>4 DEF IsPage
  <2>2. \A q \in page : /\ q \in ran /\ credits[q] > 0
                        /\ Working.completed <= started[q] /\ started[q] < ChunkEnd
                        /\ worker.after # NoQuery => Before(worker.after, q)
    BY <1>3 DEF Rows
  <2>3. \A q \in Imported(worker.run) :
          Behind(q) \/ q \in page \/ (Cardinality(page) = PageSize /\ Before(last, q))
    BY <1>8, <1>9
  <2> QED
    BY <1>2, <1>5, <1>6, <1>7, <2>1, <2>2, <2>3 DEF PageIsNext, Before
<1>11. page = {} => \A q \in Imported(worker.run) : Behind(q)
  BY <1>8, <1>9
<1>12. Placed'
  BY <1>2, <1>5, <1>6, <1>7, <1>10, <1>11 DEF Placed
<1>13. RowsOfRuns' /\ \A r \in Runs : Checkpointed(r) => Checkpointed(r)'
  BY <1>2, <1>6 DEF RowsInv, RowsOfRuns, Checkpointed
<1> QED
  BY <1>2, <1>12, <1>13 DEF RowsInv

(* The page joins the rows behind the attempt's place, which moves to its  *)
(* last query; none of it was among them.                                  *)
LEMMA StorePageCounts ==
  ASSUME IInv, RowsInv, StorePage
  PROVE  RowsInv'
<1>1. SourceTypes /\ UsageTypes /\ WorkerTypes
  BY TypeParts DEF IInv
<1>2. /\ worker.step = "store" /\ worker' = Stored
      /\ UNCHANGED <<ran, started, credits, capable, run>>
  BY DEF StorePage, source, conn
<1>3. PICK w \in Runs :
      /\ w = worker.run /\ Working \in RunRows /\ Working.status = "running" /\ Working.windowed
      /\ \A r \in Runs \ {w} : run[r].status \notin Active
      /\ Checkpointed(w) /\ Placed /\ PageIsNext
  BY <1>2, WorkingFacts DEF RowsInv, Active, Working, Placed
<1> DEFINE page == worker.page  last == worker.last
<1>4. page \subseteq ran /\ last \in page /\ last \in Queries /\ page \subseteq Queries
  BY <1>1, <1>2 DEF IInv, PageShaped, SourceTypes
<1>5. PICK found \in SUBSET Queries :
        usage' = [q \in Queries |-> IF q \in worker.page THEN Upserted(q, found) ELSE usage[q]]
  BY <1>1 DEF StorePage, WorkerTypes, WorkerRows
<1>6. /\ \A q \in page : usage'[q].run = w /\ usage'[q].looked = worker.trying
      /\ \A q \in Queries \ page : usage'[q] = usage[q]
  BY <1>3, <1>4, <1>5 DEF Upserted
<1>7. /\ worker'.run = w /\ worker'.after = last
      /\ worker'.step = (IF Cardinality(page) < PageSize THEN "checkpoint" ELSE "fetch")
      /\ worker'.processed = worker.processed + Cardinality(page)
      /\ worker'.available => worker.available /\ worker.trying
  BY <1>1, <1>2, <1>3 DEF Stored, WorkerTypes, WorkerRows
<1> HIDE DEF page, last
<1>8. /\ Imported(w)' = Imported(w) \cup page
      /\ \A r \in Runs \ {w} : Imported(r)' \subseteq Imported(r)
  BY <1>3, <1>4, <1>6 DEF Imported
<1>9. /\ Working' = Working /\ ChunkEnd' = ChunkEnd
      /\ \A q \in Queries : Behind(q)' = ~Before(last, q)
  BY <1>2, <1>3, <1>4, <1>7, QueriesAssumption DEF Working, ChunkEnd, Behind, Before
<1>10. \A q \in page : /\ q \in ran /\ credits[q] > 0
                       /\ Working.completed <= started[q] /\ started[q] < ChunkEnd
                       /\ worker.after # NoQuery => Before(worker.after, q)
                       /\ ~Before(last, q)
  <2>1. ~Before(last, last)
    BY <1>1, <1>4, QueriesAssumption DEF Before, SourceTypes
  <2> QED
    BY <1>1, <1>3, <1>4, <2>1, BeforeTransitive DEF PageIsNext, page, last
<1>11. ASSUME NEW q \in Queries, Behind(q)
       PROVE  ~Before(last, q) /\ q \notin page
  <2>1. CASE worker.after = NoQuery
    <3>1. started[q] < Working.completed /\ Working.completed <= started[last]
      BY <1>4, <1>10, <1>11, <2>1 DEF Behind
    <3> QED
      BY <1>1, <1>3, <1>4, <1>10, <3>1 DEF Before, SourceTypes, RunRows
  <2>2. CASE worker.after # NoQuery
    <3>1. worker.after \in Queries /\ Before(worker.after, last) /\ ~Before(worker.after, q)
      BY <1>4, <1>10, <1>11, <2>2, RowFacts DEF Behind
    <3> QED
      BY <1>1, <1>4, <1>10, <2>2, <3>1, BeforeTransitive
  <2> QED
    BY <2>1, <2>2
<1>12. \A q \in Imported(w) :
         Behind(q) \/ q \in page \/ (Cardinality(page) = PageSize /\ Before(last, q))
  BY <1>3 DEF PageIsNext, page, last
<1>13. Done' = Done \cup page /\ Done \cap page = {}
  <2>1. Done \subseteq Imported(w) /\ \A q \in Imported(w) : q \in Done <=> Behind(q)
    BY <1>3 DEF Done
  <2>2. Imported(w) \subseteq Queries
    BY DEF Imported
  <2>3. Done' = {q \in Imported(w) \cup page : ~Before(last, q)}
    BY <1>4, <1>7, <1>8, <1>9, <2>2 DEF Done
  <2> QED
    BY <1>10, <1>11, <1>12, <2>1, <2>2, <2>3
<1>14. Cardinality(Done') = Cardinality(Done) + Cardinality(page)
  <2>1. IsFiniteSet(Done) /\ IsFiniteSet(page)
    BY <1>4, QueriesAssumption, FS_Subset DEF Done, Imported
  <2>2. Cardinality(Done \cap page) = 0
    BY <1>13, FS_EmptySet
  <2>3. Cardinality(Done) \in Nat /\ Cardinality(page) \in Nat
    BY <2>1, FS_CardinalityType
  <2>4. Cardinality(Done \cup page)
          = Cardinality(Done) + Cardinality(page) - Cardinality(Done \cap page)
    BY <2>1, FS_Union
  <2>5. Cardinality(Done \cup page) = Cardinality(Done) + Cardinality(page)
    BY <2>2, <2>3, <2>4
  <2> QED
    BY <1>13, <2>5
<1>15. Placed'
  <2>1. worker'.processed = Cardinality(Done')
    BY <1>3, <1>7, <1>14 DEF Placed
  <2>2. worker'.available => \A q \in Done' : usage'[q].looked
    <3>1. Done \subseteq Queries
      BY DEF Done, Imported
    <3> QED
      BY <1>3, <1>6, <1>7, <1>13, <3>1 DEF Placed
  <2>3. Working.completed <= started[last]
    BY <1>4, <1>10
  <2>4. Cardinality(page) < PageSize => \A q \in Imported(w)' : Behind(q)'
    <3>1. Cardinality(page) < PageSize => Cardinality(page) # PageSize
      BY BoundsAssumption
    <3>2. Imported(w) \subseteq Queries
      BY DEF Imported
    <3> QED
      BY <1>4, <1>8, <1>9, <1>10, <1>11, <1>12, <3>1, <3>2
  <2> QED
    BY <1>2, <1>7, <1>9, <2>1, <2>2, <2>3, <2>4 DEF Placed
<1>16. Checkpointed(w)'
  <2>1. Working = run[w]
    BY <1>3 DEF Working
  <2>2. Passed(w)' = Passed(w) /\ Passed(w) \cap page = {}
    BY <1>1, <1>2, <1>3, <1>4, <1>8, <1>10, <2>1 DEF Passed, SourceTypes, RunRows
  <2>3. \A q \in Passed(w) : usage'[q] = usage[q]
    BY <1>6, <2>2 DEF Passed, Imported
  <2>4. \A q \in page : started[q] < SmallerOf(run[w].completed + Day, run[w].to)
    BY <1>10, <2>1 DEF ChunkEnd
  <2> QED
    BY <1>2, <1>3, <1>8, <2>2, <2>3, <2>4 DEF Checkpointed
<1>17. RowsOfRuns'
  <2>1. \A q \in Queries : usage'[q].run # NoRun => q \in ran /\ credits[q] > 0
    BY <1>6, <1>10 DEF RowsInv, RowsOfRuns
  <2>2. ASSUME NEW r \in Runs,
               run[r].status = "absent" \/ (run[r].status \in Active /\ ~run[r].windowed)
        PROVE  Imported(r)' = {}
    <3>1. r # w
      BY <1>3, <2>2 DEF Working
    <3> QED
      BY <1>8, <2>2, <3>1 DEF RowsInv, RowsOfRuns
  <2> QED
    BY <1>2, <2>1, <2>2 DEF RowsOfRuns
<1> QED
  BY <1>2, <1>3, <1>15, <1>16, <1>17 DEF RowsInv

LEMMA CheckpointCounts ==
  ASSUME IInv, RowsInv, Checkpoint
  PROVE  RowsInv'
<1>1. SourceTypes /\ RunTypes /\ WorkerTypes
  BY TypeParts DEF IInv
<1>2. /\ UNCHANGED <<usage, ran, started, credits>>
      /\ capable' = worker.available /\ worker.step = "checkpoint"
  BY DEF Checkpoint, source
<1>3. PICK r \in Runs :
        /\ r = worker.run /\ run[r] \in RunRows /\ run[r] = Working /\ run[r].status = "running"
        /\ \A s \in Runs \ {r} : run[s].status \notin Active
        /\ run[r].windowed /\ ChunkEnd \in Int /\ ChunkEnd <= run[r].to
  BY <1>2, WorkingFacts DEF Working
<1> DEFINE new == [run[r] EXCEPT !.completed = ChunkEnd, !.processed = worker.processed]
<1>4. /\ new.status = "running" /\ new.windowed /\ new.to = run[r].to
      /\ new.completed = ChunkEnd /\ new.processed = worker.processed
  BY <1>3 DEF RunRows
<1>5. run' = [run EXCEPT ![r] = new]
  BY <1>1, <1>3 DEF Checkpoint, RunTypes, RunRows
<1> HIDE DEF new
<1>6. run'[r] = new /\ \A s \in Runs \ {r} : run'[s] = run[s]
  BY <1>1, <1>3, <1>5 DEF RunTypes
<1>7. /\ worker'.run = r /\ worker'.after = NoQuery /\ worker'.step \in {"fetch", "publish"}
      /\ worker'.processed = worker.processed /\ worker'.available = worker.available
  BY <1>1, <1>3 DEF Checkpoint, WorkerTypes, WorkerRows
<1>8. \A s \in Runs : Imported(s)' = Imported(s)
  BY <1>2 DEF Imported
<1>9. Placed /\ Checkpointed(r)
  BY <1>2, <1>3 DEF RowsInv, Active
<1>10. Done = Imported(r)
  BY <1>2, <1>3, <1>9 DEF Placed, Done
<1>11. \A q \in Imported(r) : q \in Queries /\ started[q] < ChunkEnd
  BY <1>3, <1>9 DEF Checkpointed, ChunkEnd, Imported
<1>12. Passed(r)' = Imported(r)
  BY <1>2, <1>4, <1>6, <1>8, <1>11 DEF Passed
<1>13. Done' = Imported(r)
  BY <1>2, <1>4, <1>6, <1>7, <1>8, <1>11 DEF Done, Behind, Working
<1>14. ChunkEnd <= SmallerOf(ChunkEnd + Day, run[r].to)
  BY <1>3, TimesAssumption DEF SmallerOf
<1>15. Checkpointed(r)'
  <2>1. \A q \in Imported(r) : started[q] < SmallerOf(ChunkEnd + Day, run[r].to)
    BY <1>1, <1>3, <1>11, <1>14, TimesAssumption DEF SourceTypes, SmallerOf, RunRows
  <2> QED
    BY <1>2, <1>4, <1>6, <1>8, <1>9, <1>10, <1>12, <2>1 DEF Checkpointed, Placed
<1>16. Placed'
  BY <1>2, <1>7, <1>9, <1>10, <1>13 DEF Placed
<1>17. RowsOfRuns'
  BY <1>2, <1>3, <1>4, <1>6, <1>8 DEF RowsInv, RowsOfRuns, Active
<1> QED
  BY <1>3, <1>6, <1>15, <1>16, <1>17 DEF RowsInv

-----------------------------------------------------------------------------
LEMMA StepCounts == IInv /\ RowsInv /\ [Next]_vars => RowsInv'
<1> SUFFICES ASSUME IInv, RowsInv, [Next]_vars PROVE RowsInv'
  OBVIOUS
<1>1. SourceTypes
  BY TypeParts DEF IInv
<1>2. ASSUME NEW q \in Queries, RunQuery(q)
      PROVE  RowsInv'
  <2>1. ran \subseteq ran' /\ \A p \in ran : started'[p] = started[p]
    BY <1>1, <1>2 DEF RunQuery, SourceTypes
  <2> QED
    BY <1>2, <2>1, RowsStay DEF RunQuery, conn
<1>3. ASSUME NEW q \in Queries, Attribute(q)
      PROVE  RowsInv'
  <2>1. \A p \in ran : credits[p] > 0 => credits'[p] > 0
    BY <1>1, <1>3 DEF Attribute, SourceTypes, Credits
  <2> QED
    BY <1>3, <2>1, RowsStay DEF Attribute, conn
<1>4. CASE Tick \/ Validate \/ Read \/ UNCHANGED vars
  BY <1>4, RowsStay
  DEF Tick, Validate, Read, Look, Aggregate, Answer, Leave, vars, source, conn
<1>5. CASE Import
  BY <1>5, ClaimCounts, BeginCounts, FetchPageCounts, StorePageCounts, CheckpointCounts,
     PublishCounts, FailCounts DEF Import
<1> QED
  BY <1>2, <1>3, <1>4, <1>5, EnqueueCounts DEF Next

(* What the places of checkpoint and attempt say of a run's rows holds in  *)
(* every reachable state.                                                  *)
THEOREM RowsInvariance == Spec => []RowsInv
BY InitCounts, StepCounts, Invariance, PTL DEF Spec

(* An attempt that publishes is past its day.                              *)
LEMMA PublishedRows ==
  ASSUME IInv, RowsInv, [Next]_vars, NEW r \in Runs,
         run[r].status = "running", run'[r].status \in Finished
  PROVE  /\ run'[r].processed = Cardinality(Imported(r))
         /\ run'[r].status = "success" => \A q \in Imported(r) : usage[q].looked
<1>1. RunTypes /\ WorkerTypes
  BY TypeParts DEF IInv
<1>2. r = worker.run
  BY DEF IInv, WorkerShaped
<1>3. Publish
  <2>1. ASSUME NEW s \in Runs, Enqueue(s) \/ Claim(s)
        PROVE  run'[r].status \notin Finished
    BY <1>1, <2>1 DEF Enqueue, Claim, RunTypes, Finished
  <2>2. ASSUME Begin \/ Checkpoint \/ Fail
        PROVE  run'[r].status \notin Finished
    <3>1. run[r] \in RunRows /\ run[r] = Working
      BY <1>1, <1>2 DEF RunTypes, Working
    <3>2. Windowed(run[r]).status = "running"
      BY <3>1 DEF Windowed, RunRows
    <3> QED
      BY <1>1, <1>2, <2>2, <3>1, <3>2 DEF Begin, Checkpoint, Fail, RunTypes, RunRows, Finished
  <2>3. CASE UNCHANGED run
    BY <2>3 DEF Finished
  <2> QED
    BY <2>1, <2>2, <2>3
    DEF Next, vars, RunQuery, Attribute, Tick, Validate, Import, FetchPage, StorePage,
        Read, Look, Aggregate, Answer, Leave
<1>4. /\ worker.step = "publish" /\ Placed /\ Checkpointed(r)
      /\ Working = run[r] /\ run[r] \in RunRows /\ run[r].windowed
      /\ run[r].completed = run[r].to
  BY <1>1, <1>2, <1>3 DEF Publish, RowsInv, Active, IInv, WorkerShaped, Working, RunTypes
<1>5. \A q \in Imported(r) : started[q] < run[r].completed
  BY <1>4, TimesAssumption DEF Checkpointed, SmallerOf, RunRows
<1>6. Done = Imported(r)
  BY <1>2, <1>4, <1>5 DEF Done, Behind, Placed
<1>7. /\ run'[r].processed = worker.processed
      /\ run'[r].status = "success" => worker.available
  BY <1>1, <1>2, <1>3, <1>4 DEF Publish, RunTypes, RunRows
<1> QED
  BY <1>4, <1>6, <1>7 DEF Placed

(* A run has counted each of its rows once, whatever attempts imported     *)
(* them and how often (queries_processed of process_snowflake_sync).       *)
THEOREM EachRowCountsOnce == Spec => ProcessedOnce
<1>1. IInv /\ RowsInv /\ [Next]_vars =>
        [\A r \in Runs : run[r].status = "running" /\ run'[r].status \in Finished
           => run'[r].processed = Cardinality({q \in Queries : usage[q].run = r})]_vars
  BY PublishedRows DEF Imported
<1> QED
  BY <1>1, Invariance, RowsInvariance, PTL DEF Spec, ProcessedOnce

(* A run that says attribution is available has asked about each of its    *)
(* rows, also those of attempts that failed (process_snowflake_sync).      *)
THEOREM AvailabilityIsEarned == Spec => AttributionEarned
<1>1. IInv /\ RowsInv /\ [Next]_vars =>
        [\A r \in Runs : run[r].status = "running" /\ run'[r].status = "success"
           => \A q \in Queries : usage[q].run = r => usage[q].looked]_vars
  BY PublishedRows DEF Imported, Finished
<1> QED
  BY <1>1, Invariance, RowsInvariance, PTL DEF Spec, AttributionEarned
=============================================================================
