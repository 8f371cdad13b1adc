----------------------------- MODULE DbtManifest -----------------------------
(***************************************************************************)
(* dbt manifests of one organization: uploads that queue them              *)
(* (enqueue_dbt_manifest), the worker that reconciles datasets and lineage *)
(* with one manifest at a time (process_dbt_manifest), rows that people    *)
(* add meanwhile (create_dataset, create_lineage_edge), and the summary    *)
(* that is shown as the latest (latest_dbt_manifest).                      *)
(*                                                                         *)
(* An import is one transaction; what it writes is seen when it commits.   *)
(* Its reads are statements of their own, so rows may appear after them.   *)
(* Who may claim a run, and that one worker does, is IngestionWorker.      *)
(***************************************************************************)
EXTENDS Integers, FiniteSets

CONSTANTS
  Resources,    \* unique ids of dbt resources
  Manifests,    \* what is uploaded: resources, and entries of depends_on
  Kinds,        \* relationship types; rows without one have each their own
  DependsOn,    \* the type the import gives the edges it adds
  Keys,         \* values of Idempotency-Key a client sends
  Runs,         \* ids of sync_runs, which are compared
  Sessions,     \* concurrent uploads
  MaxAttempts, Backoff,
  Horizon,      \* bound: no upload and no idle time after it
  Additions,    \* bound: rows people add that no import has looked at yet
  NoManifest, NoRun

(* Upstream and downstream.  A pair may have several rows: the unique index *)
(* of lineage_edges includes the type, and to it nulls are all distinct.   *)
Pairs == Resources \X Resources
Links == Pairs \X Kinds

(* An entry of depends_on is a pair and its place in the list, which may   *)
(* name an upstream more than once.                                        *)
ASSUME ManifestsAssumption ==
  /\ \A m \in Manifests :
       /\ m.resources \subseteq Resources
       /\ m.depends \subseteq Pairs \X Nat /\ IsFiniteSet(m.depends)
  /\ NoManifest \notin Manifests
  /\ Keys \cap Manifests = {}

ASSUME RunsAssumption == Runs \subseteq Nat /\ NoRun \notin Runs

ASSUME NumbersAssumption == MaxAttempts \in Nat \ {0} /\ Backoff \in Nat /\ Horizon \in Nat

ASSUME ResourcesAssumption ==
  /\ IsFiniteSet(Resources) /\ IsFiniteSet(Kinds) /\ DependsOn \in Kinds
  /\ Resources \cap Links = {}

VARIABLES
  run,       \* rows of sync_runs with their artifact
  summary,   \* the counts in their details
  upload,    \* what each request is about to insert, and with which queued_at
  dataset,   \* rows of datasets with system dbt: is_active
  edge,      \* rows of lineage_edges with provenance dbt_manifest: is_active
  worker,    \* the run being processed, and the rows its statements have found
  now,
  applied,   \* history: the run imported last
  unseen,    \* history: rows people added that no finished import had read
  late       \* history: runs committed after a later run had been claimed

tables  == <<dataset, edge>>
history == <<applied, unseen, late>>
vars    == <<run, summary, upload, tables, worker, now, history>>

States == {"absent", "active", "inactive"}
Steps  == {"claimed", "datasets", "edges"}
Counts == {"datasets_processed", "datasets_created", "datasets_deactivated",
           "lineage_edges_processed", "lineage_edges_created", "lineage_edges_deactivated"}

NoUpload == [step |-> "idle", manifest |-> NoManifest, key |-> NoManifest, at |-> 0]
AtRest   == [step |-> "idle", run |-> NoRun, datasets |-> {}, edges |-> {}, used |-> {}]
Uncounted == [c \in Counts |-> 0]

RowTypes ==
  /\ run \in [Runs -> [status : {"absent", "queued", "running", "success", "failed"},
                       attempts : 0..MaxAttempts, queuedAt : Nat,
                       manifest : Manifests \cup {NoManifest},
                       key : Keys \cup Manifests \cup {NoManifest}]]
  /\ summary \in [Runs -> [Counts -> Nat]]
  /\ upload \in [Sessions -> [step : {"idle", "inserting"},
                              manifest : Manifests \cup {NoManifest},
                              key : Keys \cup Manifests \cup {NoManifest}, at : Nat]]
  /\ dataset \in [Resources -> States]
  /\ edge \in [Links -> States]
  /\ worker \in [step : {"idle"} \cup Steps, run : Runs \cup {NoRun},
                 datasets : SUBSET Resources, edges : SUBSET Links, used : SUBSET Links]
  /\ now \in Nat
  /\ applied \in Runs \cup {NoRun}
  /\ unseen \subseteq Resources \cup Links
  /\ late \subseteq Runs

(* With the unique index on keys and the foreign keys of an edge.          *)
TypeOK ==
  /\ RowTypes
  /\ \A r, q \in Runs :
       run[r].status # "absent" /\ run[q].status # "absent" /\ run[r].key = run[q].key => r = q
  /\ \A p \in Pairs, k \in Kinds : edge[<<p, k>>] # "absent" =>
       p[1] # p[2] /\ dataset[p[1]] # "absent" /\ dataset[p[2]] # "absent"

Init ==
  /\ run = [r \in Runs |-> [status |-> "absent", attempts |-> 0, queuedAt |-> 0,
                            manifest |-> NoManifest, key |-> NoManifest]]
  /\ summary = [r \in Runs |-> Uncounted]
  /\ upload = [s \in Sessions |-> NoUpload]
  /\ dataset = [u \in Resources |-> "absent"]
  /\ edge = [l \in Links |-> "absent"]
  /\ worker = AtRest
  /\ now = 0
  /\ applied = NoRun
  /\ unseen = {}
  /\ late = {}

Rows    == {r \in Runs : run[r].status # "absent"}
Present == {u \in Resources : dataset[u] # "absent"}
Linked  == {l \in Links : edge[l] # "absent"}
Active(table) == {x \in DOMAIN table : table[x] = "active"}

(* order by queued_at, id                                                  *)
Before(r, q) ==
  \/ run[r].queuedAt < run[q].queuedAt
  \/ run[r].queuedAt = run[q].queuedAt /\ r < q

-----------------------------------------------------------------------------
(* Uploads *)

Existing(key) == {r \in Rows : run[r].key = key}

(* The request's transaction begins, which fixes the default of queued_at, *)
(* and looks the key up: by default the digest of the manifest.  A run     *)
(* that has the key is the answer, whatever has become of it, and nothing  *)
(* changes.                                                                *)
BeginUpload(s) ==
  /\ upload[s].step = "idle" /\ now < Horizon
  /\ \E m \in Manifests, key \in Keys \cup Manifests :
       /\ key \in Manifests => key = m
       /\ Existing(key) = {}
       /\ upload' = [upload EXCEPT ![s] =
            [step |-> "inserting", manifest |-> m, key |-> key, at |-> now]]
  /\ UNCHANGED <<run, summary, tables, worker, now, history>>

(* A later run has been claimed already.                                   *)
Overtaken(r, at) ==
  \E q \in Rows : /\ run[q].status \in {"running", "success"}
                  /\ at < run[q].queuedAt \/ (at = run[q].queuedAt /\ r < q)

(* The inserts of run and artifact and the commit; ids are random.         *)
Insert(s) ==
  /\ upload[s].step = "inserting"
  /\ \E r \in Runs \ Rows :
       /\ run' = [run EXCEPT ![r] =
            [status |-> "queued", attempts |-> 0, queuedAt |-> upload[s].at,
             manifest |-> upload[s].manifest, key |-> upload[s].key]]
       /\ late' = IF Overtaken(r, upload[s].at) THEN late \cup {r} ELSE late
  /\ upload' = [upload EXCEPT ![s] = NoUpload]
  /\ UNCHANGED <<summary, tables, worker, now, applied, unseen>>

(* The unique index on keys.                                               *)
InsertRun(s) == Existing(upload[s].key) = {} /\ Insert(s)

(* _existing_run_after_idempotency_conflict                                *)
InsertConflict(s) ==
  /\ upload[s].step = "inserting"
  /\ Existing(upload[s].key) # {}
  /\ upload' = [upload EXCEPT ![s] = NoUpload]
  /\ UNCHANGED <<run, summary, tables, worker, now, history>>

-----------------------------------------------------------------------------
(* Rows that people add *)

(* What the import has flushed and not committed keeps others waiting at   *)
(* the unique index of datasets; edges are flushed with the commit.        *)
Flushed ==
  IF worker.step = "edges" THEN run[worker.run].manifest.resources \ worker.datasets
  ELSE {}

CreateDataset(u) ==
  /\ dataset[u] = "absent" /\ u \notin Flushed
  /\ Cardinality(unseen) < Additions
  /\ dataset' = [dataset EXCEPT ![u] = "active"]
  /\ unseen' = unseen \cup {u}
  /\ UNCHANGED <<run, summary, upload, edge, worker, now, applied, late>>

(* With provenance dbt_manifest, and with any type or none.                *)
CreateEdge(p, k) ==
  /\ edge[<<p, k>>] = "absent"
  /\ Cardinality(unseen) < Additions
  /\ p[1] # p[2] /\ {p[1], p[2]} \subseteq Present
  /\ edge' = [edge EXCEPT ![<<p, k>>] = "active"]
  /\ unseen' = unseen \cup {<<p, k>>}
  /\ UNCHANGED <<run, summary, upload, dataset, worker, now, applied, late>>

-----------------------------------------------------------------------------
(* The import *)

Claimable == {r \in Rows : run[r].status = "queued" /\ run[r].queuedAt <= now}

AnyInQueue == {r \in Claimable : TRUE}

FirstInQueue == {r \in Claimable : \A q \in Claimable : r = q \/ Before(r, q)}

Claim ==
  /\ worker.step = "idle"
  /\ \E r \in FirstInQueue :
       /\ run[r].attempts < MaxAttempts
       /\ run' = [run EXCEPT ![r].status = "running", ![r].attempts = @ + 1]
       /\ worker' = [AtRest EXCEPT !.step = "claimed", !.run = r]
  /\ UNCHANGED <<summary, upload, tables, now, history>>

Manifest == run[worker.run].manifest

(* The entries that join two resources of the manifest, and their pairs.   *)
Entries(m) ==
  {e \in m.depends :
     e[1][1] # e[1][2] /\ e[1][1] \in m.resources /\ e[1][2] \in m.resources}

PairsOf(rows) == {x[1] : x \in rows}
Depends(m)    == PairsOf(Entries(m))

(* What the import makes of the rows it uses: those of the manifest's      *)
(* pairs, and a new one for a pair without.                                *)
NewEdges(m) == {<<p, DependsOn>> : p \in Depends(m) \ PairsOf(worker.used)}
Wanted(m)   == {l \in worker.used : l[1] \in Depends(m)} \cup NewEdges(m)

(* The query for existing datasets.                                        *)
ReadDatasets ==
  /\ worker.step = "claimed"
  /\ worker' = [worker EXCEPT !.step = "datasets", !.datasets = Present]
  /\ UNCHANGED <<run, summary, upload, tables, now, history>>

(* Somebody has added a row that the import means to insert.               *)
Collides ==
  \/ worker.step = "datasets" /\ (Manifest.resources \ worker.datasets) \cap Present # {}
  \/ worker.step = "edges" /\ NewEdges(Manifest) \cap Linked # {}

(* New datasets are flushed one by one, unless somebody was faster; then   *)
(* the query for existing edges.  Of several rows of one pair the import   *)
(* uses the last in whatever order they come, the others stay as they are. *)
OnePerPair(found) ==
  {used \in SUBSET found :
     /\ PairsOf(used) = PairsOf(found)
     /\ \A x, y \in used : x[1] = y[1] => x = y}

ReadEdges ==
  /\ worker.step = "datasets" /\ ~Collides
  /\ \E used \in OnePerPair(Linked) :
       worker' = [worker EXCEPT !.step = "edges", !.edges = Linked, !.used = used]
  /\ UNCHANGED <<run, summary, upload, tables, now, history>>

(* What becomes of the rows the import uses and adds.                      *)
ReconciledKeeping(table, used, wanted) ==
  [x \in DOMAIN table |-> IF x \in wanted THEN "active" ELSE table[x]]

Reconciled(table, used, wanted) ==
  [x \in DOMAIN table |->
     IF x \in wanted THEN "active"
     ELSE IF x \in used THEN "inactive" ELSE table[x]]

CountedStored(m) ==
  [datasets_processed |-> Cardinality(m.resources),
   datasets_created |-> Cardinality(m.resources \ worker.datasets),
   datasets_deactivated |-> Cardinality(worker.datasets \ m.resources),
   lineage_edges_processed |-> Cardinality(Entries(m)),
   lineage_edges_created |-> Cardinality(NewEdges(m)),
   lineage_edges_deactivated |-> Cardinality(worker.used \ Wanted(m))]

Counted(m) ==
  [datasets_processed |-> Cardinality(m.resources),
   datasets_created |-> Cardinality(m.resources \ worker.datasets),
   datasets_deactivated |->
     Cardinality((worker.datasets \cap Active(dataset)) \ m.resources),
   lineage_edges_processed |-> Cardinality(Entries(m)),
   lineage_edges_created |-> Cardinality(NewEdges(m)),
   lineage_edges_deactivated |->
     Cardinality((worker.used \cap Active(edge)) \ Wanted(m))]

(* The rest of process_dbt_manifest and the worker's final transaction.    *)
Publish ==
  /\ worker.step = "edges" /\ ~Collides
  /\ dataset' = Reconciled(dataset, worker.datasets, Manifest.resources)
  /\ edge' = Reconciled(edge, worker.used, Wanted(Manifest))
  /\ summary' = [summary EXCEPT ![worker.run] = Counted(Manifest)]
  /\ run' = [run EXCEPT ![worker.run].status = "success"]
  /\ applied' = worker.run
  /\ unseen' = unseen \ (worker.datasets \cup worker.edges)
  /\ worker' = AtRest
  /\ UNCHANGED <<upload, now, late>>

(* A collision at an index, or any other error, undoes the import.         *)
Fail ==
  /\ worker.step \in Steps
  /\ LET r == worker.run IN
     run' = [run EXCEPT
       ![r].status = IF run[r].attempts < MaxAttempts THEN "queued" ELSE "failed",
       ![r].queuedAt = IF run[r].attempts < MaxAttempts
                       THEN now + Backoff * run[r].attempts ELSE @]
  /\ worker' = AtRest
  /\ UNCHANGED <<summary, upload, tables, now, history>>

(* The worker dies; its successor recovers the run.                        *)
InterruptGivingUp ==
  /\ worker.step \in Steps
  /\ run' = [run EXCEPT ![worker.run].status = "failed"]
  /\ worker' = AtRest
  /\ UNCHANGED <<summary, upload, tables, now, history>>

Interrupt ==
  /\ worker.step \in Steps
  /\ LET r == worker.run IN
     run' = [run EXCEPT
       ![r].status = IF run[r].attempts < MaxAttempts THEN "queued" ELSE "failed",
       ![r].queuedAt = IF run[r].attempts < MaxAttempts THEN now ELSE @]
  /\ worker' = AtRest
  /\ UNCHANGED <<summary, upload, tables, now, history>>

Tick ==
  /\ now < Horizon \/ \E r \in Rows : run[r].status = "queued" /\ run[r].queuedAt > now
  /\ now' = now + 1
  /\ UNCHANGED <<run, summary, upload, tables, worker, history>>

Next ==
  \/ \E s \in Sessions : BeginUpload(s) \/ InsertRun(s) \/ InsertConflict(s)
  \/ \E u \in Resources : CreateDataset(u)
  \/ \E p \in Pairs, k \in Kinds : CreateEdge(p, k)
  \/ Claim \/ ReadDatasets \/ ReadEdges \/ Publish \/ Fail \/ Interrupt
  \/ Tick

Spec == Init /\ [][Next]_vars

-----------------------------------------------------------------------------
(* Properties *)

(* What is active is what the manifest imported last says, however often   *)
(* an import collided with rows people add, failed or was interrupted and  *)
(* whatever earlier manifests left: its resources and a row for each of    *)
(* its pairs are active, and nothing else is but what people added after   *)
(* it had looked, and rows of a pair of which the import used another,     *)
(* which it has deactivated (process_dbt_manifest).                        *)
Hidden(l) == \E k \in Kinds : edge[<<l[1], k>>] = "inactive"

GraphIsOfManifest ==
  applied \in Runs =>
    LET m == run[applied].manifest IN
    /\ m.resources \subseteq Active(dataset)
    /\ Active(dataset) \ unseen \subseteq m.resources
    /\ Depends(m) \subseteq PairsOf(Active(edge))
    /\ \A l \in Active(edge) \ unseen : l[1] \in Depends(m) \/ Hidden(l)

(* The summary shown as the latest is that of the manifest the graph is    *)
(* of, although a failed run goes back into the queue behind newer ones    *)
(* (user-manual.md: "The summary describes the latest import").  Only an   *)
(* upload so slow that a younger run was claimed before it committed may   *)
(* come in between (latest_dbt_manifest, claim_sync_run).                  *)
IsLatest(r) == \A q \in Rows : q = r \/ Before(q, r)

LatestIsApplied ==
  \A r \in Rows :
    IsLatest(r) /\ run[r].status = "success" /\ applied \notin late => applied = r

(* What a run's summary counts as created and deactivated are the rows its *)
(* import has added and deactivated in the committed tables, whatever      *)
(* people added meanwhile, whichever row of a pair it used and however     *)
(* often a dependency is listed; rows that had been inactive are left out  *)
(* (test_dbt_deactivation_count_excludes_already_inactive_edges).          *)
SummaryCountsChanges ==
  [][\A r \in Runs : run[r].status = "running" /\ run'[r].status = "success" =>
       LET Created(table, later) ==
             Cardinality({x \in DOMAIN table : table[x] = "absent" /\ later[x] # "absent"})
           Deactivated(table, later) ==
             Cardinality({x \in DOMAIN table : table[x] = "active" /\ later[x] = "inactive"})
       IN /\ summary'[r].datasets_created = Created(dataset, dataset')
          /\ summary'[r].datasets_deactivated = Deactivated(dataset, dataset')
          /\ summary'[r].lineage_edges_created = Created(edge, edge')
          /\ summary'[r].lineage_edges_deactivated = Deactivated(edge, edge')]_vars

(* The runs of uploads are served as the queue promises, one at a time and *)
(* settled once, with uploads that wait, imports that collide and workers  *)
(* that die in their place (enqueue_dbt_manifest, claim_sync_run).         *)
Queue == INSTANCE SyncRunQueue WITH
  waiting <- {r \in Runs : run[r].status = "queued"},
  active  <- {r \in Runs : run[r].status = "running"},
  outcome <- [r \in Runs |->
                IF run[r].status \in {"success", "failed"} THEN run[r].status ELSE "pending"],
  tries   <- [r \in Runs |-> run[r].attempts]

ImplementsQueue == Queue!Spec
=============================================================================
