-------------------------- MODULE DbtManifestProofs --------------------------
(***************************************************************************)
(* Proofs about DbtManifest, for any resources, manifests, runs, sessions  *)
(* and number of attempts.  Two arguments: whatever the import's reads did *)
(* not find and is there at its commit was added by people since (unseen), *)
(* and a run that waits comes after every run claimed so far (Ordered).    *)
(***************************************************************************)
EXTENDS DbtManifest, FiniteSetTheorems, TLAPS

Claimed(r) == run[r].status \in {"running", "success"}

RunsShaped ==
  /\ \A r \in Rows : run[r].manifest \in Manifests
  /\ \A s \in Sessions : upload[s].step # "idle" => upload[s].manifest \in Manifests
  /\ late \subseteq Rows

WorkerShaped ==
  /\ worker.step \in Steps => worker.run \in Runs
  /\ \A r \in Runs : run[r].status = "running" <=> worker.step \in Steps /\ worker.run = r
  /\ \A r \in Rows : run[r].status = "running" => run[r].queuedAt <= now

(* What the statements found is still there; what they did not find and is *)
(* there was added since.  Of each pair found the import uses a row.       *)
FoundRows ==
  /\ worker.datasets \subseteq Present /\ worker.edges \subseteq Linked
  /\ worker.used \subseteq worker.edges
  /\ worker.step \in {"datasets", "edges"} => Present \ worker.datasets \subseteq unseen
  /\ worker.step = "edges" =>
       /\ Linked \ worker.edges \subseteq unseen
       /\ PairsOf(worker.edges) \subseteq PairsOf(worker.used)
       /\ (Manifest.resources \ worker.datasets) \cap Present = {}

AppliedShaped ==
  /\ applied \in Runs => run[applied].status = "success"
  /\ \A r \in Rows : run[r].status = "success" => applied \in Runs

(* Runs are claimed in order; only a late row comes before a claimed one.  *)
Ordered ==
  /\ \A r, q \in Rows :
       Claimed(r) /\ run[q].status = "queued" /\ q \notin late => Before(r, q)
  /\ \A r, q \in Rows :
       run[r].status = "success" /\ run[q].status = "running" /\ q \notin late => Before(r, q)
  /\ applied \in Runs \ late =>
       \A r \in Rows : run[r].status = "success" => r = applied \/ Before(r, applied)

IInv ==
  /\ TypeOK
  /\ RunsShaped /\ WorkerShaped /\ FoundRows /\ AppliedShaped
  /\ GraphIsOfManifest /\ Ordered

-----------------------------------------------------------------------------
(* TypeOK in parts that change together.                                   *)
RunRows ==
  [status : {"absent", "queued", "running", "success", "failed"},
   attempts : 0..MaxAttempts, queuedAt : Nat,
   manifest : Manifests \cup {NoManifest}, key : Keys \cup Manifests \cup {NoManifest}]

UploadRows ==
  [step : {"idle", "inserting"}, manifest : Manifests \cup {NoManifest},
   key : Keys \cup Manifests \cup {NoManifest}, at : Nat]

WorkerRows ==
  [step : {"idle"} \cup Steps, run : Runs \cup {NoRun},
   datasets : SUBSET Resources, edges : SUBSET Links, used : SUBSET Links]

RunTypes     == run \in [Runs -> RunRows]
SummaryTypes == summary \in [Runs -> [Counts -> Nat]]
UploadTypes  == upload \in [Sessions -> UploadRows]
TableTypes   == dataset \in [Resources -> States] /\ edge \in [Links -> States]
WorkerTypes  == worker \in WorkerRows
HistoryTypes ==
  /\ now \in Nat
  /\ applied \in Runs \cup {NoRun} /\ unseen \subseteq Resources \cup Links
  /\ late \subseteq Runs

KeysUnique ==
  \A r, q \in Runs :
    run[r].status # "absent" /\ run[q].status # "absent" /\ run[r].key = run[q].key => r = q

EdgesJoin ==
  \A p \in Pairs, k \in Kinds : edge[<<p, k>>] # "absent" =>
    p[1] # p[2] /\ dataset[p[1]] # "absent" /\ dataset[p[2]] # "absent"

LEMMA TypeParts ==
  /\ TypeOK <=> /\ RunTypes /\ SummaryTypes /\ UploadTypes /\ TableTypes
                /\ WorkerTypes /\ HistoryTypes /\ KeysUnique /\ EdgesJoin
  /\ TypeOK' <=> /\ RunTypes' /\ SummaryTypes' /\ UploadTypes' /\ TableTypes'
                 /\ WorkerTypes' /\ HistoryTypes' /\ KeysUnique' /\ EdgesJoin'
BY DEF TypeOK, RowTypes, RunTypes, SummaryTypes, UploadTypes, TableTypes, WorkerTypes,
       HistoryTypes, KeysUnique, EdgesJoin, RunRows, UploadRows, WorkerRows

(* The graph and the manifest it is of are the same as before.            *)
LEMMA SameGraph ==
  ASSUME GraphIsOfManifest, UNCHANGED <<dataset, edge, unseen, applied>>,
         applied \in Runs => run'[applied].manifest = run[applied].manifest
  PROVE  GraphIsOfManifest'
<1>1. \A l : Hidden(l)' <=> Hidden(l)
  BY DEF Hidden
<1>2. SUFFICES ASSUME applied \in Runs
               PROVE  LET m == run[applied].manifest IN
                      /\ m.resources \subseteq Active(dataset)
                      /\ Active(dataset) \ unseen \subseteq m.resources
                      /\ Depends(m) \subseteq PairsOf(Active(edge))
                      /\ \A l \in Active(edge) \ unseen : l[1] \in Depends(m) \/ Hidden(l)'
  BY DEF GraphIsOfManifest
<1> QED BY <1>1, <1>2 DEF GraphIsOfManifest

(* Nothing but an upload has changed.                                      *)
LEMMA UploadOnly ==
  ASSUME IInv, UNCHANGED <<run, summary, tables, worker, now, history>>,
         UploadTypes',
         \A s \in Sessions : upload'[s].step # "idle" => upload'[s].manifest \in Manifests
  PROVE  IInv'
<1>1. TypeOK'
  BY TypeParts DEF IInv, RunTypes, SummaryTypes, TableTypes, WorkerTypes, HistoryTypes,
     KeysUnique, EdgesJoin, tables, history
<1>2. RunsShaped' /\ WorkerShaped' /\ AppliedShaped'
  BY DEF IInv, RunsShaped, WorkerShaped, AppliedShaped, Rows, tables, history
<1>3. FoundRows'
  BY DEF IInv, FoundRows, Present, Linked, Manifest, tables, history
<1>4. GraphIsOfManifest'
  BY SameGraph DEF IInv, tables, history
<1>5. Ordered'
  BY DEF IInv, Ordered, Claimed, Before, Rows, history
<1> QED BY <1>1, <1>2, <1>3, <1>4, <1>5 DEF IInv

LEMMA BeginUploadPreserves ==
  ASSUME IInv, NEW s \in Sessions, BeginUpload(s) PROVE IInv'
<1>1. PICK m \in Manifests, key \in Keys \cup Manifests :
        upload' = [upload EXCEPT ![s] =
          [step |-> "inserting", manifest |-> m, key |-> key, at |-> now]]
  BY DEF BeginUpload
<1>2. UploadTypes /\ now \in Nat
  BY TypeParts DEF IInv, HistoryTypes
<1>3. UploadTypes'
  BY <1>1, <1>2 DEF UploadTypes, UploadRows
<1>4. \A u \in Sessions : upload'[u].step # "idle" => upload'[u].manifest \in Manifests
  BY <1>1, <1>2 DEF UploadTypes, IInv, RunsShaped
<1> QED BY <1>3, <1>4, UploadOnly DEF BeginUpload

LEMMA ConflictPreserves ==
  ASSUME IInv, NEW s \in Sessions, InsertConflict(s) PROVE IInv'
<1>1. UploadTypes
  BY TypeParts DEF IInv
<1>2. UploadTypes'
  BY <1>1 DEF InsertConflict, UploadTypes, UploadRows, NoUpload
<1>3. \A u \in Sessions : upload'[u].step # "idle" => upload'[u].manifest \in Manifests
  BY <1>1 DEF InsertConflict, NoUpload, UploadTypes, UploadRows, IInv, RunsShaped
<1> QED BY <1>2, <1>3, UploadOnly DEF InsertConflict

LEMMA InsertPreserves ==
  ASSUME IInv, NEW s \in Sessions, InsertRun(s) PROVE IInv'
<1> DEFINE New == [status |-> "queued", attempts |-> 0, queuedAt |-> upload[s].at,
                   manifest |-> upload[s].manifest, key |-> upload[s].key]
<1>1. PICK r \in Runs \ Rows :
        /\ run' = [run EXCEPT ![r] = New]
        /\ late' = IF Overtaken(r, upload[s].at) THEN late \cup {r} ELSE late
  BY DEF InsertRun, Insert
<1>2. UploadTypes /\ RunTypes /\ upload[s].step = "inserting"
  BY TypeParts DEF IInv, InsertRun, Insert
<1>3. /\ upload[s] \in UploadRows /\ upload[s].manifest \in Manifests
      /\ upload[s].at \in Nat
  BY <1>2 DEF UploadTypes, UploadRows, IInv, RunsShaped
<1>4. New \in RunRows
  BY <1>3, NumbersAssumption DEF RunRows, UploadRows
<1>5. RunTypes' /\ run'[r] = New /\ \A q \in Runs \ {r} : run'[q] = run[q]
  BY <1>1, <1>2, <1>4 DEF RunTypes
<1>6. run[r].status = "absent" /\ Rows' = Rows \cup {r} /\ r \notin late
  BY <1>1, <1>5 DEF Rows, IInv, RunsShaped
<1> HIDE DEF New
<1>7. New.status = "queued" /\ New.queuedAt = upload[s].at /\ New.manifest \in Manifests
      /\ New.key = upload[s].key
  BY <1>3 DEF New
<1>8. TypeOK'
  <2>1. KeysUnique'
    <3>1. \A q \in Runs : run[q].status # "absent" => run[q].key # upload[s].key
      BY DEF InsertRun, Existing, Rows
    <3> QED BY <3>1, <1>5, <1>7, TypeParts DEF IInv, KeysUnique
  <2>2. UploadTypes'
    BY <1>2 DEF Insert, InsertRun, UploadTypes, UploadRows, NoUpload
  <2>3. HistoryTypes'
    BY <1>1, TypeParts DEF IInv, HistoryTypes, InsertRun, Insert
  <2>4. SummaryTypes' /\ TableTypes' /\ WorkerTypes' /\ EdgesJoin'
    BY TypeParts DEF IInv, SummaryTypes, TableTypes, WorkerTypes, EdgesJoin, InsertRun, Insert, tables
  <2> QED BY <1>5, <2>1, <2>2, <2>3, <2>4, TypeParts
<1>9. RunsShaped'
  <2>1. \A u \in Sessions : upload'[u].step # "idle" => upload'[u].manifest \in Manifests
    BY <1>2, <1>3 DEF IInv, RunsShaped, InsertRun, Insert, UploadTypes, UploadRows, NoUpload
  <2> QED BY <2>1, <1>1, <1>5, <1>6, <1>7 DEF IInv, RunsShaped
<1>10. WorkerShaped'
  BY <1>5, <1>6, <1>7 DEF IInv, WorkerShaped, InsertRun, Insert, Rows
<1>11. FoundRows'
  <2>1. worker.step = "edges" => worker.run \in Runs /\ worker.run # r
    BY <1>6 DEF IInv, WorkerShaped, Steps
  <2>2. worker.step = "edges" => Manifest' = Manifest
    BY <2>1, <1>5 DEF Manifest, InsertRun, Insert
  <2> QED BY <2>2 DEF IInv, FoundRows, Present, Linked, InsertRun, Insert, tables
<1>12. AppliedShaped'
  BY <1>5, <1>6, <1>7 DEF IInv, AppliedShaped, InsertRun, Insert
<1>13. GraphIsOfManifest'
  <2>1. applied \in Runs => applied # r
    BY <1>6 DEF IInv, AppliedShaped
  <2> QED BY <2>1, <1>5, SameGraph DEF IInv, InsertRun, Insert, tables
<1>14. Ordered'
  <2>1. \A q \in Rows : run'[q] = run[q] /\ q # r /\ run[q].queuedAt \in Nat
    BY <1>5, <1>6, <1>2 DEF Rows, RunTypes, RunRows
  <2>2. \A q, p \in Rows : Before(q, p)' <=> Before(q, p)
    BY <2>1 DEF Before
  <2>3. r \notin late' => \A q \in Rows : Claimed(q) => Before(q, r)'
    <3> SUFFICES ASSUME r \notin late', NEW q \in Rows, Claimed(q) PROVE Before(q, r)'
      OBVIOUS
    <3>1. ~(upload[s].at < run[q].queuedAt \/ (upload[s].at = run[q].queuedAt /\ r < q))
      BY <1>1 DEF Overtaken, Claimed
    <3>2. q \in Nat /\ r \in Nat /\ q # r
      BY <2>1, RunsAssumption DEF Rows
    <3> QED BY <3>1, <3>2, <2>1, <1>3, <1>5, <1>7 DEF Before
  <2>4. applied' = applied /\ (applied \in Runs => applied \in Rows) /\ late \subseteq late'
    BY <1>1 DEF InsertRun, Insert, IInv, AppliedShaped, Rows
  <2> QED BY <2>1, <2>2, <2>3, <2>4, <1>5, <1>6, <1>7 DEF IInv, Ordered, Claimed
<1> QED BY <1>8, <1>9, <1>10, <1>11, <1>12, <1>13, <1>14 DEF IInv

-----------------------------------------------------------------------------
LEMMA CreateDatasetPreserves ==
  ASSUME IInv, NEW u \in Resources, CreateDataset(u) PROVE IInv'
<1>1. TableTypes /\ EdgesJoin
  BY TypeParts DEF IInv
<1>2. dataset'[u] = "active" /\ \A x \in Resources \ {u} : dataset'[x] = dataset[x]
  BY <1>1 DEF CreateDataset, TableTypes
<1>3. Present' = Present \cup {u} /\ u \notin Present /\ Linked' = Linked
  BY <1>2 DEF Present, Linked, CreateDataset
<1>4. Active(dataset)' = Active(dataset) \cup {u} /\ Active(edge)' = Active(edge)
  BY <1>1, <1>2 DEF Active, CreateDataset, TableTypes
<1>5. TypeOK'
  <2>1. TableTypes'
    BY <1>1 DEF CreateDataset, TableTypes, States
  <2>2. EdgesJoin'
    <3>1. \A p \in Pairs : p[1] \in Resources /\ p[2] \in Resources
      BY DEF Pairs
    <3> QED BY <3>1, <1>1, <1>2 DEF EdgesJoin, CreateDataset
  <2>3. HistoryTypes'
    BY TypeParts DEF IInv, HistoryTypes, CreateDataset
  <2> QED BY <2>1, <2>2, <2>3, TypeParts
          DEF IInv, RunTypes, SummaryTypes, UploadTypes, WorkerTypes, KeysUnique, CreateDataset
<1>6. RunsShaped' /\ WorkerShaped' /\ AppliedShaped'
  BY DEF IInv, RunsShaped, WorkerShaped, AppliedShaped, Rows, CreateDataset
<1>7. FoundRows'
  <2>1. worker.step = "edges" => u \notin Manifest.resources \ worker.datasets
    BY DEF CreateDataset, Flushed, Manifest
  <2> QED BY <2>1, <1>3 DEF IInv, FoundRows, Manifest, CreateDataset
<1>8. GraphIsOfManifest'
  BY <1>4 DEF IInv, GraphIsOfManifest, Depends, Entries, PairsOf, Hidden, CreateDataset
<1>9. Ordered'
  BY DEF IInv, Ordered, Claimed, Before, Rows, CreateDataset
<1> QED BY <1>5, <1>6, <1>7, <1>8, <1>9 DEF IInv

LEMMA CreateEdgePreserves ==
  ASSUME IInv, NEW p \in Pairs, NEW k \in Kinds, CreateEdge(p, k) PROVE IInv'
<1> DEFINE l == <<p, k>>
<1>1. TableTypes /\ EdgesJoin /\ l \in Links
  BY TypeParts DEF IInv, Links
<1>2. edge'[l] = "active" /\ \A x \in Links \ {l} : edge'[x] = edge[x]
  BY <1>1 DEF CreateEdge, TableTypes
<1>3. Linked' = Linked \cup {l} /\ Present' = Present
  BY <1>1, <1>2 DEF Present, Linked, CreateEdge
<1>4. Active(edge)' = Active(edge) \cup {l} /\ Active(dataset)' = Active(dataset)
  BY <1>1, <1>2 DEF Active, CreateEdge, TableTypes
<1>5. TypeOK'
  <2>1. TableTypes'
    BY <1>1 DEF CreateEdge, TableTypes, States
  <2>2. EdgesJoin'
    <3> SUFFICES ASSUME NEW q \in Pairs, NEW kind \in Kinds, edge'[<<q, kind>>] # "absent"
                 PROVE  q[1] # q[2] /\ dataset'[q[1]] # "absent" /\ dataset'[q[2]] # "absent"
      BY DEF EdgesJoin
    <3>1. dataset' = dataset
      BY DEF CreateEdge
    <3>2. CASE <<q, kind>> = l
      <4>1. q = p
        BY <3>2
      <4> QED BY <4>1, <3>1 DEF CreateEdge, Present
    <3>3. CASE <<q, kind>> # l
      <4>1. edge[<<q, kind>>] # "absent"
        BY <3>3, <1>2 DEF Links
      <4> QED BY <4>1, <3>1, <1>1 DEF EdgesJoin
    <3> QED BY <3>2, <3>3
  <2>3. HistoryTypes'
    BY <1>1, TypeParts DEF IInv, HistoryTypes, CreateEdge
  <2> QED BY <2>1, <2>2, <2>3, TypeParts
          DEF IInv, RunTypes, SummaryTypes, UploadTypes, WorkerTypes, KeysUnique, CreateEdge
<1>6. RunsShaped' /\ WorkerShaped' /\ AppliedShaped'
  BY DEF IInv, RunsShaped, WorkerShaped, AppliedShaped, Rows, CreateEdge
<1>7. FoundRows'
  <2>1. unseen' = unseen \cup {l} /\ worker' = worker /\ run' = run
    BY DEF CreateEdge
  <2> QED BY <2>1, <1>3 DEF IInv, FoundRows, Manifest, PairsOf
<1>8. GraphIsOfManifest'
  <2> SUFFICES ASSUME applied \in Runs
               PROVE  LET m == run[applied].manifest IN
                      /\ m.resources \subseteq Active(dataset)'
                      /\ Active(dataset)' \ unseen' \subseteq m.resources
                      /\ Depends(m) \subseteq PairsOf(Active(edge)')
                      /\ \A x \in Active(edge)' \ unseen' : x[1] \in Depends(m) \/ Hidden(x)'
    BY DEF GraphIsOfManifest, Depends, Entries, PairsOf, CreateEdge
  <2> DEFINE m == run[applied].manifest
  <2>1. /\ m.resources \subseteq Active(dataset)
        /\ Active(dataset) \ unseen \subseteq m.resources
        /\ Depends(m) \subseteq PairsOf(Active(edge))
        /\ \A x \in Active(edge) \ unseen : x[1] \in Depends(m) \/ Hidden(x)
    BY DEF IInv, GraphIsOfManifest
  <2> HIDE DEF m
  <2>2. unseen' = unseen \cup {l}
    BY DEF CreateEdge
  <2>3. Depends(m) \subseteq PairsOf(Active(edge)')
    BY <2>1, <1>4 DEF PairsOf
  <2>4. ASSUME NEW x \in Links, Hidden(x) PROVE Hidden(x)'
    <3>1. PICK kind \in Kinds : edge[<<x[1], kind>>] = "inactive"
      BY <2>4 DEF Hidden
    <3>2. <<x[1], kind>> \in Links /\ <<x[1], kind>> # l
      BY <2>4, <3>1 DEF Links, CreateEdge
    <3> QED BY <3>1, <3>2, <1>2 DEF Hidden
  <2>5. Active(edge) \subseteq Links
    BY <1>1 DEF Active, TableTypes
  <2>6. \A x \in Active(edge)' \ unseen' : x[1] \in Depends(m) \/ Hidden(x)'
    BY <2>1, <2>2, <2>4, <2>5, <1>4
  <2> QED BY <2>1, <2>2, <2>3, <2>6, <1>4 DEF m
<1>9. Ordered'
  BY DEF IInv, Ordered, Claimed, Before, Rows, CreateEdge
<1> QED BY <1>5, <1>6, <1>7, <1>8, <1>9 DEF IInv

LEMMA TickPreserves == ASSUME IInv, Tick PROVE IInv'
<1>1. TypeOK' /\ now' \in Nat /\ now' = now + 1 /\ now \in Nat
  BY TypeParts DEF IInv, RunTypes, SummaryTypes, UploadTypes, TableTypes, WorkerTypes,
     HistoryTypes, KeysUnique, EdgesJoin, Tick, tables, history
<1>2. RunsShaped' /\ AppliedShaped'
  BY DEF IInv, RunsShaped, AppliedShaped, Rows, Tick, history
<1>3. WorkerShaped'
  <2>1. \A r \in Rows : run[r].queuedAt \in Nat
    BY TypeParts DEF IInv, RunTypes, RunRows, Rows
  <2> QED BY <2>1, <1>1 DEF IInv, WorkerShaped, Rows, Tick
<1>4. FoundRows'
  BY DEF IInv, FoundRows, Present, Linked, Manifest, Tick, tables, history
<1>5. GraphIsOfManifest'
  BY SameGraph DEF IInv, Tick, tables, history
<1>6. Ordered'
  BY DEF IInv, Ordered, Claimed, Before, Rows, Tick, history
<1> QED BY <1>1, <1>2, <1>3, <1>4, <1>5, <1>6 DEF IInv

-----------------------------------------------------------------------------
LEMMA ClaimPreserves == ASSUME IInv, Claim PROVE IInv'
<1>1. PICK r \in FirstInQueue :
        /\ run[r].attempts < MaxAttempts
        /\ run' = [run EXCEPT ![r].status = "running", ![r].attempts = @ + 1]
        /\ worker' = [AtRest EXCEPT !.step = "claimed", !.run = r]
  BY DEF Claim
<1>2. /\ r \in Rows /\ r \in Runs /\ run[r].status = "queued" /\ run[r].queuedAt <= now
      /\ \A q \in Claimable : r = q \/ Before(r, q)
  BY <1>1 DEF FirstInQueue, Claimable, Rows
<1>3. RunTypes /\ run[r] \in RunRows /\ now \in Nat
  BY <1>2, TypeParts DEF IInv, RunTypes, HistoryTypes
<1>4. /\ run'[r] = [run[r] EXCEPT !.status = "running", !.attempts = @ + 1]
      /\ run' = [run EXCEPT ![r] = [run[r] EXCEPT !.status = "running", !.attempts = @ + 1]]
  BY <1>1, <1>2, <1>3 DEF RunTypes
<1>5. [run[r] EXCEPT !.status = "running", !.attempts = @ + 1] \in RunRows
  <2>1. run[r].attempts \in 0..MaxAttempts /\ run[r].attempts + 1 \in 0..MaxAttempts
    BY <1>1, <1>3, NumbersAssumption DEF RunRows
  <2> QED BY <2>1, <1>3 DEF RunRows
<1>6. RunTypes' /\ \A q \in Runs \ {r} : run'[q] = run[q]
  BY <1>2, <1>3, <1>4, <1>5 DEF RunTypes
<1>7. /\ run'[r].status = "running" /\ run'[r].queuedAt = run[r].queuedAt
      /\ run'[r].manifest = run[r].manifest /\ run'[r].key = run[r].key
  BY <1>3, <1>4 DEF RunRows
<1>8. Rows' = Rows
  BY <1>2, <1>6, <1>7 DEF Rows
<1>9. /\ worker'.step = "claimed" /\ worker'.run = r
      /\ worker'.datasets = {} /\ worker'.edges = {} /\ worker'.used = {}
      /\ worker' \in WorkerRows
  BY <1>1, <1>2 DEF AtRest, WorkerRows, Steps
<1>10. \A q \in Runs : run[q].status # "running"
  BY DEF IInv, WorkerShaped, Claim, Steps
<1>11. TypeOK'
  <2>1. KeysUnique'
    BY <1>2, <1>6, <1>7, TypeParts DEF IInv, KeysUnique
  <2> QED BY <2>1, <1>6, <1>9, TypeParts
          DEF IInv, SummaryTypes, UploadTypes, TableTypes, WorkerTypes, HistoryTypes, EdgesJoin,
              Claim, tables, history
<1>12. RunsShaped'
  <2>1. \A q \in Rows : run'[q].manifest = run[q].manifest
    BY <1>6, <1>7 DEF Rows
  <2>2. upload' = upload /\ late' = late
    BY DEF Claim, history
  <2> QED BY <2>1, <2>2, <1>8 DEF IInv, RunsShaped
<1>13. WorkerShaped'
  <2>1. \A q \in Runs : run'[q].status = "running" <=> q = r
    BY <1>2, <1>6, <1>7, <1>10
  <2>2. run'[r].queuedAt <= now'
    BY <1>2, <1>7 DEF Claim
  <2> QED BY <2>1, <2>2, <1>2, <1>9 DEF WorkerShaped, Steps, Rows
<1>14. FoundRows'
  BY <1>9 DEF FoundRows, Steps
<1>15. AppliedShaped'
  BY <1>2, <1>6, <1>7, <1>8 DEF IInv, AppliedShaped, Claim, history, Rows
<1>16. GraphIsOfManifest'
  <2>1. applied \in Runs => applied # r
    BY <1>2 DEF IInv, AppliedShaped
  <2> QED BY <2>1, <1>6, SameGraph DEF IInv, Claim, tables, history
<1>17. Ordered'
  <2>1. \A q, p \in Rows : Before(q, p)' <=> Before(q, p)
    BY <1>6, <1>7 DEF Before, Rows
  <2>2. \A q \in Rows : run[q].status = "queued" /\ q # r => Before(r, q)
    <3> SUFFICES ASSUME NEW q \in Rows, run[q].status = "queued", q # r PROVE Before(r, q)
      OBVIOUS
    <3>1. run[q].queuedAt \in Nat /\ run[r].queuedAt \in Nat
      BY <1>2, <1>3 DEF Rows, RunTypes, RunRows
    <3>2. CASE run[q].queuedAt <= now
      BY <3>2, <1>2 DEF Claimable
    <3>3. CASE ~(run[q].queuedAt <= now)
      BY <3>3, <3>1, <1>2, <1>3 DEF Before
    <3> QED BY <3>2, <3>3
  <2>3. late' = late /\ applied' = applied /\ (applied \in Runs => applied \in Rows)
    BY DEF Claim, history, IInv, AppliedShaped, Rows
  <2> QED BY <2>1, <2>2, <2>3, <1>2, <1>6, <1>7, <1>8, <1>10 DEF IInv, Ordered, Claimed, Rows
<1> QED BY <1>11, <1>12, <1>13, <1>14, <1>15, <1>16, <1>17 DEF IInv

LEMMA ReadDatasetsPreserves == ASSUME IInv, ReadDatasets PROVE IInv'
<1>1. WorkerTypes /\ worker.step = "claimed"
  BY TypeParts DEF IInv, ReadDatasets
<1>2. /\ worker'.step = "datasets" /\ worker'.run = worker.run
      /\ worker'.datasets = Present /\ worker'.edges = worker.edges
      /\ worker'.used = worker.used
  BY <1>1 DEF ReadDatasets, WorkerTypes, WorkerRows
<1>3. WorkerTypes'
  BY <1>1 DEF ReadDatasets, WorkerTypes, WorkerRows, Steps, Present
<1>4. TypeOK'
  BY <1>3, TypeParts DEF IInv, RunTypes, SummaryTypes, UploadTypes, TableTypes, HistoryTypes,
     KeysUnique, EdgesJoin, ReadDatasets, tables, history
<1>5. RunsShaped' /\ AppliedShaped'
  BY DEF IInv, RunsShaped, AppliedShaped, Rows, ReadDatasets, history
<1>6. WorkerShaped'
  BY <1>1, <1>2 DEF IInv, WorkerShaped, Steps, Rows, ReadDatasets
<1>7. FoundRows'
  BY <1>2 DEF IInv, FoundRows, Present, Linked, ReadDatasets, tables
<1>8. GraphIsOfManifest'
  BY SameGraph DEF IInv, ReadDatasets, tables, history
<1>9. Ordered'
  BY DEF IInv, Ordered, Claimed, Before, Rows, ReadDatasets, history
<1> QED BY <1>4, <1>5, <1>6, <1>7, <1>8, <1>9 DEF IInv

LEMMA ReadEdgesPreserves == ASSUME IInv, ReadEdges PROVE IInv'
<1>1. WorkerTypes /\ worker.step = "datasets"
  BY TypeParts DEF IInv, ReadEdges
<1>2. PICK used \in OnePerPair(Linked) :
        worker' = [worker EXCEPT !.step = "edges", !.edges = Linked, !.used = used]
  BY DEF ReadEdges
<1>2a. /\ worker'.step = "edges" /\ worker'.run = worker.run
       /\ worker'.datasets = worker.datasets /\ worker'.edges = Linked /\ worker'.used = used
  BY <1>1, <1>2 DEF WorkerTypes, WorkerRows
<1>2b. used \subseteq Linked /\ PairsOf(Linked) \subseteq PairsOf(used)
  BY DEF OnePerPair
<1>3. WorkerTypes'
  BY <1>1, <1>2, <1>2b DEF WorkerTypes, WorkerRows, Steps, Linked
<1>4. TypeOK'
  BY <1>3, TypeParts DEF IInv, RunTypes, SummaryTypes, UploadTypes, TableTypes, HistoryTypes,
     KeysUnique, EdgesJoin, ReadEdges, tables, history
<1>5. RunsShaped' /\ AppliedShaped'
  BY DEF IInv, RunsShaped, AppliedShaped, Rows, ReadEdges, history
<1>6. WorkerShaped'
  BY <1>1, <1>2a DEF IInv, WorkerShaped, Steps, Rows, ReadEdges
<1>7. FoundRows'
  <2>1. (Manifest.resources \ worker.datasets) \cap Present = {}
    BY <1>1 DEF ReadEdges, Collides
  <2>2. Manifest' = Manifest /\ Present' = Present /\ Linked' = Linked /\ unseen' = unseen
    BY <1>2a DEF Manifest, Present, Linked, ReadEdges, tables, history
  <2>3. PairsOf(worker'.edges) \subseteq PairsOf(worker'.used)
    BY <1>2a, <1>2b
  <2> QED BY <2>1, <2>2, <2>3, <1>1, <1>2a, <1>2b DEF IInv, FoundRows, PairsOf
<1>8. GraphIsOfManifest'
  BY SameGraph DEF IInv, ReadEdges, tables, history
<1>9. Ordered'
  BY DEF IInv, Ordered, Claimed, Before, Rows, ReadEdges, history
<1> QED BY <1>4, <1>5, <1>6, <1>7, <1>8, <1>9 DEF IInv

-----------------------------------------------------------------------------
(* The run goes back into the queue, not before now, or has failed.        *)
LEMMA RequeuePreserves ==
  ASSUME IInv, worker.step \in Steps, NEW t \in Nat, now <= t,
         run' = [run EXCEPT
           ![worker.run].status =
             IF run[worker.run].attempts < MaxAttempts THEN "queued" ELSE "failed",
           ![worker.run].queuedAt =
             IF run[worker.run].attempts < MaxAttempts THEN t ELSE @],
         worker' = AtRest,
         UNCHANGED <<summary, upload, dataset, edge, now, applied, unseen, late>>
  PROVE  IInv'
<1> DEFINE r == worker.run
           again == run[r].attempts < MaxAttempts
           at == IF again THEN t ELSE run[r].queuedAt
           New == [run[r] EXCEPT !.status = IF again THEN "queued" ELSE "failed", !.queuedAt = at]
<1>1. /\ RunTypes /\ r \in Runs /\ run[r] \in RunRows /\ now \in Nat
      /\ run[r].status = "running" /\ r \in Rows
  BY TypeParts DEF IInv, RunTypes, HistoryTypes, WorkerShaped, Rows
<1>2. run' = [run EXCEPT ![r] = New]
  BY <1>1 DEF RunTypes
<1>3. /\ New \in RunRows /\ New.status = IF again THEN "queued" ELSE "failed"
      /\ New.queuedAt = at /\ New.manifest = run[r].manifest /\ New.key = run[r].key
  BY <1>1 DEF RunRows
<1>4. at \in Nat /\ run[r].queuedAt <= at /\ run[r].queuedAt \in Nat
  BY <1>1 DEF IInv, WorkerShaped, RunRows
<1> HIDE DEF New, at, again
<1>5. run'[r] = New /\ RunTypes' /\ \A q \in Runs \ {r} : run'[q] = run[q]
  BY <1>1, <1>2, <1>3 DEF RunTypes
<1>6. New.status \in {"queued", "failed"}
  BY <1>3
<1> HIDE DEF r
<1>7. Rows' = Rows
  BY <1>1, <1>5, <1>6 DEF Rows
<1>8. \A q \in Runs : run[q].status = "running" => q = r
  BY DEF r, IInv, WorkerShaped
<1>9. /\ worker'.step = "idle" /\ worker' \in WorkerRows
      /\ worker'.datasets = {} /\ worker'.edges = {} /\ worker'.used = {}
  BY DEF AtRest, WorkerRows
<1>10. TypeOK'
  <2>1. KeysUnique'
    <3>1. run'[r].key = run[r].key /\ run'[r].status # "absent"
      BY <1>3, <1>5, <1>6
    <3>2. \A q \in Runs :
            run'[q].key = run[q].key /\ (run'[q].status # "absent" => run[q].status # "absent")
      BY <3>1, <1>1, <1>5
    <3> QED BY <3>2, TypeParts DEF IInv, KeysUnique
  <2> QED BY <2>1, <1>5, <1>9, TypeParts
          DEF IInv, SummaryTypes, UploadTypes, TableTypes, WorkerTypes, HistoryTypes, EdgesJoin
<1>11. RunsShaped'
  <2>1. \A q \in Rows : run'[q].manifest = run[q].manifest
    BY <1>3, <1>5 DEF Rows
  <2> QED BY <2>1, <1>7 DEF IInv, RunsShaped
<1>12. WorkerShaped'
  <2>1. \A q \in Runs : run'[q].status # "running"
    BY <1>5, <1>6, <1>8
  <2> QED BY <2>1, <1>9 DEF WorkerShaped, Steps, Rows
<1>13. FoundRows'
  BY <1>9 DEF FoundRows, Steps
<1>14. AppliedShaped'
  BY <1>1, <1>5, <1>6, <1>7 DEF IInv, AppliedShaped, Rows
<1>15. GraphIsOfManifest'
  <2>1. applied \in Runs => applied # r
    BY <1>1 DEF IInv, AppliedShaped
  <2> QED BY <2>1, <1>5, SameGraph DEF IInv
<1>16. Ordered'
  <2>1. \A q \in Rows : run[q].queuedAt \in Nat
    BY <1>1 DEF RunTypes, RunRows, Rows
  <2>2. \A q \in Rows, p \in Rows : q # r /\ Before(q, p) => Before(q, p)'
    <3> SUFFICES ASSUME NEW q \in Rows, NEW p \in Rows, q # r, Before(q, p)
                 PROVE  Before(q, p)'
      OBVIOUS
    <3>1. run'[q].queuedAt = run[q].queuedAt
      BY <1>5 DEF Rows
    <3>2. /\ run'[p].queuedAt \in Nat /\ run[p].queuedAt \in Nat /\ run[q].queuedAt \in Nat
          /\ run[p].queuedAt <= run'[p].queuedAt
      <4>1. CASE p = r
        <5>1. run'[p].queuedAt = at
          BY <4>1, <1>3, <1>5
        <5>2. run[p].queuedAt <= at /\ at \in Nat
          BY <4>1, <1>4 DEF r
        <5> QED BY <5>1, <5>2, <2>1
      <4>2. CASE p # r
        <5>1. run'[p] = run[p]
          BY <4>2, <1>5 DEF Rows
        <5>2. run[p].queuedAt \in Nat /\ run[q].queuedAt \in Nat
          BY <2>1
        <5>3. run[p].queuedAt <= run[p].queuedAt
          BY <5>2
        <5> QED BY <5>1, <5>2, <5>3, Zenon
      <4> QED BY <4>1, <4>2
    <3> QED BY <3>1, <3>2 DEF Before
  <2>3. applied \in Runs => applied \in Rows /\ applied # r
    BY <1>1 DEF IInv, AppliedShaped, Rows
  <2>4. \A q \in Rows : q # r => run'[q] = run[q] /\ run[q].status # "running"
    BY <1>5, <1>8 DEF Rows
  <2>5. \A q, p \in Rows :
          Claimed(q)' /\ run'[p].status = "queued" /\ p \notin late => Before(q, p)'
    <3> SUFFICES ASSUME NEW q \in Rows, NEW p \in Rows,
                        Claimed(q)', run'[p].status = "queued", p \notin late
                 PROVE  Before(q, p)'
      OBVIOUS
    <3>1. q # r /\ run[q].status = "success"
      BY <1>5, <1>6, <2>4 DEF Claimed
    <3>2. Before(q, p)
      BY <3>1, <2>4, <1>1 DEF IInv, Ordered, Claimed
    <3> QED BY <3>1, <3>2, <2>2
  <2>6. \A q \in Rows : run'[q].status # "running"
    BY <2>4, <1>5, <1>6 DEF Rows
  <2>7. applied \in Runs \ late =>
          \A q \in Rows : run'[q].status = "success" => q = applied \/ Before(q, applied)'
    <3> SUFFICES ASSUME applied \in Runs \ late, NEW q \in Rows, run'[q].status = "success",
                        q # applied
                 PROVE  Before(q, applied)'
      OBVIOUS
    <3>1. q # r /\ run[q].status = "success"
      BY <1>5, <1>6, <2>4
    <3> QED BY <3>1, <2>2, <2>3 DEF IInv, Ordered
  <2> QED BY <2>5, <2>6, <2>7, <1>7 DEF Ordered
<1> QED BY <1>10, <1>11, <1>12, <1>13, <1>14, <1>15, <1>16 DEF IInv

LEMMA FailPreserves == ASSUME IInv, Fail PROVE IInv'
<1> DEFINE t == now + Backoff * run[worker.run].attempts
<1>1. \A a, b \in Nat : a * b \in Nat
  OBVIOUS
<1>2. worker.run \in Runs /\ now \in Nat /\ run[worker.run].attempts \in Nat
  BY TypeParts, NumbersAssumption
     DEF Fail, IInv, RunTypes, RunRows, HistoryTypes, WorkerShaped
<1>3. t \in Nat /\ now <= t
  BY <1>1, <1>2, NumbersAssumption
<1> QED BY <1>3, RequeuePreserves DEF Fail, tables, history

LEMMA InterruptPreserves == ASSUME IInv, Interrupt PROVE IInv'
<1>1. now \in Nat /\ now <= now
  BY TypeParts DEF IInv, HistoryTypes
<1> QED BY <1>1, RequeuePreserves DEF Interrupt, tables, history

-----------------------------------------------------------------------------
(* The import's result: what is active, and what it counts.                *)
LEMMA PublishWrites ==
  ASSUME IInv, Publish
  PROVE  LET r == worker.run
             m == run[worker.run].manifest
         IN
         /\ r \in Rows /\ run[r].status = "running" /\ m \in Manifests
         /\ m.resources \subseteq Resources /\ Depends(m) \subseteq Pairs
         /\ Wanted(m) \subseteq Links /\ PairsOf(Wanted(m)) = Depends(m)
         /\ \A p \in Depends(m) : p[1] # p[2] /\ p[1] \in m.resources /\ p[2] \in m.resources
         /\ \A x \in Resources : dataset'[x] =
              IF x \in m.resources THEN "active"
              ELSE IF x \in worker.datasets THEN "inactive" ELSE dataset[x]
         /\ \A l \in Links : edge'[l] =
              IF l \in Wanted(m) THEN "active"
              ELSE IF l \in worker.used THEN "inactive" ELSE edge[l]
         /\ TableTypes'
         /\ \A q \in Runs \ {r} : run'[q] = run[q]
         /\ run'[r] = [run[r] EXCEPT !.status = "success"]
         /\ RunTypes'
<1> DEFINE r == worker.run
           m == run[worker.run].manifest
<1>1. /\ RunTypes /\ TableTypes /\ WorkerTypes /\ r \in Runs
      /\ run[r].status = "running" /\ r \in Rows /\ m \in Manifests
  BY TypeParts DEF IInv, RunTypes, WorkerShaped, RunsShaped, Rows, Publish, Steps
<1>2. m.resources \subseteq Resources /\ m.depends \subseteq Pairs \X Nat
  BY <1>1, ManifestsAssumption
<1>3. /\ Depends(m) \subseteq Pairs
      /\ \A p \in Depends(m) : p[1] # p[2] /\ p[1] \in m.resources /\ p[2] \in m.resources
  BY <1>2 DEF Depends, PairsOf, Entries
<1>3a. Wanted(m) \subseteq Links /\ PairsOf(Wanted(m)) = Depends(m)
  <2>1. worker.used \subseteq Links
    BY <1>1 DEF WorkerTypes, WorkerRows
  <2>2. \A p \in Depends(m) : <<p, DependsOn>> \in Links /\ <<p, DependsOn>>[1] = p
    BY <1>3, ResourcesAssumption DEF Links
  <2>3. NewEdges(m) \subseteq Links /\ PairsOf(NewEdges(m)) = Depends(m) \ PairsOf(worker.used)
    BY <2>2 DEF NewEdges, PairsOf
  <2>4. Wanted(m) \subseteq Links
    BY <2>1, <2>3 DEF Wanted
  <2>5. PairsOf(Wanted(m)) \subseteq Depends(m)
    BY <2>3 DEF Wanted, PairsOf
  <2>6. Depends(m) \subseteq PairsOf(Wanted(m))
    <3> SUFFICES ASSUME NEW p \in Depends(m) PROVE p \in PairsOf(Wanted(m))
      OBVIOUS
    <3>1. CASE p \in PairsOf(worker.used)
      BY <3>1 DEF Wanted, PairsOf
    <3>2. CASE p \notin PairsOf(worker.used)
      <4>1. p \in PairsOf(NewEdges(m))
        BY <3>2, <2>3
      <4> QED BY <4>1 DEF Wanted, PairsOf
    <3> QED BY <3>1, <3>2
  <2> QED BY <2>4, <2>5, <2>6
<1>4. /\ dataset' = Reconciled(dataset, worker.datasets, m.resources)
      /\ edge' = Reconciled(edge, worker.used, Wanted(m))
      /\ run' = [run EXCEPT ![r].status = "success"]
  BY DEF Publish, Manifest
<1>5. DOMAIN dataset = Resources /\ DOMAIN edge = Links
  BY <1>1 DEF TableTypes
<1>6. \A x \in Resources : dataset'[x] =
        IF x \in m.resources THEN "active"
        ELSE IF x \in worker.datasets THEN "inactive" ELSE dataset[x]
  BY <1>4, <1>5 DEF Reconciled
<1>7. \A l \in Links : edge'[l] =
        IF l \in Wanted(m) THEN "active"
        ELSE IF l \in worker.used THEN "inactive" ELSE edge[l]
  BY <1>4, <1>5 DEF Reconciled
<1>8. TableTypes'
  <2>1. dataset' \in [Resources -> States]
    BY <1>1, <1>4, <1>5 DEF Reconciled, TableTypes, States
  <2>2. edge' \in [Links -> States]
    BY <1>1, <1>4, <1>5 DEF Reconciled, TableTypes, States
  <2> QED BY <2>1, <2>2 DEF TableTypes
<1>9. run' = [run EXCEPT ![r] = [run[r] EXCEPT !.status = "success"]]
  BY <1>1, <1>4 DEF RunTypes
<1>10. [run[r] EXCEPT !.status = "success"] \in RunRows
  BY <1>1 DEF RunTypes, RunRows
<1>11. /\ RunTypes' /\ run'[r] = [run[r] EXCEPT !.status = "success"]
       /\ \A q \in Runs \ {r} : run'[q] = run[q]
  BY <1>1, <1>9, <1>10 DEF RunTypes
<1> QED BY <1>1, <1>2, <1>3, <1>3a, <1>6, <1>7, <1>8, <1>11

LEMMA CountsTyped == ASSUME IInv, Publish PROVE Counted(Manifest) \in [Counts -> Nat]
<1> DEFINE m == run[worker.run].manifest
<1>1. m.resources \subseteq Resources /\ Wanted(m) \subseteq Links /\ m \in Manifests
  BY PublishWrites
<1>2. worker.datasets \subseteq Resources /\ worker.used \subseteq Links
  BY TypeParts DEF IInv, WorkerTypes, WorkerRows
<1>3. IsFiniteSet(Resources) /\ IsFiniteSet(Links)
  BY ResourcesAssumption, FS_Product DEF Pairs, Links
<1>4. IsFiniteSet(Entries(m))
  BY <1>1, ManifestsAssumption, FS_Subset DEF Entries
<1> HIDE DEF m
<1>5. /\ IsFiniteSet(m.resources) /\ IsFiniteSet(m.resources \ worker.datasets)
      /\ IsFiniteSet((worker.datasets \cap Active(dataset)) \ m.resources)
  BY <1>1, <1>2, <1>3, FS_Subset
<1>6. IsFiniteSet(NewEdges(m)) /\ IsFiniteSet((worker.used \cap Active(edge)) \ Wanted(m))
  <2>1. NewEdges(m) \subseteq Wanted(m)
    BY DEF Wanted
  <2> QED BY <1>1, <1>2, <1>3, <2>1, FS_Subset
<1>7. /\ Cardinality(m.resources) \in Nat /\ Cardinality(m.resources \ worker.datasets) \in Nat
      /\ Cardinality((worker.datasets \cap Active(dataset)) \ m.resources) \in Nat
      /\ Cardinality(Entries(m)) \in Nat /\ Cardinality(NewEdges(m)) \in Nat
      /\ Cardinality((worker.used \cap Active(edge)) \ Wanted(m)) \in Nat
  BY <1>4, <1>5, <1>6, FS_CardinalityType
<1>8. Counted(m) \in [Counts -> Nat]
  BY <1>7 DEF Counted, Counts
<1> QED BY <1>8 DEF m, Manifest

LEMMA PublishPreserves == ASSUME IInv, Publish PROVE IInv'
<1> DEFINE r == worker.run
           m == run[worker.run].manifest
<1>1. /\ r \in Rows /\ run[r].status = "running" /\ m \in Manifests
      /\ m.resources \subseteq Resources /\ Depends(m) \subseteq Pairs
      /\ Wanted(m) \subseteq Links /\ PairsOf(Wanted(m)) = Depends(m)
      /\ \A p \in Depends(m) : p[1] # p[2] /\ p[1] \in m.resources /\ p[2] \in m.resources
      /\ TableTypes' /\ RunTypes'
  BY PublishWrites
<1>2. /\ \A x \in Resources : dataset'[x] =
           IF x \in m.resources THEN "active"
           ELSE IF x \in worker.datasets THEN "inactive" ELSE dataset[x]
      /\ \A l \in Links : edge'[l] =
           IF l \in Wanted(m) THEN "active"
           ELSE IF l \in worker.used THEN "inactive" ELSE edge[l]
  BY PublishWrites
<1>3. /\ run'[r] = [run[r] EXCEPT !.status = "success"]
      /\ \A q \in Runs \ {r} : run'[q] = run[q]
  BY PublishWrites
<1>4. TableTypes /\ RunTypes /\ WorkerTypes /\ HistoryTypes /\ EdgesJoin /\ KeysUnique
  BY TypeParts DEF IInv
<1>5. /\ run'[r].status = "success" /\ run'[r].manifest = m
      /\ run'[r].queuedAt = run[r].queuedAt /\ run'[r].key = run[r].key
  BY <1>1, <1>3, <1>4 DEF RunTypes, RunRows, Rows
<1>6. Rows' = Rows /\ r \in Runs
  BY <1>1, <1>3, <1>5 DEF Rows
<1>7. /\ worker' = AtRest /\ worker'.step = "idle" /\ worker' \in WorkerRows
      /\ worker'.datasets = {} /\ worker'.edges = {} /\ worker'.used = {}
      /\ worker.step = "edges" /\ applied' = r
      /\ unseen' = unseen \ (worker.datasets \cup worker.edges)
      /\ upload' = upload /\ now' = now /\ late' = late
  BY DEF Publish, AtRest, WorkerRows
<1>8. /\ worker.datasets \subseteq Present /\ worker.edges \subseteq Linked
      /\ Present \ worker.datasets \subseteq unseen /\ Linked \ worker.edges \subseteq unseen
      /\ worker.used \subseteq worker.edges /\ PairsOf(worker.edges) \subseteq PairsOf(worker.used)
  BY <1>7 DEF IInv, FoundRows
<1> HIDE DEF m, r
<1>9. EdgesJoin'
  <2> SUFFICES ASSUME NEW p \in Pairs, NEW k \in Kinds, edge'[<<p, k>>] # "absent"
               PROVE  p[1] # p[2] /\ dataset'[p[1]] # "absent" /\ dataset'[p[2]] # "absent"
    BY DEF EdgesJoin
  <2> DEFINE l == <<p, k>>
  <2>1. p[1] \in Resources /\ p[2] \in Resources /\ l \in Links /\ l[1] = p
    BY DEF Pairs, Links
  <2>2. \A x \in Resources : dataset[x] # "absent" \/ x \in m.resources => dataset'[x] # "absent"
    BY <1>2
  <2>3. CASE l \in Wanted(m)
    <3>1. p \in Depends(m)
      BY <2>1, <2>3, <1>1 DEF PairsOf
    <3> QED BY <2>1, <2>2, <3>1, <1>1
  <2>4. CASE l \notin Wanted(m)
    <3>1. edge[l] # "absent"
      BY <2>1, <2>4, <1>2, <1>8 DEF Linked
    <3> QED BY <3>1, <2>1, <2>2, <1>4 DEF EdgesJoin
  <2> QED BY <2>3, <2>4
<1>10. TypeOK'
  <2>1. KeysUnique'
    <3>1. \A q \in Runs :
            run'[q].key = run[q].key /\ (run'[q].status # "absent" => run[q].status # "absent")
      BY <1>1, <1>3, <1>5, <1>6 DEF Rows
    <3> QED BY <3>1, <1>4 DEF KeysUnique
  <2>2. SummaryTypes'
    BY CountsTyped, TypeParts DEF IInv, SummaryTypes, Publish
  <2>3. HistoryTypes' /\ UploadTypes' /\ WorkerTypes'
    BY <1>4, <1>6, <1>7, TypeParts DEF IInv, HistoryTypes, UploadTypes, WorkerTypes
  <2> QED BY <2>1, <2>2, <2>3, <1>1, <1>9, TypeParts
<1>11. RunsShaped'
  <2>1. \A q \in Rows : run'[q].manifest \in Manifests
    BY <1>1, <1>3, <1>5 DEF Rows, IInv, RunsShaped
  <2> QED BY <2>1, <1>6, <1>7 DEF IInv, RunsShaped
<1>12. \A q \in Runs : run[q].status = "running" => q = r
  BY DEF r, IInv, WorkerShaped
<1>13. WorkerShaped'
  <2>1. \A q \in Runs : run'[q].status # "running"
    BY <1>3, <1>5, <1>12
  <2> QED BY <2>1, <1>7 DEF WorkerShaped, Steps, Rows
<1>14. FoundRows'
  BY <1>7 DEF FoundRows
<1>15. AppliedShaped'
  BY <1>5, <1>6, <1>7 DEF AppliedShaped
<1>16. GraphIsOfManifest'
  <2>1. m.resources \subseteq Active(dataset)' /\ Wanted(m) \subseteq Active(edge)'
    BY <1>1, <1>2 DEF Active, TableTypes
  <2>2. Depends(m) \subseteq PairsOf(Active(edge)')
    BY <2>1, <1>1 DEF PairsOf
  <2>3. Active(dataset)' \ unseen' \subseteq m.resources
    <3> SUFFICES ASSUME NEW x \in Resources, dataset'[x] = "active", x \notin m.resources
                 PROVE  x \in unseen'
      BY <1>1 DEF Active, TableTypes
    <3>1. x \notin worker.datasets /\ x \in Present
      BY <1>2 DEF Present
    <3>2. x \notin worker.edges
      BY <1>4, ResourcesAssumption DEF WorkerTypes, WorkerRows
    <3> QED BY <3>1, <3>2, <1>7, <1>8
  <2>4. ASSUME NEW l \in Active(edge)' \ unseen', l[1] \notin Depends(m)
        PROVE  Hidden(l)'
    <3>1. l \in Links /\ edge'[l] = "active"
      BY <1>1, <2>4 DEF Active, TableTypes
    <3>2. l \notin Wanted(m)
      BY <1>1, <2>4 DEF PairsOf
    <3>3. l \notin worker.used /\ l \in Linked
      BY <1>2, <3>1, <3>2 DEF Linked
    <3>4. l \in worker.edges
      <4>1. l \notin worker.datasets
        BY <1>4, <3>1, ResourcesAssumption DEF WorkerTypes, WorkerRows
      <4> QED BY <4>1, <3>3, <2>4, <1>7, <1>8
    <3>5. PICK x \in worker.used : x[1] = l[1]
      BY <3>4, <1>8 DEF PairsOf
    <3>6. x \in Links /\ x \notin Wanted(m)
      BY <1>1, <1>4, <2>4, <3>5 DEF PairsOf, WorkerTypes, WorkerRows
    <3>7. edge'[x] = "inactive"
      BY <1>2, <3>6
    <3>8. PICK k \in Kinds : x = <<l[1], k>>
      BY <3>5, <3>6 DEF Links
    <3> QED BY <3>7, <3>8 DEF Hidden
  <2>5. run'[applied'].manifest = m
    BY <1>5, <1>7
  <2> QED BY <2>1, <2>2, <2>3, <2>4, <2>5
          DEF GraphIsOfManifest, Depends, Entries, PairsOf
<1>17. Ordered'
  <2>1. \A q, p \in Rows : Before(q, p)' <=> Before(q, p)
    <3>1. \A q \in Rows : run'[q].queuedAt = run[q].queuedAt
      BY <1>3, <1>5 DEF Rows
    <3> QED BY <3>1 DEF Before
  <2>2. \A q \in Rows : q # r => run'[q] = run[q]
    BY <1>3 DEF Rows
  <2>3. \A q \in Rows : /\ Claimed(q)' <=> Claimed(q)
                        /\ run'[q].status = "queued" <=> run[q].status = "queued"
                        /\ run'[q].status # "running"
    BY <2>2, <1>1, <1>5, <1>12 DEF Claimed, Rows
  <2>4. r \notin late => \A q \in Rows : run[q].status = "success" => Before(q, r)
    BY <1>1 DEF IInv, Ordered
  <2>5. \A q \in Rows : run'[q].status = "success" => q = r \/ run[q].status = "success"
    BY <2>2
  <2> QED BY <2>1, <2>3, <2>4, <2>5, <1>1, <1>6, <1>7 DEF IInv, Ordered
<1> QED BY <1>10, <1>11, <1>13, <1>14, <1>15, <1>16, <1>17 DEF IInv

-----------------------------------------------------------------------------
LEMMA InitIInv == Init => IInv
<1> SUFFICES ASSUME Init PROVE IInv
  OBVIOUS
<1>1. RunTypes /\ SummaryTypes /\ UploadTypes /\ TableTypes /\ WorkerTypes /\ HistoryTypes
  <2>1. [status |-> "absent", attempts |-> 0, queuedAt |-> 0,
         manifest |-> NoManifest, key |-> NoManifest] \in RunRows
    BY NumbersAssumption DEF RunRows
  <2>2. NoUpload \in UploadRows
    BY DEF NoUpload, UploadRows
  <2> QED BY <2>1, <2>2
          DEF Init, RunTypes, SummaryTypes, UploadTypes, TableTypes, WorkerTypes, HistoryTypes,
              Uncounted, AtRest, WorkerRows, States
<1>2. (\A r \in Runs : run[r].status = "absent") /\ Rows = {} /\ Present = {} /\ Linked = {}
  BY DEF Init, Rows, Present, Linked
<1>3. TypeOK
  <2>1. KeysUnique
    BY <1>2 DEF KeysUnique
  <2>2. EdgesJoin
    BY DEF Init, EdgesJoin, Links
  <2> QED BY <1>1, <2>1, <2>2, TypeParts
<1>4. RunsShaped /\ WorkerShaped /\ FoundRows /\ AppliedShaped /\ GraphIsOfManifest /\ Ordered
  BY <1>2, RunsAssumption
     DEF Init, RunsShaped, WorkerShaped, FoundRows, AppliedShaped, GraphIsOfManifest, Ordered,
         AtRest, NoUpload, Steps
<1> QED BY <1>3, <1>4 DEF IInv

LEMMA NextPreserves == IInv /\ [Next]_vars => IInv'
<1> SUFFICES ASSUME IInv, [Next]_vars PROVE IInv'
  OBVIOUS
<1>1. CASE \E s \in Sessions : BeginUpload(s) \/ InsertRun(s) \/ InsertConflict(s)
  BY <1>1, BeginUploadPreserves, InsertPreserves, ConflictPreserves
<1>2. CASE \E u \in Resources : CreateDataset(u)
  BY <1>2, CreateDatasetPreserves
<1>3. CASE \E p \in Pairs, k \in Kinds : CreateEdge(p, k)
  BY <1>3, CreateEdgePreserves
<1>4. CASE Claim \/ ReadDatasets \/ ReadEdges
  BY <1>4, ClaimPreserves, ReadDatasetsPreserves, ReadEdgesPreserves
<1>5. CASE Publish \/ Fail \/ Interrupt \/ Tick
  BY <1>5, PublishPreserves, FailPreserves, InterruptPreserves, TickPreserves
<1>6. CASE UNCHANGED vars
  <2>1. \A s \in Sessions : upload'[s].step # "idle" => upload'[s].manifest \in Manifests
    BY <1>6 DEF vars, IInv, RunsShaped
  <2>2. UploadTypes'
    BY <1>6, TypeParts DEF vars, IInv, UploadTypes
  <2> QED BY <1>6, <2>1, <2>2, UploadOnly DEF vars
<1> QED BY <1>1, <1>2, <1>3, <1>4, <1>5, <1>6 DEF Next

LEMMA Inductive == Spec => []IInv
BY InitIInv, NextPreserves, PTL DEF Spec

-----------------------------------------------------------------------------
(* Every variable keeps its type, no key stands for two runs and no edge   *)
(* joins a resource with itself or with a row that is not there.           *)
THEOREM ManifestTypes == Spec => []TypeOK
BY Inductive, PTL DEF IInv

(* What is active is what the manifest imported last says, up to rows that *)
(* people added after it had looked and rows beside the one it used        *)
(* (process_dbt_manifest).                                                 *)
THEOREM ActiveIsTheManifest == Spec => []GraphIsOfManifest
BY Inductive, PTL DEF IInv

(* The latest summary, once its run has succeeded, is of the manifest that *)
(* was imported last, late uploads excepted (latest_dbt_manifest).         *)
THEOREM LatestSummaryIsOfTheGraph == Spec => []LatestIsApplied
<1>1. IInv => LatestIsApplied
  <2> SUFFICES ASSUME IInv, NEW r \in Rows, IsLatest(r), run[r].status = "success",
                      applied \notin late
               PROVE  applied = r
    BY DEF LatestIsApplied
  <2>1. applied \in Runs \ late /\ applied \in Rows
    BY DEF IInv, AppliedShaped, Rows
  <2>2. r = applied \/ Before(r, applied)
    BY <2>1 DEF IInv, Ordered
  <2>3. applied = r \/ Before(applied, r)
    BY <2>1 DEF IsLatest
  <2>4. /\ run[r].queuedAt \in Nat /\ run[applied].queuedAt \in Nat
        /\ r \in Nat /\ applied \in Nat
    BY <2>1, TypeParts, RunsAssumption DEF IInv, RunTypes, RunRows, Rows
  <2> QED BY <2>2, <2>3, <2>4 DEF Before
<1> QED BY <1>1, Inductive, PTL

(* What a summary counts as created and deactivated is what its import     *)
(* has, for any manifests and any rows people added (process_dbt_manifest).*)
THEOREM SummariesCountChanges == Spec => SummaryCountsChanges
<1> DEFINE Created(table, later) ==
             Cardinality({x \in DOMAIN table : table[x] = "absent" /\ later[x] # "absent"})
           Deactivated(table, later) ==
             Cardinality({x \in DOMAIN table : table[x] = "active" /\ later[x] = "inactive"})
           Changes(r) ==
             /\ summary'[r].datasets_created = Created(dataset, dataset')
             /\ summary'[r].datasets_deactivated = Deactivated(dataset, dataset')
             /\ summary'[r].lineage_edges_created = Created(edge, edge')
             /\ summary'[r].lineage_edges_deactivated = Deactivated(edge, edge')
<1>1. ASSUME IInv, Publish PROVE Changes(worker.run)
  <2> DEFINE m == run[worker.run].manifest
  <2>1. /\ m.resources \subseteq Resources /\ Wanted(m) \subseteq Links
        /\ \A x \in Resources : dataset'[x] =
             IF x \in m.resources THEN "active"
             ELSE IF x \in worker.datasets THEN "inactive" ELSE dataset[x]
        /\ \A l \in Links : edge'[l] =
             IF l \in Wanted(m) THEN "active"
             ELSE IF l \in worker.used THEN "inactive" ELSE edge[l]
    BY <1>1, PublishWrites
  <2>2. /\ DOMAIN dataset = Resources /\ DOMAIN edge = Links /\ worker.run \in Runs
        /\ DOMAIN summary = Runs
    BY <1>1, TypeParts DEF IInv, TableTypes, SummaryTypes, WorkerShaped, Publish, Steps
  <2>3. /\ worker.step = "edges" /\ summary'[worker.run] = Counted(m)
    BY <1>1, <2>2 DEF Publish, Manifest
  <2>4. /\ worker.datasets \subseteq Present /\ worker.used \subseteq Linked
        /\ (m.resources \ worker.datasets) \cap Present = {}
        /\ NewEdges(m) \cap Linked = {} /\ NewEdges(m) \subseteq Wanted(m)
        /\ Wanted(m) \subseteq worker.used \cup NewEdges(m)
    BY <1>1, <2>3 DEF IInv, FoundRows, Publish, Collides, Manifest, Wanted
  <2> HIDE DEF m
  <2>5. {x \in Resources : dataset[x] = "absent" /\ dataset'[x] # "absent"}
          = m.resources \ worker.datasets
    BY <2>1, <2>4 DEF Present
  <2>6. {x \in Resources : dataset[x] = "active" /\ dataset'[x] = "inactive"}
          = (worker.datasets \cap Active(dataset)) \ m.resources
    BY <2>1, <2>2, <2>4 DEF Active, Present
  <2>7. {l \in Links : edge[l] = "absent" /\ edge'[l] # "absent"} = NewEdges(m)
    BY <2>1, <2>4 DEF Linked
  <2>8. {l \in Links : edge[l] = "active" /\ edge'[l] = "inactive"}
          = (worker.used \cap Active(edge)) \ Wanted(m)
    BY <2>1, <2>2, <2>4 DEF Active, Linked
  <2>9. /\ Created(dataset, dataset') = Cardinality(m.resources \ worker.datasets)
        /\ Deactivated(dataset, dataset')
             = Cardinality((worker.datasets \cap Active(dataset)) \ m.resources)
        /\ Created(edge, edge') = Cardinality(NewEdges(m))
        /\ Deactivated(edge, edge') = Cardinality((worker.used \cap Active(edge)) \ Wanted(m))
    BY <2>2, <2>5, <2>6, <2>7, <2>8
  <2> HIDE DEF Created, Deactivated
  <2> QED BY <2>3, <2>9 DEF Counted
<1> HIDE DEF Changes
<1>2. ASSUME IInv, [Next]_vars, NEW r \in Runs,
             run[r].status = "running", run'[r].status = "success"
      PROVE  Publish /\ r = worker.run
  <2>1. worker.run = r /\ worker.step \in Steps /\ run \in [Runs -> RunRows]
    BY <1>2, TypeParts DEF IInv, WorkerShaped, RunTypes
  <2>2. CASE \E s \in Sessions : InsertRun(s)
    <3>1. PICK s \in Sessions, q \in Runs \ Rows :
            run' = [run EXCEPT ![q] =
              [status |-> "queued", attempts |-> 0, queuedAt |-> upload[s].at,
               manifest |-> upload[s].manifest, key |-> upload[s].key]]
      BY <2>2 DEF InsertRun, Insert
    <3>2. q # r
      BY <1>2 DEF Rows
    <3> QED BY <3>1, <3>2, <1>2, <2>1
  <2>3. ~Claim
    BY <2>1 DEF Claim, Steps
  <2>4. ~(Fail \/ Interrupt)
    <3>1. ASSUME Fail \/ Interrupt
          PROVE  run'[r].status = IF run[r].attempts < MaxAttempts THEN "queued" ELSE "failed"
      BY <3>1, <2>1 DEF Fail, Interrupt, RunRows
    <3> QED BY <3>1, <1>2
  <2>5. run' # run
    BY <1>2
  <2>6. CASE Publish
    BY <2>6, <2>1
  <2> QED BY <1>2, <2>2, <2>3, <2>4, <2>5, <2>6
          DEF Next, vars, BeginUpload, InsertConflict, CreateDataset, CreateEdge,
              ReadDatasets, ReadEdges, Tick
<1>3. IInv /\ [Next]_vars =>
        [\A r \in Runs : run[r].status = "running" /\ run'[r].status = "success" =>
           Changes(r)]_vars
  BY <1>1, <1>2
<1> QED BY <1>3, Inductive, PTL DEF Spec, SummaryCountsChanges, Changes, Created, Deactivated

-----------------------------------------------------------------------------
(* The refinement: every step is a step of SyncRunQueue or stutters there. *)

(* A run that is taken for the first time has not been tried.              *)
AbsentUntried == \A r \in Runs : run[r].status = "absent" => run[r].attempts = 0

InQueue == {r \in Runs : run[r].status = "queued"}
InWork  == {r \in Runs : run[r].status = "running"}
Outcome ==
  [r \in Runs |-> IF run[r].status \in {"success", "failed"} THEN run[r].status ELSE "pending"]
Tries   == [r \in Runs |-> run[r].attempts]

LEMMA QueueInit == Init => Queue!Init /\ AbsentUntried
BY DEF Init, Queue!Init, AbsentUntried

LEMMA QueueStutter ==
  ASSUME AbsentUntried, UNCHANGED run
  PROVE  UNCHANGED Queue!vars /\ AbsentUntried'
BY DEF Queue!vars, AbsentUntried

(* The run being imported, and what any end of its attempt does to it.     *)
LEMMA QueueSettle ==
  ASSUME IInv, AbsentUntried, worker.step \in Steps,
         NEW r \in Runs, r = worker.run, NEW row \in RunRows,
         run' = [run EXCEPT ![r] = row],
         row.attempts = run[r].attempts,
         row.status \in {"queued", "success", "failed"},
         row.status = "queued" => run[r].attempts < MaxAttempts,
         row.status = "failed" => run[r].attempts = MaxAttempts
  PROVE  Queue!Next /\ AbsentUntried'
<1>1. RunTypes /\ run[r].status = "running"
  BY TypeParts DEF IInv, WorkerShaped
<1>2. run'[r] = row /\ \A q \in Runs \ {r} : run'[q] = run[q]
  BY <1>1 DEF RunTypes
<1>3. InWork = {r} /\ InWork' = {}
  BY <1>1, <1>2 DEF InWork, IInv, WorkerShaped
<1>4. Tries' = Tries /\ Tries[r] = run[r].attempts
  BY <1>2 DEF Tries
<1>5. AbsentUntried'
  BY <1>2 DEF AbsentUntried
<1>6. CASE row.status = "queued"
  <2>1. InQueue' = InQueue \cup {r} /\ Outcome' = Outcome
    BY <1>1, <1>2, <1>6 DEF InQueue, Outcome
  <2>2. Queue!GiveBack(r)
    BY <1>3, <1>4, <1>6, <2>1 DEF Queue!GiveBack, InQueue, InWork, Outcome, Tries
  <2> QED
    BY <1>5, <2>2 DEF Queue!Next
<1>7. CASE row.status # "queued"
  <2>1. InQueue' = InQueue /\ Outcome' = [Outcome EXCEPT ![r] = row.status]
    BY <1>1, <1>2, <1>7 DEF InQueue, Outcome
  <2>2. Queue!Settle(r, row.status)
    BY <1>3, <1>4, <1>7, <2>1 DEF Queue!Settle, InQueue, InWork, Outcome, Tries
  <2> QED
    BY <1>5, <1>7, <2>2 DEF Queue!Next
<1> QED
  BY <1>6, <1>7

LEMMA InsertSubmits ==
  ASSUME IInv, AbsentUntried, NEW s \in Sessions, InsertRun(s)
  PROVE  Queue!Next /\ AbsentUntried'
<1> DEFINE New == [status |-> "queued", attempts |-> 0, queuedAt |-> upload[s].at,
                   manifest |-> upload[s].manifest, key |-> upload[s].key]
<1>1. PICK r \in Runs \ Rows : run' = [run EXCEPT ![r] = New]
  BY DEF InsertRun, Insert
<1>2. /\ run'[r].status = "queued" /\ run'[r].attempts = 0
      /\ \A q \in Runs \ {r} : run'[q] = run[q]
  BY <1>1, TypeParts DEF IInv, RunTypes
<1>3. run[r].status = "absent" /\ run[r].attempts = 0
  BY DEF Rows, AbsentUntried
<1>4. InQueue' = InQueue \cup {r} /\ r \notin InQueue \cup InWork /\ InWork' = InWork
  BY <1>2, <1>3 DEF InQueue, InWork
<1>5. Outcome' = Outcome /\ Outcome[r] = "pending" /\ Tries' = Tries /\ Tries[r] = 0
  BY <1>2, <1>3 DEF Outcome, Tries
<1>6. Queue!Submit(r)
  BY <1>4, <1>5 DEF Queue!Submit, InQueue, InWork, Outcome, Tries
<1> QED
  BY <1>2, <1>6 DEF Queue!Next, AbsentUntried

LEMMA ClaimTakes ==
  ASSUME IInv, AbsentUntried, Claim
  PROVE  Queue!Next /\ AbsentUntried'
<1>1. PICK r \in FirstInQueue :
        /\ run[r].attempts < MaxAttempts
        /\ run' = [run EXCEPT ![r].status = "running", ![r].attempts = @ + 1]
  BY DEF Claim
<1>2. r \in Runs /\ run[r].status = "queued" /\ RunTypes
  BY TypeParts DEF IInv, FirstInQueue, Claimable, Rows
<1>3. /\ run'[r].status = "running" /\ run'[r].attempts = run[r].attempts + 1
      /\ \A q \in Runs \ {r} : run'[q] = run[q]
  BY <1>1, <1>2 DEF RunTypes, RunRows
<1>4. InWork = {} /\ InWork' = {r} /\ r \in InQueue /\ InQueue' = InQueue \ {r}
  <2>1. worker.step \notin Steps
    BY DEF Claim, Steps
  <2>2. InWork = {}
    BY <2>1 DEF InWork, IInv, WorkerShaped
  <2> QED
    BY <1>2, <1>3, <2>2 DEF InWork, InQueue
<1>5. Outcome' = Outcome
  BY <1>2, <1>3 DEF Outcome
<1>6. Tries' = [Tries EXCEPT ![r] = @ + 1] /\ Tries[r] = run[r].attempts
  BY <1>2, <1>3 DEF Tries
<1>7. Queue!Take(r)
  BY <1>1, <1>4, <1>5, <1>6 DEF Queue!Take, InQueue, InWork, Outcome, Tries
<1> QED
  BY <1>2, <1>3, <1>7 DEF Queue!Next, AbsentUntried

LEMMA ImportEnds ==
  ASSUME IInv, AbsentUntried, Publish \/ Fail \/ Interrupt
  PROVE  Queue!Next /\ AbsentUntried'
<1>1. worker.step \in Steps
  BY DEF Publish, Fail, Interrupt, Steps
<1>2. PICK r \in Runs : r = worker.run
  BY <1>1 DEF IInv, WorkerShaped
<1>3. run[r] \in RunRows /\ now \in Nat
  BY TypeParts DEF IInv, RunTypes, HistoryTypes
<1>4. PICK status \in {"queued", "success", "failed"}, at \in Nat :
        /\ run' = [run EXCEPT ![r] = [run[r] EXCEPT !.status = status, !.queuedAt = at]]
        /\ status = "queued" => run[r].attempts < MaxAttempts
        /\ status = "failed" => run[r].attempts = MaxAttempts
  <2> DEFINE retry == run[r].attempts < MaxAttempts
  <2>1. ~retry => run[r].attempts = MaxAttempts
    BY <1>3, NumbersAssumption DEF RunRows
  <2>2. run \in [Runs -> RunRows]
    BY TypeParts DEF IInv, RunTypes
  <2>3. CASE Publish
    <3>1. run' = [run EXCEPT ![r] =
            [run[r] EXCEPT !.status = "success", !.queuedAt = run[r].queuedAt]]
      BY <1>2, <1>3, <2>2, <2>3 DEF Publish, RunRows
    <3> QED
      BY <1>3, <3>1 DEF RunRows
  <2>4. CASE Fail
    <3> DEFINE at == IF retry THEN now + Backoff * run[r].attempts ELSE run[r].queuedAt
    <3>1. at \in Nat
      BY <1>3, NumbersAssumption DEF RunRows
    <3>2. run' = [run EXCEPT ![r] =
            [run[r] EXCEPT !.status = IF retry THEN "queued" ELSE "failed", !.queuedAt = at]]
      BY <1>2, <2>4 DEF Fail
    <3> QED
      BY <2>1, <3>1, <3>2
  <2>5. CASE Interrupt
    <3> DEFINE at == IF retry THEN now ELSE run[r].queuedAt
    <3>1. at \in Nat
      BY <1>3 DEF RunRows
    <3>2. run' = [run EXCEPT ![r] =
            [run[r] EXCEPT !.status = IF retry THEN "queued" ELSE "failed", !.queuedAt = at]]
      BY <1>2, <2>5 DEF Interrupt
    <3> QED
      BY <2>1, <3>1, <3>2
  <2> QED
    BY <2>3, <2>4, <2>5
<1> DEFINE row == [run[r] EXCEPT !.status = status, !.queuedAt = at]
<1>5. row \in RunRows /\ row.status = status /\ row.attempts = run[r].attempts
  BY <1>3 DEF RunRows
<1> HIDE DEF row
<1>6. run' = [run EXCEPT ![r] = row]
  BY <1>4 DEF row
<1> QED
  BY <1>1, <1>2, <1>4, <1>5, <1>6, QueueSettle

LEMMA QueueStep ==
  IInv /\ AbsentUntried /\ [Next]_vars => [Queue!Next]_(Queue!vars) /\ AbsentUntried'
<1> SUFFICES ASSUME IInv, AbsentUntried, [Next]_vars
             PROVE  [Queue!Next]_(Queue!vars) /\ AbsentUntried'
  OBVIOUS
<1>1. CASE \E s \in Sessions : InsertRun(s)
  BY <1>1, InsertSubmits
<1>2. CASE Claim
  BY <1>2, ClaimTakes
<1>3. CASE Publish \/ Fail \/ Interrupt
  BY <1>3, ImportEnds
<1>4. CASE UNCHANGED run
  BY <1>4, QueueStutter
<1> QED
  BY <1>1, <1>2, <1>3, <1>4
     DEF Next, vars, BeginUpload, InsertConflict, CreateDataset, CreateEdge,
         ReadDatasets, ReadEdges, Tick

(* Uploads, imports that collide with what people add, retries and         *)
(* recoveries are, seen from the runs, the queue the worker implements     *)
(* (enqueue_dbt_manifest, process_dbt_manifest, claim_sync_run).           *)
THEOREM UploadsImplementQueue == Spec => ImplementsQueue
<1>1. Spec => [](IInv /\ AbsentUntried)
  BY Inductive, QueueInit, QueueStep, PTL DEF Spec
<1> QED
  BY <1>1, QueueInit, QueueStep, PTL DEF Spec, ImplementsQueue, Queue!Spec
=============================================================================
