--------------------------- MODULE IngestionWorker ---------------------------
(***************************************************************************)
(* The ingestion worker (Backend/app/worker.py) and the two SQL functions  *)
(* it drives (claim_sync_run and recover_interrupted_sync_runs): a queue   *)
(* of sync runs kept in PostgreSQL, worker processes of which one at a     *)
(* time holds a session advisory lock, retries, crashes, lost sessions,    *)
(* and requesters whose membership changes while their run waits or runs.  *)
(*                                                                         *)
(* One transaction of the code is one action.  Between two transactions of *)
(* a worker anything may happen: its backend may die, another worker may   *)
(* start, recover and claim.                                               *)
(***************************************************************************)
EXTENDS Integers, FiniteSets

CONSTANTS
  Runs,            \* rows sync_runs may hold
  DbtRuns,         \* the runs that carry a raw_ingestions row (dbt manifests)
  Workers,         \* worker processes: the systemd unit, a second one started by hand
  MaxAttempts,     \* MAX_ATTEMPTS, and the literal 3 of the SQL functions
  Backoff,         \* clock units of "5 minutes": a retry waits Backoff * attempts
  RoleChanges,     \* the roles a requester may be moved to
  ClockHorizon,    \* bound: the clock passes it only while a retry waits
  MaxDisruptions,  \* bound: crashes, dropped sessions and orderly stops
  NoRun, NoWorker,
  Orphan           \* the backend of a process that is gone, not yet reaped

Roles    == {"writer", "viewer", "none", "deleted"}
Finished == {"success", "partial", "failed"}
Busy     == {"claimed", "processing", "failing"}

ASSUME RunsAssumption ==
  DbtRuns \subseteq Runs /\ NoRun \notin Runs

ASSUME WorkersAssumption ==
  NoWorker \notin Workers /\ Orphan \notin Workers /\ NoWorker # Orphan

ASSUME NumbersAssumption ==
  /\ MaxAttempts \in Nat \ {0}
  /\ Backoff \in Nat
  /\ ClockHorizon \in Nat
  /\ MaxDisruptions \in Nat

ASSUME RolesAssumption == RoleChanges \subseteq Roles

VARIABLES
  status,       \* sync_runs.status ("absent": no row yet)
  attempts,     \* sync_runs.attempt_count
  queuedAt,     \* sync_runs.queued_at
  artifact,     \* raw_ingestions.status of a dbt run
  payload,      \* raw_ingestions.raw_payload: the manifest, its digest, or nothing
  role,         \* the requester: owner/admin/operator, viewer, no member, account deleted
  holder,       \* whose session holds the advisory lock (260922, 1)
  pc,           \* where each worker process is between two transactions
  job,          \* run_id of process_next_run
  claim,        \* attempt_count of process_next_run, remembered from the claim
  now,          \* the database clock
  disruptions

runVars    == <<status, attempts, queuedAt, artifact, payload>>
workerVars == <<pc, job, claim>>
envVars    == <<role, now, disruptions>>
vars == <<runVars, workerVars, envVars, holder>>

TypeOK ==
  /\ status \in [Runs -> {"absent", "queued", "running"} \cup Finished]
  /\ attempts \in [Runs -> 0..MaxAttempts]
  /\ queuedAt \in [Runs -> Nat]
  /\ artifact \in [Runs -> {"none", "queued", "running"} \cup Finished]
  /\ payload \in [Runs -> {"none", "manifest", "digest"}]
  /\ role \in [Runs -> Roles]
  /\ holder \in Workers \cup {NoWorker, Orphan}
  /\ pc \in [Workers -> {"down", "started", "idle"} \cup Busy]
  /\ job \in [Workers -> Runs \cup {NoRun}]
  /\ claim \in [Workers -> 0..MaxAttempts]
  /\ \A w \in Workers : pc[w] \in Busy => job[w] \in Runs
  /\ now \in Nat
  /\ disruptions \in 0..MaxDisruptions

Init ==
  /\ status = [r \in Runs |-> "absent"]
  /\ attempts = [r \in Runs |-> 0]
  /\ queuedAt = [r \in Runs |-> 0]
  /\ artifact = [r \in Runs |-> "none"]
  /\ payload = [r \in Runs |-> "none"]
  /\ role = [r \in Runs |-> "writer"]
  /\ holder = NoWorker
  /\ pc = [w \in Workers |-> "down"]
  /\ job = [w \in Workers |-> NoRun]
  /\ claim = [w \in Workers |-> 0]
  /\ now = 0
  /\ disruptions = 0

-----------------------------------------------------------------------------
(* Ownership *)

(* pg_backend_pid() is the pid remembered at start and that backend holds  *)
(* the lock.  A session SQLAlchemy silently reopened has neither.          *)
AssertWorkerOwnershipUnchecked(w) == TRUE

AssertWorkerOwnership(w) == holder = w

(* Row-level security: select needs any membership of the requester,       *)
(* update and select ... for update need owner, admin or operator.         *)
Readable(r) == role[r] \in {"writer", "viewer"}
Writable(r) == role[r] = "writer"

(* _assert_run_ownership: when false the code raises LostOwnership.        *)
AssertRunOwnershipOfAttempt(w) ==
  /\ Writable(job[w])
  /\ status[job[w]] = "running"
  /\ attempts[job[w]] = claim[w]

AssertRunOwnershipOfRun(w) == Writable(job[w])

AssertRunOwnership(w) ==
  /\ AssertWorkerOwnership(w)
  /\ Writable(job[w])
  /\ status[job[w]] = "running"
  /\ attempts[job[w]] = claim[w]

(* The process is gone: the finally block or the kernel closes the socket, *)
(* and PostgreSQL frees the lock when it notices (ReapBackend).            *)
Exit(w) ==
  /\ pc' = [pc EXCEPT ![w] = "down"]
  /\ job' = [job EXCEPT ![w] = NoRun]
  /\ claim' = [claim EXCEPT ![w] = 0]
  /\ holder' = IF holder = w THEN Orphan ELSE holder

-----------------------------------------------------------------------------
(* Startup *)

(* pg_try_advisory_lock; when it is refused the process exits at once,     *)
(* which changes nothing here.                                             *)
StartWithoutRecovery(w) ==
  /\ pc[w] = "down"
  /\ holder = NoWorker
  /\ holder' = w
  /\ pc' = [pc EXCEPT ![w] = "idle"]
  /\ UNCHANGED <<runVars, job, claim, envVars>>

Start(w) ==
  /\ pc[w] = "down"
  /\ holder = NoWorker
  /\ holder' = w
  /\ pc' = [pc EXCEPT ![w] = "started"]
  /\ UNCHANGED <<runVars, job, claim, envVars>>

(* The runs recover_interrupted_sync_runs picks, and what it makes of one. *)
Interrupted ==
  {r \in Runs : status[r] = "running" /\ artifact[r] \notin {"success", "partial"}}

AfterInterruptionAlways(r) == "queued"

AfterInterruption(r) == IF attempts[r] < MaxAttempts THEN "queued" ELSE "failed"

(* raw_ingestions follows only when it had been marked running; the        *)
(* payload is left as it is.                                               *)
Recover(w) ==
  /\ pc[w] = "started"
  /\ AssertWorkerOwnership(w)
  /\ status' = [r \in Runs |-> IF r \in Interrupted THEN AfterInterruption(r) ELSE status[r]]
  /\ queuedAt' = [r \in Runs |->
       IF r \in Interrupted /\ attempts[r] < MaxAttempts THEN now ELSE queuedAt[r]]
  /\ artifact' = [r \in Runs |->
       IF r \in Interrupted /\ artifact[r] = "running" THEN AfterInterruption(r) ELSE artifact[r]]
  /\ pc' = [pc EXCEPT ![w] = "idle"]
  /\ UNCHANGED <<attempts, payload, job, claim, envVars, holder>>

-----------------------------------------------------------------------------
(* Claiming *)

(* requested_by becomes null with the account (on delete set null).        *)
ClaimableUnsuccessful ==
  {r \in Runs : /\ status[r] \in {"queued", "failed"}
                /\ queuedAt[r] <= now
                /\ role[r] # "deleted"}

Claimable ==
  {r \in Runs : /\ status[r] = "queued"
                /\ queuedAt[r] <= now
                /\ attempts[r] < MaxAttempts
                /\ role[r] # "deleted"}

(* order by queued_at, id: ids are random, so a tie may go either way.     *)
FirstInQueue == {r \in Claimable : \A q \in Claimable : queuedAt[r] <= queuedAt[q]}

(* claim_sync_run and the read of attempt_count, one transaction.          *)
Claim(w) ==
  /\ pc[w] = "idle"
  /\ AssertWorkerOwnership(w)
  /\ \E r \in FirstInQueue :
       /\ Readable(r)
       /\ status' = [status EXCEPT ![r] = "running"]
       /\ attempts' = [attempts EXCEPT ![r] = @ + 1]
       /\ job' = [job EXCEPT ![w] = r]
       /\ claim' = [claim EXCEPT ![w] = attempts'[r]]
  /\ pc' = [pc EXCEPT ![w] = "claimed"]
  /\ UNCHANGED <<queuedAt, artifact, payload, envVars, holder>>

(* The claim bypasses row-level security, the read of attempt_count does   *)
(* not: for a requester who left the organization scalar_one raises, the   *)
(* claim is rolled back and the worker exits.                              *)
ClaimUnreadable(w) ==
  /\ pc[w] = "idle"
  /\ AssertWorkerOwnership(w)
  /\ \E r \in FirstInQueue : ~Readable(r)
  /\ Exit(w)
  /\ UNCHANGED <<runVars, envVars>>

-----------------------------------------------------------------------------
(* Processing *)

(* raw.status = "running" under ownership; a Snowflake run has no raw row  *)
(* and only needs to be readable.                                          *)
BeginProcessing(w) ==
  /\ pc[w] = "claimed"
  /\ \/ /\ job[w] \in DbtRuns
        /\ AssertRunOwnership(w)
        /\ artifact' = [artifact EXCEPT ![job[w]] = "running"]
     \/ /\ job[w] \notin DbtRuns
        /\ AssertWorkerOwnership(w)
        /\ Readable(job[w])
        /\ UNCHANGED artifact
  /\ pc' = [pc EXCEPT ![w] = "processing"]
  /\ UNCHANGED <<status, attempts, queuedAt, payload, job, claim, envVars, holder>>

(* The final transaction of process_next_run: final_status, the artifact   *)
(* and the trimmed payload commit together.                                *)
Results(r) == IF r \in DbtRuns THEN {"success"} ELSE {"success", "partial"}

PublishRunOnly(w) ==
  /\ pc[w] = "processing"
  /\ AssertRunOwnership(w)
  /\ \E result \in Results(job[w]) : status' = [status EXCEPT ![job[w]] = result]
  /\ pc' = [pc EXCEPT ![w] = "idle"]
  /\ UNCHANGED <<attempts, queuedAt, artifact, payload, job, claim, envVars, holder>>

Publish(w) ==
  /\ pc[w] = "processing"
  /\ AssertRunOwnership(w)
  /\ \E result \in Results(job[w]) :
       /\ status' = [status EXCEPT ![job[w]] = result]
       /\ artifact' = [artifact EXCEPT ![job[w]] = IF job[w] \in DbtRuns THEN result ELSE @]
  /\ payload' = [payload EXCEPT ![job[w]] = IF job[w] \in DbtRuns THEN "digest" ELSE @]
  /\ pc' = [pc EXCEPT ![w] = "idle"]
  /\ UNCHANGED <<attempts, queuedAt, job, claim, envVars, holder>>

(* Any exception but LostOwnership: bad input, Snowflake unreachable, the  *)
(* database connection dropped.  The rollback reopens a dropped session.   *)
ProcessingFails(w) ==
  /\ pc[w] = "processing"
  /\ pc' = [pc EXCEPT ![w] = "failing"]
  /\ UNCHANGED <<runVars, job, claim, envVars, holder>>

(* The exception handler's transaction.                                    *)
RecordFailureEagerTrim(w) ==
  /\ pc[w] = "failing"
  /\ AssertRunOwnership(w)
  /\ LET r == job[w]
         retry == attempts[r] < MaxAttempts
         outcome == IF retry THEN "queued" ELSE "failed"
     IN /\ status' = [status EXCEPT ![r] = outcome]
        /\ queuedAt' = [queuedAt EXCEPT ![r] = IF retry THEN now + Backoff * attempts[r] ELSE @]
        /\ artifact' = [artifact EXCEPT ![r] = IF r \in DbtRuns THEN outcome ELSE @]
        /\ payload' = [payload EXCEPT ![r] = IF r \in DbtRuns THEN "digest" ELSE @]
  /\ pc' = [pc EXCEPT ![w] = "idle"]
  /\ UNCHANGED <<attempts, job, claim, envVars, holder>>

RecordFailureOffByOne(w) ==
  /\ pc[w] = "failing"
  /\ AssertRunOwnership(w)
  /\ LET r == job[w]
         retry == attempts[r] <= MaxAttempts
         outcome == IF retry THEN "queued" ELSE "failed"
     IN /\ status' = [status EXCEPT ![r] = outcome]
        /\ queuedAt' = [queuedAt EXCEPT ![r] = IF retry THEN now + Backoff * attempts[r] ELSE @]
        /\ artifact' = [artifact EXCEPT ![r] = IF r \in DbtRuns THEN outcome ELSE @]
        /\ payload' = [payload EXCEPT ![r] = IF r \in DbtRuns /\ ~retry THEN "digest" ELSE @]
  /\ pc' = [pc EXCEPT ![w] = "idle"]
  /\ UNCHANGED <<attempts, job, claim, envVars, holder>>

RecordFailure(w) ==
  /\ pc[w] = "failing"
  /\ AssertRunOwnership(w)
  /\ LET r == job[w]
         retry == attempts[r] < MaxAttempts
         outcome == IF retry THEN "queued" ELSE "failed"
     IN /\ status' = [status EXCEPT ![r] = outcome]
        /\ queuedAt' = [queuedAt EXCEPT ![r] = IF retry THEN now + Backoff * attempts[r] ELSE @]
        /\ artifact' = [artifact EXCEPT ![r] = IF r \in DbtRuns THEN outcome ELSE @]
        /\ payload' = [payload EXCEPT ![r] = IF r \in DbtRuns /\ ~retry THEN "digest" ELSE @]
  /\ pc' = [pc EXCEPT ![w] = "idle"]
  /\ UNCHANGED <<attempts, job, claim, envVars, holder>>

(* A failed ownership check, or a database error outside the try block,    *)
(* ends the process; the run keeps the status it has.                      *)
LoseOwnership(w) ==
  /\ \/ pc[w] \in {"started", "idle"} /\ ~AssertWorkerOwnership(w)
     \/ pc[w] = "claimed" /\ job[w] \in DbtRuns /\ ~AssertRunOwnership(w)
     \/ /\ pc[w] = "claimed" /\ job[w] \notin DbtRuns
        /\ ~AssertWorkerOwnership(w) \/ ~Readable(job[w])
     \/ pc[w] \in {"processing", "failing"} /\ ~AssertRunOwnership(w)
  /\ Exit(w)
  /\ UNCHANGED <<runVars, envVars>>

-----------------------------------------------------------------------------
(* Environment *)

(* enqueue_dbt_manifest, enqueue_snowflake_sync: the capability needs a    *)
(* writer, and a dbt run is inserted together with its artifact.           *)
Enqueue(r) ==
  /\ status[r] = "absent"
  /\ Writable(r)
  /\ status' = [status EXCEPT ![r] = "queued"]
  /\ queuedAt' = [queuedAt EXCEPT ![r] = now]
  /\ artifact' = [artifact EXCEPT ![r] = IF r \in DbtRuns THEN "queued" ELSE @]
  /\ payload' = [payload EXCEPT ![r] = IF r \in DbtRuns THEN "manifest" ELSE @]
  /\ UNCHANGED <<attempts, workerVars, envVars, holder>>

(* change_member_role, remove_member, or an invitation accepted again.  An *)
(* account can be deleted only once its membership is gone (on delete      *)
(* restrict), and then for good.                                           *)
ChangeRole(r) ==
  /\ role[r] # "deleted"
  /\ \E new \in RoleChanges \ {role[r]} :
       /\ new = "deleted" => role[r] = "none"
       /\ role' = [role EXCEPT ![r] = new]
  /\ UNCHANGED <<runVars, workerVars, now, disruptions, holder>>

(* The process dies (SIGKILL, TimeoutStopSec, out of memory).              *)
Crash(w) ==
  /\ pc[w] # "down"
  /\ disruptions < MaxDisruptions
  /\ disruptions' = disruptions + 1
  /\ Exit(w)
  /\ UNCHANGED <<runVars, role, now>>

(* SIGTERM or --once: the loop is left between two runs.                   *)
Stop(w) ==
  /\ pc[w] = "idle"
  /\ disruptions < MaxDisruptions
  /\ disruptions' = disruptions + 1
  /\ Exit(w)
  /\ UNCHANGED <<runVars, role, now>>

(* PostgreSQL ends the backend of a live worker: the lock is free, an open *)
(* transaction is rolled back, and the worker learns of it only later.     *)
DropSession(w) ==
  /\ holder = w
  /\ disruptions < MaxDisruptions
  /\ disruptions' = disruptions + 1
  /\ holder' = NoWorker
  /\ UNCHANGED <<runVars, workerVars, role, now>>

ReapBackend ==
  /\ holder = Orphan
  /\ holder' = NoWorker
  /\ UNCHANGED <<runVars, workerVars, envVars>>

Tick ==
  /\ now < ClockHorizon \/ \E r \in Runs : status[r] = "queued" /\ queuedAt[r] > now
  /\ now' = now + 1
  /\ UNCHANGED <<runVars, workerVars, role, disruptions, holder>>

-----------------------------------------------------------------------------
(* What a worker process does by itself once it runs or is restarted.      *)
WorkerStep(w) ==
  \/ Start(w)
  \/ Recover(w)
  \/ Claim(w)
  \/ ClaimUnreadable(w)
  \/ BeginProcessing(w)
  \/ Publish(w)
  \/ ProcessingFails(w)
  \/ RecordFailure(w)
  \/ LoseOwnership(w)

Next ==
  \/ \E w \in Workers : WorkerStep(w) \/ Crash(w) \/ Stop(w) \/ DropSession(w)
  \/ \E r \in Runs : Enqueue(r) \/ ChangeRole(r)
  \/ ReapBackend
  \/ Tick

Spec == Init /\ [][Next]_vars

(* systemd restarts the worker (Restart=always), the loop never stops by   *)
(* itself, PostgreSQL reaps a dead backend, and time passes.  Nothing      *)
(* makes a user enqueue, a role change or a process crash.                 *)
Fairness ==
  /\ \A w \in Workers : WF_vars(WorkerStep(w))
  /\ WF_vars(ReapBackend)
  /\ WF_vars(Tick)

FairSpec == Spec /\ Fairness

-----------------------------------------------------------------------------
(* Properties *)

(* At most one run of the whole installation is being processed: the       *)
(* session lock and the recovery that precedes the first claim leave no    *)
(* second run "running", whatever crashes (_claim_next_run, main).         *)
AtMostOneRunning ==
  \A r, q \in Runs : status[r] = "running" /\ status[q] = "running" => r = q

(* A worker that still holds the lock still owns the attempt it claimed:   *)
(* nobody recovers, requeues or reclaims a run under a live holder, so     *)
(* LostOwnership means a lost session or a requester's lost role.          *)
HolderOwnsItsAttempt ==
  \A w \in Workers : holder = w /\ pc[w] \in Busy =>
    status[job[w]] = "running" /\ attempts[job[w]] = claim[w]

(* No run is parked: a queued run is one the retry filter of               *)
(* claim_sync_run still accepts, and a run is given up only when its       *)
(* attempts are used up, by a failure or by an interruption.               *)
RetryBudget ==
  \A r \in Runs :
    /\ status[r] = "queued" => attempts[r] < MaxAttempts
    /\ status[r] = "failed" => attempts[r] = MaxAttempts

(* The artifact tells the same story as its run: finished together or not  *)
(* at all, so the "not exists" of recover_interrupted_sync_runs never      *)
(* leaves a running run behind.                                            *)
ArtifactAgrees ==
  \A r \in DbtRuns :
    /\ artifact[r] = "success" <=> status[r] = "success"
    /\ artifact[r] = "running" => status[r] = "running"
    /\ artifact[r] = "failed" => status[r] = "failed"
    /\ status[r] = "queued" => artifact[r] = "queued"

(* The manifest is still there for as long as an attempt may need it.      *)
PayloadKeptForRetry ==
  \A r \in DbtRuns : status[r] \in {"queued", "running"} => payload[r] = "manifest"

(* A run leaves "running" only by the hand of the lock holder: the owner   *)
(* of the current attempt, or a worker that has just taken the lock and    *)
(* recovers.  A worker whose session was dropped can change nothing.       *)
OnlyTheHolderSettles ==
  [][\A r \in Runs : status[r] = "running" /\ status'[r] # "running" =>
       \E w \in Workers :
         /\ holder = w
         /\ \/ pc[w] = "started"
            \/ pc[w] \in {"processing", "failing"} /\ job[w] = r /\ claim[w] = attempts[r]]_vars

(* A finished run is final: no late worker, recovery or claim reopens it,  *)
(* counts an attempt or touches its artifact (the published summary is     *)
(* what the dashboards read).                                              *)
FinishedIsFinal ==
  [][\A r \in Runs : status[r] \in Finished =>
       /\ status'[r] = status[r] /\ attempts'[r] = attempts[r]
       /\ artifact'[r] = artifact[r] /\ payload'[r] = payload[r]]_vars

(* Every run whose requester stays in the organization is finished, one    *)
(* way or the other, however often it fails or the worker is disrupted     *)
(* (data-flow.md: "The worker claims queued runs, processes them, records  *)
(* the result, and retries failed work within its configured limit").      *)
MembersRunsFinish ==
  \A r \in Runs :
    [](Readable(r)) => (status[r] = "queued" ~> status[r] \in Finished)

(* The worker, its lock and its recovery implement a queue that is served  *)
(* one run at a time and settles every run once (SyncRunQueue).            *)
Queue == INSTANCE SyncRunQueue WITH
  waiting <- {r \in Runs : status[r] = "queued"},
  active  <- {r \in Runs : status[r] = "running"},
  outcome <- [r \in Runs |-> IF status[r] \in Finished THEN status[r] ELSE "pending"],
  tries   <- attempts

ImplementsQueue == Queue!Spec
=============================================================================
