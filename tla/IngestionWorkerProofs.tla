------------------------ MODULE IngestionWorkerProofs ------------------------
(***************************************************************************)
(* Proofs about IngestionWorker for every set of runs and workers, every   *)
(* attempt limit and any number of disruptions.                            *)
(*                                                                         *)
(* AtMostOneRunning is not inductive by itself: that a claim finds nothing *)
(* running is known only because the claimant recovered before its first   *)
(* claim, because recovery misses no running run (ArtifactAgrees), and     *)
(* because a live lock holder still owns what it claimed.  IInv says so.   *)
(***************************************************************************)
EXTENDS IngestionWorker, TLAPS

(* The lock holder lives, and between two runs it leaves none running.     *)
HolderState ==
  \A w \in Workers : holder = w =>
    /\ pc[w] # "down"
    /\ pc[w] = "idle" => \A r \in Runs : status[r] # "running"

(* Rows that do not exist yet, runs that have no artifact, and manifests,  *)
(* which come with their run and are never partial.                        *)
Rows ==
  /\ \A r \in Runs : status[r] = "absent" => attempts[r] = 0
  /\ \A r \in DbtRuns : artifact[r] # "partial" /\ (artifact[r] = "none" => status[r] = "absent")
  /\ \A r \in Runs \ DbtRuns : artifact[r] = "none"

IInv ==
  /\ AtMostOneRunning
  /\ HolderOwnsItsAttempt
  /\ RetryBudget
  /\ ArtifactAgrees
  /\ HolderState
  /\ Rows
-----------------------------------------------------------------------------
(* Each action keeps the types; BusyJob is the one dependent conjunct.     *)
LEMMA TypeInit == Init => TypeOK
BY NumbersAssumption, RunsAssumption DEF Init, TypeOK, Finished, Busy, Roles

LEMMA ExitType ==
  ASSUME TypeOK, NEW w \in Workers, Exit(w),
         UNCHANGED <<status, attempts, queuedAt, artifact, payload>>,
         role' = role, now' = now, disruptions' \in 0..MaxDisruptions
  PROVE  TypeOK'
BY NumbersAssumption DEF TypeOK, Exit, Busy

LEMMA TypeStep == TypeOK /\ [Next]_vars => TypeOK'
<1> SUFFICES ASSUME TypeOK, [Next]_vars PROVE TypeOK'
  OBVIOUS
<1> USE NumbersAssumption
<1>1. ASSUME NEW w \in Workers, Start(w) PROVE TypeOK'
  BY <1>1 DEF Start, TypeOK, runVars, envVars, Busy
<1>2. ASSUME NEW w \in Workers, Recover(w) PROVE TypeOK'
  BY <1>2 DEF Recover, TypeOK, AfterInterruption, Finished, envVars, Busy
<1>3. ASSUME NEW w \in Workers, Claim(w) PROVE TypeOK'
  <2> PICK r \in FirstInQueue :
        /\ status' = [status EXCEPT ![r] = "running"]
        /\ attempts' = [attempts EXCEPT ![r] = @ + 1]
        /\ job' = [job EXCEPT ![w] = r]
        /\ claim' = [claim EXCEPT ![w] = attempts'[r]]
    BY <1>3 DEF Claim
  <2>1. r \in Runs /\ attempts[r] < MaxAttempts
    BY DEF FirstInQueue, Claimable
  <2>2. attempts' \in [Runs -> 0..MaxAttempts]
    BY <2>1 DEF TypeOK
  <2> QED
    BY <1>3, <2>1, <2>2 DEF Claim, TypeOK, envVars, Busy
<1>4. ASSUME NEW w \in Workers, ClaimUnreadable(w) PROVE TypeOK'
  BY <1>4, ExitType DEF ClaimUnreadable, runVars, envVars, TypeOK
<1>5. ASSUME NEW w \in Workers, BeginProcessing(w) PROVE TypeOK'
  BY <1>5 DEF BeginProcessing, TypeOK, envVars, Busy
<1>6. ASSUME NEW w \in Workers, Publish(w) PROVE TypeOK'
  BY <1>6 DEF Publish, Results, TypeOK, envVars, Busy, Finished
<1>7. ASSUME NEW w \in Workers, ProcessingFails(w) PROVE TypeOK'
  BY <1>7 DEF ProcessingFails, TypeOK, runVars, envVars, Busy
<1>8. ASSUME NEW w \in Workers, RecordFailure(w) PROVE TypeOK'
  BY <1>8 DEF RecordFailure, TypeOK, envVars, Busy, Finished
<1>9. ASSUME NEW w \in Workers, LoseOwnership(w) PROVE TypeOK'
  BY <1>9, ExitType DEF LoseOwnership, runVars, envVars, TypeOK
<1>10. ASSUME NEW w \in Workers, Crash(w) PROVE TypeOK'
  BY <1>10, ExitType DEF Crash, runVars, TypeOK
<1>11. ASSUME NEW w \in Workers, Stop(w) PROVE TypeOK'
  BY <1>11, ExitType DEF Stop, runVars, TypeOK
<1>12. ASSUME NEW w \in Workers, DropSession(w) PROVE TypeOK'
  BY <1>12 DEF DropSession, TypeOK, runVars, workerVars
<1>13. ASSUME NEW r \in Runs, Enqueue(r) PROVE TypeOK'
  BY <1>13 DEF Enqueue, TypeOK, workerVars, envVars
<1>14. ASSUME NEW r \in Runs, ChangeRole(r) PROVE TypeOK'
  BY <1>14, RolesAssumption DEF ChangeRole, TypeOK, runVars, workerVars
<1>15. CASE ReapBackend
  BY <1>15 DEF ReapBackend, TypeOK, runVars, workerVars, envVars
<1>16. CASE Tick
  BY <1>16 DEF Tick, TypeOK, runVars, workerVars
<1>17. CASE UNCHANGED vars
  BY <1>17 DEF vars, TypeOK, runVars, workerVars, envVars
<1> QED
  BY <1>1, <1>2, <1>3, <1>4, <1>5, <1>6, <1>7, <1>8, <1>9, <1>10, <1>11, <1>12,
     <1>13, <1>14, <1>15, <1>16, <1>17 DEF Next, WorkerStep

(* Every variable keeps its type: in particular an attempt counter never   *)
(* passes MAX_ATTEMPTS, and a worker inside process_next_run has a run.    *)
THEOREM TypeCorrect == Spec => []TypeOK
BY TypeInit, TypeStep, PTL DEF Spec
-----------------------------------------------------------------------------
LEMMA InvInit == Init => IInv
BY WorkersAssumption, RunsAssumption, NumbersAssumption
   DEF Init, IInv, AtMostOneRunning, HolderOwnsItsAttempt, RetryBudget, ArtifactAgrees,
       HolderState, Rows, Busy

(* A process that ends gives up the lock with everything it knew.          *)
LEMMA ExitInv ==
  ASSUME TypeOK, IInv, NEW w \in Workers, Exit(w), UNCHANGED runVars
  PROVE  IInv'
<1>1. holder' \in Workers => holder' = holder /\ holder # w
  BY WorkersAssumption DEF Exit
<1>2. \A v \in Workers : v # w => pc'[v] = pc[v] /\ job'[v] = job[v] /\ claim'[v] = claim[v]
  BY DEF Exit, TypeOK
<1>3. AtMostOneRunning' /\ RetryBudget' /\ ArtifactAgrees' /\ Rows'
  BY DEF IInv, AtMostOneRunning, RetryBudget, ArtifactAgrees, Rows, runVars
<1>4. HolderOwnsItsAttempt'
  BY <1>1, <1>2 DEF IInv, HolderOwnsItsAttempt, runVars
<1>5. HolderState'
  BY <1>1, <1>2 DEF IInv, HolderState, runVars
<1> QED
  BY <1>3, <1>4, <1>5 DEF IInv

(* Recovery leaves nothing running: a run whose artifact is finished is    *)
(* finished itself, so no running run is exempt.                           *)
LEMMA RecoverInv ==
  ASSUME TypeOK, TypeOK', IInv, NEW w \in Workers, Recover(w)
  PROVE  IInv'
<1> USE NumbersAssumption DEF IInv
<1>1. \A r \in Runs : status[r] = "running" => r \in Interrupted
  BY DEF ArtifactAgrees, Rows, Interrupted, TypeOK
<1>2. \A r \in Runs : r \in Interrupted =>
        status[r] = "running" /\ artifact[r] \notin {"success", "partial"}
  BY DEF Interrupted
<1>3. \A r \in Runs :
        /\ status'[r] = IF r \in Interrupted THEN AfterInterruption(r) ELSE status[r]
        /\ artifact'[r] = IF r \in Interrupted /\ artifact[r] = "running"
                          THEN AfterInterruption(r) ELSE artifact[r]
        /\ attempts'[r] = attempts[r]
  BY DEF Recover
<1>4. \A r \in Runs : status'[r] # "running"
  BY <1>1, <1>3 DEF AfterInterruption
<1>5. holder' = holder /\ holder = w /\ pc'[w] = "idle"
  BY DEF Recover, AssertWorkerOwnership, TypeOK
<1>6. AtMostOneRunning' /\ HolderOwnsItsAttempt' /\ HolderState'
  BY <1>4, <1>5 DEF AtMostOneRunning, HolderOwnsItsAttempt, HolderState, Busy
<1>7. RetryBudget'
  <2>1. \A r \in Runs : attempts[r] \in 0..MaxAttempts
    BY DEF TypeOK
  <2> QED
    BY <1>2, <1>3, <2>1 DEF RetryBudget, AfterInterruption
<1>8. ArtifactAgrees'
  <2> SUFFICES ASSUME NEW r \in DbtRuns
               PROVE  /\ artifact'[r] = "success" <=> status'[r] = "success"
                      /\ artifact'[r] = "running" => status'[r] = "running"
                      /\ artifact'[r] = "failed" => status'[r] = "failed"
                      /\ status'[r] = "queued" => artifact'[r] = "queued"
    BY DEF ArtifactAgrees
  <2>1. r \in Runs
    BY RunsAssumption
  <2>2. CASE r \in Interrupted
    <3>1. artifact[r] \in {"queued", "running"}
      BY <1>2, <2>1, <2>2 DEF ArtifactAgrees, Rows, TypeOK, Finished
    <3> QED
      BY <1>3, <2>1, <2>2, <3>1 DEF AfterInterruption
  <2>3. CASE r \notin Interrupted
    BY <1>3, <2>1, <2>3 DEF ArtifactAgrees
  <2> QED
    BY <2>2, <2>3
<1>9. Rows'
  BY <1>2, <1>3, RunsAssumption DEF Rows, AfterInterruption
<1> QED
  BY <1>6, <1>7, <1>8, <1>9

(* A claim: the claimant holds the lock and is idle, so nothing runs.      *)
LEMMA ClaimInv ==
  ASSUME TypeOK, TypeOK', IInv, NEW w \in Workers, Claim(w)
  PROVE  IInv'
<1> USE NumbersAssumption DEF IInv
<1> PICK r \in FirstInQueue :
      /\ status' = [status EXCEPT ![r] = "running"]
      /\ attempts' = [attempts EXCEPT ![r] = @ + 1]
      /\ job' = [job EXCEPT ![w] = r]
      /\ claim' = [claim EXCEPT ![w] = attempts'[r]]
  BY DEF Claim
<1>1. r \in Runs /\ status[r] = "queued" /\ attempts[r] < MaxAttempts
  BY DEF FirstInQueue, Claimable
<1>2. holder = w /\ holder' = w /\ pc[w] = "idle" /\ pc'[w] = "claimed"
      /\ job'[w] = r /\ claim'[w] = attempts'[r] /\ artifact' = artifact
  BY DEF Claim, AssertWorkerOwnership, TypeOK
<1>3. \A q \in Runs : status[q] # "running"
  BY <1>2 DEF HolderState
<1>4. \A q \in Runs : /\ q # r => status'[q] = status[q] /\ attempts'[q] = attempts[q]
                     /\ status'[r] = "running"
  BY <1>1 DEF TypeOK
<1>5. AtMostOneRunning'
  BY <1>1, <1>3, <1>4 DEF AtMostOneRunning
<1>6. HolderOwnsItsAttempt' /\ HolderState'
  BY <1>1, <1>2, <1>4 DEF HolderOwnsItsAttempt, HolderState
<1>7. RetryBudget'
  BY <1>1, <1>4 DEF RetryBudget
<1>8. ArtifactAgrees' /\ Rows'
  BY <1>1, <1>2, <1>4, RunsAssumption DEF ArtifactAgrees, Rows
<1> QED
  BY <1>5, <1>6, <1>7, <1>8

(* The two transactions that end an attempt: the only running run becomes  *)
(* queued, failed or a result, and the artifact with it.                   *)
LEMMA SettleInv ==
  ASSUME TypeOK, TypeOK', IInv, NEW w \in Workers,
         pc[w] \in Busy, AssertRunOwnership(w),
         NEW outcome \in {"queued", "failed", "success", "partial"},
         outcome = "queued" => attempts[job[w]] < MaxAttempts,
         outcome = "failed" => attempts[job[w]] = MaxAttempts,
         job[w] \in DbtRuns => outcome # "partial",
         status' = [status EXCEPT ![job[w]] = outcome],
         artifact' = [artifact EXCEPT ![job[w]] = IF job[w] \in DbtRuns THEN outcome ELSE @],
         pc' = [pc EXCEPT ![w] = "idle"],
         UNCHANGED <<attempts, job, claim, holder>>
  PROVE  IInv'
<1> USE DEF IInv
<1> DEFINE r == job[w]
<1>1. r \in Runs /\ status[r] = "running" /\ holder = w /\ pc'[w] = "idle"
  BY DEF TypeOK, AssertRunOwnership, AssertWorkerOwnership
<1>2. status'[r] = outcome /\ \A q \in Runs : q # r => status'[q] = status[q]
  BY <1>1 DEF TypeOK
<1>3. /\ r \in DbtRuns => artifact'[r] = outcome
      /\ r \notin DbtRuns => artifact'[r] = artifact[r]
      /\ \A q \in Runs : q # r => artifact'[q] = artifact[q]
  BY <1>1 DEF TypeOK
<1>4. \A q \in Runs : status'[q] # "running"
  BY <1>1, <1>2 DEF AtMostOneRunning
<1> HIDE DEF r
<1>5. AtMostOneRunning' /\ HolderOwnsItsAttempt' /\ HolderState'
  BY <1>1, <1>4 DEF AtMostOneRunning, HolderOwnsItsAttempt, HolderState, Busy
<1>6. RetryBudget'
  BY <1>2 DEF RetryBudget, r
<1>7. ArtifactAgrees' /\ Rows'
  BY <1>1, <1>2, <1>3, RunsAssumption DEF ArtifactAgrees, Rows, r
<1> QED
  BY <1>5, <1>6, <1>7

LEMMA InvStep == TypeOK /\ IInv /\ [Next]_vars => IInv'
<1> SUFFICES ASSUME TypeOK, IInv, [Next]_vars PROVE IInv'
  OBVIOUS
<1>0. TypeOK'
  BY TypeStep
<1>1. ASSUME NEW w \in Workers, Start(w) PROVE IInv'
  <2>1. /\ holder' = w /\ pc'[w] = "started"
        /\ UNCHANGED <<status, attempts, artifact>>
    BY <1>1 DEF Start, TypeOK, runVars
  <2> QED
    BY <2>1 DEF IInv, AtMostOneRunning, HolderOwnsItsAttempt, RetryBudget, ArtifactAgrees,
                HolderState, Rows, Busy
<1>2. ASSUME NEW w \in Workers, Recover(w) PROVE IInv'
  BY <1>0, <1>2, RecoverInv
<1>3. ASSUME NEW w \in Workers, Claim(w) PROVE IInv'
  BY <1>0, <1>3, ClaimInv
<1>4. ASSUME NEW w \in Workers, ClaimUnreadable(w) PROVE IInv'
  BY <1>4, ExitInv DEF ClaimUnreadable
<1>5. ASSUME NEW w \in Workers, BeginProcessing(w) PROVE IInv'
  <2>1. /\ pc[w] = "claimed" /\ pc'[w] = "processing" /\ holder = w
        /\ \A v \in Workers : v # w => pc'[v] = pc[v]
        /\ UNCHANGED <<status, attempts, job, claim, holder>>
    BY <1>5 DEF BeginProcessing, AssertRunOwnership, AssertWorkerOwnership, TypeOK
  <2>2. AtMostOneRunning' /\ HolderOwnsItsAttempt' /\ HolderState' /\ RetryBudget'
    BY <2>1 DEF IInv, AtMostOneRunning, HolderOwnsItsAttempt, HolderState, RetryBudget, Busy
  <2>3. job[w] \in Runs /\ status[job[w]] = "running"
    BY <2>1 DEF IInv, HolderOwnsItsAttempt, TypeOK, Busy
  <2>4. \/ artifact' = artifact
        \/ job[w] \in DbtRuns /\ artifact' = [artifact EXCEPT ![job[w]] = "running"]
    BY <1>5 DEF BeginProcessing
  <2>5. ArtifactAgrees' /\ Rows'
    <3>1. CASE artifact' = artifact
      BY <2>1, <3>1 DEF IInv, ArtifactAgrees, Rows
    <3>2. CASE job[w] \in DbtRuns /\ artifact' = [artifact EXCEPT ![job[w]] = "running"]
      <4>1. /\ artifact'[job[w]] = "running"
            /\ \A r \in Runs : r # job[w] => artifact'[r] = artifact[r]
        BY <2>3, <3>2 DEF TypeOK
      <4>2. artifact[job[w]] # "success"
        BY <2>3, <3>2 DEF IInv, ArtifactAgrees
      <4> QED
        BY <2>1, <2>3, <3>2, <4>1, <4>2, RunsAssumption DEF IInv, ArtifactAgrees, Rows
    <3> QED
      BY <2>4, <3>1, <3>2
  <2> QED
    BY <2>2, <2>5 DEF IInv
<1>6. ASSUME NEW w \in Workers, Publish(w) PROVE IInv'
  <2> PICK result \in Results(job[w]) :
        /\ status' = [status EXCEPT ![job[w]] = result]
        /\ artifact' = [artifact EXCEPT ![job[w]] = IF job[w] \in DbtRuns THEN result ELSE @]
    BY <1>6 DEF Publish
  <2>1. pc[w] \in Busy /\ AssertRunOwnership(w)
        /\ pc' = [pc EXCEPT ![w] = "idle"] /\ UNCHANGED <<attempts, job, claim, holder>>
    BY <1>6 DEF Publish, Busy
  <2>2. /\ result \in {"success", "partial"}
        /\ job[w] \in DbtRuns => result # "partial"
    BY DEF Results
  <2> QED
    BY <1>0, <2>1, <2>2, SettleInv
<1>7. ASSUME NEW w \in Workers, ProcessingFails(w) PROVE IInv'
  <2>1. /\ pc[w] = "processing" /\ pc'[w] = "failing"
        /\ \A v \in Workers : v # w => pc'[v] = pc[v]
        /\ UNCHANGED <<status, attempts, artifact, job, claim, holder>>
    BY <1>7 DEF ProcessingFails, TypeOK, runVars
  <2> QED
    BY <2>1 DEF IInv, AtMostOneRunning, HolderOwnsItsAttempt, RetryBudget, ArtifactAgrees,
                HolderState, Rows, Busy
<1>8. ASSUME NEW w \in Workers, RecordFailure(w) PROVE IInv'
  <2> DEFINE outcome == IF attempts[job[w]] < MaxAttempts THEN "queued" ELSE "failed"
  <2>1. pc[w] \in Busy /\ AssertRunOwnership(w)
        /\ status' = [status EXCEPT ![job[w]] = outcome]
        /\ artifact' = [artifact EXCEPT ![job[w]] = IF job[w] \in DbtRuns THEN outcome ELSE @]
        /\ pc' = [pc EXCEPT ![w] = "idle"] /\ UNCHANGED <<attempts, job, claim, holder>>
    BY <1>8 DEF RecordFailure, Busy
  <2>2. attempts[job[w]] \in 0..MaxAttempts
    BY <2>1 DEF TypeOK
  <2>3. /\ outcome \in {"queued", "failed"}
        /\ outcome = "queued" => attempts[job[w]] < MaxAttempts
        /\ outcome = "failed" => attempts[job[w]] = MaxAttempts
    BY <2>2, NumbersAssumption
  <2> HIDE DEF outcome
  <2> QED
    BY <1>0, <2>1, <2>3, SettleInv
<1>9. ASSUME NEW w \in Workers, LoseOwnership(w) PROVE IInv'
  BY <1>9, ExitInv DEF LoseOwnership
<1>10. ASSUME NEW w \in Workers, Crash(w) PROVE IInv'
  BY <1>10, ExitInv DEF Crash
<1>11. ASSUME NEW w \in Workers, Stop(w) PROVE IInv'
  BY <1>11, ExitInv DEF Stop
<1>12. ASSUME NEW w \in Workers, DropSession(w) PROVE IInv'
  <2>1. holder' = NoWorker /\ UNCHANGED <<status, attempts, artifact>>
    BY <1>12 DEF DropSession, runVars
  <2> QED
    BY <2>1, WorkersAssumption
       DEF IInv, AtMostOneRunning, HolderOwnsItsAttempt, RetryBudget, ArtifactAgrees,
           HolderState, Rows
<1>13. ASSUME NEW q \in Runs, Enqueue(q) PROVE IInv'
  <2>1. /\ status[q] = "absent" /\ status'[q] = "queued"
        /\ q \in DbtRuns => artifact'[q] = "queued"
        /\ q \notin DbtRuns => artifact'[q] = artifact[q]
        /\ \A r \in Runs : r # q => status'[r] = status[r] /\ artifact'[r] = artifact[r]
        /\ UNCHANGED <<attempts, pc, job, claim, holder>>
    BY <1>13 DEF Enqueue, TypeOK, workerVars
  <2>2. attempts[q] = 0
    BY <2>1 DEF IInv, Rows
  <2>3. AtMostOneRunning' /\ HolderState'
    BY <2>1 DEF IInv, AtMostOneRunning, HolderState
  <2>4. HolderOwnsItsAttempt'
    BY <2>1 DEF IInv, HolderOwnsItsAttempt, TypeOK
  <2>5. RetryBudget'
    BY <2>1, <2>2, NumbersAssumption DEF IInv, RetryBudget
  <2>6. ArtifactAgrees' /\ Rows'
    BY <2>1, RunsAssumption DEF IInv, ArtifactAgrees, Rows
  <2> QED
    BY <2>3, <2>4, <2>5, <2>6 DEF IInv
<1>14. CASE UNCHANGED <<runVars, workerVars, holder>>
  BY <1>14 DEF runVars, workerVars, IInv, AtMostOneRunning, HolderOwnsItsAttempt, RetryBudget,
               ArtifactAgrees, HolderState, Rows
<1>15. ASSUME NEW r \in Runs, ChangeRole(r) PROVE IInv'
  BY <1>14, <1>15 DEF ChangeRole
<1>16. CASE ReapBackend
  <2>1. holder' = NoWorker /\ UNCHANGED <<status, attempts, artifact>>
    BY <1>16 DEF ReapBackend, runVars
  <2> QED
    BY <2>1, WorkersAssumption
       DEF IInv, AtMostOneRunning, HolderOwnsItsAttempt, RetryBudget, ArtifactAgrees,
           HolderState, Rows
<1>17. CASE Tick
  BY <1>14, <1>17 DEF Tick
<1>18. CASE UNCHANGED vars
  BY <1>14, <1>18 DEF vars
<1> QED
  BY <1>1, <1>2, <1>3, <1>4, <1>5, <1>6, <1>7, <1>8, <1>9, <1>10, <1>11, <1>12,
     <1>13, <1>15, <1>16, <1>17, <1>18 DEF Next, WorkerStep

LEMMA Inductive == Spec => [](TypeOK /\ IInv)
BY TypeInit, TypeStep, InvInit, InvStep, PTL DEF Spec

(* For any number of workers, runs, crashes and dropped sessions: one run  *)
(* at a time is being processed.                                           *)
THEOREM OneRunAtATime == Spec => []AtMostOneRunning
BY Inductive, PTL DEF IInv

(* The holder of the lock is never robbed of the attempt it claimed.       *)
THEOREM HolderKeepsItsAttempt == Spec => []HolderOwnsItsAttempt
BY Inductive, PTL DEF IInv

(* No queued run is beyond the retry filter, none is given up early.       *)
THEOREM BudgetIsExact == Spec => []RetryBudget
BY Inductive, PTL DEF IInv

(* Run and artifact are finished together.                                 *)
THEOREM ArtifactFollowsRun == Spec => []ArtifactAgrees
BY Inductive, PTL DEF IInv

-----------------------------------------------------------------------------
(* Who may change a running run, and that nobody changes a finished one.   *)
LEMMA HolderSettlesStep ==
  ASSUME TypeOK, IInv, [Next]_vars,
         NEW r \in Runs, status[r] = "running", status'[r] # "running"
  PROVE  \E w \in Workers :
           /\ holder = w
           /\ \/ pc[w] = "started"
              \/ pc[w] \in {"processing", "failing"} /\ job[w] = r /\ claim[w] = attempts[r]
<1>1. status' # status
  OBVIOUS
<1>2. ASSUME NEW w \in Workers, Recover(w) PROVE holder = w /\ pc[w] = "started"
  BY <1>2 DEF Recover, AssertWorkerOwnership
<1>3. ASSUME NEW w \in Workers, Claim(w) PROVE FALSE
  BY <1>3 DEF Claim, TypeOK, FirstInQueue, Claimable
<1>4. ASSUME NEW w \in Workers, Publish(w) \/ RecordFailure(w)
      PROVE  holder = w /\ pc[w] \in {"processing", "failing"} /\ job[w] = r /\ claim[w] = attempts[r]
  BY <1>4 DEF Publish, RecordFailure, AssertRunOwnership, AssertWorkerOwnership, TypeOK
<1>5. ASSUME NEW q \in Runs, Enqueue(q) PROVE FALSE
  BY <1>5 DEF Enqueue, TypeOK
<1> QED
  BY <1>1, <1>2, <1>3, <1>4, <1>5
     DEF Next, WorkerStep, Start, ClaimUnreadable, BeginProcessing, ProcessingFails, LoseOwnership,
         Crash, Stop, DropSession, ChangeRole, ReapBackend, Tick, vars, runVars

(* The fence: only the lock holder, for its own current attempt or in its  *)
(* recovery, moves a run out of "running".                                 *)
THEOREM FencedSettlement == Spec => OnlyTheHolderSettles
<1>1. TypeOK /\ IInv /\ [Next]_vars =>
        [\A r \in Runs : status[r] = "running" /\ status'[r] # "running" =>
           \E w \in Workers :
             /\ holder = w
             /\ \/ pc[w] = "started"
                \/ pc[w] \in {"processing", "failing"} /\ job[w] = r /\ claim[w] = attempts[r]]_vars
  BY HolderSettlesStep
<1> QED
  BY <1>1, Inductive, PTL DEF Spec, OnlyTheHolderSettles

LEMMA FinishedStep ==
  ASSUME TypeOK, IInv, [Next]_vars, NEW r \in Runs, status[r] \in Finished
  PROVE  /\ status'[r] = status[r] /\ attempts'[r] = attempts[r]
         /\ artifact'[r] = artifact[r] /\ payload'[r] = payload[r]
<1> USE DEF Finished
<1>1. ASSUME NEW w \in Workers, Recover(w) PROVE r \notin Interrupted
  BY <1>1 DEF Interrupted
<1>2. ASSUME NEW w \in Workers, Claim(w)
      PROVE  status'[r] = status[r] /\ attempts'[r] = attempts[r]
  BY <1>2 DEF Claim, TypeOK, FirstInQueue, Claimable
<1>3. ASSUME NEW w \in Workers, pc[w] \in Busy, holder = w
      PROVE  job[w] # r
  BY <1>3 DEF IInv, HolderOwnsItsAttempt
<1>4. ASSUME NEW w \in Workers, BeginProcessing(w) \/ Publish(w) \/ RecordFailure(w)
      PROVE  status'[r] = status[r] /\ artifact'[r] = artifact[r] /\ payload'[r] = payload[r]
  <2>1. job[w] # r
    BY <1>3, <1>4 DEF BeginProcessing, Publish, RecordFailure, AssertRunOwnership,
                      AssertWorkerOwnership, Busy
  <2> QED
    BY <1>4, <2>1 DEF BeginProcessing, Publish, RecordFailure, TypeOK
<1>5. ASSUME NEW q \in Runs, Enqueue(q) PROVE q # r
  BY <1>5 DEF Enqueue
<1> QED
  BY <1>1, <1>2, <1>4, <1>5
     DEF Next, WorkerStep, Start, Recover, Claim, ClaimUnreadable, BeginProcessing, Publish,
         ProcessingFails, RecordFailure, LoseOwnership, Enqueue, Crash, Stop, DropSession,
         ChangeRole, ReapBackend, Tick, vars, runVars, TypeOK

(* A published or given-up run is never reopened, recounted or rewritten.  *)
THEOREM FinishedForGood == Spec => FinishedIsFinal
<1>1. TypeOK /\ IInv /\ [Next]_vars =>
        [\A r \in Runs : status[r] \in Finished =>
           /\ status'[r] = status[r] /\ attempts'[r] = attempts[r]
           /\ artifact'[r] = artifact[r] /\ payload'[r] = payload[r]]_vars
  BY FinishedStep
<1> QED
  BY <1>1, Inductive, PTL DEF Spec, FinishedIsFinal

(* The payload is trimmed only by the step that finishes its run.          *)
LEMMA PayloadStep ==
  ASSUME TypeOK, IInv, PayloadKeptForRetry, [Next]_vars
  PROVE  PayloadKeptForRetry'
<1> SUFFICES ASSUME NEW r \in DbtRuns, status'[r] \in {"queued", "running"}
             PROVE  payload'[r] = "manifest"
  BY DEF PayloadKeptForRetry
<1>1. r \in Runs
  BY RunsAssumption
<1>2. payload[r] = "manifest" \/ status[r] \notin {"queued", "running"}
  BY DEF PayloadKeptForRetry
<1>3. ASSUME UNCHANGED payload, status[r] \in {"queued", "running"}
      PROVE  payload'[r] = "manifest"
  BY <1>2, <1>3
<1>4. ASSUME NEW w \in Workers, Recover(w) PROVE status[r] \in {"queued", "running"}
  BY <1>1, <1>4 DEF Recover, Interrupted
<1>5. ASSUME NEW w \in Workers, Claim(w) PROVE status[r] \in {"queued", "running"}
  BY <1>1, <1>5 DEF Claim, TypeOK, FirstInQueue, Claimable
<1>6. ASSUME NEW w \in Workers, Publish(w) PROVE payload'[r] = "manifest"
  BY <1>1, <1>2, <1>6 DEF Publish, TypeOK, Results
<1>7. ASSUME NEW w \in Workers, RecordFailure(w) PROVE payload'[r] = "manifest"
  <2> DEFINE j == job[w]
             retry == attempts[j] < MaxAttempts
  <2>1. /\ status' = [status EXCEPT ![j] = IF retry THEN "queued" ELSE "failed"]
        /\ payload' = [payload EXCEPT ![j] = IF j \in DbtRuns /\ ~retry THEN "digest" ELSE payload[j]]
        /\ status[j] = "running"
    BY <1>7 DEF RecordFailure, AssertRunOwnership
  <2> HIDE DEF retry, j
  <2>2. CASE r = j
    <3>1. retry
      BY <1>1, <2>1, <2>2 DEF TypeOK
    <3> QED BY <1>1, <1>2, <2>1, <2>2, <3>1 DEF TypeOK
  <2>3. CASE r # j
    BY <1>1, <1>2, <2>1, <2>3 DEF TypeOK
  <2> QED BY <2>2, <2>3
<1>8. ASSUME NEW q \in Runs, Enqueue(q) PROVE payload'[r] = "manifest"
  BY <1>1, <1>2, <1>8 DEF Enqueue, TypeOK
<1>9. ASSUME UNCHANGED <<status, payload>> PROVE payload'[r] = "manifest"
  BY <1>2, <1>9
<1> QED
  BY <1>3, <1>4, <1>5, <1>6, <1>7, <1>8, <1>9
     DEF Next, WorkerStep, Start, Recover, Claim, ClaimUnreadable, BeginProcessing,
         ProcessingFails, LoseOwnership, Crash, Stop, DropSession, ChangeRole, ReapBackend,
         Tick, vars, runVars

(* The manifest is there for as long as an attempt may need it, whatever   *)
(* crashes and however often its run is recovered and retried.             *)
THEOREM PayloadOutlivesRetries == Spec => []PayloadKeptForRetry
<1>1. Init => PayloadKeptForRetry
  BY RunsAssumption DEF Init, PayloadKeptForRetry
<1> QED
  BY <1>1, PayloadStep, Inductive, PTL DEF Spec

-----------------------------------------------------------------------------
(* The refinement: every step is a step of SyncRunQueue or stutters there. *)
Waiting == {r \in Runs : status[r] = "queued"}
Active  == {r \in Runs : status[r] = "running"}
Outcome == [r \in Runs |-> IF status[r] \in Finished THEN status[r] ELSE "pending"]

LEMMA QueueInit == Init => Queue!Init
BY DEF Init, Queue!Init, Finished

(* A step that leaves status and attempts alone is invisible.              *)
LEMMA QueueStutter ==
  ASSUME UNCHANGED <<status, attempts>> PROVE UNCHANGED Queue!vars
BY DEF Queue!vars

(* A step that takes the one running run r to another status.              *)
LEMMA QueueSettle ==
  ASSUME TypeOK, IInv, NEW r \in Runs, status[r] = "running",
         NEW next \in {"queued", "failed", "success", "partial"},
         next = "queued" => attempts[r] < MaxAttempts,
         next = "failed" => attempts[r] = MaxAttempts,
         status' = [status EXCEPT ![r] = next], UNCHANGED attempts
  PROVE  Queue!Next
<1>1. Active = {r}
  BY DEF Active, IInv, AtMostOneRunning
<1>2. status'[r] = next /\ \A q \in Runs : q # r => status'[q] = status[q]
  BY DEF TypeOK
<1>3. Active' = {}
  BY <1>1, <1>2 DEF Active
<1>4. CASE next = "queued"
  <2>1. Waiting' = Waiting \cup {r}
    BY <1>2, <1>4 DEF Waiting
  <2>2. Outcome' = Outcome
    BY <1>2, <1>4 DEF Outcome, Finished
  <2>3. Queue!GiveBack(r)
    BY <1>1, <1>3, <1>4, <2>1, <2>2 DEF Queue!GiveBack, Waiting, Active, Outcome
  <2> QED
    BY <2>3 DEF Queue!Next
<1>5. CASE next # "queued"
  <2>1. Waiting' = Waiting
    BY <1>2, <1>5 DEF Waiting
  <2>2. Outcome' = [Outcome EXCEPT ![r] = next]
    BY <1>2, <1>5 DEF Outcome, Finished
  <2>3. Queue!Settle(r, next)
    BY <1>1, <1>3, <1>5, <2>1, <2>2 DEF Queue!Settle, Waiting, Active, Outcome
  <2> QED
    BY <1>5, <2>3 DEF Queue!Next
<1> QED
  BY <1>4, <1>5

LEMMA QueueStep ==
  ASSUME TypeOK, IInv, [Next]_vars PROVE [Queue!Next]_(Queue!vars)
<1>1. ASSUME NEW w \in Workers, Recover(w) PROVE Queue!Next \/ UNCHANGED Queue!vars
  <2>1. status' = [q \in Runs |-> IF q \in Interrupted THEN AfterInterruption(q) ELSE status[q]]
        /\ UNCHANGED attempts
    BY <1>1 DEF Recover
  <2>2. CASE Interrupted = {}
    BY <2>1, <2>2, QueueStutter DEF TypeOK
  <2>3. CASE Interrupted # {}
    <3> PICK r : r \in Interrupted
      BY <2>3
    <3>1. r \in Runs /\ status[r] = "running" /\ attempts[r] \in 0..MaxAttempts
      BY DEF Interrupted, TypeOK
    <3>2. Interrupted = {r}
      BY <3>1 DEF Interrupted, IInv, AtMostOneRunning
    <3>3. status' = [status EXCEPT ![r] = AfterInterruption(r)]
      BY <2>1, <3>2 DEF TypeOK
    <3>4. /\ AfterInterruption(r) \in {"queued", "failed"}
          /\ AfterInterruption(r) = "queued" => attempts[r] < MaxAttempts
          /\ AfterInterruption(r) = "failed" => attempts[r] = MaxAttempts
      BY <3>1, NumbersAssumption DEF AfterInterruption
    <3> QED
      BY <2>1, <3>1, <3>3, <3>4, QueueSettle
  <2> QED
    BY <2>2, <2>3
<1>2. ASSUME NEW w \in Workers, Claim(w) PROVE Queue!Next
  <2> PICK r \in FirstInQueue :
        /\ status' = [status EXCEPT ![r] = "running"]
        /\ attempts' = [attempts EXCEPT ![r] = @ + 1]
    BY <1>2 DEF Claim
  <2>1. r \in Runs /\ status[r] = "queued" /\ attempts[r] < MaxAttempts
    BY DEF FirstInQueue, Claimable
  <2>2. Active = {}
    BY <1>2 DEF Claim, AssertWorkerOwnership, IInv, HolderState, Active
  <2>3. status'[r] = "running" /\ \A q \in Runs : q # r => status'[q] = status[q]
    BY <2>1 DEF TypeOK
  <2>4. Active' = {r} /\ Waiting' = Waiting \ {r} /\ r \in Waiting
    BY <2>1, <2>2, <2>3 DEF Active, Waiting
  <2>5. Outcome' = Outcome
    BY <2>1, <2>3 DEF Outcome, Finished
  <2>6. Queue!Take(r)
    BY <2>1, <2>2, <2>4, <2>5 DEF Queue!Take, Waiting, Active, Outcome
  <2> QED
    BY <2>1, <2>6 DEF Queue!Next
<1>3. ASSUME NEW w \in Workers, Publish(w) PROVE Queue!Next
  <2> PICK result \in Results(job[w]) : status' = [status EXCEPT ![job[w]] = result]
    BY <1>3 DEF Publish
  <2>1. result \in {"success", "partial"}
    BY DEF Results
  <2>2. job[w] \in Runs /\ status[job[w]] = "running" /\ UNCHANGED attempts
    BY <1>3 DEF Publish, TypeOK, Busy, AssertRunOwnership
  <2> QED
    BY <2>1, <2>2, QueueSettle
<1>4. ASSUME NEW w \in Workers, RecordFailure(w) PROVE Queue!Next
  <2> DEFINE outcome == IF attempts[job[w]] < MaxAttempts THEN "queued" ELSE "failed"
  <2>1. /\ job[w] \in Runs /\ status[job[w]] = "running" /\ UNCHANGED attempts
        /\ status' = [status EXCEPT ![job[w]] = outcome]
    BY <1>4 DEF RecordFailure, TypeOK, Busy, AssertRunOwnership
  <2>2. /\ outcome \in {"queued", "failed"}
        /\ outcome = "queued" => attempts[job[w]] < MaxAttempts
        /\ outcome = "failed" => attempts[job[w]] = MaxAttempts
    BY <2>1, NumbersAssumption DEF TypeOK
  <2> HIDE DEF outcome
  <2> QED
    BY <2>1, <2>2, QueueSettle
<1>5. ASSUME NEW q \in Runs, Enqueue(q) PROVE Queue!Next
  <2>1. /\ status[q] = "absent" /\ attempts[q] = 0 /\ UNCHANGED attempts
        /\ status'[q] = "queued" /\ \A r \in Runs : r # q => status'[r] = status[r]
    BY <1>5 DEF Enqueue, IInv, Rows, TypeOK
  <2>2. Waiting' = Waiting \cup {q} /\ q \notin Waiting \cup Active /\ Active' = Active
    BY <2>1 DEF Waiting, Active
  <2>3. Outcome' = Outcome /\ Outcome[q] = "pending"
    BY <2>1 DEF Outcome, Finished
  <2>4. Queue!Submit(q)
    BY <2>1, <2>2, <2>3 DEF Queue!Submit, Waiting, Active, Outcome
  <2> QED
    BY <2>4 DEF Queue!Next
<1>6. CASE UNCHANGED <<status, attempts>>
  BY <1>6, QueueStutter
<1> QED
  BY <1>1, <1>2, <1>3, <1>4, <1>5, <1>6
     DEF Next, WorkerStep, Start, ClaimUnreadable, BeginProcessing, ProcessingFails, LoseOwnership,
         Crash, Stop, DropSession, ChangeRole, ReapBackend, Tick, vars, runVars

(* The whole worker, with its crashes and dropped sessions, is a queue     *)
(* served one run at a time that settles every run at most once.           *)
THEOREM WorkerImplementsQueue == Spec => ImplementsQueue
<1>1. TypeOK /\ IInv /\ [Next]_vars => [Queue!Next]_(Queue!vars)
  BY QueueStep
<1> QED
  BY <1>1, QueueInit, Inductive, PTL DEF Spec, ImplementsQueue, Queue!Spec
=============================================================================
