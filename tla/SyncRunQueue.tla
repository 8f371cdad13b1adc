----------------------------- MODULE SyncRunQueue -----------------------------
(***************************************************************************)
(* What the ingestion queue promises its users, without workers, locks,    *)
(* sessions or artifacts: runs are taken one at a time, an attempt is      *)
(* counted whenever a run is taken, a run that was not finished is given   *)
(* back while it has attempts left and given up when it has none, and an   *)
(* outcome, once there, is the outcome.                                    *)
(***************************************************************************)
EXTENDS Integers

CONSTANTS Runs, MaxAttempts

VARIABLES
  waiting,   \* runs somebody may take
  active,    \* the run being worked on: a set of at most one element
  outcome,   \* "pending" until the run is finished
  tries      \* how often the run has been taken

vars == <<waiting, active, outcome, tries>>

Init ==
  /\ waiting = {}
  /\ active = {}
  /\ outcome = [r \in Runs |-> "pending"]
  /\ tries = [r \in Runs |-> 0]

Submit(r) ==
  /\ r \notin waiting \cup active
  /\ outcome[r] = "pending"
  /\ tries[r] = 0
  /\ waiting' = waiting \cup {r}
  /\ UNCHANGED <<active, outcome, tries>>

Take(r) ==
  /\ active = {}
  /\ r \in waiting
  /\ tries[r] < MaxAttempts
  /\ active' = {r}
  /\ waiting' = waiting \ {r}
  /\ tries' = [tries EXCEPT ![r] = @ + 1]
  /\ UNCHANGED outcome

GiveBack(r) ==
  /\ active = {r}
  /\ tries[r] < MaxAttempts
  /\ active' = {}
  /\ waiting' = waiting \cup {r}
  /\ UNCHANGED <<outcome, tries>>

Settle(r, result) ==
  /\ active = {r}
  /\ result = "failed" => tries[r] = MaxAttempts
  /\ active' = {}
  /\ outcome' = [outcome EXCEPT ![r] = result]
  /\ UNCHANGED <<waiting, tries>>

Next ==
  \E r \in Runs :
    \/ Submit(r)
    \/ Take(r)
    \/ GiveBack(r)
    \/ \E result \in {"success", "partial", "failed"} : Settle(r, result)

Spec == Init /\ [][Next]_vars
=============================================================================
