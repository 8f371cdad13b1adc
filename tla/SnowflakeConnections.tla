------------------------ MODULE SnowflakeConnections ------------------------
(***************************************************************************)
(* Snowflake connections of one organization (api/routes/connections.py),  *)
(* the sync and upload requests that queue runs (api/routes/ingestion.py), *)
(* and what the worker writes to a connection while it syncs it            *)
(* (process_snowflake_sync).  Editing, validating, disabling and syncing a *)
(* connection share one advisory lock per connection; the worker does not  *)
(* take it.  No constraint of the database forbids a second active sync:   *)
(* only that lock and the checks made under it do.                         *)
(*                                                                         *)
(* A request takes the lock, checks, and writes; validation calls          *)
(* Snowflake between its check and its write.  What it read before its     *)
(* turn at the lock it reads again, so a request that waits has no state   *)
(* here.  Organizations share nothing.                                     *)
(***************************************************************************)
CONSTANTS
  Connections,  \* ids of snowflake_connections
  Runs,         \* ids of sync_runs
  Keys,         \* values of Idempotency-Key
  Sessions,     \* concurrent API requests
  Accounts, Warehouses,
  Logins,       \* the rest of a scope: user_name, role_name
  NoConnection, \* connection_id of a dbt upload
  NoSession, NoRun, NoScope,
  NoKey         \* of a request that carries none

ASSUME ConnectionsAssumption == NoConnection \notin Connections
ASSUME SessionsAssumption == NoSession \notin Sessions
ASSUME RunsAssumption == NoRun \notin Runs

Sources == [account : Accounts, warehouse : Warehouses]
Scopes  == [source : Sources, login : Logins]
Active  == {"queued", "running"}

ASSUME ScopesAssumption == NoScope \notin Scopes \cup Sources /\ Scopes # {}
ASSUME KeysAssumption == NoKey \notin Keys

VARIABLES
  connection, \* rows: status, enabled, scope, and the scope its capabilities are of
  watermark,  \* whose usage query_attribution_history has got to, if any
  usage,      \* where the connection's query_usage rows come from
  run,        \* rows of sync_runs; scope is the connection's at the request
  lock,       \* who holds advisory lock tibbou:snowflake:<org>:<connection>
  step,       \* how far each request is
  command,    \* what it is asked to do
  worker,     \* the run the worker has claimed, the scope it works with
  answered    \* history: the answers that named a run for a key

rows == <<connection, watermark, usage>>
vars == <<rows, run, lock, step, command, worker, answered>>

AnyKey  == Keys \cup {NoKey}
Targets == Connections \cup {NoConnection}
Commands ==
  [kind : {"update", "validate", "disable", "sync", "upload"},
   conn : Targets, key : AnyKey, to : Scopes]

(* With the unique index on enabled connections and the one on keys.       *)
TypeOK ==
  /\ connection \in [Connections ->
       [status : {"absent", "pending", "valid", "invalid", "disabled"},
        enabled : BOOLEAN, scope : Scopes, confirmed : Scopes \cup {NoScope}]]
  /\ watermark \in [Connections -> Sources \cup {NoScope}]
  /\ usage \in [Connections -> SUBSET Sources]
  /\ run \in [Runs -> [status : {"absent", "success", "failed"} \cup Active,
                       key : AnyKey, conn : Targets, scope : Scopes]]
  /\ lock \in [Connections -> Sessions \cup {NoSession}]
  /\ step \in [Sessions -> {"idle", "locked", "checked"}]
  /\ command \in [Sessions -> Commands]
  /\ worker \in [run : Runs \cup {NoRun}, scope : Scopes \cup {NoScope}]
  /\ answered \subseteq [key : AnyKey, conn : Targets, run : Runs]
  /\ \A c, d \in Connections : connection[c].enabled /\ connection[d].enabled => c = d
  /\ \A r, q \in Runs :
       run[r].status # "absent" /\ run[q].status # "absent" /\ run[r].key = run[q].key => r = q

SomeScope == CHOOSE s \in Scopes : TRUE
NoCommand == [kind |-> "upload", conn |-> NoConnection, key |-> NoKey, to |-> SomeScope]
AtRest    == [run |-> NoRun, scope |-> NoScope]

Init ==
  /\ connection = [c \in Connections |->
       [status |-> "absent", enabled |-> FALSE, scope |-> SomeScope, confirmed |-> NoScope]]
  /\ watermark = [c \in Connections |-> NoScope]
  /\ usage = [c \in Connections |-> {}]
  /\ run = [r \in Runs |->
       [status |-> "absent", key |-> NoKey, conn |-> NoConnection, scope |-> SomeScope]]
  /\ lock = [c \in Connections |-> NoSession]
  /\ step = [s \in Sessions |-> "idle"]
  /\ command = [s \in Sessions |-> NoCommand]
  /\ worker = AtRest
  /\ answered = {}

-----------------------------------------------------------------------------
(* What requests ask and read *)

(* _sync_is_active, over queued and running runs alike.                    *)
SyncIsActiveRunning(c) == \E r \in Runs : run[r].conn = c /\ run[r].status = "running"

SyncIsActive(c) == \E r \in Runs : run[r].conn = c /\ run[r].status \in Active

(* _existing_run: runs with this idempotency key, at most one.             *)
Existing(k) == {r \in Runs : run[r].status # "absent" /\ run[r].key = k}

(* select ... for update, which all but the sync request do under the      *)
(* lock, keeps the worker from the row until the request ends.             *)
RowHeld(c) == lock[c] \in Sessions /\ command[lock[c]].kind # "sync"

(* The end of a transaction.                                               *)
Release(s) ==
  /\ step' = [step EXCEPT ![s] = "idle"]
  /\ command' = [command EXCEPT ![s] = NoCommand]
  /\ lock' = [c \in Connections |-> IF lock[c] = s THEN NoSession ELSE lock[c]]

-----------------------------------------------------------------------------
(* Requests *)

(* create_connection: row, key pair and vault secret in one commit.        *)
CreateConnection(c) ==
  /\ connection[c].status = "absent"
  /\ \E scope \in Scopes :
       connection' = [connection EXCEPT ![c] =
         [status |-> "pending", enabled |-> FALSE, scope |-> scope, confirmed |-> NoScope]]
  /\ UNCHANGED <<watermark, usage, run, lock, step, command, worker, answered>>

(* An upload goes straight to its insert.                                  *)
Arrive(s) ==
  /\ step[s] = "idle"
  /\ \E k \in Keys : command' = [command EXCEPT ![s] = [NoCommand EXCEPT !.key = k]]
  /\ step' = [step EXCEPT ![s] = "checked"]
  /\ UNCHANGED <<rows, run, lock, worker, answered>>

(* What is asked of an existing connection.                                *)
Asked(m) ==
  /\ m.conn \in Connections /\ connection[m.conn].status # "absent"
  /\ m.kind # "upload"
  /\ (m.kind = "sync") = (m.key # NoKey)
  /\ m.kind # "update" => m.to = SomeScope

(* lock_connection, and the row as it is read then.  A validation keeps    *)
(* the scope it is going to show Snowflake.                                *)
AsRead(m) ==
  [m EXCEPT !.to = IF m.kind = "validate" THEN connection[m.conn].scope ELSE @]

LockConnectionUnlocked(s) ==
  /\ step[s] = "idle"
  /\ \E m \in Commands : Asked(m) /\ command' = [command EXCEPT ![s] = AsRead(m)]
  /\ step' = [step EXCEPT ![s] = "locked"]
  /\ UNCHANGED <<rows, run, lock, worker, answered>>

LockConnection(s) ==
  /\ step[s] = "idle"
  /\ \E m \in Commands :
       /\ Asked(m) /\ lock[m.conn] = NoSession
       /\ lock' = [lock EXCEPT ![m.conn] = s]
       /\ command' = [command EXCEPT ![s] = AsRead(m)]
  /\ step' = [step EXCEPT ![s] = "locked"]
  /\ UNCHANGED <<rows, run, worker, answered>>

(* update_connection: another account or warehouse only before there is    *)
(* usage (or, for a warehouse, a watermark), another scope only without an *)
(* active sync.                                                            *)
MayRescopeWithUsage(c, to) ==
  LET from == connection[c].scope
  IN /\ from.source.warehouse # to.source.warehouse => watermark[c] = NoScope
     /\ from # to => ~SyncIsActive(c)

MayRescopeWithWatermark(c, to) ==
  LET from == connection[c].scope
  IN /\ from.source # to.source => usage[c] = {}
     /\ from # to => ~SyncIsActive(c)

MayRescope(c, to) ==
  LET from == connection[c].scope
  IN /\ from.source # to.source => usage[c] = {}
     /\ from.source.warehouse # to.source.warehouse => watermark[c] = NoScope
     /\ from # to => ~SyncIsActive(c)

(* enqueue_snowflake_sync under the lock: no run of that key, enabled,     *)
(* valid, capable, no active sync.                                         *)
MaySync(c, k) ==
  /\ Existing(k) = {}
  /\ connection[c].enabled /\ connection[c].status = "valid"
  /\ connection[c].confirmed # NoScope
  /\ ~SyncIsActive(c)

Check(s) ==
  /\ step[s] = "locked"
  /\ LET m == command[s]
     IN /\ m.kind = "update" => MayRescope(m.conn, m.to)
        /\ m.kind \in {"validate", "disable"} => ~SyncIsActive(m.conn)
        /\ m.kind = "sync" => MaySync(m.conn, m.key)
  /\ step' = [step EXCEPT ![s] = "checked"]
  /\ UNCHANGED <<rows, run, lock, command, worker, answered>>

(* A scope that changes takes validation, enablement and capabilities      *)
(* with it; a watermark stays.                                             *)
Update(s) ==
  /\ step[s] = "checked" /\ command[s].kind = "update"
  /\ LET m == command[s]
     IN connection' = [connection EXCEPT ![m.conn] =
          IF @.scope = m.to THEN @
          ELSE [status |-> "pending", enabled |-> FALSE, scope |-> m.to, confirmed |-> NoScope]]
  /\ Release(s)
  /\ UNCHANGED <<watermark, usage, run, worker, answered>>

(* validate_snowflake_connection: Snowflake has accepted the scope read    *)
(* under the lock; only one connection may be enabled.                     *)
ValidateAnother(s) ==
  /\ step[s] = "checked" /\ command[s].kind = "validate"
  /\ LET c == command[s].conn
     IN connection' = [connection EXCEPT ![c] =
          [status |-> "valid", enabled |-> TRUE, scope |-> @.scope, confirmed |-> command[s].to]]
  /\ Release(s)
  /\ UNCHANGED <<watermark, usage, run, worker, answered>>

Validate(s) ==
  /\ step[s] = "checked" /\ command[s].kind = "validate"
  /\ LET c == command[s].conn
     IN /\ \A d \in Connections \ {c} : ~connection[d].enabled
        /\ connection' = [connection EXCEPT ![c] =
             [status |-> "valid", enabled |-> TRUE, scope |-> @.scope, confirmed |-> command[s].to]]
  /\ Release(s)
  /\ UNCHANGED <<watermark, usage, run, worker, answered>>

(* The validation failed: 422, but the row says so.                        *)
Invalidate(s) ==
  /\ step[s] = "checked" /\ command[s].kind = "validate"
  /\ connection' = [connection EXCEPT ![command[s].conn] =
       [status |-> "invalid", enabled |-> FALSE, scope |-> @.scope, confirmed |-> NoScope]]
  /\ Release(s)
  /\ UNCHANGED <<watermark, usage, run, worker, answered>>

Disable(s) ==
  /\ step[s] = "checked" /\ command[s].kind = "disable"
  /\ connection' = [connection EXCEPT ![command[s].conn].status = "disabled",
                                      ![command[s].conn].enabled = FALSE]
  /\ Release(s)
  /\ UNCHANGED <<watermark, usage, run, worker, answered>>

(* Insert and commit; uq_sync_runs_org_idempotency decides between two     *)
(* requests that both found no run of the key.                             *)
Enqueue(s, r) ==
  /\ step[s] = "checked" /\ command[s].kind \in {"sync", "upload"}
  /\ LET m == command[s]
     IN /\ run[r].status = "absent" /\ Existing(m.key) = {}
        /\ run' = [run EXCEPT ![r] =
             [status |-> "queued", key |-> m.key, conn |-> m.conn,
              scope |-> IF m.conn \in Connections THEN connection[m.conn].scope ELSE SomeScope]]
        /\ answered' = answered \cup {[key |-> m.key, conn |-> m.conn, run |-> r]}
  /\ Release(s)
  /\ UNCHANGED <<rows, worker>>

(* The run of that key, found before the lock (then it is there under it   *)
(* as well), under it, or after the insert was refused; 409 when it is of  *)
(* something else.                                                         *)
AnswerExistingUnchecked(s) ==
  /\ step[s] # "idle" /\ command[s].kind \in {"sync", "upload"}
  /\ LET m == command[s]
     IN \E r \in Existing(m.key) :
          answered' = answered \cup {[key |-> m.key, conn |-> m.conn, run |-> r]}
  /\ Release(s)
  /\ UNCHANGED <<rows, run, worker>>

AnswerExisting(s) ==
  /\ step[s] # "idle" /\ command[s].kind \in {"sync", "upload"}
  /\ LET m == command[s]
     IN \E r \in Existing(m.key) :
          /\ run[r].conn = m.conn
          /\ answered' = answered \cup {[key |-> m.key, conn |-> m.conn, run |-> r]}
  /\ Release(s)
  /\ UNCHANGED <<rows, run, worker>>

(* A check that fails, a role that is gone, a constraint, a lost           *)
(* connection: the transaction is rolled back.                             *)
Refuse(s) ==
  /\ step[s] # "idle"
  /\ Release(s)
  /\ UNCHANGED <<rows, run, worker, answered>>

-----------------------------------------------------------------------------
(* The worker: module IngestionWorker shows that one run is processed at a *)
(* time and who may write.                                                 *)

Claim(r) ==
  /\ worker = AtRest
  /\ run[r].status = "queued"
  /\ run' = [run EXCEPT ![r].status = "running"]
  /\ worker' = [run |-> r, scope |-> NoScope]
  /\ UNCHANGED <<rows, lock, step, command, answered>>

Syncing(c) == worker.run \in Runs /\ run[worker.run].conn = c /\ worker.scope # NoScope

(* process_snowflake_sync reads the connection once, without a lock.       *)
BeginSync(c) ==
  /\ worker.run \in Runs /\ worker.scope = NoScope /\ run[worker.run].conn = c
  /\ connection[c].enabled /\ connection[c].status = "valid"
  /\ worker' = [worker EXCEPT !.scope = connection[c].scope]
  /\ UNCHANGED <<rows, run, lock, step, command, answered>>

(* _assert_sync_connection, on the row read again for update.              *)
StillTheSame(c) ==
  /\ ~RowHeld(c)
  /\ connection[c].enabled /\ connection[c].status = "valid"
  /\ connection[c].scope = worker.scope

ImportPage(c) ==
  /\ Syncing(c)
  /\ StillTheSame(c)
  /\ usage' = [usage EXCEPT ![c] = @ \cup {worker.scope.source}]
  /\ UNCHANGED <<connection, watermark, run, lock, step, command, worker, answered>>

Checkpoint(c) ==
  /\ Syncing(c)
  /\ StillTheSame(c)
  /\ watermark' = [watermark EXCEPT ![c] = worker.scope.source]
  /\ UNCHANGED <<connection, usage, run, lock, step, command, worker, answered>>

(* The result of a sync is published after one more look at the row.       *)
Publish ==
  /\ worker.run \in Runs
  /\ \A c \in Connections : run[worker.run].conn = c => Syncing(c) /\ StillTheSame(c)
  /\ run' = [run EXCEPT ![worker.run].status = "success"]
  /\ worker' = AtRest
  /\ UNCHANGED <<rows, lock, step, command, answered>>

(* A failure is retried or final; an interrupted run is recovered.         *)
Fail ==
  /\ worker.run \in Runs
  /\ \E outcome \in {"queued", "failed"} : run' = [run EXCEPT ![worker.run].status = outcome]
  /\ worker' = AtRest
  /\ UNCHANGED <<rows, lock, step, command, answered>>

-----------------------------------------------------------------------------
Answer(s) ==
  \/ LockConnection(s)
  \/ Check(s)
  \/ Update(s)
  \/ Validate(s)
  \/ Invalidate(s)
  \/ Disable(s)
  \/ \E r \in Runs : Enqueue(s, r)
  \/ AnswerExisting(s)
  \/ Refuse(s)

Work ==
  \/ \E r \in Runs : Claim(r)
  \/ \E c \in Connections : BeginSync(c) \/ ImportPage(c) \/ Checkpoint(c)
  \/ Publish
  \/ Fail

Next ==
  \/ \E c \in Connections : CreateConnection(c)
  \/ \E s \in Sessions : Arrive(s) \/ Answer(s)
  \/ Work

Spec == Init /\ [][Next]_vars

-----------------------------------------------------------------------------
(* Properties *)

(* A connection is never synced twice at a time: two requests that both    *)
(* find no active sync cannot both queue one (enqueue_snowflake_sync).     *)
OneActiveSync ==
  \A r, q \in Runs :
    /\ run[r].status \in Active /\ run[q].status \in Active
    /\ run[r].conn = run[q].conn /\ run[r].conn # NoConnection
    => r = q

(* While a sync is queued or running its connection stays enabled, valid   *)
(* and as it was when the sync was asked for, so no sync fails because     *)
(* somebody edited the connection ("Wait for the active Snowflake sync     *)
(* before changing connection scope").                                     *)
ScopeFixedWhileActive ==
  \A r \in Runs : run[r].status \in Active /\ run[r].conn # NoConnection =>
    LET c == connection[run[r].conn]
    IN c.enabled /\ c.status = "valid" /\ c.scope = run[r].scope

(* An enabled connection is one whose very scope Snowflake has accepted:   *)
(* no edit slips between the validation's network call and its result.     *)
EnabledWasValidated ==
  \A c \in Connections : connection[c].enabled =>
    connection[c].status = "valid" /\ connection[c].confirmed = connection[c].scope

(* All usage of a connection is of the account and warehouse it has:       *)
(* reports add up one source only (update_connection, _assert_sync_connection). *)
UsageOfOneSource == \A c \in Connections : usage[c] \subseteq {connection[c].scope.source}

(* Whatever is retried and raced, an idempotency key stands for one run,   *)
(* and for one connection (_existing_run_after_idempotency_conflict).      *)
KeyStandsForOneRun ==
  \A a, b \in answered : a.key = b.key => a = b

(* The watermark is of the warehouse the connection has, and so is         *)
(* everything a sync skips because of it: a warehouse changes only while   *)
(* there is no watermark, and the worker writes one only to a row that is  *)
(* still what it read (update_connection, _assert_sync_connection).        *)
WatermarkOfItsWarehouse ==
  \A c \in Connections :
    watermark[c] # NoScope => watermark[c].warehouse = connection[c].scope.source.warehouse

(* connections.py: "Create a new connection to use a different Snowflake   *)
(* account": what the watermark says has been read was read there.         *)
WatermarkOfItsSource ==
  \A c \in Connections : watermark[c] \in {NoScope, connection[c].scope.source}

(* Requests that overlap act as if they came one after the other, each at  *)
(* the moment it commits: what one has checked, and what Snowflake was     *)
(* shown while it waited, is still so when it writes (lock_connection,     *)
(* validate_snowflake_connection).                                         *)
Table == INSTANCE ConnectionTable

RequestsActAtOnce == Table!Spec
=============================================================================
