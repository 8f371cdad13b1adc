# Tibbou in TLA+

Tibbou shows an organization the lineage of its dbt models and what they cost
in Snowflake. This directory holds a formal model of the parts of it where
several actors meet: modules (`*.tla`), model-checking instances (`MC*.tla`,
`*.cfg`), proofs (`*Proofs.tla`) and `PROJECT.json`, which maps every
definition to the lines it stands for. All paths below are under `src/`.

    tlc -workers 2 -config MCWorkerSafety.cfg MCIngestionWorker
    tlapm IngestionWorkerProofs.tla

## 1. The system

A browser application (`Frontend/`) signs users in with Supabase and calls a
FastAPI service (`Backend/app/`), which keeps everything in one PostgreSQL
database (`Database/`). A separate worker process (`Backend/app/worker.py`)
takes queued runs out of the same database. API and worker never talk to each
other: rows, row locks, advisory locks and constraints are all their
interaction. Every request is one transaction under READ COMMITTED, with
row-level security evaluated by each statement in the name of the user.

| Component | State it keeps | Operations | Talks to |
| --- | --- | --- | --- |
| Ingestion worker (`worker.py`, migration 20260922) | `sync_runs`, `raw_ingestions`, session lock (260922, 1) | start, recover, claim, process, publish, fail, stop | the imports; the API through the queue |
| Membership management (`routes/organizations.py`) | `organization_memberships`, lock `tibbou:memberships:<org>` | change role, remove, transfer ownership | everything that asks for a role |
| Enrollment (`routes/invitations.py`, `routes/onboarding.py`) | `organization_invitations`, `organization_join_requests`, lock `tibbou:invitation:<id>` | invite, accept, revoke, expire; request, approve, deny | inserts memberships |
| Snowflake connections (`routes/connections.py`) | `snowflake_connections`, vault secrets, lock `tibbou:snowflake:<org>:<id>` | create, update, validate, disable | Snowflake; read by imports |
| Sync requests (`routes/ingestion.py`) | `sync_runs`, idempotency keys | queue a sync, queue a manifest, look up | connections; the worker's queue |
| Snowflake import (`services/ingestion.py`, `services/snowflake.py`) | `query_usage`, allocations, day checkpoints, watermark | import a window page by page | Snowflake; the connection row |
| dbt import (`routes/ingestion.py`, `services/ingestion.py`) | `datasets`, `lineage_edges`, the counts in a run's details | upload a manifest, reconcile with it, show the latest | the worker's queue; rows people add |
| Credit summaries | `published_summary` in a run's details | weights, matching, sums | dashboards |
| Founding (`routes/onboarding.py`) | `organizations`, their slugs and claimed domains | create organization and owner | memberships; other foundings |
| Authorization (`auth.py`, `permissions.json`) | request context | token check, capability check | every route |
| Browser contexts (`contexts/*.jsx`, `api/tibbou.js`) | chosen organization, session, localStorage | refresh, select, found, accept, sign out | API, other tabs |
| Read routes, email, migrations, start-up | none | | |

What is hard, and what must hold all the same:

* **Worker.** A process may be killed, or PostgreSQL may drop its session
  while it lives, between any two transactions; another process may take over;
  a requester may be demoted or leave. No run is processed twice at a time or
  written by a worker that lost it, attempts are counted exactly, run and
  artifact agree, and every run is finished in the end.
* **Memberships.** Transactions that touch different rows may together remove
  the last owner; a role may be lost while its holder waits for the lock.
* **Enrollment.** No lock is shared between accepting, revoking, approving and
  managing: unique indexes, row locks and row security must do.
* **Connections.** Validation calls Snowflake in the middle; syncs, edits and
  retries race; the worker writes without the lock of the API.
* **Usage imports.** Retries resume in the middle, later windows overlap earlier
  ones, and reports already published must not change.
* **Manifests.** A failed manifest goes back into the queue behind newer ones,
  people add rows between an import's reads and its commit; the graph must be
  that of one manifest, and the latest summary must be that manifest's.
* **Founding.** A look-up before the insert keeps nobody out; the unique
  indexes do, and an insert they refuse ends the transaction together with the
  context that row security needs for the second slug.
* **Browser.** Answers overtake each other, arrive after sign-out, and share one
  localStorage with other tabs; what is shown and where requests go must agree.

`PROJECT.json` lists each hazard at its line with the properties that cover it.

## 2. Modules

| Module | Models | Checked by | Proved in |
| --- | --- | --- | --- |
| `IngestionWorker` | the worker and its SQL functions | `MCIngestionWorker` | `IngestionWorkerProofs` |
| `SyncRunQueue` | what the queue promises, without workers | `MCIngestionWorker`, through the refinement | implemented by three modules, below |
| `Memberships` | role change, removal, transfer | `MCMemberships` | `MembershipsProofs` |
| `MembershipTable` | what the rows of an organization's members promise | `MCMemberships`, `MCEnrollment`, through its actions | `MembershipsProofs`, `EnrollmentProofs` |
| `Enrollment` | invitations and join requests | `MCEnrollment` | `EnrollmentProofs` |
| `SnowflakeConnections` | connections, sync requests, the worker's writes | `MCSnowflakeConnections` | `SnowflakeConnectionsProofs` |
| `ConnectionTable` | what connections and sync requests promise | `MCSnowflakeConnections`, through the refinement | `SnowflakeConnectionsProofs` |
| `SnowflakeSync` | the import of usage, published reports, their readers | the module itself, with `MCSync.cfg` | `SnowflakeSyncProofs`, `SnowflakeRowsProofs` |
| `DbtManifest` | uploads of manifests, the import of datasets and lineage, the latest summary | `MCDbtManifest` | `DbtManifestProofs` |
| `OrganizationFounding` | foundings as concurrent transactions | `MCOrganizationContext`, which extends it | `OrganizationContextProofs` |
| `OrganizationRegistry` | what founding promises | `MCOrganizationContext`, through its actions | `OrganizationContextProofs` |
| `OrganizationContext` | a person's browser tabs over the foundings | `MCOrganizationContext` | `OrganizationContextProofs` |

**Grain.** In `IngestionWorker` a transaction is an action: nothing in it is
visible before its commit, and its checks lock the row (`select ... for
update`). In the other modules, whose transactions span a wait for a lock or a
call to Snowflake, a step is a statement or a run of statements that nobody can
come between; what a transaction wrote becomes visible in the action that
commits. Every module is one organization, except the worker, whose lock and
queue are shared by all.

**IngestionWorker.** `status`, `attempts`, `queuedAt`, `artifact`, `payload`
are columns; `holder` is the backend that has the session lock (`Orphan`: of a
process that is gone and that PostgreSQL has not noticed); `pc`, `job`, `claim`
are where each process is and what it remembers. `Start`, `Recover`, `Claim`,
`ClaimUnreadable`, `BeginProcessing`, `Publish`, `ProcessingFails`,
`RecordFailure` and `LoseOwnership` are the transactions of `main` and
`process_next_run`; `Crash`, `Stop`, `DropSession`, `ReapBackend`, `Tick`,
`Enqueue` and `ChangeRole` the world around them.

**Abstract modules.** Four modules say what callers may rely on, in steps that
read and write rows at once; the detailed modules are shown to implement them.

* `SyncRunQueue`: runs wait, at most one is active, an active run is given back
  while attempts are left, and is settled once. `ImplementsQueue` maps the
  worker's rows to it; locks, sessions and artifacts disappear. `DbtManifest`
  and `SnowflakeSync` have one worker that claims in one action: that they
  implement the queue too (`ImplementsQueue`, `QueueSteps`) says that they use
  it as `IngestionWorker` provides it.
* `MembershipTable`: a member's row changes by somebody who has the authority in
  that very state, and leaves an owner; people join who were no members.
  `Memberships` has the steps of a change and lets people join at once,
  `Enrollment` the steps of joining and lets rows change at once, each by the
  action of this module that the other is shown to keep to (`ChangesActAtOnce`,
  `JoinsAtOnce`). So neither assumes more of the other than that is proved.
* `ConnectionTable`: every connection or sync request reads, decides and writes
  in one step, and a sync writes only what is of its connection's present scope.
* `OrganizationRegistry`: an organization and its owner appear in one step,
  under a slug nobody has and for a domain nobody claims in that state.

**Memberships.** One command stands for all three operations: actor, target
and what the target becomes ("owner" is a transfer, "none" a removal).
`Authorize` is `require_capability`, `LockMembershipChanges` the lock and the
second look at the actor's role, `CheckTarget` the target's row and the rules,
`Flush` the statement with its policies and the last-owner trigger over
committed rows, `Commit` the commit. Enrollments insert rows at any time.

**Enrollment.** A session accepts (`BeginAccept`, `FinishAccept`), revokes
(`BeginRevoke`, `DeleteInvitation`, `FinishRevoke`) or resolves
(`BeginResolve`, `ResolveRequest`, then `Approve` or `Deny`). Acceptance and
approval insert a membership: row security decides (`Admit`), the unique index
follows (`InsertMembership`), and either may refuse (`RefuseInsert`). Each
statement's row security is evaluated by the step that executes it, and what a
transaction has written stands at its commit, a later step: a manager may be
demoted between the update of a join request and the commit, and the resolution
is good all the same, as if the demotion came after it. A step in between is
left out only where a handler has one statement and relies on no earlier read.
Membership management is one action here, `Manage`, which is `MembershipTable`'s
`Change`: anybody may be promoted, demoted or removed by whoever has the
authority, the founder too, while an owner stays.

**SnowflakeConnections.** A request takes the lock, checks, and writes; while it
waits for the lock it has no state, because whatever it read before it reads
again. `Validate` and `Invalidate` come after the call to Snowflake. A `scope`
is what `_connection_scope` compares: a source (account and warehouse) and a
login (user and role). `confirmed` is the scope the stored capabilities were
obtained for, `watermark` and `usage` say which source they are of, `answered`
is what clients were told about a key. An upload of a manifest is a request
without a connection: it shares the keys. The worker claims, reads the
connection once (`BeginSync`), and writes pages, checkpoints and results after
looking at the row again (`StillTheSame`).

**SnowflakeSync.** `run` holds a run's window and checkpoint (`details` in the
code), `worker` the attempt under way: where it is (`step`), its cursor
(`after`), the page it has read (`page`, `got`), whether the access history
still answers in this chunk (`trying`) and has always answered (`available`).
`Enqueue` fixes the window (`WindowStart` is `usage_window`), `Begin` resumes at
the checkpoint, `FetchPage` is one page of `iter_usage_pages`, `StorePage` its
transaction, `Checkpoint` the end of a day, `Publish` the final transaction with
`build_credit_summary`, `Fail` any error or crash with the retry rule. A page
is declared by what `order by ... limit` promises (`IsPage`). `RunQuery`,
`Attribute` and `Tick` are Snowflake: a query runs, its credits are stated and
corrected until `Latency` after its start. `Look`, `Aggregate`, `Answer` are
the statements of `latest_snowflake_summaries`. Which datasets a query touched
is chosen freely; that one run is active, and that the connection stays the
same meanwhile, is what `SnowflakeConnections` shows.

**DbtManifest.** A manifest is its resources and the entries of `depends_on`,
which may repeat a dependency, name resources it lacks, or the resource itself.
An edge is a pair of resources and a type (`Kinds`), so a pair may have several
rows; a row without a type, of which there may be any number, is one of a type
of its own. The import maps rows by pair: of the rows it read (`edges`) it uses
one per pair (`used`, chosen by `OnePerPair`), activates and deactivates only
these, and gives a pair without a row one of type `DependsOn`. An upload
begins (`BeginUpload`: the key, by default the digest, and the time that will
be `queued_at`), then inserts (`InsertRun`) or meets the index on keys
(`InsertConflict`); commits come in any order. The import reads the datasets
(`ReadDatasets`), flushes new ones and reads the edges (`ReadEdges`), and
writes the rest with the run's result (`Publish`). People add rows before
and between these (`CreateDataset`, `CreateEdge`, with any type), unless an
index entry keeps them waiting (`Flushed`); a row that both add undoes the
import (`Collides`, `Fail`).
`unseen` remembers the rows no import has read, `late` the uploads that
committed after a younger run had been claimed.

**OrganizationFounding.** `founding` is where each request is. `BeginFounding`
looks the domain up, `EnterSlug` and `EnterDomain` are the entries of the insert
into the two unique indexes, in the order PostgreSQL makes them; an entry of a
transaction under way makes others wait, a committed one refuses them
(`RefuseSlug`, `RefuseDomain`). `context` says whether the transaction still
has the settings that row security reads. `CommitFounding` writes the owner and
commits, `LoseFounding` is a lost connection. All suffixed slugs of a name may
be one here, because random suffixes may collide.

**OrganizationContext.** `tab` is what the provider of each tab shows, `stored`
is localStorage, `call` the asynchronous functions under way: waiting for a
founding or an acceptance, refreshing (`asked`), or with an answer in hand
(`listed`). `current` is the comparison with `refreshVersion`; a call whose
provider was unmounted becomes an `orphan`, which goes on all the same.
`Settle` and `SettleEmpty` use or drop an answer, `Select` is
`selectOrganization`, `Create` and `Accept` are the two forms of a person
without organization (each waits for its own answer, but a founding may begin
while an acceptance is pending: `Waiting`), `Follow` and `GiveUp` what they do
with their answer.
`intent` is what a tab's user has selected since the last refresh began in it,
`strayed` that an orphan wrote localStorage last. Other people found, and the
person is added or removed, at any time. A sign-out leaves `stored` in place.

## 3. Runs

| Run | Instance | Question | Result |
| --- | --- | --- | --- |
| `worker_safety` | 2 workers, a dbt and a Snowflake run, 3 attempts, 2 disruptions, all role changes | is a run ever processed twice, written by a worker that lost it, parked, or changed once finished? does the worker implement the queue? | holds |
| `worker_liveness` | 2 workers, 2 runs, 1 disruption, demotions | is every run finished? | holds while requesters stay |
| `worker_removed_requester` | requesters may leave | the same | violated |
| `memberships` | 3 people, 2 concurrent requests, all roles | does an owner remain, is each change as if authorized, checked and written in one step, is every request answered? | holds |
| `enrollment_safety` | 3 people, 2 invitations, 1 join request, 2 sessions | does anybody join unasked, is anything used twice, does a handler touch the row of a member? | holds |
| `enrollment_revoked_invitation` | 1 invitation | does revoking cancel an invitation? | violated |
| `connections` | 2 connections, 2 warehouses, 2 runs, 2 keys, 2 sessions | two enabled connections, two runs of a key? is what is enabled validated, are usage and watermark of one warehouse? does every request act as if in one step? | holds |
| `connections_account` | 1 connection, 2 accounts | is the watermark of the account it belongs to? | violated |
| `sync_import` | 2 queries on pages of 1, a run of the old version and a new one of 2 attempts, credits corrected, a reader, access refused and granted | does a page boundary, a retry, a checkpoint or a window lose or double a row? does a report miss Snowflake's last word, or change? is a reader misled, availability claimed wrongly? | holds |
| `dbt_manifest` | 2 manifests of 2 resources, 2 edge types, 2 uploads at a time, 2 runs of 2 attempts | is the graph that of one manifest, the latest summary that manifest's, and what it counts what was changed? are runs served as the queue promises? | holds |
| `workspace` | 2 people, 2 slugs, 1 domain, 2 foundings at a time, 1 tab with 2 calls | is a domain claimed twice, a founding refused without cause or not as if made in one step, a choice undone by a late answer, a request sent elsewhere than shown? | holds |
| `two_tabs` | the same with 2 tabs, 1 founding at a time | does a selection leave every tab's requests with the workspace that its selector names? | violated |

**Why the bounds are enough.** A lock, a fence or a unique index is broken by
two parties, so two workers, sessions or requests suffice, and a third person is
there to be the target of the other two. Three attempts are the code's own
number; two disruptions let a worker lose its session and its successor crash.
Two runs make "one at a time" and the order of the queue mean something; two
connections make the single enabled one mean something. In the enrollment run
two invitations of a user race for one membership, and so do an invitation and
the join request. `ClockHorizon` only bounds idle time: the clock always reaches
a waiting retry. In `connections` the two sources differ in their warehouse
only, and `connections_account` has the account: `_connection_scope` compares
both alike, and the proofs below depend on no bound. In the sync run a unit of
time is eight to twelve hours: latency 1, day 1, report 2, so that windows
overlap, straddle days and need two checkpoints; two queries on pages of one
make the cursor matter, a query may be reported in an earlier or a later window,
before or behind the cursor, and the new run takes over the rows of the old one.
In `dbt_manifest` one manifest lists a dependency twice, the other lacks a
resource of the first and names what it does not have, so that rows are created,
deactivated and activated again, by two runs in either order of queue and
commit; a failed run waits behind the other (`Backoff`). Two types give a pair a
row that hides another, and `Additions`, the number of rows that people have
added and no import has read, is the two that hide each other. In `workspace`
the person has a company's address and the friend has none: two foundings of the
person, one of them given up in the browser and still under way on the server,
compete for the domain, and foundings of both for the two slugs; two calls are
the least that can overtake each other. Symmetry is used only for invariants and
action properties, over ids that nothing compares or chooses from. Deadlock is
checked except where ids or the clock are used up.

**Fairness.** `worker_liveness`: systemd restarts the worker (`Restart=always`
in `deploy/tibbou-worker.service`) and its loop does not stop by itself, so
each worker's own steps are weakly fair; PostgreSQL reaps a dead backend; time
passes. Nothing makes users act or processes crash. `memberships`: a
handler runs to its answer and PostgreSQL grants a waited-for advisory lock in
turn, so the steps of a request together are strongly fair; nobody has to send
one, and a lost connection is possible but not required.

Every property of a passing run has a mutant in `PROJECT.json`: a plausible bug
(an unlocked lock, an unread row, an off-by-one) under which it fails. The
mutated forms stand before the definitions they vary.

## 4. Proofs

TLC answers for the instances above; the theorems hold for every value of the
constants, under the named assumptions next to the CONSTANTS (special values
such as `NoRun` are not ordinary ones; the founder is a user; the attempt limit
is a positive number). Each proof module has an inductive invariant `IInv`,
shown to hold initially, to be kept by each action, and to imply the property.

* `IngestionWorkerProofs`. "One run at a time" is not inductive: that a claim
  finds nothing running is known only because the claimant recovered first,
  recovery misses nothing (`ArtifactAgrees`), and a holder still owns what it
  claimed (`HolderOwnsItsAttempt`). `IInv` joins these with the retry budget
  and the state of a lock holder. From it follow the fence
  (`OnlyTheHolderSettles`), finality (`FinishedIsFinal`) and the refinement:
  initial states map to initial states, every step to a step of `SyncRunQueue`
  or a stutter.
* `MembershipsProofs`. `LockHeld` says that exactly the transaction between its
  second reading and its end holds the lock; hence what it read stays true, and
  with it the verdict of the trigger. A commit is then a `Change` of
  `MembershipTable` in the state it meets, which is the refinement.
* `EnrollmentProofs`. No membership lock here: `AcceptAlone`, `InsertAlone` and
  `ResolveAlone` say that an invitation is accepted by one session at a time,
  one uncommitted insert per user exists, an acceptance's or an approval's, and
  a request being resolved stays pending until the commit. A commit that adds a
  member therefore finds none (`JoinsAtOnce`), and a request is resolved once
  (`OneResolution`), whatever has become of the manager since the update; with
  `Manage`, the module implements `MembershipTable`.
* `SnowflakeConnectionsProofs`. A session between taking a connection's lock and
  its end holds it alone (`LockHeld`), so the verdict of its check
  (`ChecksHold`) and the scope it read (`ReadHolds`) stay true until it writes.
  The worker never takes that lock: it makes no sync active that was not, and
  its row lock keeps usage and watermark as an edit has seen them. `RowWritten`
  states once what the four writing requests have in common. `RunningIsWorkers`
  says that a running run is the worker's, so a claim finds no other. From these
  follows the refinement of `ConnectionTable`, request by request: what a
  request has read still holds at its write, so the step may be taken there. No
  connection's watermark is of another warehouse than its own; where all scopes
  are of one account it is of the very source (`WatermarkOfOneAccount`), so a
  change of account is all that `connections_account` can be about.
* `DbtManifestProofs`. The graph is known only through what an import has read:
  `FoundRows` says that a row the import under way has not found is one people
  added since, and is in `unseen`, and that it uses a row of each pair it found;
  so what it deactivates and activates is all there is, but for rows of a pair
  of which it used another. What it counts as created are rows that are not
  there at its commit, because a collision would have undone it
  (`PublishWrites`). `Ordered` says that whatever was imported, or is being,
  comes in the queue before all that waits, `late` runs excepted, which makes
  the run imported last the latest. The refinement of `SyncRunQueue` needs that
  a running run is the import's own and its attempts are within the limit.
* `OrganizationContextProofs`. The invariant has a half on the server and one in
  the browser, because nearly every step touches one of them. `DomainAlone`:
  whoever has entered a domain is alone with it, also among the committed.
  `FoundersKnown`: a request at its insert has its context, and is at its second
  slug only because the first is taken. `SlugAlone` says the same of the slug it
  has entered: so the checks made by look-up and index entries at different
  times all hold at the commit, which is `Found` of `OrganizationRegistry`, and
  no organization replaces another. `ChosenAlone`: after a selection no
  refresh of that tab is current. With one tab what is shown is what is stored,
  even while it loads (`ShownStored`); that a tab is alone is assumed there,
  because `two_tabs` refutes it for two.
* `SnowflakeSyncProofs`. What a window must report for good is settled when the
  window is fixed, so a row that agrees with Snowflake (`Final`) agrees for
  ever. Three cursors then bound what may still be missing: the watermark
  (`WatermarkPassed`), the checkpoint of the active run (`WindowPassed`) and
  the page within the day (`DayPassed`); each action moves one of them past
  rows it has made final. `CaptureFacts` is the step in which a report of the
  old version is captured and its rows move, for `ReportsKept` and for readers.
  The set of queries is finite and ordered; nothing else is assumed of it. What
  an attempt does to its run is a step of `SyncRunQueue` (`QueueSteps`; only the
  steps, because the instance begins with the run of the old version finished).
* `SnowflakeRowsProofs`, on top of it, counts. An attempt that ends leaves rows
  beyond the checkpoint that nobody has counted; that the next attempt counts
  them once, and asks about them, is because they lie in the day it starts with
  (`Checkpointed`) and it meets each row of that day exactly once: what is
  behind its place is counted, what is not is on its page or after it
  (`Placed`, `PageIsNext`).

Only model-checked: liveness (`MembersRunsFinish`, `RequestsAnswered`),
because the prover does not handle fairness. `WatermarkOfItsSource` is a theorem
with one account and refuted in general, because connections may change their
account. Four invariants are proved and have no run of their own, because the
refinements that the same runs check fail wherever they would: the retry budget
(`BudgetIsExact`), that checks hold until the commit (`NoStaleCheck`), one
active sync of a connection (`SyncedOneAtATime`), and its unchanged scope
(`ActiveScopeIsFixed`). The refinements of a whole specification are proved
from the actions that the runs check: `MembershipTable` and
`OrganizationRegistry` add only the initial state and the other component's
steps.

## 5. What the runs found

1. A requester who leaves the organization while the run waits stops the queue
   for everybody (`worker_removed_requester`, `worker.py:85`).
2. A revocation may be answered 204 and the invitation accepted all the same
   (`enrollment_revoked_invitation`, `invitations.py:107`).
3. A connection without usage may change its account and keeps the old
   account's watermark (`connections_account`, `connections.py:148`).
4. A selection in one tab redirects the requests of another, which goes on
   showing its own workspace (`two_tabs`, `api/tibbou.js:25` against
   `user-manual.md:33`). The trace has two tabs on one organization and ends
   with a selection in the second.

Seen while modelling, and stated by no run: a pair of datasets may have several
edges with provenance `dbt_manifest`, because the API takes any type, and the
import, which keeps one row per pair (`services/ingestion.py:89`), never touches
the others, so one of them stays active after the manifest has dropped the
dependency. `DbtManifest` has such rows, and `GraphIsOfManifest` names them
(`Hidden`): nothing in the documents says what should become of them. Recovery
fails a run at its last attempt without trimming the manifest (migration
20260922, line 78), although the worker trims it whenever it finishes a run
itself; and a founding that is answered after sign-out refreshes in a provider
that is gone, is current there, and writes localStorage for the next session.
`IngestionWorker` and `OrganizationContext` have both steps, and the properties
are stated so that they do not deny them: `PayloadKeptForRetry` speaks of runs
that may be retried, `RequestsGoToShown` of what was not written by such a
refresh.

## 6. Not modelled

* **Cost allocation.** Weights, relation names, matching and credit sums are
  functions of the rows of one transaction; they have no order and no failure,
  and their risk is decimal arithmetic, which a model with integers would not
  meet. That usage is complete and counted once is `SnowflakeSync`'s.
* **The connection pool.** Three connections without overflow, and requests that
  keep one while they wait for an advisory lock or for Snowflake, may leave none
  for others until the pool's timeout. No state is wrong meanwhile, and how long
  one waits is no question for these models.
* **Queued runs whose requester's account was deleted.** They are never claimed
  and keep their connection closed; deleting accounts is not this program's.
* **No state of its own, or formatting**: other read routes, invitation email,
  styling, migrations as processes, configuration checks, token cryptography,
  the pages' own requests. Manual edits of the database are outside.

`SnowflakeSync` assumes with the code that Snowflake's last word on a query
comes within the latency after its start; for a query that itself runs for
hours that is more than Snowflake promises, and its usage may be missed. It
also leaves dataset names out of the reports of the old version, which show
the current name until they are captured. `DbtManifest` leaves out the columns
of a dataset that an import overwrites, and claims by several workers, which
are `IngestionWorker`'s.
