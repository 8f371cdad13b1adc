--------------------------- MODULE ConnectionTable ---------------------------
(***************************************************************************)
(* What the connections and sync requests of an organization promise their *)
(* callers, without sessions, locks, network calls or a worker with state  *)
(* of its own: every request reads the rows, decides and writes in one     *)
(* step, and whatever a sync imports is of the scope its connection has at *)
(* that moment, which is the scope the sync was asked for.                 *)
(***************************************************************************)
CONSTANTS
  Connections, Runs,
  AnyKey, Scopes,
  NoConnection, NoScope, NoKey,
  SomeScope     \* in the rows nobody has written yet

VARIABLES connection, watermark, usage, run, answered

vars == <<connection, watermark, usage, run, answered>>

Init ==
  /\ connection = [c \in Connections |->
       [status |-> "absent", enabled |-> FALSE, scope |-> SomeScope, confirmed |-> NoScope]]
  /\ watermark = [c \in Connections |-> NoScope]
  /\ usage = [c \in Connections |-> {}]
  /\ run = [r \in Runs |->
       [status |-> "absent", key |-> NoKey, conn |-> NoConnection, scope |-> SomeScope]]
  /\ answered = {}

Exists(c) == connection[c].status # "absent"
Busy(c)   == \E r \in Runs : run[r].conn = c /\ run[r].status \in {"queued", "running"}

-----------------------------------------------------------------------------
(* Connections *)

Write(c, row) ==
  /\ connection' = [connection EXCEPT ![c] = row]
  /\ UNCHANGED <<watermark, usage, run, answered>>

Fresh(to) == [status |-> "pending", enabled |-> FALSE, scope |-> to, confirmed |-> NoScope]

Create(c, to) == ~Exists(c) /\ Write(c, Fresh(to))

Rescope(c, to) ==
  LET from == connection[c].scope
  IN /\ Exists(c) /\ ~Busy(c)
     /\ from.source # to.source => usage[c] = {}
     /\ from.source.warehouse # to.source.warehouse => watermark[c] = NoScope
     /\ Write(c, Fresh(to))

(* Snowflake accepts the scope the connection has, and no other is enabled. *)
Accept(c) ==
  LET scope == connection[c].scope
  IN /\ Exists(c) /\ ~Busy(c)
     /\ \A d \in Connections \ {c} : ~connection[d].enabled
     /\ Write(c, [status |-> "valid", enabled |-> TRUE, scope |-> scope, confirmed |-> scope])

TakeOut(c) ==
  /\ Exists(c) /\ ~Busy(c)
  /\ \/ Write(c, [Fresh(connection[c].scope) EXCEPT !.status = "invalid"])
     \/ Write(c, [connection[c] EXCEPT !.status = "disabled", !.enabled = FALSE])

-----------------------------------------------------------------------------
(* Runs *)

Answer(r, k, c) == answered' = answered \cup {[key |-> k, conn |-> c, run |-> r]}

Queue(r, k, c, scope) ==
  /\ run[r].status = "absent"
  /\ \A q \in Runs : run[q].status # "absent" => run[q].key # k
  /\ run' = [run EXCEPT ![r] = [status |-> "queued", key |-> k, conn |-> c, scope |-> scope]]
  /\ Answer(r, k, c)
  /\ UNCHANGED <<connection, watermark, usage>>

Sync(r, k, c) ==
  /\ connection[c].enabled /\ connection[c].confirmed = connection[c].scope
  /\ ~Busy(c)
  /\ Queue(r, k, c, connection[c].scope)

Upload(r, k) == Queue(r, k, NoConnection, SomeScope)

Repeat(r) ==
  /\ run[r].status # "absent"
  /\ Answer(r, run[r].key, run[r].conn)
  /\ UNCHANGED <<connection, watermark, usage, run>>

Move(r, from, to) ==
  /\ run[r].status = from
  /\ run' = [run EXCEPT ![r].status = to]
  /\ UNCHANGED <<connection, watermark, usage, answered>>

Start(r) == (\A q \in Runs : run[q].status # "running") /\ Move(r, "queued", "running")

(* A sync is at work on this connection, as it was asked for.              *)
AtWork(c) ==
  /\ connection[c].enabled /\ connection[c].confirmed = connection[c].scope
  /\ \E r \in Runs :
       run[r].conn = c /\ run[r].status = "running" /\ run[r].scope = connection[c].scope

Import(c) ==
  /\ AtWork(c)
  /\ usage' = [usage EXCEPT ![c] = @ \cup {connection[c].scope.source}]
  /\ UNCHANGED <<connection, watermark, run, answered>>

Advance(c) ==
  /\ AtWork(c)
  /\ watermark' = [watermark EXCEPT ![c] = connection[c].scope.source]
  /\ UNCHANGED <<connection, usage, run, answered>>

Succeed(r) ==
  /\ run[r].conn \in Connections => AtWork(run[r].conn)
  /\ Move(r, "running", "success")

-----------------------------------------------------------------------------
Next ==
  \/ \E c \in Connections :
       \/ \E to \in Scopes : Create(c, to) \/ Rescope(c, to)
       \/ Accept(c) \/ TakeOut(c) \/ Import(c) \/ Advance(c)
       \/ \E r \in Runs, k \in AnyKey : Sync(r, k, c)
  \/ \E r \in Runs :
       \/ \E k \in AnyKey : Upload(r, k)
       \/ Repeat(r) \/ Start(r) \/ Succeed(r)
       \/ \E to \in {"queued", "failed"} : Move(r, "running", to)

Spec == Init /\ [][Next]_vars
=============================================================================
