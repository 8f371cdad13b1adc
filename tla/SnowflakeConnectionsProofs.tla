--------------------- MODULE SnowflakeConnectionsProofs ---------------------
(***************************************************************************)
(* Proofs about SnowflakeConnections, for any number of connections, runs, *)
(* keys, sessions and scopes.  The argument: whoever is between taking a   *)
(* connection's lock and the end of the transaction holds it alone         *)
(* (LockHeld), so what was checked under the lock stays true until it is   *)
(* acted on (ChecksHold, ReadHolds); the worker does not take the lock,    *)
(* but it never makes a sync active that was not, and it writes usage and  *)
(* watermark only to a row that no request has locked.                     *)
(***************************************************************************)
EXTENDS SnowflakeConnections, TLAPS

Holds(s, c) == step[s] \in {"locked", "checked"} /\ command[s].conn = c

LockHeld == \A s \in Sessions, c \in Connections : Holds(s, c) <=> lock[c] = s

CommandShape ==
  \A s \in Sessions : step[s] # "idle" =>
    /\ command[s].kind = "upload" <=> command[s].conn = NoConnection
    /\ command[s].kind = "upload" => step[s] = "checked"
    /\ command[s].conn \in Connections => connection[command[s].conn].status # "absent"

Verdict(s) ==
  LET m == command[s]
  IN /\ m.kind = "update" => MayRescope(m.conn, m.to)
     /\ m.kind \in {"validate", "disable"} => ~SyncIsActive(m.conn)
     /\ m.kind = "sync" =>
          /\ connection[m.conn].enabled /\ connection[m.conn].status = "valid"
          /\ ~SyncIsActive(m.conn)

ChecksHold == \A s \in Sessions : step[s] = "checked" => Verdict(s)

ReadHolds ==
  \A s \in Sessions : step[s] \in {"locked", "checked"} /\ command[s].kind = "validate" =>
    command[s].to = connection[command[s].conn].scope

AbsentUnused ==
  \A c \in Connections :
    connection[c].status = "absent" => usage[c] = {} /\ watermark[c] = NoScope

RunningIsWorkers == \A r \in Runs : run[r].status = "running" <=> worker.run = r

AnswersExist ==
  \A a \in answered :
    run[a.run].status # "absent" /\ run[a.run].key = a.key /\ run[a.run].conn = a.conn

ImportsOfTheirSource == UsageOfOneSource /\ WatermarkOfItsWarehouse

IInv ==
  /\ TypeOK
  /\ LockHeld /\ CommandShape /\ ChecksHold /\ ReadHolds
  /\ AbsentUnused /\ RunningIsWorkers /\ AnswersExist
  /\ OneActiveSync /\ ScopeFixedWhileActive /\ EnabledWasValidated
  /\ ImportsOfTheirSource

-----------------------------------------------------------------------------
(* TypeOK in parts that change together.                                   *)
Rows ==
  [status : {"absent", "pending", "valid", "invalid", "disabled"},
   enabled : BOOLEAN, scope : Scopes, confirmed : Scopes \cup {NoScope}]

ConnectionRows ==
  /\ connection \in [Connections -> Rows]
  /\ \A c, d \in Connections : connection[c].enabled /\ connection[d].enabled => c = d

ImportTypes ==
  /\ watermark \in [Connections -> Sources \cup {NoScope}]
  /\ usage \in [Connections -> SUBSET Sources]

RunRows ==
  /\ run \in [Runs -> [status : {"absent", "success", "failed"} \cup Active,
                       key : AnyKey, conn : Targets, scope : Scopes]]
  /\ \A r, q \in Runs :
       run[r].status # "absent" /\ run[q].status # "absent" /\ run[r].key = run[q].key => r = q

SessionTypes ==
  /\ lock \in [Connections -> Sessions \cup {NoSession}]
  /\ step \in [Sessions -> {"idle", "locked", "checked"}]
  /\ command \in [Sessions -> Commands]

WorkerTypes == worker \in [run : Runs \cup {NoRun}, scope : Scopes \cup {NoScope}]

AnswerTypes == answered \subseteq [key : AnyKey, conn : Targets, run : Runs]

LEMMA TypeParts ==
  /\ TypeOK <=> ConnectionRows /\ ImportTypes /\ RunRows /\ SessionTypes /\ WorkerTypes /\ AnswerTypes
  /\ TypeOK' <=> /\ ConnectionRows' /\ ImportTypes' /\ RunRows' /\ SessionTypes'
                 /\ WorkerTypes' /\ AnswerTypes'
BY DEF TypeOK, ConnectionRows, ImportTypes, RunRows, SessionTypes, WorkerTypes, AnswerTypes, Rows

LEMMA Chosen == SomeScope \in Scopes /\ NoKey \in AnyKey /\ NoCommand \in Commands
<1>1. SomeScope \in Scopes /\ NoKey \in AnyKey
  BY ScopesAssumption DEF SomeScope, AnyKey
<1> QED
  BY <1>1 DEF NoCommand, Commands, Targets

LEMMA InitEstablishes == Init => IInv
<1> SUFFICES ASSUME Init PROVE IInv
  OBVIOUS
<1>1. ConnectionRows /\ ImportTypes /\ WorkerTypes /\ AnswerTypes
  BY Chosen DEF Init, ConnectionRows, Rows, ImportTypes, WorkerTypes, AnswerTypes, AtRest
<1>2. RunRows
  BY Chosen DEF Init, RunRows, Active, Targets
<1>3. SessionTypes
  BY Chosen DEF Init, SessionTypes
<1>4. LockHeld /\ CommandShape /\ ChecksHold /\ ReadHolds
  BY SessionsAssumption DEF Init, LockHeld, Holds, CommandShape, ChecksHold, ReadHolds
<1>5. AbsentUnused /\ RunningIsWorkers /\ AnswersExist
  BY RunsAssumption DEF Init, AbsentUnused, RunningIsWorkers, AnswersExist, AtRest
<1>6. OneActiveSync /\ ScopeFixedWhileActive /\ EnabledWasValidated /\ ImportsOfTheirSource
  BY DEF Init, OneActiveSync, ScopeFixedWhileActive, EnabledWasValidated,
         ImportsOfTheirSource, UsageOfOneSource, WatermarkOfItsWarehouse, Active
<1> QED
  BY <1>1, <1>2, <1>3, <1>4, <1>5, <1>6, TypeParts DEF IInv

-----------------------------------------------------------------------------
(* A verdict outlives every step that leaves its connection's row and      *)
(* imports alone and makes no sync of it active.                           *)
LEMMA VerdictKept ==
  ASSUME NEW s \in Sessions, Verdict(s), command'[s] = command[s],
         command[s].kind # "upload" =>
           /\ connection'[command[s].conn] = connection[command[s].conn]
           /\ usage'[command[s].conn] = usage[command[s].conn]
           /\ watermark'[command[s].conn] = watermark[command[s].conn]
           /\ SyncIsActive(command[s].conn)' => SyncIsActive(command[s].conn)
  PROVE  Verdict(s)'
BY DEF Verdict, MayRescope

(* The end of a transaction: the session forgets, its lock is free, and    *)
(* the other sessions are as they were.                                    *)
LEMMA ReleaseFacts ==
  ASSUME IInv, NEW s \in Sessions, Release(s)
  PROVE  /\ SessionTypes' /\ LockHeld'
         /\ step'[s] = "idle"
         /\ \A t \in Sessions \ {s} : step'[t] = step[t] /\ command'[t] = command[t]
<1>1. SessionTypes
  BY TypeParts DEF IInv
<1>2. /\ step' \in [Sessions -> {"idle", "locked", "checked"}]
      /\ command' \in [Sessions -> Commands]
      /\ step'[s] = "idle"
      /\ \A t \in Sessions \ {s} : step'[t] = step[t] /\ command'[t] = command[t]
  BY <1>1, Chosen DEF Release, SessionTypes
<1>3. /\ lock' \in [Connections -> Sessions \cup {NoSession}]
      /\ \A c \in Connections : lock'[c] = IF lock[c] = s THEN NoSession ELSE lock[c]
  BY <1>1 DEF Release, SessionTypes
<1>4. LockHeld'
  BY <1>2, <1>3, SessionsAssumption DEF IInv, LockHeld, Holds
<1> QED
  BY <1>1, <1>2, <1>3, <1>4 DEF SessionTypes

(* Of two sessions in their turn, each has a connection of its own.        *)
LEMMA InTurnAlone ==
  ASSUME IInv, NEW s \in Sessions, NEW t \in Sessions, s # t,
         NEW c \in Connections, Holds(s, c),
         step[t] \in {"locked", "checked"}, command[t].kind # "upload"
  PROVE  command[t].conn \in Connections \ {c}
<1>1. command[t].conn \in Connections
  BY TypeParts DEF IInv, CommandShape, SessionTypes, Commands, Targets
<1> QED
  BY <1>1 DEF IInv, LockHeld, Holds

-----------------------------------------------------------------------------
(* Requests up to their checks *)

(* A connection that did not exist is nobody's subject.                    *)
LEMMA CreatePreserves ==
  ASSUME IInv, NEW c \in Connections, CreateConnection(c)
  PROVE  IInv'
<1>1. PICK scope \in Scopes : connection' = [connection EXCEPT ![c] =
        [status |-> "pending", enabled |-> FALSE, scope |-> scope, confirmed |-> NoScope]]
  BY DEF CreateConnection
<1>2. /\ connection[c].status = "absent"
      /\ UNCHANGED <<watermark, usage, run, lock, step, command, worker, answered>>
  BY DEF CreateConnection
<1>3. ConnectionRows /\ RunRows /\ SessionTypes
  BY TypeParts DEF IInv
<1>4. /\ \A d \in Connections \ {c} : connection'[d] = connection[d]
      /\ connection'[c] = [status |-> "pending", enabled |-> FALSE,
                           scope |-> scope, confirmed |-> NoScope]
  BY <1>1, <1>3 DEF ConnectionRows
<1>5. ConnectionRows'
  BY <1>1, <1>3, <1>4 DEF ConnectionRows, Rows
<1>6. TypeOK'
  BY <1>2, <1>5, TypeParts DEF IInv, ImportTypes, RunRows, SessionTypes, WorkerTypes, AnswerTypes
<1>7. LockHeld' /\ AbsentUnused' /\ RunningIsWorkers' /\ AnswersExist' /\ OneActiveSync'
  BY <1>2, <1>4
  DEF IInv, LockHeld, Holds, AbsentUnused, RunningIsWorkers, AnswersExist, OneActiveSync
<1>8. CommandShape'
  BY <1>2, <1>4 DEF IInv, CommandShape
<1>9. \A s \in Sessions : step[s] # "idle" /\ command[s].kind # "upload" =>
        command[s].conn \in Connections \ {c}
  BY <1>2, <1>3 DEF IInv, CommandShape, SessionTypes, Commands, Targets
<1>10. ReadHolds'
  BY <1>2, <1>4, <1>9 DEF IInv, ReadHolds
<1>11. \A d \in Connections : SyncIsActive(d)' = SyncIsActive(d)
  BY <1>2 DEF SyncIsActive
<1>12. ChecksHold'
  <2> SUFFICES ASSUME NEW s \in Sessions, step'[s] = "checked" PROVE Verdict(s)'
    BY DEF ChecksHold
  <2> QED
    BY <1>2, <1>4, <1>9, <1>11, VerdictKept DEF IInv, ChecksHold
<1>13. ScopeFixedWhileActive'
  BY <1>2, <1>3, <1>4 DEF IInv, ScopeFixedWhileActive, RunRows, Targets
<1>14. EnabledWasValidated' /\ ImportsOfTheirSource'
  BY <1>2, <1>4 DEF IInv, AbsentUnused, EnabledWasValidated, ImportsOfTheirSource,
     UsageOfOneSource, WatermarkOfItsWarehouse
<1> QED
  BY <1>6, <1>7, <1>8, <1>10, <1>12, <1>13, <1>14 DEF IInv

(* What a change of sessions alone has to keep.                            *)
LEMMA SessionsOnly ==
  ASSUME IInv, UNCHANGED <<rows, run, worker, answered>>,
         SessionTypes', LockHeld', CommandShape', ChecksHold', ReadHolds'
  PROVE  IInv'
<1>1. UNCHANGED <<connection, watermark, usage, run, worker, answered>>
  BY DEF rows
<1>2. TypeOK'
  BY <1>1, TypeParts DEF IInv, ConnectionRows, ImportTypes, RunRows, WorkerTypes, AnswerTypes
<1> QED
  BY <1>1, <1>2
  DEF IInv, AbsentUnused, RunningIsWorkers, AnswersExist, OneActiveSync,
      ScopeFixedWhileActive, EnabledWasValidated, ImportsOfTheirSource,
      UsageOfOneSource, WatermarkOfItsWarehouse

LEMMA VerdictsOfOthers ==
  ASSUME IInv, UNCHANGED <<rows, run>>, NEW s \in Sessions,
         \A t \in Sessions \ {s} : step'[t] = step[t] /\ command'[t] = command[t]
  PROVE  \A t \in Sessions \ {s} : step'[t] = "checked" => Verdict(t)'
<1>1. UNCHANGED <<connection, watermark, usage, run>>
  BY DEF rows
<1>2. \A d : SyncIsActive(d)' = SyncIsActive(d)
  BY <1>1 DEF SyncIsActive
<1> SUFFICES ASSUME NEW t \in Sessions \ {s}, step'[t] = "checked" PROVE Verdict(t)'
  OBVIOUS
<1> QED
  BY <1>1, <1>2, VerdictKept DEF IInv, ChecksHold

LEMMA ArrivePreserves ==
  ASSUME IInv, NEW s \in Sessions, Arrive(s)
  PROVE  IInv'
<1>1. PICK k \in Keys : command' = [command EXCEPT ![s] = [NoCommand EXCEPT !.key = k]]
  BY DEF Arrive
<1>2. /\ step[s] = "idle" /\ step' = [step EXCEPT ![s] = "checked"]
      /\ UNCHANGED <<rows, run, lock, worker, answered>>
  BY DEF Arrive
<1> DEFINE m == [NoCommand EXCEPT !.key = k]
<1>3. m \in Commands /\ m.kind = "upload" /\ m.conn = NoConnection
  BY Chosen DEF NoCommand, Commands, AnyKey
<1>4. SessionTypes
  BY TypeParts DEF IInv
<1>5. /\ SessionTypes'
      /\ command'[s] = m /\ step'[s] = "checked"
      /\ \A t \in Sessions \ {s} : step'[t] = step[t] /\ command'[t] = command[t]
  BY <1>1, <1>2, <1>3, <1>4 DEF SessionTypes
<1> HIDE DEF m
<1>6. LockHeld'
  BY <1>2, <1>3, <1>5, ConnectionsAssumption DEF IInv, LockHeld, Holds
<1>7. CommandShape'
  BY <1>2, <1>3, <1>5, ConnectionsAssumption DEF IInv, CommandShape, rows
<1>8. ChecksHold'
  <2>1. step'[s] = "checked" => Verdict(s)'
    BY <1>3, <1>5 DEF Verdict
  <2> QED
    BY <1>2, <1>5, <2>1, VerdictsOfOthers DEF ChecksHold
<1>9. ReadHolds'
  BY <1>2, <1>3, <1>5 DEF IInv, ReadHolds, rows
<1> QED
  BY <1>2, <1>5, <1>6, <1>7, <1>8, <1>9, SessionsOnly

LEMMA LockPreserves ==
  ASSUME IInv, NEW s \in Sessions, LockConnection(s)
  PROVE  IInv'
<1>1. PICK m \in Commands :
        /\ Asked(m) /\ lock[m.conn] = NoSession
        /\ lock' = [lock EXCEPT ![m.conn] = s]
        /\ command' = [command EXCEPT ![s] = AsRead(m)]
  BY DEF LockConnection
<1>2. /\ step[s] = "idle" /\ step' = [step EXCEPT ![s] = "locked"]
      /\ UNCHANGED <<rows, run, worker, answered>>
  BY DEF LockConnection
<1> DEFINE c == m.conn
           read == AsRead(m)
<1>3. SessionTypes /\ ConnectionRows
  BY TypeParts DEF IInv
<1>4. c \in Connections /\ connection[c].status # "absent" /\ m.kind # "upload"
  BY <1>1 DEF Asked
<1>5. /\ read \in Commands /\ read.kind = m.kind /\ read.conn = c
      /\ m.kind = "validate" => read.to = connection[c].scope
  BY <1>3, <1>4 DEF AsRead, ConnectionRows, Rows, Commands
<1> HIDE DEF read
<1>6. /\ SessionTypes'
      /\ step'[s] = "locked" /\ command'[s] = read
      /\ \A t \in Sessions \ {s} : step'[t] = step[t] /\ command'[t] = command[t]
  <2>1. command' = [command EXCEPT ![s] = read]
    BY <1>1 DEF read
  <2> QED
    BY <1>1, <1>2, <1>3, <1>4, <1>5, <2>1 DEF SessionTypes
<1>7. lock'[c] = s /\ \A d \in Connections \ {c} : lock'[d] = lock[d]
  BY <1>1, <1>3, <1>4 DEF SessionTypes
<1>8. LockHeld'
  BY <1>1, <1>2, <1>4, <1>5, <1>6, <1>7, SessionsAssumption DEF IInv, LockHeld, Holds
<1>9. CommandShape'
  BY <1>2, <1>4, <1>5, <1>6, ConnectionsAssumption DEF IInv, CommandShape, rows
<1>10. ReadHolds'
  BY <1>2, <1>4, <1>5, <1>6 DEF IInv, ReadHolds, rows
<1>11. ChecksHold'
  BY <1>2, <1>6, VerdictsOfOthers DEF ChecksHold
<1> QED
  BY <1>2, <1>6, <1>8, <1>9, <1>10, <1>11, SessionsOnly

LEMMA CheckPreserves ==
  ASSUME IInv, NEW s \in Sessions, Check(s)
  PROVE  IInv'
<1>1. /\ step[s] = "locked" /\ step' = [step EXCEPT ![s] = "checked"]
      /\ UNCHANGED <<rows, run, lock, command, worker, answered>>
  BY DEF Check
<1>2. SessionTypes
  BY TypeParts DEF IInv
<1>3. SessionTypes' /\ step'[s] = "checked" /\ \A t \in Sessions \ {s} : step'[t] = step[t]
  BY <1>1, <1>2 DEF SessionTypes
<1>4. LockHeld' /\ CommandShape' /\ ReadHolds'
  BY <1>1, <1>3 DEF IInv, LockHeld, Holds, CommandShape, ReadHolds, rows
<1>5. Verdict(s)
  BY DEF Check, Verdict, MaySync
<1>6. Verdict(s)'
  BY <1>1, <1>5 DEF Verdict, MayRescope, SyncIsActive, rows
<1>7. ChecksHold'
  BY <1>1, <1>3, <1>6, VerdictsOfOthers DEF ChecksHold
<1> QED
  BY <1>1, <1>3, <1>4, <1>7, SessionsOnly

(* A transaction that ends without having changed a row.                   *)
LEMMA RollbackPreserves ==
  ASSUME IInv, NEW s \in Sessions, Release(s), UNCHANGED <<rows, run, worker, answered>>
  PROVE  IInv'
<1>1. /\ SessionTypes' /\ LockHeld' /\ step'[s] = "idle"
      /\ \A t \in Sessions \ {s} : step'[t] = step[t] /\ command'[t] = command[t]
  BY ReleaseFacts
<1>2. CommandShape' /\ ReadHolds'
  BY <1>1 DEF IInv, CommandShape, ReadHolds, rows
<1>3. ChecksHold'
  BY <1>1, VerdictsOfOthers DEF ChecksHold
<1> QED
  BY <1>1, <1>2, <1>3, SessionsOnly

-----------------------------------------------------------------------------
(* Requests that write a row *)

(* What Update, Validate, Invalidate and Disable have in common: one row   *)
(* gets a new value, under its lock and with the verdict it takes.         *)
LEMMA RowWritten ==
  ASSUME IInv, NEW s \in Sessions, NEW c \in Connections, NEW row \in Rows,
         Holds(s, c), Release(s),
         connection' = [connection EXCEPT ![c] = row],
         UNCHANGED <<watermark, usage, run, worker, answered>>,
         row.status # "absent",
         row.enabled =>
           /\ row.status = "valid" /\ row.confirmed = row.scope
           /\ \A d \in Connections \ {c} : ~connection[d].enabled,
         row.scope.source # connection[c].scope.source => usage[c] = {},
         row.scope.source.warehouse # connection[c].scope.source.warehouse => watermark[c] = NoScope,
         SyncIsActive(c) => row = connection[c]
  PROVE  IInv'
<1>1. /\ SessionTypes' /\ LockHeld' /\ step'[s] = "idle"
      /\ \A t \in Sessions \ {s} : step'[t] = step[t] /\ command'[t] = command[t]
  BY ReleaseFacts
<1>2. ConnectionRows /\ RunRows
  BY TypeParts DEF IInv
<1>3. connection'[c] = row /\ \A d \in Connections \ {c} : connection'[d] = connection[d]
  BY <1>2 DEF ConnectionRows
<1>4. ConnectionRows'
  BY <1>2, <1>3 DEF ConnectionRows
<1>5. TypeOK'
  BY <1>1, <1>4, TypeParts DEF IInv, ImportTypes, RunRows, WorkerTypes, AnswerTypes
<1>6. CommandShape' /\ AbsentUnused' /\ RunningIsWorkers' /\ AnswersExist' /\ OneActiveSync'
  BY <1>1, <1>3
  DEF IInv, CommandShape, AbsentUnused, RunningIsWorkers, AnswersExist, OneActiveSync
<1>7. \A t \in Sessions \ {s} : step[t] \in {"locked", "checked"} /\ command[t].kind # "upload" =>
        command[t].conn \in Connections \ {c}
  BY InTurnAlone
<1>8. ReadHolds'
  BY <1>1, <1>3, <1>7 DEF IInv, ReadHolds
<1>9. \A d : SyncIsActive(d)' = SyncIsActive(d)
  BY DEF SyncIsActive
<1>10. ChecksHold'
  <2> SUFFICES ASSUME NEW t \in Sessions \ {s}, step[t] = "checked" PROVE Verdict(t)'
    BY <1>1 DEF ChecksHold
  <2> QED
    BY <1>1, <1>3, <1>7, <1>9, VerdictKept DEF IInv, ChecksHold
<1>11. ScopeFixedWhileActive'
  BY <1>2, <1>3 DEF IInv, ScopeFixedWhileActive, SyncIsActive, RunRows, Targets
<1>12. EnabledWasValidated' /\ ImportsOfTheirSource'
  BY <1>3 DEF IInv, EnabledWasValidated, ImportsOfTheirSource, UsageOfOneSource, WatermarkOfItsWarehouse
<1> QED
  BY <1>1, <1>5, <1>6, <1>8, <1>10, <1>11, <1>12 DEF IInv

LEMMA WriterHolds ==
  ASSUME IInv, NEW s \in Sessions, step[s] = "checked",
         command[s].kind \in {"update", "validate", "disable"}
  PROVE  /\ command[s].conn \in Connections /\ Holds(s, command[s].conn)
         /\ connection[command[s].conn] \in Rows
         /\ connection[command[s].conn].status # "absent"
         /\ command[s].to \in Scopes
         /\ Verdict(s)
<1>1. command[s].conn \in Connections /\ command[s].to \in Scopes
  BY TypeParts DEF IInv, CommandShape, SessionTypes, Commands, Targets
<1> QED
  BY <1>1, TypeParts DEF IInv, ConnectionRows, ChecksHold, CommandShape, Holds

LEMMA UpdatePreserves ==
  ASSUME IInv, NEW s \in Sessions, Update(s)
  PROVE  IInv'
<1> DEFINE c == command[s].conn
           to == command[s].to
           row == IF connection[c].scope = to THEN connection[c]
                  ELSE [status |-> "pending", enabled |-> FALSE, scope |-> to, confirmed |-> NoScope]
<1>1. /\ step[s] = "checked" /\ command[s].kind = "update" /\ Release(s)
      /\ connection' = [connection EXCEPT ![c] = row]
      /\ UNCHANGED <<watermark, usage, run, worker, answered>>
  BY DEF Update
<1>2. /\ c \in Connections /\ Holds(s, c) /\ connection[c] \in Rows /\ to \in Scopes
      /\ connection[c].status # "absent" /\ Verdict(s)
  BY <1>1, WriterHolds
<1>3. row \in Rows /\ row.status # "absent"
  BY <1>2 DEF Rows
<1>4. row.enabled =>
        /\ row.status = "valid" /\ row.confirmed = row.scope
        /\ \A d \in Connections \ {c} : ~connection[d].enabled
  BY <1>2, TypeParts DEF IInv, EnabledWasValidated, ConnectionRows
<1>5. MayRescope(c, to)
  BY <1>1, <1>2 DEF Verdict
<1>6. /\ row.scope.source # connection[c].scope.source => usage[c] = {}
      /\ row.scope.source.warehouse # connection[c].scope.source.warehouse => watermark[c] = NoScope
      /\ SyncIsActive(c) => row = connection[c]
  BY <1>5 DEF MayRescope
<1> HIDE DEF row
<1> QED
  BY <1>1, <1>2, <1>3, <1>4, <1>6, RowWritten

LEMMA ValidatePreserves ==
  ASSUME IInv, NEW s \in Sessions, Validate(s)
  PROVE  IInv'
<1> DEFINE c == command[s].conn
           row == [status |-> "valid", enabled |-> TRUE,
                   scope |-> connection[c].scope, confirmed |-> command[s].to]
<1>1. /\ step[s] = "checked" /\ command[s].kind = "validate" /\ Release(s)
      /\ \A d \in Connections \ {c} : ~connection[d].enabled
      /\ connection' = [connection EXCEPT ![c] = row]
      /\ UNCHANGED <<watermark, usage, run, worker, answered>>
  BY DEF Validate
<1>2. /\ c \in Connections /\ Holds(s, c) /\ connection[c] \in Rows /\ command[s].to \in Scopes
      /\ Verdict(s)
  BY <1>1, WriterHolds
<1>3. row \in Rows /\ row.confirmed = row.scope
  BY <1>1, <1>2 DEF IInv, ReadHolds, Rows
<1>4. ~SyncIsActive(c)
  BY <1>1, <1>2 DEF Verdict
<1> QED
  BY <1>1, <1>2, <1>3, <1>4, RowWritten

LEMMA InvalidatePreserves ==
  ASSUME IInv, NEW s \in Sessions, Invalidate(s)
  PROVE  IInv'
<1> DEFINE c == command[s].conn
           row == [status |-> "invalid", enabled |-> FALSE,
                   scope |-> connection[c].scope, confirmed |-> NoScope]
<1>1. /\ step[s] = "checked" /\ command[s].kind = "validate" /\ Release(s)
      /\ connection' = [connection EXCEPT ![c] = row]
      /\ UNCHANGED <<watermark, usage, run, worker, answered>>
  BY DEF Invalidate
<1>2. c \in Connections /\ Holds(s, c) /\ connection[c] \in Rows /\ Verdict(s)
  BY <1>1, WriterHolds
<1>3. row \in Rows
  BY <1>2 DEF Rows
<1>4. ~SyncIsActive(c)
  BY <1>1, <1>2 DEF Verdict
<1> QED
  BY <1>1, <1>2, <1>3, <1>4, RowWritten

LEMMA DisablePreserves ==
  ASSUME IInv, NEW s \in Sessions, Disable(s)
  PROVE  IInv'
<1> DEFINE c == command[s].conn
           row == [connection[c] EXCEPT !.status = "disabled", !.enabled = FALSE]
<1>1. /\ step[s] = "checked" /\ command[s].kind = "disable" /\ Release(s)
      /\ UNCHANGED <<watermark, usage, run, worker, answered>>
  BY DEF Disable
<1>2. c \in Connections /\ Holds(s, c) /\ connection[c] \in Rows /\ Verdict(s)
  BY <1>1, WriterHolds
<1>3. row \in Rows /\ row.status = "disabled" /\ ~row.enabled /\ row.scope = connection[c].scope
  BY <1>2 DEF Rows
<1>4. connection' = [connection EXCEPT ![c] = row]
  BY <1>2, TypeParts DEF Disable, IInv, ConnectionRows
<1>5. ~SyncIsActive(c)
  BY <1>1, <1>2 DEF Verdict
<1> HIDE DEF row
<1> QED
  BY <1>1, <1>2, <1>3, <1>4, <1>5, RowWritten

-----------------------------------------------------------------------------
(* Requests that answer with a run *)

(* A new run: of a key no run has, and of a connection without a sync.     *)
LEMMA EnqueuePreserves ==
  ASSUME IInv, NEW s \in Sessions, NEW r \in Runs, Enqueue(s, r)
  PROVE  IInv'
<1> DEFINE m == command[s]
           new == [status |-> "queued", key |-> m.key, conn |-> m.conn,
                   scope |-> IF m.conn \in Connections THEN connection[m.conn].scope ELSE SomeScope]
           answer == [key |-> m.key, conn |-> m.conn, run |-> r]
<1>1. /\ step[s] = "checked" /\ m.kind \in {"sync", "upload"} /\ Release(s)
      /\ run[r].status = "absent" /\ Existing(m.key) = {}
      /\ run' = [run EXCEPT ![r] = new]
      /\ answered' = answered \cup {answer}
      /\ UNCHANGED <<connection, watermark, usage, worker>>
  BY DEF Enqueue, rows
<1>2. ConnectionRows /\ RunRows /\ SessionTypes /\ WorkerTypes /\ AnswerTypes
  BY TypeParts DEF IInv
<1>3. m.key \in AnyKey /\ m.conn \in Targets /\ new.scope \in Scopes
  BY <1>2, Chosen DEF SessionTypes, Commands, ConnectionRows, Rows
<1>4. run'[r] = new /\ \A q \in Runs \ {r} : run'[q] = run[q]
  BY <1>1, <1>2 DEF RunRows
<1>5. /\ SessionTypes' /\ LockHeld' /\ step'[s] = "idle"
      /\ \A t \in Sessions \ {s} : step'[t] = step[t] /\ command'[t] = command[t]
  BY <1>1, ReleaseFacts
<1>6. RunRows'
  <2>1. \A q \in Runs : run[q].status # "absent" => run[q].key # m.key
    BY <1>1 DEF Existing
  <2> QED
    BY <1>1, <1>2, <1>3, <1>4, <2>1 DEF RunRows, Active
<1>7. TypeOK'
  BY <1>1, <1>2, <1>3, <1>5, <1>6, TypeParts
  DEF IInv, ConnectionRows, ImportTypes, WorkerTypes, AnswerTypes
<1>8. m.conn \in Connections =>
        /\ Holds(s, m.conn) /\ ~SyncIsActive(m.conn)
        /\ connection[m.conn].enabled /\ connection[m.conn].status = "valid"
  BY <1>1, ConnectionsAssumption DEF IInv, CommandShape, ChecksHold, Verdict, Holds
<1>9. /\ CommandShape' /\ AbsentUnused' /\ ReadHolds'
      /\ EnabledWasValidated' /\ ImportsOfTheirSource'
  BY <1>1, <1>5
  DEF IInv, CommandShape, AbsentUnused, ReadHolds, EnabledWasValidated, ImportsOfTheirSource,
      UsageOfOneSource, WatermarkOfItsWarehouse
<1>10. RunningIsWorkers'
  BY <1>1, <1>2, <1>4 DEF IInv, RunningIsWorkers
<1>11. AnswersExist'
  BY <1>1, <1>2, <1>4 DEF IInv, AnswersExist, AnswerTypes
<1>12. OneActiveSync'
  BY <1>3, <1>4, <1>8 DEF IInv, OneActiveSync, SyncIsActive, Targets
<1>13. ScopeFixedWhileActive'
  BY <1>1, <1>3, <1>4, <1>8 DEF IInv, ScopeFixedWhileActive, Targets
<1>14. ChecksHold'
  <2> SUFFICES ASSUME NEW t \in Sessions \ {s}, step[t] = "checked" PROVE Verdict(t)'
    BY <1>5 DEF ChecksHold
  <2>1. command[t].kind # "upload" => command[t].conn \in Connections /\ command[t].conn # m.conn
    BY <1>2, <1>3, <1>8, InTurnAlone, ConnectionsAssumption
    DEF IInv, CommandShape, SessionTypes, Commands, Targets
  <2>2. \A d \in Connections \ {m.conn} : SyncIsActive(d)' => SyncIsActive(d)
    BY <1>4 DEF SyncIsActive
  <2> QED
    BY <1>1, <1>5, <2>1, <2>2, VerdictKept DEF IInv, ChecksHold
<1> QED
  BY <1>5, <1>7, <1>9, <1>10, <1>11, <1>12, <1>13, <1>14 DEF IInv

(* An answer that names the run there is of that key.                      *)
LEMMA AnswerExistingPreserves ==
  ASSUME IInv, NEW s \in Sessions, AnswerExisting(s)
  PROVE  IInv'
<1> DEFINE m == command[s]
<1>1. PICK r \in Existing(m.key) :
        /\ run[r].conn = m.conn
        /\ answered' = answered \cup {[key |-> m.key, conn |-> m.conn, run |-> r]}
  BY DEF AnswerExisting
<1>2. r \in Runs /\ run[r].status # "absent" /\ run[r].key = m.key
  BY DEF Existing
<1>3. Release(s) /\ UNCHANGED <<connection, watermark, usage, run, worker>>
  BY DEF AnswerExisting, rows
<1>4. /\ SessionTypes' /\ LockHeld' /\ step'[s] = "idle"
      /\ \A t \in Sessions \ {s} : step'[t] = step[t] /\ command'[t] = command[t]
  BY <1>3, ReleaseFacts
<1>5. AnswerTypes'
  BY <1>1, <1>2, TypeParts DEF IInv, SessionTypes, Commands, AnswerTypes
<1>6. TypeOK'
  BY <1>3, <1>4, <1>5, TypeParts DEF IInv, ConnectionRows, ImportTypes, RunRows, WorkerTypes
<1>7. AnswersExist'
  BY <1>1, <1>2, <1>3, TypeParts DEF IInv, AnswersExist, AnswerTypes
<1>8. CommandShape' /\ ReadHolds'
  BY <1>3, <1>4 DEF IInv, CommandShape, ReadHolds
<1>9. ChecksHold'
  BY <1>3, <1>4, VerdictsOfOthers DEF ChecksHold, rows
<1> QED
  BY <1>3, <1>4, <1>6, <1>7, <1>8, <1>9
  DEF IInv, AbsentUnused, RunningIsWorkers, OneActiveSync, ScopeFixedWhileActive,
      EnabledWasValidated, ImportsOfTheirSource,
      UsageOfOneSource, WatermarkOfItsWarehouse

-----------------------------------------------------------------------------
(* The worker *)

(* A run moves on and none becomes active that was not.                    *)
LEMMA RunMoves ==
  ASSUME IInv, NEW r \in Runs, run[r].status \in Active,
         NEW new \in {"success", "failed"} \cup Active,
         run' = [run EXCEPT ![r].status = new],
         UNCHANGED <<rows, lock, step, command, answered>>,
         WorkerTypes', RunningIsWorkers'
  PROVE  IInv'
<1>1. RunRows /\ UNCHANGED <<connection, watermark, usage>>
  BY TypeParts DEF IInv, rows
<1>2. /\ \A q \in Runs \ {r} : run'[q] = run[q]
      /\ run'[r].status = new /\ run'[r].key = run[r].key
      /\ run'[r].conn = run[r].conn /\ run'[r].scope = run[r].scope
  BY <1>1 DEF RunRows
<1>3. RunRows'
  BY <1>1, <1>2 DEF RunRows, Active
<1>4. TypeOK'
  BY <1>1, <1>3, TypeParts DEF IInv, ConnectionRows, ImportTypes, SessionTypes, AnswerTypes
<1>5. LockHeld' /\ CommandShape' /\ ReadHolds' /\ AbsentUnused'
  BY <1>1 DEF IInv, LockHeld, Holds, CommandShape, ReadHolds, AbsentUnused
<1>6. AnswersExist'
  BY <1>1, <1>2, TypeParts DEF IInv, AnswersExist, AnswerTypes, Active
<1>7. /\ OneActiveSync' /\ ScopeFixedWhileActive'
      /\ EnabledWasValidated' /\ ImportsOfTheirSource'
  BY <1>1, <1>2
  DEF IInv, OneActiveSync, ScopeFixedWhileActive, EnabledWasValidated, ImportsOfTheirSource,
      UsageOfOneSource, WatermarkOfItsWarehouse
<1>8. \A d : SyncIsActive(d)' => SyncIsActive(d)
  BY <1>2 DEF SyncIsActive
<1>9. ChecksHold'
  BY <1>1, <1>8, VerdictKept DEF IInv, ChecksHold
<1> QED
  BY <1>4, <1>5, <1>6, <1>7, <1>9 DEF IInv

LEMMA ClaimPreserves ==
  ASSUME IInv, NEW r \in Runs, Claim(r)
  PROVE  IInv'
<1>1. WorkerTypes' /\ worker.run \notin Runs /\ worker'.run = r
  BY RunsAssumption DEF Claim, WorkerTypes, AtRest
<1>2. run'[r].status = "running" /\ \A q \in Runs \ {r} : run'[q] = run[q]
  BY TypeParts DEF Claim, IInv, RunRows
<1>3. RunningIsWorkers'
  BY <1>1, <1>2 DEF IInv, RunningIsWorkers
<1> QED
  BY <1>1, <1>3, RunMoves DEF Claim, Active

(* The worker is done with its run.                                        *)
LEMMA LetGo ==
  ASSUME IInv, worker.run \in Runs, worker' = AtRest,
         NEW new \in {"success", "failed", "queued"},
         run' = [run EXCEPT ![worker.run].status = new],
         UNCHANGED <<rows, lock, step, command, answered>>
  PROVE  IInv'
<1>1. WorkerTypes' /\ worker'.run \notin Runs
  BY RunsAssumption DEF AtRest, WorkerTypes
<1>2. PICK r \in Runs : r = worker.run
  OBVIOUS
<1>3. run'[r].status = new /\ \A q \in Runs \ {r} : run'[q] = run[q]
  BY <1>2, TypeParts DEF IInv, RunRows
<1>4. RunningIsWorkers'
  BY <1>1, <1>2, <1>3 DEF IInv, RunningIsWorkers
<1>5. run[r].status \in Active
  BY <1>2 DEF IInv, RunningIsWorkers, Active
<1> QED
  BY <1>1, <1>2, <1>4, <1>5, RunMoves DEF Active

LEMMA PublishPreserves ==
  ASSUME IInv, Publish
  PROVE  IInv'
BY LetGo DEF Publish

LEMMA FailPreserves ==
  ASSUME IInv, Fail
  PROVE  IInv'
BY LetGo DEF Fail

LEMMA BeginSyncPreserves ==
  ASSUME IInv, NEW c \in Connections, BeginSync(c)
  PROVE  IInv'
<1>1. /\ worker' = [worker EXCEPT !.scope = connection[c].scope]
      /\ UNCHANGED <<connection, watermark, usage, run, lock, step, command, answered>>
  BY DEF BeginSync, rows
<1>2. WorkerTypes' /\ worker'.run = worker.run
  BY <1>1, TypeParts DEF IInv, WorkerTypes, ConnectionRows, Rows
<1>3. TypeOK'
  BY <1>1, <1>2, TypeParts DEF IInv, ConnectionRows, ImportTypes, RunRows, SessionTypes, AnswerTypes
<1>4. ChecksHold'
  BY <1>1, VerdictKept DEF IInv, ChecksHold, SyncIsActive
<1> QED
  BY <1>1, <1>2, <1>3, <1>4
  DEF IInv, LockHeld, Holds, CommandShape, ReadHolds, AbsentUnused, RunningIsWorkers,
      AnswersExist, OneActiveSync, ScopeFixedWhileActive, EnabledWasValidated, ImportsOfTheirSource,
      UsageOfOneSource, WatermarkOfItsWarehouse

(* What the worker writes to a row nobody has locked.                      *)
LEMMA ImportWritten ==
  ASSUME IInv, NEW c \in Connections, Syncing(c), StillTheSame(c), ImportTypes',
         UNCHANGED <<connection, run, lock, step, command, worker, answered>>,
         \A d \in Connections \ {c} : usage'[d] = usage[d] /\ watermark'[d] = watermark[d],
         usage'[c] \subseteq usage[c] \cup {worker.scope.source},
         watermark'[c] \in {watermark[c], worker.scope.source}
  PROVE  IInv'
<1>1. TypeOK'
  BY TypeParts DEF IInv, ConnectionRows, RunRows, SessionTypes, WorkerTypes, AnswerTypes
<1>2. connection[c].status = "valid" /\ connection[c].scope = worker.scope
  BY DEF StillTheSame
<1>3. AbsentUnused' /\ ImportsOfTheirSource'
  BY <1>2 DEF IInv, AbsentUnused, ImportsOfTheirSource, UsageOfOneSource, WatermarkOfItsWarehouse
<1>4. ChecksHold'
  <2> SUFFICES ASSUME NEW s \in Sessions, step[s] = "checked" PROVE Verdict(s)'
    BY DEF ChecksHold
  <2>1. Verdict(s)
    BY DEF IInv, ChecksHold
  <2>2. command[s].kind = "update" => command[s].conn \in Connections \ {c}
    <3> SUFFICES ASSUME command[s].kind = "update" PROVE command[s].conn \in Connections \ {c}
      OBVIOUS
    <3>1. command[s].conn \in Connections /\ lock[command[s].conn] = s
      BY WriterHolds DEF IInv, LockHeld
    <3> QED
      BY <3>1 DEF StillTheSame, RowHeld
  <2> QED
    BY <2>1, <2>2 DEF Verdict, MayRescope, SyncIsActive
<1> QED
  BY <1>1, <1>3, <1>4
  DEF IInv, LockHeld, Holds, CommandShape, ReadHolds, RunningIsWorkers,
      AnswersExist, OneActiveSync, ScopeFixedWhileActive, EnabledWasValidated

LEMMA SyncingSource ==
  ASSUME IInv, NEW c \in Connections, Syncing(c)
  PROVE  worker.scope.source \in Sources
BY TypeParts DEF IInv, Syncing, WorkerTypes, Scopes

LEMMA ImportPagePreserves ==
  ASSUME IInv, NEW c \in Connections, ImportPage(c)
  PROVE  IInv'
<1>1. /\ Syncing(c) /\ StillTheSame(c)
      /\ usage' = [usage EXCEPT ![c] = @ \cup {worker.scope.source}]
      /\ UNCHANGED <<connection, watermark, run, lock, step, command, worker, answered>>
  BY DEF ImportPage
<1>2. ImportTypes /\ worker.scope.source \in Sources
  BY <1>1, SyncingSource, TypeParts DEF IInv
<1>3. /\ ImportTypes' /\ usage'[c] = usage[c] \cup {worker.scope.source}
      /\ \A d \in Connections \ {c} : usage'[d] = usage[d]
  BY <1>1, <1>2 DEF ImportTypes
<1> QED
  BY <1>1, <1>3, ImportWritten

LEMMA CheckpointPreserves ==
  ASSUME IInv, NEW c \in Connections, Checkpoint(c)
  PROVE  IInv'
<1>1. /\ Syncing(c) /\ StillTheSame(c)
      /\ watermark' = [watermark EXCEPT ![c] = worker.scope.source]
      /\ UNCHANGED <<connection, usage, run, lock, step, command, worker, answered>>
  BY DEF Checkpoint
<1>2. ImportTypes /\ worker.scope.source \in Sources
  BY <1>1, SyncingSource, TypeParts DEF IInv
<1>3. /\ ImportTypes' /\ watermark'[c] = worker.scope.source
      /\ \A d \in Connections \ {c} : watermark'[d] = watermark[d]
  BY <1>1, <1>2 DEF ImportTypes
<1> QED
  BY <1>1, <1>3, ImportWritten

-----------------------------------------------------------------------------
LEMMA StutterPreserves ==
  ASSUME IInv, UNCHANGED vars
  PROVE  IInv'
<1>1. UNCHANGED <<connection, watermark, usage, run, lock, step, command, worker, answered>>
  BY DEF vars, rows
<1>2. SessionTypes' /\ LockHeld' /\ CommandShape' /\ ReadHolds'
  BY <1>1, TypeParts DEF IInv, SessionTypes, LockHeld, Holds, CommandShape, ReadHolds
<1>3. ChecksHold'
  BY <1>1, VerdictKept DEF IInv, ChecksHold, SyncIsActive
<1> QED
  BY <1>1, <1>2, <1>3, SessionsOnly DEF rows

LEMMA StepPreserves == IInv /\ [Next]_vars => IInv'
<1> SUFFICES ASSUME IInv, [Next]_vars PROVE IInv'
  OBVIOUS
<1>1. CASE \E c \in Connections : CreateConnection(c)
  BY <1>1, CreatePreserves
<1>2. CASE \E s \in Sessions : Arrive(s)
  BY <1>2, ArrivePreserves
<1>3. ASSUME NEW s \in Sessions, Answer(s) PROVE IInv'
  <2>1. CASE LockConnection(s)
    BY <2>1, LockPreserves
  <2>2. CASE Check(s)
    BY <2>2, CheckPreserves
  <2>3. CASE Update(s)
    BY <2>3, UpdatePreserves
  <2>4. CASE Validate(s)
    BY <2>4, ValidatePreserves
  <2>5. CASE Invalidate(s)
    BY <2>5, InvalidatePreserves
  <2>6. CASE Disable(s)
    BY <2>6, DisablePreserves
  <2>7. CASE \E r \in Runs : Enqueue(s, r)
    BY <2>7, EnqueuePreserves
  <2>8. CASE AnswerExisting(s)
    BY <2>8, AnswerExistingPreserves
  <2>9. CASE Refuse(s)
    BY <2>9, RollbackPreserves DEF Refuse
  <2> QED
    BY <1>3, <2>1, <2>2, <2>3, <2>4, <2>5, <2>6, <2>7, <2>8, <2>9 DEF Answer
<1>4. CASE Work
  BY <1>4, ClaimPreserves, BeginSyncPreserves, ImportPagePreserves, CheckpointPreserves,
     PublishPreserves, FailPreserves DEF Work
<1>5. CASE UNCHANGED vars
  BY <1>5, StutterPreserves
<1> QED
  BY <1>1, <1>2, <1>3, <1>4, <1>5 DEF Next

(* The inductive invariant holds in every reachable state.                 *)
THEOREM Invariance == Spec => []IInv
BY InitEstablishes, StepPreserves, PTL DEF Spec

(* Row types, at most one enabled connection (Validate against the unique  *)
(* index), at most one run of a key.                                       *)
THEOREM ConnectionTypes == Spec => []TypeOK
<1>1. IInv => TypeOK
  BY DEF IInv
<1> QED
  BY <1>1, Invariance, PTL

(* No connection has two syncs queued or running, however many requests    *)
(* ask for one at the same time (enqueue_snowflake_sync).                  *)
THEOREM SyncedOneAtATime == Spec => []OneActiveSync
<1>1. IInv => OneActiveSync
  BY DEF IInv
<1> QED
  BY <1>1, Invariance, PTL

(* An active sync finds its connection enabled and as it was requested     *)
(* (_sync_is_active in update, validate and disable).                      *)
THEOREM ActiveScopeIsFixed == Spec => []ScopeFixedWhileActive
<1>1. IInv => ScopeFixedWhileActive
  BY DEF IInv
<1> QED
  BY <1>1, Invariance, PTL

(* What is enabled is what Snowflake accepted                              *)
(* (validate_snowflake_connection).                                        *)
THEOREM OnlyValidatedEnabled == Spec => []EnabledWasValidated
<1>1. IInv => EnabledWasValidated
  BY DEF IInv
<1> QED
  BY <1>1, Invariance, PTL

(* The usage of a connection is of its present account and warehouse       *)
(* (update_connection, _assert_sync_connection).                           *)
THEOREM SourceIsOne == Spec => []UsageOfOneSource
<1>1. IInv => UsageOfOneSource
  BY DEF IInv, ImportsOfTheirSource
<1> QED
  BY <1>1, Invariance, PTL

(* What a watermark lets a sync skip was read in the warehouse the         *)
(* connection has (update_connection, _assert_sync_connection).            *)
THEOREM WarehouseOfTheWatermark == Spec => []WatermarkOfItsWarehouse
<1>1. IInv => WatermarkOfItsWarehouse
  BY DEF IInv, ImportsOfTheirSource
<1> QED
  BY <1>1, Invariance, PTL

(* All answers to one idempotency key name one run of one connection       *)
(* (_existing_run, _existing_run_after_idempotency_conflict).              *)
THEOREM KeysAreStable == Spec => []KeyStandsForOneRun
<1>1. IInv => KeyStandsForOneRun
  <2> SUFFICES ASSUME IInv, NEW a \in answered, NEW b \in answered, a.key = b.key
               PROVE  a = b
    BY DEF KeyStandsForOneRun
  <2>1. RunRows /\ AnswerTypes /\ AnswersExist
    BY TypeParts DEF IInv
  <2>2. a.run = b.run /\ a.conn = b.conn
    BY <2>1 DEF RunRows, AnswerTypes, AnswersExist
  <2> QED
    BY <2>1, <2>2 DEF AnswerTypes
<1> QED
  BY <1>1, Invariance, PTL

(* Where only one Snowflake account is ever used, a watermark is of the    *)
(* very source its connection has: what the run with two accounts refutes  *)
(* fails by the account and by nothing else (update_connection).           *)
OneAccount == \A a, b \in Accounts : a = b

THEOREM WatermarkOfOneAccount == Spec /\ OneAccount => []WatermarkOfItsSource
<1>1. IInv /\ OneAccount => WatermarkOfItsSource
  <2> SUFFICES ASSUME IInv, OneAccount, NEW c \in Connections, watermark[c] # NoScope
               PROVE  watermark[c] = connection[c].scope.source
    BY DEF WatermarkOfItsSource
  <2>1. watermark[c] \in Sources /\ connection[c].scope.source \in Sources
    BY TypeParts DEF IInv, ImportTypes, ConnectionRows, Rows, Scopes
  <2>2. watermark[c].warehouse = connection[c].scope.source.warehouse
    BY DEF IInv, ImportsOfTheirSource, WatermarkOfItsWarehouse
  <2> QED
    BY <2>1, <2>2 DEF Sources, OneAccount
<1>2. OneAccount /\ [Next]_vars => OneAccount'
  BY DEF OneAccount
<1> QED
  BY <1>1, <1>2, Invariance, PTL DEF Spec

-----------------------------------------------------------------------------
(* Requests act at once: every step is one step of ConnectionTable on the  *)
(* rows, or leaves them as they are.                                       *)

LEMMA StartsAsTable == Init => Table!Init
BY DEF Init, Table!Init

LEMMA AsleepInTable ==
  ASSUME UNCHANGED <<rows, run, answered>>
  PROVE  UNCHANGED Table!vars
BY DEF rows, Table!vars

LEMMA CreateAtOnce ==
  ASSUME NEW c \in Connections, CreateConnection(c)
  PROVE  Table!Next
<1>1. PICK scope \in Scopes : connection' = [connection EXCEPT ![c] = Table!Fresh(scope)]
  BY DEF CreateConnection, Table!Fresh
<1>2. Table!Create(c, scope)
  BY <1>1 DEF CreateConnection, Table!Create, Table!Exists, Table!Write
<1> QED
  BY <1>2 DEF Table!Next

LEMMA UpdateAtOnce ==
  ASSUME IInv, NEW s \in Sessions, Update(s)
  PROVE  [Table!Next]_Table!vars
<1> DEFINE c == command[s].conn
           to == command[s].to
<1>1. /\ c \in Connections /\ to \in Scopes
      /\ connection[c].status # "absent" /\ MayRescope(c, to)
  BY WriterHolds DEF Update, Verdict
<1>2. UNCHANGED <<watermark, usage, run, answered>>
  BY DEF Update
<1>3. CASE connection[c].scope = to
  <2>1. connection' = [connection EXCEPT ![c] = connection[c]]
    BY <1>3 DEF Update
  <2>2. connection' = connection
    BY <1>1, <2>1, TypeParts DEF IInv, ConnectionRows
  <2> QED
    BY <1>2, <2>2 DEF Table!vars
<1>4. CASE connection[c].scope # to
  <2>1. connection' = [connection EXCEPT ![c] = Table!Fresh(to)]
    BY <1>4 DEF Update, Table!Fresh
  <2>2. Table!Rescope(c, to)
    BY <1>1, <1>2, <1>4, <2>1
    DEF Table!Rescope, Table!Write, Table!Exists, Table!Busy, MayRescope, SyncIsActive, Active
  <2> QED
    BY <1>1, <2>2 DEF Table!Next
<1> QED
  BY <1>3, <1>4

(* What Snowflake was shown before the write is what the row still says.   *)
LEMMA ValidateAtOnce ==
  ASSUME IInv, NEW s \in Sessions, Validate(s)
  PROVE  Table!Next
<1> DEFINE c == command[s].conn
<1>1. /\ c \in Connections /\ connection[c].status # "absent"
      /\ ~SyncIsActive(c) /\ command[s].to = connection[c].scope
  BY WriterHolds DEF Validate, Verdict, IInv, ReadHolds
<1>2. connection' = [connection EXCEPT ![c] =
        [status |-> "valid", enabled |-> TRUE,
         scope |-> connection[c].scope, confirmed |-> connection[c].scope]]
  BY <1>1 DEF Validate
<1>3. Table!Accept(c)
  BY <1>1, <1>2
  DEF Validate, Table!Accept, Table!Write, Table!Exists, Table!Busy, SyncIsActive, Active
<1> QED
  BY <1>1, <1>3 DEF Table!Next

LEMMA TakeOutAtOnce ==
  ASSUME IInv, NEW s \in Sessions, Invalidate(s) \/ Disable(s)
  PROVE  Table!Next
<1> DEFINE c == command[s].conn
<1>1. /\ c \in Connections /\ connection[c] \in Rows
      /\ connection[c].status # "absent" /\ ~SyncIsActive(c)
  BY WriterHolds DEF Invalidate, Disable, Verdict
<1>2. Table!Exists(c) /\ ~Table!Busy(c)
  BY <1>1 DEF Table!Exists, Table!Busy, SyncIsActive, Active
<1>3. CASE Invalidate(s)
  <2>1. connection' = [connection EXCEPT ![c] =
          [Table!Fresh(connection[c].scope) EXCEPT !.status = "invalid"]]
    BY <1>3 DEF Invalidate, Table!Fresh
  <2> QED
    BY <1>1, <1>2, <1>3, <2>1 DEF Invalidate, Table!TakeOut, Table!Write, Table!Next
<1>4. CASE Disable(s)
  <2>1. connection' = [connection EXCEPT ![c] =
          [connection[c] EXCEPT !.status = "disabled", !.enabled = FALSE]]
    BY <1>1, <1>4, TypeParts DEF Disable, IInv, ConnectionRows
  <2> QED
    BY <1>1, <1>2, <1>4, <2>1 DEF Disable, Table!TakeOut, Table!Write, Table!Next
<1> QED
  BY <1>3, <1>4

LEMMA EnqueueAtOnce ==
  ASSUME IInv, NEW s \in Sessions, NEW r \in Runs, Enqueue(s, r)
  PROVE  Table!Next
<1> DEFINE m == command[s]
           scope == IF m.conn \in Connections THEN connection[m.conn].scope ELSE SomeScope
<1>1. /\ m.key \in AnyKey /\ m.conn \in Targets
      /\ m.kind = "upload" <=> m.conn = NoConnection
  BY TypeParts DEF Enqueue, IInv, SessionTypes, Commands, CommandShape
<1>2. Table!Queue(r, m.key, m.conn, scope)
  BY DEF Enqueue, Existing, Table!Queue, Table!Answer, rows
<1>3. CASE m.conn = NoConnection
  <2>1. Table!Upload(r, m.key)
    BY <1>2, <1>3, ConnectionsAssumption DEF Table!Upload
  <2> QED
    BY <1>1, <2>1 DEF Table!Next
<1>4. CASE m.conn \in Connections
  <2>1. m.kind = "sync" /\ step[s] = "checked"
    BY <1>1, <1>4, ConnectionsAssumption DEF Enqueue
  <2>2. connection[m.conn].enabled /\ ~SyncIsActive(m.conn)
    BY <2>1 DEF IInv, ChecksHold, Verdict
  <2>3. Table!Sync(r, m.key, m.conn)
    BY <1>2, <1>4, <2>2
    DEF IInv, EnabledWasValidated, Table!Sync, Table!Busy, SyncIsActive, Active
  <2> QED
    BY <1>1, <1>4, <2>3 DEF Table!Next
<1> QED
  BY <1>1, <1>3, <1>4 DEF Targets

LEMMA AnswerAtOnce ==
  ASSUME NEW s \in Sessions, AnswerExisting(s)
  PROVE  Table!Next
<1>1. PICK r \in Existing(command[s].key) :
        /\ run[r].conn = command[s].conn
        /\ answered' = answered \cup {[key |-> command[s].key, conn |-> command[s].conn, run |-> r]}
  BY DEF AnswerExisting
<1>2. r \in Runs /\ run[r].status # "absent" /\ run[r].key = command[s].key
  BY DEF Existing
<1>3. Table!Repeat(r)
  BY <1>1, <1>2 DEF AnswerExisting, Table!Repeat, Table!Answer, rows
<1> QED
  BY <1>2, <1>3 DEF Table!Next

LEMMA ClaimAtOnce ==
  ASSUME IInv, NEW r \in Runs, Claim(r)
  PROVE  Table!Next
<1>1. \A q \in Runs : run[q].status # "running"
  BY RunsAssumption DEF Claim, AtRest, IInv, RunningIsWorkers
<1>2. Table!Start(r)
  BY <1>1 DEF Claim, Table!Start, Table!Move, rows
<1> QED
  BY <1>2 DEF Table!Next

(* The worker's copy of the scope is the connection's.                     *)
LEMMA WorksAsAsked ==
  ASSUME IInv, NEW c \in Connections, Syncing(c), StillTheSame(c)
  PROVE  Table!AtWork(c) /\ worker.scope = connection[c].scope
<1>1. connection[c].enabled /\ worker.scope = connection[c].scope
  BY DEF StillTheSame
<1>2. connection[c].confirmed = connection[c].scope
  BY <1>1 DEF IInv, EnabledWasValidated
<1>3. PICK r \in Runs : r = worker.run
  BY DEF Syncing
<1>4. run[r].status = "running" /\ run[r].conn = c
  BY <1>3 DEF Syncing, IInv, RunningIsWorkers
<1>5. run[r].scope = connection[c].scope
  BY <1>4, ConnectionsAssumption DEF IInv, ScopeFixedWhileActive, Active
<1> QED
  BY <1>1, <1>2, <1>3, <1>4, <1>5 DEF Table!AtWork

LEMMA ImportsAtOnce ==
  ASSUME IInv, NEW c \in Connections, ImportPage(c) \/ Checkpoint(c)
  PROVE  Table!Next
<1>1. Table!AtWork(c) /\ worker.scope = connection[c].scope
  BY WorksAsAsked DEF ImportPage, Checkpoint
<1>2. ImportPage(c) => Table!Import(c)
  BY <1>1 DEF ImportPage, Table!Import
<1>3. Checkpoint(c) => Table!Advance(c)
  BY <1>1 DEF Checkpoint, Table!Advance
<1> QED
  BY <1>2, <1>3 DEF Table!Next

LEMMA FinishAtOnce ==
  ASSUME IInv, Publish \/ Fail
  PROVE  Table!Next
<1>1. PICK r \in Runs : r = worker.run
  BY DEF Publish, Fail
<1>2. run[r].status = "running"
  BY <1>1 DEF IInv, RunningIsWorkers
<1>3. CASE Publish
  <2>1. run[r].conn \in Connections => Table!AtWork(run[r].conn)
    BY <1>1, <1>3, WorksAsAsked DEF Publish
  <2>2. Table!Succeed(r)
    BY <1>1, <1>2, <1>3, <2>1 DEF Publish, Table!Succeed, Table!Move, rows
  <2> QED
    BY <2>2 DEF Table!Next
<1>4. CASE Fail
  <2>1. PICK to \in {"queued", "failed"} : run' = [run EXCEPT ![r].status = to]
    BY <1>1, <1>4 DEF Fail
  <2>2. Table!Move(r, "running", to)
    BY <1>2, <1>4, <2>1 DEF Fail, Table!Move, rows
  <2> QED
    BY <2>2 DEF Table!Next
<1> QED
  BY <1>3, <1>4

LEMMA StepAtOnce == IInv /\ [Next]_vars => [Table!Next]_Table!vars
<1> SUFFICES ASSUME IInv, [Next]_vars PROVE [Table!Next]_Table!vars
  OBVIOUS
<1>1. CASE \E c \in Connections : CreateConnection(c)
  BY <1>1, CreateAtOnce
<1>2. ASSUME NEW s \in Sessions, Arrive(s) PROVE UNCHANGED Table!vars
  BY <1>2, AsleepInTable DEF Arrive
<1>3. ASSUME NEW s \in Sessions, Answer(s) PROVE [Table!Next]_Table!vars
  <2>1. CASE LockConnection(s) \/ Check(s) \/ Refuse(s)
    BY <2>1, AsleepInTable DEF LockConnection, Check, Refuse
  <2>2. CASE Update(s)
    BY <2>2, UpdateAtOnce
  <2>3. CASE Validate(s)
    BY <2>3, ValidateAtOnce
  <2>4. CASE Invalidate(s) \/ Disable(s)
    BY <2>4, TakeOutAtOnce
  <2>5. CASE \E r \in Runs : Enqueue(s, r)
    BY <2>5, EnqueueAtOnce
  <2>6. CASE AnswerExisting(s)
    BY <2>6, AnswerAtOnce
  <2> QED
    BY <1>3, <2>1, <2>2, <2>3, <2>4, <2>5, <2>6 DEF Answer
<1>4. ASSUME NEW c \in Connections, BeginSync(c) PROVE UNCHANGED Table!vars
  BY <1>4, AsleepInTable DEF BeginSync
<1>5. CASE Work
  BY <1>4, <1>5, ClaimAtOnce, ImportsAtOnce, FinishAtOnce DEF Work
<1>6. CASE UNCHANGED vars
  BY <1>6, AsleepInTable DEF vars
<1> QED
  BY <1>1, <1>2, <1>3, <1>5, <1>6 DEF Next

(* Concurrent requests and the worker leave nothing that requests and      *)
(* imports taken one after the other could not: the locks, the checks made *)
(* under them and the second look the worker takes are enough              *)
(* (lock_connection, validate_snowflake_connection, _assert_sync_connection). *)
THEOREM ConnectionsActAtOnce == Spec => RequestsActAtOnce
<1>1. IInv /\ [Next]_vars => [Table!Next]_Table!vars
  BY StepAtOnce
<1> QED
  BY <1>1, StartsAsTable, Invariance, PTL DEF Spec, RequestsActAtOnce, Table!Spec
=============================================================================
