------------------------- MODULE MembershipsProofs -------------------------
(***************************************************************************)
(* Proofs about Memberships, for any number of people and of concurrent    *)
(* requests.  The argument: the advisory lock is held from the second read *)
(* of the own role to the end of the transaction (LockHeld), so that what  *)
(* a request has read stays true until its commit (OwnRoleHolds,           *)
(* ChecksStillHold), and so does the trigger's verdict (VerdictHolds).     *)
(* Enrollments run without the lock, but only add rows.  At its commit a   *)
(* request therefore still meets every condition MembershipTable puts on   *)
(* the change, which makes the change a step of that module.               *)
(***************************************************************************)
EXTENDS Memberships, TLAPS

InTurn == {"locked", "checked", "written"}

LockHeld == \A q \in Requests : step[q] \in InTurn <=> lock = q

OwnRoleHolds ==
  \A q \in Requests : step[q] \in InTurn => member[command[q].actor] = access[q]

TargetFound ==
  \A q \in Requests : step[q] \in {"checked", "written"} => found[q] # "none"

VerdictHolds == \A q \in Requests : step[q] = "written" => KeepsAnOwner(q)

IInv ==
  /\ TypeOK
  /\ LockHeld
  /\ OwnRoleHolds
  /\ TargetFound
  /\ ChecksStillHold
  /\ VerdictHolds
  /\ OwnerRemains

-----------------------------------------------------------------------------
LEMMA InitEstablishes == Init => IInv
<1>1. NoCommand \in Commands
  BY UsersAssumption DEF NoCommand, Commands, Targets
<1> QED
  BY <1>1, UsersAssumption, RequestsAssumption
  DEF Init, IInv, TypeOK, LockHeld, OwnRoleHolds, TargetFound, ChecksStillHold,
      VerdictHolds, OwnerRemains, InTurn, Roles

(* Release frees the lock and forgets the request.                         *)
LEMMA ReleaseTypes ==
  ASSUME TypeOK, NEW q \in Requests, Release(q), member' \in [Users -> Roles]
  PROVE  /\ TypeOK'
         /\ step'[q] = "idle"
         /\ \A p \in Requests \ {q} :
              /\ step'[p] = step[p] /\ command'[p] = command[p]
              /\ access'[p] = access[p] /\ found'[p] = found[p]
<1>1. NoCommand \in Commands
  BY UsersAssumption DEF NoCommand, Commands, Targets
<1> QED
  BY <1>1 DEF Release, TypeOK, Roles

(* A transaction that ends leaves no trace but what it wrote; the others   *)
(* are not in their turn while it holds the lock.                          *)
LEMMA RollbackPreserves ==
  ASSUME IInv, NEW q \in Requests, Release(q), UNCHANGED member
  PROVE  IInv'
<1>1. member' \in [Users -> Roles]
  BY DEF IInv, TypeOK
<1>2. /\ TypeOK' /\ step'[q] = "idle"
      /\ \A p \in Requests \ {q} :
           /\ step'[p] = step[p] /\ command'[p] = command[p]
           /\ access'[p] = access[p] /\ found'[p] = found[p]
  BY <1>1, ReleaseTypes DEF IInv
<1>3. LockHeld'
  BY <1>2, RequestsAssumption DEF IInv, LockHeld, InTurn, Release
<1>4. OwnRoleHolds' /\ TargetFound' /\ ChecksStillHold'
  BY <1>2 DEF IInv, OwnRoleHolds, TargetFound, ChecksStillHold, InTurn
<1>5. VerdictHolds' /\ OwnerRemains'
  BY <1>2 DEF IInv, VerdictHolds, KeepsAnOwner, OwnerRemains
<1> QED
  BY <1>2, <1>3, <1>4, <1>5 DEF IInv

(* The trigger's verdict of the flush at the commit.                       *)
LEMMA CommitLeavesAnOwner ==
  ASSUME IInv, NEW q \in Requests, Commit(q)
  PROVE  OwnerRemains'
<1> DEFINE c == command[q]
<1>1. /\ c.target \in Users /\ step[q] = "written"
      /\ member' = [member EXCEPT ![c.target] = c.to]
  BY DEF IInv, TypeOK, Commit, Commands
<1>2. CASE c.to = "owner"
  BY <1>2, <1>1 DEF OwnerRemains, IInv, TypeOK
<1>3. CASE c.to # "owner" /\ member[c.target] = "owner"
  <2>1. PICK u \in Users \ {c.target} : member[u] = "owner"
    BY <1>3, <1>1 DEF IInv, VerdictHolds, KeepsAnOwner
  <2> QED
    BY <2>1, <1>1 DEF OwnerRemains, IInv, TypeOK
<1>4. CASE c.to # "owner" /\ member[c.target] # "owner"
  BY <1>4, <1>1 DEF IInv, OwnerRemains, TypeOK
<1> QED
  BY <1>2, <1>3, <1>4

LEMMA CommitPreserves ==
  ASSUME IInv, NEW q \in Requests, Commit(q)
  PROVE  IInv'
<1> DEFINE c == command[q]
<1>1. /\ c \in Commands /\ c.target \in Users /\ c.to \in Targets
      /\ step[q] = "written" /\ Release(q)
      /\ member' = [member EXCEPT ![c.target] = c.to]
  BY DEF IInv, TypeOK, Commit, Commands
<1>2. c.to \in Roles
  BY <1>1, AssignableAssumption DEF Targets, Roles
<1>3. member' \in [Users -> Roles]
  BY <1>1, <1>2 DEF IInv, TypeOK
<1>4. /\ TypeOK' /\ step'[q] = "idle"
      /\ \A p \in Requests \ {q} : step'[p] = step[p]
  BY <1>1, <1>3, ReleaseTypes DEF IInv
<1>5. lock = q /\ \A p \in Requests \ {q} : step[p] \notin InTurn
  BY <1>1 DEF IInv, LockHeld, InTurn
<1>6. \A p \in Requests : step'[p] \notin InTurn
  BY <1>4, <1>5 DEF InTurn
<1>7. LockHeld'
  BY <1>1, <1>5, <1>6, RequestsAssumption DEF LockHeld, Release
<1>8. OwnRoleHolds' /\ TargetFound' /\ ChecksStillHold' /\ VerdictHolds'
  BY <1>6 DEF OwnRoleHolds, TargetFound, ChecksStillHold, VerdictHolds, InTurn
<1>9. OwnerRemains'
  BY CommitLeavesAnOwner
<1> QED
  BY <1>4, <1>7, <1>8, <1>9 DEF IInv

(* A row that is added was nobody's actor or target under the lock.        *)
LEMMA EnrollPreserves ==
  ASSUME IInv, NEW u \in Users, Enroll(u)
  PROVE  IInv'
<1>1. PICK r \in AssignableRoles : member' = [member EXCEPT ![u] = r]
  BY DEF Enroll, Table!Join
<1>2. member[u] = "none" /\ r \in {"admin", "operator", "viewer"}
  BY AssignableAssumption DEF Enroll, Table!Join
<1>3. \A v \in Users : member[v] # "none" => member'[v] = member[v]
  BY <1>1, <1>2 DEF IInv, TypeOK
<1>4. UNCHANGED <<lock, step, command, access, found>>
  BY DEF Enroll
<1>5. \A q \in Requests : command[q].actor \in Users /\ command[q].target \in Users
  BY DEF IInv, TypeOK, Commands
<1>6. TypeOK'
  BY <1>1, <1>2, <1>4 DEF IInv, TypeOK, Roles
<1>7. \A q \in Requests : step[q] \in InTurn => access[q] # "none"
  BY DEF IInv, TypeOK, AllowedRoles, Managers, InTurn
<1>8. OwnRoleHolds'
  BY <1>3, <1>4, <1>5, <1>7 DEF IInv, OwnRoleHolds
<1>9. ChecksStillHold'
  <2> SUFFICES ASSUME NEW q \in Requests, step[q] \in {"checked", "written"}
               PROVE  /\ member'[command[q].actor] = access[q]
                      /\ member'[command[q].target] = found[q]
                      /\ Permitted(command[q].to, access[q], found[q])
    BY <1>4 DEF ChecksStillHold, Permitted
  <2> QED
    BY <1>3, <1>5, <1>7 DEF IInv, ChecksStillHold, TargetFound, InTurn
<1>10. VerdictHolds'
  <2> SUFFICES ASSUME NEW q \in Requests, step[q] = "written",
                      member'[command[q].target] = "owner", command[q].to # "owner"
               PROVE  \E v \in Users \ {command[q].target} : member'[v] = "owner"
    BY <1>4 DEF VerdictHolds, KeepsAnOwner
  <2>1. member[command[q].target] = "owner"
    BY <1>1, <1>2, <1>5 DEF IInv, TypeOK
  <2>2. PICK v \in Users \ {command[q].target} : member[v] = "owner"
    BY <2>1 DEF IInv, VerdictHolds, KeepsAnOwner
  <2> QED
    BY <2>2, <1>3
<1>11. LockHeld' /\ TargetFound' /\ OwnerRemains'
  BY <1>3, <1>4 DEF IInv, LockHeld, TargetFound, OwnerRemains
<1> QED
  BY <1>6, <1>8, <1>9, <1>10, <1>11 DEF IInv

LEMMA StepPreserves == IInv /\ [Next]_vars => IInv'
<1> SUFFICES ASSUME IInv, [Next]_vars
             PROVE  IInv'
  OBVIOUS
<1>1. ASSUME NEW q \in Requests, Authorize(q)
      PROVE  IInv'
  <2>1. PICK c \in Commands :
          /\ member[c.actor] \in AllowedRoles(c.to)
          /\ command' = [command EXCEPT ![q] = c]
          /\ access' = [access EXCEPT ![q] = member[c.actor]]
    BY <1>1 DEF Authorize
  <2>2. /\ step[q] = "idle" /\ step' = [step EXCEPT ![q] = "authorized"]
        /\ UNCHANGED <<member, lock, found>>
    BY <1>1 DEF Authorize
  <2>3. c.actor \in Users
    BY DEF Commands
  <2>4. TypeOK'
    BY <2>1, <2>2, <2>3 DEF IInv, TypeOK, Roles
  <2>5. LockHeld'
    BY <2>2 DEF IInv, TypeOK, LockHeld, InTurn
  <2>6. OwnRoleHolds' /\ TargetFound' /\ ChecksStillHold'
    BY <2>1, <2>2 DEF IInv, TypeOK, OwnRoleHolds, TargetFound, ChecksStillHold, InTurn
  <2>7. VerdictHolds' /\ OwnerRemains'
    BY <2>1, <2>2 DEF IInv, TypeOK, VerdictHolds, KeepsAnOwner, OwnerRemains
  <2> QED
    BY <2>4, <2>5, <2>6, <2>7 DEF IInv
<1>2. ASSUME NEW q \in Requests, LockMembershipChanges(q)
      PROVE  IInv'
  <2>1. /\ step[q] = "authorized" /\ lock = NoRequest /\ lock' = q
        /\ member[command[q].actor] \in AllowedRoles(command[q].to)
        /\ access' = [access EXCEPT ![q] = member[command[q].actor]]
        /\ step' = [step EXCEPT ![q] = "locked"]
        /\ UNCHANGED <<member, command, found>>
    BY <1>2 DEF LockMembershipChanges
  <2>2. command[q].actor \in Users
    BY DEF IInv, TypeOK, Commands
  <2>3. TypeOK'
    BY <2>1, <2>2 DEF IInv, TypeOK, Roles
  <2>4. \A p \in Requests : step[p] \notin InTurn
    BY <2>1, RequestsAssumption DEF IInv, LockHeld
  <2>5. LockHeld'
    BY <2>1, <2>4, RequestsAssumption DEF IInv, TypeOK, LockHeld, InTurn
  <2>6. OwnRoleHolds' /\ TargetFound' /\ ChecksStillHold' /\ VerdictHolds'
    BY <2>1, <2>4 DEF IInv, TypeOK, OwnRoleHolds, TargetFound, ChecksStillHold, VerdictHolds, InTurn
  <2> QED
    BY <2>1, <2>3, <2>5, <2>6 DEF IInv, OwnerRemains
<1>3. ASSUME NEW q \in Requests, CheckTarget(q)
      PROVE  IInv'
  <2> DEFINE row == member[command[q].target]
  <2>1. /\ step[q] = "locked" /\ row # "none"
        /\ Permitted(command[q].to, access[q], row)
        /\ found' = [found EXCEPT ![q] = row]
        /\ step' = [step EXCEPT ![q] = "checked"]
        /\ UNCHANGED <<member, lock, command, access>>
    BY <1>3 DEF CheckTarget
  <2>2. row \in Roles
    BY DEF IInv, TypeOK, Commands
  <2>3. TypeOK'
    BY <2>1, <2>2 DEF IInv, TypeOK, Roles
  <2>4. LockHeld' /\ OwnRoleHolds' /\ TargetFound'
    BY <2>1 DEF IInv, TypeOK, LockHeld, OwnRoleHolds, TargetFound, InTurn
  <2>5. ChecksStillHold'
    BY <2>1 DEF IInv, TypeOK, ChecksStillHold, OwnRoleHolds, InTurn, Permitted
  <2>6. VerdictHolds' /\ OwnerRemains'
    BY <2>1 DEF IInv, TypeOK, VerdictHolds, KeepsAnOwner, OwnerRemains
  <2> QED
    BY <2>3, <2>4, <2>5, <2>6 DEF IInv
<1>4. ASSUME NEW q \in Requests, Flush(q)
      PROVE  IInv'
  <2>1. /\ step[q] = "checked" /\ KeepsAnOwner(q)
        /\ step' = [step EXCEPT ![q] = "written"]
        /\ UNCHANGED <<member, lock, command, access, found>>
    BY <1>4 DEF Flush
  <2>2. TypeOK'
    BY <2>1 DEF IInv, TypeOK
  <2>3. LockHeld' /\ OwnRoleHolds' /\ TargetFound' /\ ChecksStillHold'
    BY <2>1 DEF IInv, TypeOK, LockHeld, OwnRoleHolds, TargetFound, ChecksStillHold, InTurn,
                Permitted
  <2>4. VerdictHolds' /\ OwnerRemains'
    BY <2>1 DEF IInv, TypeOK, VerdictHolds, KeepsAnOwner, OwnerRemains
  <2> QED
    BY <2>2, <2>3, <2>4 DEF IInv
<1>5. ASSUME NEW q \in Requests, Commit(q)
      PROVE  IInv'
  BY <1>5, CommitPreserves
<1>6. ASSUME NEW q \in Requests, Refuse(q)
      PROVE  IInv'
  BY <1>6, RollbackPreserves DEF Refuse
<1>7. ASSUME NEW q \in Requests, LoseConnection(q)
      PROVE  IInv'
  BY <1>7, RollbackPreserves DEF LoseConnection
<1>8. ASSUME NEW u \in Users, Enroll(u)
      PROVE  IInv'
  BY <1>8, EnrollPreserves
<1>9. CASE UNCHANGED vars
  BY <1>9 DEF vars, IInv, TypeOK, LockHeld, OwnRoleHolds, TargetFound, ChecksStillHold,
              VerdictHolds, KeepsAnOwner, OwnerRemains, Permitted
<1> QED
  BY <1>1, <1>2, <1>3, <1>4, <1>5, <1>6, <1>7, <1>8, <1>9 DEF Next, Handle

(* The inductive invariant holds in every reachable state.                 *)
THEOREM Invariance == Spec => []IInv
BY InitEstablishes, StepPreserves, PTL DEF Spec

(* Types, and an access role that the capability allows.                   *)
THEOREM MembershipTypes == Spec => []TypeOK
<1>1. IInv => TypeOK
  BY DEF IInv
<1> QED
  BY <1>1, Invariance, PTL

(* The organization never loses its last owner, for any number of people   *)
(* and of requests racing each other (protect_last_owner under the lock).  *)
THEOREM AlwaysAnOwner == Spec => []OwnerRemains
<1>1. IInv => OwnerRemains
  BY DEF IInv
<1> QED
  BY <1>1, Invariance, PTL

(* The roles read under the lock hold until the commit.                    *)
THEOREM NoStaleCheck == Spec => []ChecksStillHold
<1>1. IInv => ChecksStillHold
  BY DEF IInv
<1> QED
  BY <1>1, Invariance, PTL

(* Whoever changes a row has the authority for it when the change becomes  *)
(* visible (require_can_modify_member, require_invitable_role).            *)
THEOREM AuthorityHolds == Spec => AuthorizedAtCommit
<1> DEFINE Authorized(u) ==
      \E q \in Requests :
        LET own == member[command[q].actor]
        IN /\ step[q] = "written"
           /\ command[q].target = u /\ member'[u] = command[q].to
           /\ own \in Managers
           /\ member[u] = "owner" \/ member'[u] \in Managers => own = "owner"
<1>1. ASSUME IInv, [Next]_vars, NEW u \in Users, member[u] # "none", member'[u] # member[u]
      PROVE  Authorized(u)
  <2>1. CASE \E q \in Requests : Commit(q)
    <3>1. PICK q \in Requests : Commit(q)
      BY <2>1
    <3>2. /\ step[q] = "written" /\ command[q].target = u /\ member'[u] = command[q].to
      BY <3>1, <1>1 DEF Commit, IInv, TypeOK
    <3>3. /\ member[command[q].actor] = access[q] /\ member[u] = found[q]
          /\ Permitted(command[q].to, access[q], found[q])
          /\ access[q] \in AllowedRoles(command[q].to)
      BY <3>2, <1>1 DEF IInv, ChecksStillHold, TypeOK
    <3> QED
      BY <3>2, <3>3 DEF Permitted, AllowedRoles, Managers
  <2>2. CASE \E v \in Users : Enroll(v)
    BY <2>2, <1>1 DEF Enroll, Table!Join, IInv, TypeOK
  <2>3. CASE member' = member
    BY <2>3, <1>1
  <2> QED
    BY <2>1, <2>2, <2>3, <1>1
    DEF Next, Handle, vars, Authorize, LockMembershipChanges, CheckTarget, Flush, Refuse,
        LoseConnection
<1>2. IInv /\ [Next]_vars =>
        [\A u \in Users : member[u] # "none" /\ member'[u] # member[u] => Authorized(u)]_vars
  BY <1>1
<1> QED
  BY <1>2, Invariance, PTL DEF Spec, AuthorizedAtCommit

-----------------------------------------------------------------------------
ARowChanges == \E u \in Users, role \in Table!Roles : Table!Change(u, role)

(* A commit has, at that moment, the authority, the row and the remaining  *)
(* owner that the atomic change asks for.                                  *)
LEMMA CommitChanges ==
  ASSUME IInv, NEW q \in Requests, Commit(q)
  PROVE  ARowChanges
<1> DEFINE c == command[q]
           own == member[c.actor]
           row == member[c.target]
<1>1. /\ c.actor \in Users /\ c.target \in Users /\ c.to \in Targets
      /\ step[q] = "written"
      /\ member' = [member EXCEPT ![c.target] = c.to]
  BY DEF IInv, TypeOK, Commit, Commands
<1>2. c.to \in Table!Roles
  BY <1>1, AssignableAssumption DEF Targets, Table!Roles, Table!Managers
<1>3. /\ own = access[q] /\ row = found[q]
      /\ Permitted(c.to, own, row)
  BY <1>1 DEF IInv, ChecksStillHold
<1>4. row # "none"
  BY <1>1, <1>3 DEF IInv, TargetFound
<1>5. own \in AllowedRoles(c.to)
  BY <1>1, <1>3 DEF IInv, TypeOK
<1>6. own \in Table!Managers /\ (row = "owner" \/ c.to \in Table!Managers => own = "owner")
  BY <1>3, <1>5 DEF Permitted, AllowedRoles, Managers, Table!Managers
<1>7. \E v \in Users : member'[v] = "owner"
  BY CommitLeavesAnOwner DEF OwnerRemains
<1>8. c.actor \in Table!Authorities(c.target, c.to)
  BY <1>1, <1>6 DEF Table!Authorities
<1>9. Table!Change(c.target, c.to)
  BY <1>1, <1>4, <1>7, <1>8 DEF Table!Change
<1> QED
  BY <1>1, <1>2, <1>9 DEF ARowChanges

LEMMA StepChanges ==
  IInv /\ [Next]_vars => (\E u \in Users : Enroll(u)) \/ ARowChanges \/ UNCHANGED member
<1> SUFFICES ASSUME IInv, [Next]_vars
             PROVE  (\E u \in Users : Enroll(u)) \/ ARowChanges \/ UNCHANGED member
  OBVIOUS
<1>1. CASE \E q \in Requests : Commit(q)
  BY <1>1, CommitChanges
<1> QED
  BY <1>1
  DEF Next, Handle, vars, Authorize, LockMembershipChanges, CheckTarget, Flush, Refuse,
      LoseConnection

(* Whatever the concurrent requests, each change is authorized, permitted  *)
(* and leaves an owner in the very state it is made in                     *)
(* (change_member_role, remove_member, transfer_ownership).                *)
THEOREM ChangesAreAtomic == Spec => ChangesActAtOnce
<1>1. IInv /\ [Next]_vars =>
        [\/ UNCHANGED member
         \/ \E u \in Users, role \in Table!Roles : Table!Change(u, role)
         \/ \E u \in Users : Enroll(u)]_vars
  BY StepChanges DEF ARowChanges
<1> QED
  BY <1>1, Invariance, PTL DEF Spec, ChangesActAtOnce

(* Membership management implements the table of memberships.              *)
THEOREM MembershipsImplementTable == Spec => ImplementsTable
<1>1. Init => Table!Init
  BY DEF Init, Table!Init
<1>2. (\E u \in Users : Enroll(u)) => Table!Next
  BY AssignableAssumption DEF Enroll, Table!Next, Table!Joinable
<1>3. IInv /\ [Next]_vars => [Table!Next]_member
  BY <1>2, StepChanges DEF ARowChanges, Table!Next
<1> QED
  BY <1>1, <1>3, Invariance, PTL DEF Spec, ImplementsTable, Table!Spec
=============================================================================
