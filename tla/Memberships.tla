---------------------------- MODULE Memberships ----------------------------
(***************************************************************************)
(* Membership management (Backend/app/api/routes/organizations.py) of one  *)
(* organization: change_member_role, remove_member and transfer_ownership, *)
(* run by concurrent requests in READ COMMITTED transactions, the advisory *)
(* lock that serializes them, row-level security, and the trigger that     *)
(* protects the last owner.  Organizations share nothing: the lock, the    *)
(* rows and the trigger are per organization.                              *)
(*                                                                         *)
(* A request does all three operations alike: it names an actor, a target  *)
(* and what the target is to become ("owner" for transfer_ownership,       *)
(* "none" for remove_member).  One SQL statement is one action; what a     *)
(* transaction wrote is visible to the others at its commit.               *)
(***************************************************************************)
CONSTANTS
  Users,
  Requests,        \* API requests under way at the same time
  Founder,         \* the owner inserted with the organization
  AssignableRoles, \* the roles a request body or an invitation may name
  NoRequest

ASSUME UsersAssumption == Founder \in Users
ASSUME RequestsAssumption == NoRequest \notin Requests
ASSUME AssignableAssumption == AssignableRoles \subseteq {"admin", "operator", "viewer"}

VARIABLES
  member,   \* organization_memberships.role as committed, "none" for no row
  lock,     \* the transaction holding advisory lock tibbou:memberships:<org>
  step,     \* how far each request is
  command,  \* what it is asked to do
  access,   \* access.role: the actor's role as the request last read it
  found     \* membership.role: the target's role as the request read it

vars == <<member, lock, step, command, access, found>>

Managers == {"owner", "admin"}
Roles    == {"owner", "admin", "operator", "viewer", "none"}
Targets  == AssignableRoles \cup {"owner", "none"}
Commands == [actor : Users, target : Users, to : Targets]

(* allowed_roles_for(capability): manage_members, transfer_ownership.      *)
AllowedRoles(to) == IF to = "owner" THEN {"owner"} ELSE Managers

(* Only a role the capability allows makes an access object.               *)
TypeOK ==
  /\ member \in [Users -> Roles]
  /\ lock \in Requests \cup {NoRequest}
  /\ step \in [Requests -> {"idle", "authorized", "locked", "checked", "written"}]
  /\ command \in [Requests -> Commands]
  /\ access \in [Requests -> Roles]
  /\ found \in [Requests -> Roles]
  /\ \A q \in Requests : step[q] # "idle" => access[q] \in AllowedRoles(command[q].to)

NoCommand == [actor |-> Founder, target |-> Founder, to |-> "none"]

Init ==
  /\ member = [u \in Users |-> IF u = Founder THEN "owner" ELSE "none"]
  /\ lock = NoRequest
  /\ step = [q \in Requests |-> "idle"]
  /\ command = [q \in Requests |-> NoCommand]
  /\ access = [q \in Requests |-> "none"]
  /\ found = [q \in Requests |-> "none"]

-----------------------------------------------------------------------------
(* Rules *)

(* require_can_modify_member and require_invitable_role, over the actor's  *)
(* own role and the target's row as the request has read them.             *)
Permitted(to, own, row) ==
  /\ row = "owner" /\ to # "owner" => own = "owner"
  /\ to = "admin" => own = "owner"

(* Policies memberships_update and memberships_delete, evaluated by the    *)
(* statement itself over what is committed.                                *)
RowSecurity(q) ==
  LET c == command[q]
  IN /\ member[c.actor] \in Managers
     /\ member[c.target] = "owner" \/ c.to = "owner" => member[c.actor] = "owner"

(* Trigger protect_last_owner: it sees the committed rows of others.       *)
KeepsAnOwner(q) ==
  LET c == command[q]
  IN member[c.target] = "owner" /\ c.to # "owner" =>
       \E u \in Users \ {c.target} : member[u] = "owner"

(* The end of a transaction: commit or rollback frees the advisory lock.   *)
ReleaseNever(q) ==
  /\ step' = [step EXCEPT ![q] = "idle"]
  /\ command' = [command EXCEPT ![q] = NoCommand]
  /\ access' = [access EXCEPT ![q] = "none"]
  /\ found' = [found EXCEPT ![q] = "none"]
  /\ UNCHANGED lock

Release(q) ==
  /\ step' = [step EXCEPT ![q] = "idle"]
  /\ command' = [command EXCEPT ![q] = NoCommand]
  /\ access' = [access EXCEPT ![q] = "none"]
  /\ found' = [found EXCEPT ![q] = "none"]
  /\ lock' = IF lock = q THEN NoRequest ELSE lock

-----------------------------------------------------------------------------
(* The steps of a request *)

(* require_capability: the first statement of the transaction, before the  *)
(* lock.  A request it refuses changes nothing.                            *)
Authorize(q) ==
  /\ step[q] = "idle"
  /\ \E c \in Commands :
       /\ member[c.actor] \in AllowedRoles(c.to)
       /\ command' = [command EXCEPT ![q] = c]
       /\ access' = [access EXCEPT ![q] = member[c.actor]]
  /\ step' = [step EXCEPT ![q] = "authorized"]
  /\ UNCHANGED <<member, lock, found>>

(* _lock_membership_changes: wait for the lock, then read the own role     *)
(* again.                                                                  *)
LockMembershipChangesUnlocked(q) ==
  /\ step[q] = "authorized"
  /\ member[command[q].actor] \in AllowedRoles(command[q].to)
  /\ access' = [access EXCEPT ![q] = member[command[q].actor]]
  /\ step' = [step EXCEPT ![q] = "locked"]
  /\ UNCHANGED <<member, lock, command, found>>

LockMembershipChangesUnchecked(q) ==
  /\ step[q] = "authorized"
  /\ lock = NoRequest
  /\ lock' = q
  /\ access' = [access EXCEPT ![q] = member[command[q].actor]]
  /\ step' = [step EXCEPT ![q] = "locked"]
  /\ UNCHANGED <<member, command, found>>

LockMembershipChangesStale(q) ==
  /\ step[q] = "authorized"
  /\ lock = NoRequest
  /\ lock' = q
  /\ step' = [step EXCEPT ![q] = "locked"]
  /\ UNCHANGED <<member, command, access, found>>

LockMembershipChanges(q) ==
  /\ step[q] = "authorized"
  /\ lock = NoRequest
  /\ member[command[q].actor] \in AllowedRoles(command[q].to)
  /\ lock' = q
  /\ access' = [access EXCEPT ![q] = member[command[q].actor]]
  /\ step' = [step EXCEPT ![q] = "locked"]
  /\ UNCHANGED <<member, command, found>>

(* _membership_or_404 with populate_existing, and the two rules.           *)
CheckTarget(q) ==
  /\ step[q] = "locked"
  /\ LET row == member[command[q].target]
     IN /\ row # "none"
        /\ Permitted(command[q].to, access[q], row)
        /\ found' = [found EXCEPT ![q] = row]
  /\ step' = [step EXCEPT ![q] = "checked"]
  /\ UNCHANGED <<member, lock, command, access>>

(* The update or delete that the commit flushes.  A row another            *)
(* transaction has written stays locked until that one ends.               *)
FlushUnlocking(q) ==
  /\ step[q] = "checked"
  /\ RowSecurity(q)
  /\ KeepsAnOwner(q)
  /\ lock' = NoRequest
  /\ step' = [step EXCEPT ![q] = "written"]
  /\ UNCHANGED <<member, command, access, found>>

Flush(q) ==
  /\ step[q] = "checked"
  /\ \A p \in Requests : step[p] = "written" => command[p].target # command[q].target
  /\ RowSecurity(q)
  /\ KeepsAnOwner(q)
  /\ step' = [step EXCEPT ![q] = "written"]
  /\ UNCHANGED <<member, lock, command, access, found>>

Commit(q) ==
  /\ step[q] = "written"
  /\ member' = [member EXCEPT ![command[q].target] = command[q].to]
  /\ Release(q)

(* 403 or 404 after the lock or after the target was read, and 409 when    *)
(* the trigger raises: the session is rolled back.                         *)
Refuse(q) ==
  /\ \/ /\ step[q] = "authorized" /\ lock = NoRequest
        /\ member[command[q].actor] \notin AllowedRoles(command[q].to)
     \/ /\ step[q] = "locked"
        /\ LET row == member[command[q].target]
           IN row = "none" \/ ~Permitted(command[q].to, access[q], row)
     \/ step[q] = "checked" /\ (~RowSecurity(q) \/ ~KeepsAnOwner(q))
  /\ Release(q)
  /\ UNCHANGED member

(* The API process or its connection dies; PostgreSQL rolls back.          *)
LoseConnection(q) ==
  /\ step[q] # "idle"
  /\ Release(q)
  /\ UNCHANGED member

Table == INSTANCE MembershipTable

(* An invitation is accepted or a join request approved: these insert a    *)
(* row and do not take the lock (module Enrollment has their steps).       *)
Enroll(u) ==
  /\ \E role \in AssignableRoles : Table!Join(u, role)
  /\ UNCHANGED <<lock, step, command, access, found>>

-----------------------------------------------------------------------------
Handle(q) ==
  \/ LockMembershipChanges(q)
  \/ CheckTarget(q)
  \/ Flush(q)
  \/ Commit(q)
  \/ Refuse(q)

Next ==
  \/ \E q \in Requests : Authorize(q) \/ Handle(q) \/ LoseConnection(q)
  \/ \E u \in Users : Enroll(u)

Spec == Init /\ [][Next]_vars

(* A handler runs until it answers, and PostgreSQL grants a waited-for     *)
(* advisory lock in turn: strong fairness.  Nobody has to send a request.  *)
FairSpec == Spec /\ \A q \in Requests : SF_vars(Handle(q))

-----------------------------------------------------------------------------
(* Properties *)

(* The organization keeps an owner through every interleaving of           *)
(* demotions, removals and transfers: the trigger alone does not see an    *)
(* uncommitted demotion of the other owner (protect_last_owner,            *)
(* _lock_membership_changes).                                              *)
OwnerRemains == \E u \in Users : member[u] = "owner"

(* What a request has checked still holds when it commits: neither the     *)
(* actor's role nor the target's row changes between the check and the     *)
(* commit, although enrollments do not take the lock.                      *)
ChecksStillHold ==
  \A q \in Requests : step[q] \in {"checked", "written"} =>
    /\ member[command[q].actor] = access[q]
    /\ member[command[q].target] = found[q]
    /\ Permitted(command[q].to, access[q], found[q])

(* A row changes only by the commit of a request naming that row, whose    *)
(* actor holds at that very moment the role the change takes: a manager,   *)
(* and an owner where an owner's row is touched or an owner or an          *)
(* administrator is made.  Authority lost while waiting does not count.    *)
AuthorizedAtCommit ==
  [][\A u \in Users : member[u] # "none" /\ member'[u] # member[u] =>
       \E q \in Requests :
         LET own == member[command[q].actor]
         IN /\ step[q] = "written"
            /\ command[q].target = u /\ member'[u] = command[q].to
            /\ own \in Managers
            /\ member[u] = "owner" \/ member'[u] \in Managers => own = "owner"]_vars

(* However the requests interleave, a row that is there changes as if the  *)
(* change were authorized, checked and made in one step that leaves an     *)
(* owner: but for people who join, every step is what MembershipTable      *)
(* calls Change, or nothing.                                               *)
ChangesActAtOnce ==
  [][\/ UNCHANGED member
     \/ \E u \in Users, role \in Table!Roles : Table!Change(u, role)
     \/ \E u \in Users : Enroll(u)]_vars

(* The requests, and the people who join in between, change the rows as    *)
(* MembershipTable says (module Enrollment implements it too).             *)
ImplementsTable == Table!Spec

(* Every request is answered: the lock is never kept after a transaction,  *)
(* so a waiting request gets its turn.                                     *)
RequestsAnswered == \A q \in Requests : step[q] # "idle" ~> step[q] = "idle"
=============================================================================
