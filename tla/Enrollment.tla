----------------------------- MODULE Enrollment -----------------------------
(***************************************************************************)
(* How people become members of an organization: invitations by email      *)
(* (Backend/app/api/routes/invitations.py) and join requests by email      *)
(* domain (onboarding.py), with the row-level security that decides each   *)
(* insert (migrations 20260910, 20260926_140000 and 20261005).  None of    *)
(* these handlers takes the membership lock: they race each other, the     *)
(* managers who revoke and resolve, expiry, and membership management,     *)
(* which appears here as the indivisible change of module MembershipTable  *)
(* that module Memberships is shown to implement.                          *)
(*                                                                         *)
(* A handler is split wherever others may come in between: after a read    *)
(* that later statements rely on, between the moment row security lets a   *)
(* statement pass and the moment the unique index does, and between the    *)
(* last statement and the COMMIT that makes it visible.  A handler of one  *)
(* statement, which nothing later relies on, is one step at its statement. *)
(***************************************************************************)
CONSTANTS
  Users,
  Founder,       \* the owner inserted with the organization
  DomainUsers,   \* those whose email has the organization's claimed domain
  Invitations,   \* ids of organization_invitations
  JoinRequests,  \* ids of organization_join_requests
  Sessions,      \* database sessions of concurrent API requests
  NoRow

ASSUME PeopleAssumption == Founder \in Users /\ DomainUsers \subseteq Users
ASSUME RowsAssumption ==
  Invitations \cap JoinRequests = {} /\ NoRow \notin Invitations \cup JoinRequests

VARIABLES
  member,      \* organization_memberships.role as committed, "none" for no row
  invitation,  \* rows of organization_invitations, and what became of them
  request,     \* rows of organization_join_requests
  step,        \* how far each session's transaction has come
  by,          \* the user a session works for
  on           \* the invitation or join request it works on

vars == <<member, invitation, request, step, by, on>>

Managers  == {"owner", "admin"}
Invitable == {"admin", "operator", "viewer"}
Present   == {"open", "expired"}

(* admitted: row security has passed the insert of a membership, the       *)
(* unique index has not; inserted, deleted, approved, denied: written and  *)
(* not committed.                                                          *)
Steps == {"idle", "accepting", "revoking", "deleted", "resolving",
          "admitted", "inserted", "approved", "denied"}

(* Rows, and the two unique indexes: one invitation per email, one pending *)
(* request per user.                                                       *)
TypeOK ==
  /\ member \in [Users -> Managers \cup {"operator", "viewer", "none"}]
  /\ invitation \in [Invitations ->
       [email : Users, role : Invitable, state : Present \cup {"unused", "used", "revoked"}]]
  /\ request \in [JoinRequests ->
       [user : Users, state : {"unused", "pending", "approved", "denied"}]]
  /\ step \in [Sessions -> Steps]
  /\ by \in [Sessions -> Users]
  /\ on \in [Sessions -> Invitations \cup JoinRequests \cup {NoRow}]
  /\ \A i, k \in Invitations :
       {invitation[i].state, invitation[k].state} \subseteq Present
         /\ invitation[i].email = invitation[k].email => i = k
  /\ \A j, k \in JoinRequests :
       request[j] = request[k] /\ request[j].state = "pending" => j = k

Init ==
  /\ member = [u \in Users |-> IF u = Founder THEN "owner" ELSE "none"]
  /\ invitation = [i \in Invitations |-> [email |-> Founder, role |-> "viewer", state |-> "unused"]]
  /\ request = [j \in JoinRequests |-> [user |-> Founder, state |-> "unused"]]
  /\ step = [s \in Sessions |-> "idle"]
  /\ by = [s \in Sessions |-> Founder]
  /\ on = [s \in Sessions |-> NoRow]

-----------------------------------------------------------------------------
(* Who may do what, as row security decides it *)

(* require_invitable_role, and the policy for the insert of an invitation. *)
MayInvite(u, role) == IF role = "admin" THEN member[u] = "owner" ELSE member[u] \in Managers

(* The policies for reading and deleting one: managers, and the person     *)
(* invited for as long as the invitation is open.                          *)
MayDelete(u, i) ==
  /\ invitation[i].state \in Present
  /\ \/ MayInvite(u, invitation[i].role)
     \/ invitation[i].email = u /\ (invitation[i].state = "open" \/ member[u] \in Managers)

(* private.can_accept_organization_invitation: any open invitation of that *)
(* email for that role will do.                                            *)
CanAccept(u, role) ==
  \E i \in Invitations : invitation[i] = [email |-> u, role |-> role, state |-> "open"]

(* The membership a session inserts: whose, and in which role.             *)
Joiner(s) == IF on[s] \in JoinRequests THEN request[on[s]].user ELSE by[s]
Offer(s)  == IF on[s] \in JoinRequests THEN "viewer" ELSE invitation[on[s]].role

(* Policy memberships_insert.                                              *)
MayInsert(s) ==
  \/ member[by[s]] \in Managers
  \/ by[s] = Joiner(s) /\ CanAccept(by[s], Offer(s))

(* Another transaction has inserted a membership of u and not ended: an    *)
(* insert of the same user waits on the unique index.                      *)
InsertPending(u) == \E s \in Sessions : step[s] \in {"inserted", "approved"} /\ Joiner(s) = u

(* Another transaction has deleted invitation i and not ended: its row is  *)
(* still visible, and a delete of it waits.                                *)
DeletePending(i) == \E s \in Sessions : step[s] = "deleted" /\ on[s] = i

(* The session ends its transaction and serves another request.            *)
Return(s) ==
  /\ step' = [step EXCEPT ![s] = "idle"]
  /\ by' = [by EXCEPT ![s] = Founder]
  /\ on' = [on EXCEPT ![s] = NoRow]

Enter(s, at, u, x) ==
  /\ step[s] = "idle"
  /\ step' = [step EXCEPT ![s] = at]
  /\ by' = [by EXCEPT ![s] = u]
  /\ on' = [on EXCEPT ![s] = x]

-----------------------------------------------------------------------------
(* Invitations *)

(* create_invitation: 409 when the email has an invitation, even an        *)
(* expired one.                                                            *)
CreateInvitationAgain(u, i) ==
  /\ invitation[i].state = "unused"
  /\ \E m \in Users, role \in Invitable :
       /\ MayInvite(m, role)
       /\ invitation' = [invitation EXCEPT ![i] = [email |-> u, role |-> role, state |-> "open"]]
  /\ UNCHANGED <<member, request, step, by, on>>

CreateInvitation(u, i) ==
  /\ invitation[i].state = "unused"
  /\ \A k \in Invitations : invitation[k].email = u => invitation[k].state \notin Present
  /\ \E m \in Users, role \in Invitable :
       /\ MayInvite(m, role)
       /\ invitation' = [invitation EXCEPT ![i] = [email |-> u, role |-> role, state |-> "open"]]
  /\ UNCHANGED <<member, request, step, by, on>>

(* expires_at passes.                                                      *)
Expire(i) ==
  /\ invitation[i].state = "open"
  /\ invitation' = [invitation EXCEPT ![i].state = "expired"]
  /\ UNCHANGED <<member, request, step, by, on>>

(* accept_invitation: its advisory lock, the open invitation of the own    *)
(* email, and no membership yet.                                           *)
BeginAccept(s, i) ==
  /\ \A t \in Sessions : step[t] \in {"accepting", "admitted", "inserted"} => on[t] # i
  /\ invitation[i].state = "open"
  /\ member[invitation[i].email] = "none"
  /\ Enter(s, "accepting", invitation[i].email, i)
  /\ UNCHANGED <<member, invitation, request>>

(* The second flush and the commit.  A delete that finds no row any more   *)
(* is no error, nor is one for which the row, expired in between, has      *)
(* become invisible; to somebody who joins as administrator it has not.    *)
FinishAcceptKeeping(s) ==
  /\ step[s] = "inserted"
  /\ on[s] \in Invitations
  /\ ~DeletePending(on[s])
  /\ member' = [member EXCEPT ![by[s]] = invitation[on[s]].role]
  /\ Return(s)
  /\ UNCHANGED <<invitation, request>>

FinishAccept(s) ==
  /\ step[s] = "inserted"
  /\ on[s] \in Invitations
  /\ ~DeletePending(on[s])
  /\ member' = [member EXCEPT ![by[s]] = invitation[on[s]].role]
  /\ invitation' = [invitation EXCEPT ![on[s]].state =
       IF @ = "open" \/ (@ = "expired" /\ invitation[on[s]].role = "admin") THEN "used" ELSE @]
  /\ Return(s)
  /\ UNCHANGED request

(* delete_invitation: the row and the manager's role are read.             *)
BeginRevoke(s, m, i) ==
  /\ invitation[i].state \in Present
  /\ MayInvite(m, invitation[i].role)
  /\ Enter(s, "revoking", m, i)
  /\ UNCHANGED <<member, invitation, request>>

DeleteInvitation(s) ==
  /\ step[s] = "revoking"
  /\ ~DeletePending(on[s])
  /\ MayDelete(by[s], on[s])
  /\ step' = [step EXCEPT ![s] = "deleted"]
  /\ UNCHANGED <<member, invitation, request, by, on>>

(* The commit.  204 also when the delete finds no row, or none the policy  *)
(* still lets the manager delete.                                          *)
FinishRevoke(s) ==
  /\ \/ /\ step[s] = "deleted"
        /\ invitation' = [invitation EXCEPT ![on[s]].state = "revoked"]
     \/ /\ step[s] = "revoking"
        /\ ~DeletePending(on[s])
        /\ ~MayDelete(by[s], on[s])
        /\ UNCHANGED invitation
  /\ Return(s)
  /\ UNCHANGED <<member, request>>

-----------------------------------------------------------------------------
(* Join requests *)

(* request_join_by_domain: nothing asks whether the user is a member.      *)
RequestJoin(u, j) ==
  /\ request[j].state = "unused"
  /\ \A k \in JoinRequests : request[k] # [user |-> u, state |-> "pending"]
  /\ request' = [request EXCEPT ![j] = [user |-> u, state |-> "pending"]]
  /\ UNCHANGED <<member, invitation, step, by, on>>

(* _resolve_join_request: select ... for update of the pending row.        *)
BeginResolveUnlocked(s, m, j) ==
  /\ request[j].state = "pending"
  /\ member[m] \in Managers
  /\ Enter(s, "resolving", m, j)
  /\ UNCHANGED <<member, invitation, request>>

BeginResolve(s, m, j) ==
  /\ \A t \in Sessions : on[t] # j
  /\ request[j].state = "pending"
  /\ member[m] \in Managers
  /\ Enter(s, "resolving", m, j)
  /\ UNCHANGED <<member, invitation, request>>

(* The update of the request, after the insert of the member or without:   *)
(* policy join_requests_resolve.                                           *)
ResolveRequest(s) ==
  /\ on[s] \in JoinRequests
  /\ member[by[s]] \in Managers
  /\ \/ step[s] = "inserted" /\ step' = [step EXCEPT ![s] = "approved"]
     \/ step[s] = "resolving" /\ step' = [step EXCEPT ![s] = "denied"]
  /\ UNCHANGED <<member, invitation, request, by, on>>

(* The commits: what has been written stands, even if the manager has been *)
(* demoted since the update.                                               *)
Approve(s) ==
  /\ step[s] = "approved"
  /\ member' = [member EXCEPT ![request[on[s]].user] = "viewer"]
  /\ request' = [request EXCEPT ![on[s]].state = "approved"]
  /\ Return(s)
  /\ UNCHANGED invitation

Deny(s) ==
  /\ step[s] = "denied"
  /\ request' = [request EXCEPT ![on[s]].state = "denied"]
  /\ Return(s)
  /\ UNCHANGED <<member, invitation>>

(* The update finds no row when the manager is no longer one: an error     *)
(* that rolls back an insert too, and the request stays pending.           *)
RefuseResolve(s) ==
  /\ step[s] \in {"resolving", "inserted"}
  /\ on[s] \in JoinRequests
  /\ member[by[s]] \notin Managers
  /\ Return(s)
  /\ UNCHANGED <<member, invitation, request>>

-----------------------------------------------------------------------------
(* The insert of a membership, in an acceptance or an approval *)

(* Row security comes first, the unique index after it.                    *)
Admit(s) ==
  /\ step[s] \in {"accepting", "resolving"}
  /\ MayInsert(s)
  /\ step' = [step EXCEPT ![s] = "admitted"]
  /\ UNCHANGED <<member, invitation, request, by, on>>

InsertMembershipUpserting(s) ==
  /\ step[s] = "admitted"
  /\ step' = [step EXCEPT ![s] = "inserted"]
  /\ UNCHANGED <<member, invitation, request, by, on>>

InsertMembership(s) ==
  /\ step[s] = "admitted"
  /\ ~InsertPending(Joiner(s))
  /\ member[Joiner(s)] = "none"
  /\ step' = [step EXCEPT ![s] = "inserted"]
  /\ UNCHANGED <<member, invitation, request, by, on>>

(* Row security refuses the insert, because the invitation was revoked,    *)
(* replaced by one for another role, or expired, or because the manager is *)
(* no longer one; or 409, already a member.  A request stays pending.      *)
RefuseInsert(s) ==
  /\ \/ step[s] \in {"accepting", "resolving"} /\ ~MayInsert(s)
     \/ step[s] = "admitted" /\ member[Joiner(s)] # "none"
  /\ Return(s)
  /\ UNCHANGED <<member, invitation, request>>

-----------------------------------------------------------------------------
(* Environment *)

Table == INSTANCE MembershipTable

(* change_member_role, remove_member, transfer_ownership.                  *)
Manage(u) ==
  /\ \E role \in Table!Roles : Table!Change(u, role)
  /\ UNCHANGED <<invitation, request, step, by, on>>

LoseConnection(s) ==
  /\ step[s] # "idle"
  /\ Return(s)
  /\ UNCHANGED <<member, invitation, request>>

-----------------------------------------------------------------------------
Answer(s) ==
  \/ Admit(s)
  \/ InsertMembership(s)
  \/ RefuseInsert(s)
  \/ FinishAccept(s)
  \/ DeleteInvitation(s)
  \/ FinishRevoke(s)
  \/ ResolveRequest(s)
  \/ Approve(s)
  \/ Deny(s)
  \/ RefuseResolve(s)

Next ==
  \/ \E i \in Invitations : Expire(i) \/ \E u \in Users : CreateInvitation(u, i)
  \/ \E j \in JoinRequests, u \in DomainUsers : RequestJoin(u, j)
  \/ \E s \in Sessions, i \in Invitations :
       BeginAccept(s, i) \/ \E m \in Users : BeginRevoke(s, m, i)
  \/ \E s \in Sessions, j \in JoinRequests, m \in Users : BeginResolve(s, m, j)
  \/ \E s \in Sessions : Answer(s) \/ LoseConnection(s)
  \/ \E u \in Users : Manage(u)

Spec == Init /\ [][Next]_vars

-----------------------------------------------------------------------------
(* Properties *)

(* Nobody joins but by an invitation to that very person, with the role it *)
(* offers, not used before and not usable again, or as a viewer by the     *)
(* approval that settles the person's own pending request (20261005:       *)
(* "Require approval or invitation").                                      *)
JoinedOnInvitationOrApproval ==
  [][\A u \in Users : member[u] = "none" /\ member'[u] # "none" =>
       \/ \E s \in Sessions : LET i == invitation[on[s]] IN
            /\ on[s] \in Invitations
            /\ step[s] = "inserted" /\ step'[s] = "idle"
            /\ i.email = u /\ i.role = member'[u] /\ i.state # "used"
            /\ invitation'[on[s]].state # "open"
       \/ \E j \in JoinRequests :
            /\ request[j] = [user |-> u, state |-> "pending"]
            /\ request'[j].state = "approved"
            /\ member'[u] = "viewer"]_vars

(* Of several managers resolving one join request, whose answers cross     *)
(* acceptances by the same person, one resolves it, once: an approval      *)
(* makes a viewer of somebody who is no member at that moment, a denial    *)
(* leaves the members alone.                                               *)
ResolvedOnce ==
  [][\A j \in JoinRequests : request'[j] # request[j] /\ request[j].state # "unused" =>
       /\ request[j].state = "pending"
       /\ request'[j].user = request[j].user
       /\ IF request'[j].state = "approved"
            THEN member[request[j].user] = "none" /\ member'[request[j].user] = "viewer"
            ELSE UNCHANGED member]_vars

(* Nothing but a change by a manager touches the row of a member: to the   *)
(* rows every handler here is what MembershipTable calls Join, by which    *)
(* somebody who was no member becomes one, or nothing.                     *)
JoinsAtOnce ==
  [][\/ UNCHANGED member
     \/ \E u \in Users, role \in Table!Joinable : Table!Join(u, role)
     \/ \E u \in Users : Manage(u)]_vars

(* Invitations, join requests and what managers do in between change the   *)
(* rows as MembershipTable says.                                           *)
ImplementsTable == Table!Spec

(* user-manual.md: "Revoke cancels a pending invitation".  An acceptance   *)
(* that has inserted its row does not notice the revocation.               *)
RevokedNeverAccepted ==
  [][\A s \in Sessions :
       step[s] = "inserted" /\ on[s] \in Invitations /\ member'[by[s]] # member[by[s]] =>
         invitation[on[s]].state # "revoked"]_vars
=============================================================================
