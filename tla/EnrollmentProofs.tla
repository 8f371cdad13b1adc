-------------------------- MODULE EnrollmentProofs --------------------------
(***************************************************************************)
(* Proofs about Enrollment, for any number of people, rows and sessions.   *)
(* The argument: between two statements of a session nothing it relies on  *)
(* can change, although it holds no membership lock.  An invitation keeps  *)
(* its email and role while it exists and is accepted by one session at a  *)
(* time (the advisory lock, AcceptAlone); of two uncommitted inserts for   *)
(* one user, be they an acceptance's or an approval's, the unique index    *)
(* admits one (InsertAlone); and a request being resolved stays pending    *)
(* under its row lock until the commit (ResolveAlone).  What joins is      *)
(* therefore nobody who is a member, and to the rows every handler is a    *)
(* Join of MembershipTable.                                                *)
(***************************************************************************)
EXTENDS Enrollment, TLAPS

Accepting(s) == on[s] \in Invitations /\ step[s] \in {"accepting", "admitted", "inserted"}
Writing(s)   == step[s] \in {"inserted", "approved"}

OnARow ==
  \A s \in Sessions :
    /\ step[s] \in {"accepting", "revoking", "deleted"} => on[s] \in Invitations
    /\ step[s] \in {"resolving", "approved", "denied"} => on[s] \in JoinRequests
    /\ step[s] \in {"admitted", "inserted"} => on[s] \in Invitations \cup JoinRequests

AcceptAlone ==
  /\ \A s \in Sessions : Accepting(s) =>
       /\ invitation[on[s]].email = by[s]
       /\ invitation[on[s]].state \notin {"unused", "used"}
  /\ \A s, t \in Sessions : Accepting(s) /\ Accepting(t) /\ on[s] = on[t] => s = t

InsertAlone ==
  /\ \A s \in Sessions : Writing(s) => member[Joiner(s)] = "none"
  /\ \A s, t \in Sessions : Writing(s) /\ Writing(t) /\ Joiner(s) = Joiner(t) => s = t

ResolveAlone ==
  /\ \A s \in Sessions : on[s] \in JoinRequests => request[on[s]].state = "pending"
  /\ \A s, t \in Sessions : on[s] \in JoinRequests /\ on[s] = on[t] => s = t

IInv == TypeOK /\ OnARow /\ AcceptAlone /\ InsertAlone /\ ResolveAlone

Roles == Managers \cup {"operator", "viewer", "none"}

-----------------------------------------------------------------------------
(* The row types and unique indexes of TypeOK, apart from the sessions.    *)
InvitationRows ==
  /\ invitation \in [Invitations ->
       [email : Users, role : Invitable, state : Present \cup {"unused", "used", "revoked"}]]
  /\ \A i, k \in Invitations :
       {invitation[i].state, invitation[k].state} \subseteq Present
         /\ invitation[i].email = invitation[k].email => i = k

RequestRows ==
  /\ request \in [JoinRequests ->
       [user : Users, state : {"unused", "pending", "approved", "denied"}]]
  /\ \A j, k \in JoinRequests :
       request[j] = request[k] /\ request[j].state = "pending" => j = k

SessionTypes ==
  /\ step \in [Sessions -> Steps]
  /\ by \in [Sessions -> Users]
  /\ on \in [Sessions -> Invitations \cup JoinRequests \cup {NoRow}]

MemberTypes == member \in [Users -> Roles]

LEMMA TypeParts ==
  /\ TypeOK <=> MemberTypes /\ InvitationRows /\ RequestRows /\ SessionTypes
  /\ TypeOK' <=> MemberTypes' /\ InvitationRows' /\ RequestRows' /\ SessionTypes'
BY DEF TypeOK, MemberTypes, InvitationRows, RequestRows, SessionTypes, Roles

LEMMA InitEstablishes == Init => IInv
<1>1. Init => TypeOK
  BY PeopleAssumption DEF Init, TypeOK, Managers, Invitable, Present, Steps
<1>2. Init => OnARow /\ AcceptAlone /\ InsertAlone /\ ResolveAlone
  BY RowsAssumption
  DEF Init, OnARow, AcceptAlone, InsertAlone, ResolveAlone, Accepting, Writing
<1> QED
  BY <1>1, <1>2 DEF IInv

(* What a change of the state column does to the rows: emails and roles    *)
(* stay, and no row becomes present.                                       *)
LEMMA InvitationSettled ==
  ASSUME InvitationRows, NEW i \in Invitations,
         NEW new \in {"expired", "used", "revoked"},
         new = "expired" => invitation[i].state \in Present,
         invitation' = [invitation EXCEPT ![i].state = new]
  PROVE  /\ InvitationRows'
         /\ \A k \in Invitations :
              /\ invitation'[k].email = invitation[k].email
              /\ invitation'[k].role = invitation[k].role
              /\ k # i => invitation'[k] = invitation[k]
         /\ invitation'[i].state = new
<1>1. /\ invitation' \in [Invitations ->
           [email : Users, role : Invitable, state : Present \cup {"unused", "used", "revoked"}]]
      /\ \A k \in Invitations :
           /\ invitation'[k].email = invitation[k].email
           /\ invitation'[k].role = invitation[k].role
           /\ k # i => invitation'[k] = invitation[k]
      /\ invitation'[i].state = new
  BY DEF InvitationRows, Present
<1>2. \A k \in Invitations : invitation'[k].state \in Present => invitation[k].state \in Present
  BY <1>1 DEF Present
<1> QED
  BY <1>1, <1>2 DEF InvitationRows

LEMMA RequestSettled ==
  ASSUME RequestRows, NEW j \in JoinRequests, NEW new \in {"approved", "denied"},
         request' = [request EXCEPT ![j].state = new]
  PROVE  /\ RequestRows'
         /\ \A k \in JoinRequests :
              /\ request'[k].user = request[k].user
              /\ k # j => request'[k] = request[k]
         /\ request'[j].state = new
<1>1. /\ request' \in [JoinRequests ->
           [user : Users, state : {"unused", "pending", "approved", "denied"}]]
      /\ \A k \in JoinRequests :
           /\ request'[k].user = request[k].user
           /\ k # j => request'[k] = request[k]
      /\ request'[j].state = new
  BY DEF RequestRows
<1> QED
  BY <1>1 DEF RequestRows

(* Whom a session inserts: a person, the same for as long as the session   *)
(* stays on its row.                                                       *)
LEMMA JoinerIsAUser ==
  ASSUME IInv, NEW s \in Sessions
  PROVE  Joiner(s) \in Users
BY TypeParts DEF IInv, Joiner, SessionTypes, RequestRows

LEMMA JoinerStays ==
  ASSUME NEW s \in Sessions, by'[s] = by[s], on'[s] = on[s],
         on[s] \in JoinRequests => request'[on[s]].user = request[on[s]].user
  PROVE  Joiner(s)' = Joiner(s)
BY DEF Joiner

LEMMA ReturnTypes ==
  ASSUME IInv, NEW s \in Sessions, Return(s)
  PROVE  /\ SessionTypes'
         /\ step'[s] = "idle" /\ on'[s] = NoRow
         /\ \A t \in Sessions \ {s} :
              step'[t] = step[t] /\ by'[t] = by[t] /\ on'[t] = on[t]
BY TypeParts, PeopleAssumption DEF IInv, Return, SessionTypes, Steps

(* What is left of the invariant for the others when a session ends its    *)
(* transaction.                                                            *)
LEMMA ReturnKeepsRows ==
  ASSUME IInv, NEW s \in Sessions, Return(s),
         \A j \in JoinRequests : request'[j].user = request[j].user,
         \A t \in Sessions \ {s} : on[t] \in JoinRequests => request'[on[t]] = request[on[t]],
         \A t \in Sessions \ {s} : Writing(t) => member'[Joiner(t)] = member[Joiner(t)]
  PROVE  OnARow' /\ InsertAlone' /\ ResolveAlone'
<1>1. /\ step'[s] = "idle" /\ on'[s] = NoRow
      /\ \A t \in Sessions \ {s} :
           step'[t] = step[t] /\ by'[t] = by[t] /\ on'[t] = on[t]
  BY ReturnTypes
<1>2. OnARow'
  BY <1>1 DEF IInv, OnARow
<1>3. ResolveAlone'
  BY <1>1, RowsAssumption DEF IInv, ResolveAlone
<1>4. InsertAlone'
  <2>1. \A t \in Sessions \ {s} : Joiner(t)' = Joiner(t) /\ (Writing(t)' <=> Writing(t))
    BY <1>1, JoinerStays DEF Writing
  <2>2. ~Writing(s)'
    BY <1>1 DEF Writing
  <2> QED
    BY <2>1, <2>2 DEF IInv, InsertAlone
<1> QED
  BY <1>2, <1>3, <1>4

(* Ending a transaction that changed no row.                               *)
LEMMA ReturnPreserves ==
  ASSUME IInv, NEW s \in Sessions, Return(s), UNCHANGED <<member, invitation, request>>
  PROVE  IInv'
<1>1. /\ SessionTypes'
      /\ step'[s] = "idle"
      /\ \A t \in Sessions \ {s} :
           step'[t] = step[t] /\ by'[t] = by[t] /\ on'[t] = on[t]
  BY ReturnTypes
<1>2. TypeOK'
  <2>1. MemberTypes' /\ InvitationRows' /\ RequestRows'
    BY TypeParts DEF IInv, MemberTypes, InvitationRows, RequestRows
  <2> QED
    BY <1>1, <2>1, TypeParts
<1>3. OnARow' /\ InsertAlone' /\ ResolveAlone'
  BY ReturnKeepsRows
<1>4. AcceptAlone'
  BY <1>1 DEF IInv, AcceptAlone, Accepting
<1> QED
  BY <1>2, <1>3, <1>4 DEF IInv

(* Starting a transaction: a session that was idle works on a row.         *)
LEMMA EnterTypes ==
  ASSUME IInv, NEW s \in Sessions, NEW u \in Users, NEW x \in Invitations \cup JoinRequests,
         NEW at \in {"accepting", "revoking", "resolving"}, Enter(s, at, u, x),
         UNCHANGED <<member, invitation, request>>
  PROVE  /\ TypeOK'
         /\ step[s] = "idle" /\ step'[s] = at /\ by'[s] = u /\ on'[s] = x
         /\ \A t \in Sessions \ {s} :
              step'[t] = step[t] /\ by'[t] = by[t] /\ on'[t] = on[t]
         /\ InsertAlone'
<1>1. /\ SessionTypes'
      /\ step[s] = "idle" /\ step'[s] = at /\ by'[s] = u /\ on'[s] = x
      /\ \A t \in Sessions \ {s} :
           step'[t] = step[t] /\ by'[t] = by[t] /\ on'[t] = on[t]
  BY TypeParts DEF IInv, Enter, SessionTypes, Steps
<1>2. TypeOK'
  BY <1>1, TypeParts DEF IInv, MemberTypes, InvitationRows, RequestRows
<1>3. InsertAlone'
  <2>1. \A t \in Sessions \ {s} : Joiner(t)' = Joiner(t) /\ (Writing(t)' <=> Writing(t))
    BY <1>1, JoinerStays DEF Writing
  <2>2. ~Writing(s)'
    BY <1>1 DEF Writing
  <2> QED
    BY <2>1, <2>2 DEF IInv, InsertAlone
<1> QED
  BY <1>1, <1>2, <1>3

(* A session's next statement in its transaction.                          *)
LEMMA MoveTypes ==
  ASSUME IInv, NEW s \in Sessions, NEW at \in Steps, step' = [step EXCEPT ![s] = at],
         UNCHANGED <<member, invitation, request, by, on>>
  PROVE  /\ TypeOK' /\ ResolveAlone'
         /\ step'[s] = at
         /\ \A t \in Sessions \ {s} : step'[t] = step[t]
         /\ \A t \in Sessions : Joiner(t)' = Joiner(t)
<1>1. /\ SessionTypes'
      /\ step'[s] = at
      /\ \A t \in Sessions \ {s} : step'[t] = step[t]
  BY TypeParts DEF IInv, SessionTypes
<1>2. TypeOK'
  BY <1>1, TypeParts DEF IInv, MemberTypes, InvitationRows, RequestRows
<1>3. ResolveAlone' /\ \A t \in Sessions : Joiner(t)' = Joiner(t)
  BY DEF IInv, ResolveAlone, Joiner
<1> QED
  BY <1>1, <1>2, <1>3

-----------------------------------------------------------------------------
LEMMA CreateInvitationPreserves ==
  ASSUME IInv, NEW u \in Users, NEW i \in Invitations, CreateInvitation(u, i)
  PROVE  IInv'
<1>1. PICK role \in Invitable :
        invitation' = [invitation EXCEPT ![i] = [email |-> u, role |-> role, state |-> "open"]]
  BY DEF CreateInvitation
<1>2. /\ invitation[i].state = "unused"
      /\ \A k \in Invitations : invitation[k].email = u => invitation[k].state \notin Present
      /\ UNCHANGED <<member, request, step, by, on>>
  BY DEF CreateInvitation
<1>3. InvitationRows'
  BY <1>1, <1>2, TypeParts DEF IInv, InvitationRows, Present
<1>4. TypeOK'
  BY <1>2, <1>3, TypeParts DEF IInv, MemberTypes, RequestRows, SessionTypes
<1>5. \A k \in Invitations \ {i} : invitation'[k] = invitation[k]
  BY <1>1, TypeParts DEF IInv, InvitationRows
<1>6. AcceptAlone'
  BY <1>2, <1>5 DEF IInv, AcceptAlone, Accepting
<1> QED
  BY <1>2, <1>4, <1>6 DEF IInv, OnARow, InsertAlone, ResolveAlone, Writing, Joiner

LEMMA ExpirePreserves ==
  ASSUME IInv, NEW i \in Invitations, Expire(i)
  PROVE  IInv'
<1>1. /\ invitation[i].state = "open"
      /\ invitation' = [invitation EXCEPT ![i].state = "expired"]
      /\ UNCHANGED <<member, request, step, by, on>>
  BY DEF Expire
<1>2. /\ InvitationRows'
      /\ \A k \in Invitations :
           /\ invitation'[k].email = invitation[k].email
           /\ k # i => invitation'[k] = invitation[k]
      /\ invitation'[i].state = "expired"
  BY <1>1, InvitationSettled, TypeParts DEF IInv, Present
<1>3. TypeOK'
  BY <1>1, <1>2, TypeParts DEF IInv, MemberTypes, RequestRows, SessionTypes
<1>4. AcceptAlone'
  BY <1>1, <1>2 DEF IInv, AcceptAlone, Accepting
<1> QED
  BY <1>1, <1>3, <1>4 DEF IInv, OnARow, InsertAlone, ResolveAlone, Writing, Joiner

LEMMA BeginAcceptPreserves ==
  ASSUME IInv, NEW s \in Sessions, NEW i \in Invitations, BeginAccept(s, i)
  PROVE  IInv'
<1> DEFINE u == invitation[i].email
<1>1. u \in Users
  BY TypeParts DEF IInv, InvitationRows
<1>2. /\ \A t \in Sessions : Accepting(t) => on[t] # i
      /\ invitation[i].state = "open"
      /\ Enter(s, "accepting", u, i)
      /\ UNCHANGED <<member, invitation, request>>
  BY DEF BeginAccept, Accepting
<1>3. /\ TypeOK' /\ InsertAlone'
      /\ step[s] = "idle" /\ step'[s] = "accepting" /\ by'[s] = u /\ on'[s] = i
      /\ \A t \in Sessions \ {s} :
           step'[t] = step[t] /\ by'[t] = by[t] /\ on'[t] = on[t]
  BY <1>1, <1>2, EnterTypes
<1>4. OnARow' /\ ResolveAlone'
  BY <1>2, <1>3, RowsAssumption DEF IInv, OnARow, ResolveAlone
<1>5. AcceptAlone'
  BY <1>2, <1>3 DEF IInv, AcceptAlone, Accepting
<1> QED
  BY <1>3, <1>4, <1>5 DEF IInv

LEMMA AdmitPreserves ==
  ASSUME IInv, NEW s \in Sessions, Admit(s)
  PROVE  IInv'
<1>1. /\ step[s] \in {"accepting", "resolving"}
      /\ step' = [step EXCEPT ![s] = "admitted"]
      /\ UNCHANGED <<member, invitation, request, by, on>>
  BY DEF Admit
<1>2. /\ TypeOK' /\ ResolveAlone'
      /\ step'[s] = "admitted"
      /\ \A t \in Sessions \ {s} : step'[t] = step[t]
      /\ \A t \in Sessions : Joiner(t)' = Joiner(t)
  BY <1>1, MoveTypes DEF Steps
<1>3. OnARow' /\ AcceptAlone'
  BY <1>1, <1>2, RowsAssumption DEF IInv, OnARow, AcceptAlone, Accepting
<1>4. InsertAlone'
  BY <1>1, <1>2 DEF IInv, InsertAlone, Writing
<1> QED
  BY <1>2, <1>3, <1>4 DEF IInv

(* The unique index: nobody else has written a row of that person.         *)
LEMMA InsertPreserves ==
  ASSUME IInv, NEW s \in Sessions, InsertMembership(s)
  PROVE  IInv'
<1>1. /\ step[s] = "admitted" /\ member[Joiner(s)] = "none"
      /\ \A t \in Sessions : Writing(t) => Joiner(t) # Joiner(s)
      /\ step' = [step EXCEPT ![s] = "inserted"]
      /\ UNCHANGED <<member, invitation, request, by, on>>
  BY DEF InsertMembership, InsertPending, Writing
<1>2. /\ TypeOK' /\ ResolveAlone'
      /\ step'[s] = "inserted"
      /\ \A t \in Sessions \ {s} : step'[t] = step[t]
      /\ \A t \in Sessions : Joiner(t)' = Joiner(t)
  BY <1>1, MoveTypes DEF Steps
<1>3. OnARow' /\ AcceptAlone'
  BY <1>1, <1>2 DEF IInv, OnARow, AcceptAlone, Accepting
<1>4. InsertAlone'
  BY <1>1, <1>2 DEF IInv, InsertAlone, Writing
<1> QED
  BY <1>2, <1>3, <1>4 DEF IInv

(* The row appears: no other session had inserted one for that user.       *)
LEMMA FinishAcceptPreserves ==
  ASSUME IInv, NEW s \in Sessions, FinishAccept(s)
  PROVE  IInv'
<1> DEFINE i == on[s]
           u == by[s]
           new == IF invitation[i].state = "open"
                       \/ (invitation[i].state = "expired" /\ invitation[i].role = "admin")
                    THEN "used" ELSE invitation[i].state
<1>1. /\ step[s] = "inserted" /\ i \in Invitations /\ Return(s)
      /\ member' = [member EXCEPT ![u] = invitation[i].role]
      /\ invitation' = [invitation EXCEPT ![i].state = new]
      /\ UNCHANGED request
  BY DEF FinishAccept
<1>2. u \in Users /\ invitation[i].role \in Invitable
  BY <1>1, TypeParts DEF IInv, InvitationRows, SessionTypes
<1>3. /\ SessionTypes' /\ step'[s] = "idle"
      /\ \A t \in Sessions \ {s} :
           step'[t] = step[t] /\ by'[t] = by[t] /\ on'[t] = on[t]
  BY <1>1, ReturnTypes
<1>4. new \in {"expired", "used", "revoked"} /\ (new = "expired" => invitation[i].state \in Present)
  BY <1>1, <1>2, TypeParts DEF IInv, AcceptAlone, Accepting, InvitationRows, Present
<1>5. /\ InvitationRows'
      /\ \A k \in Invitations :
           /\ invitation'[k].email = invitation[k].email
           /\ k # i => invitation'[k] = invitation[k]
  BY <1>1, <1>2, <1>4, InvitationSettled, TypeParts DEF IInv
<1>6. MemberTypes' /\ \A v \in Users \ {u} : member'[v] = member[v]
  BY <1>1, <1>2, TypeParts DEF IInv, MemberTypes, Roles, Managers, Invitable
<1>7. TypeOK'
  BY <1>1, <1>3, <1>5, <1>6, TypeParts DEF IInv, RequestRows
<1>8. AcceptAlone'
  BY <1>1, <1>3, <1>5 DEF IInv, AcceptAlone, Accepting
<1>9. OnARow' /\ InsertAlone' /\ ResolveAlone'
  <2>1. Writing(s) /\ Joiner(s) = u
    BY <1>1, RowsAssumption DEF Writing, Joiner
  <2>2. \A t \in Sessions \ {s} : Writing(t) => member'[Joiner(t)] = member[Joiner(t)]
    BY <1>6, <2>1, JoinerIsAUser DEF IInv, InsertAlone
  <2> QED
    BY <1>1, <2>2, ReturnKeepsRows
<1> QED
  BY <1>7, <1>8, <1>9 DEF IInv

LEMMA DeletePreserves ==
  ASSUME IInv, NEW s \in Sessions, DeleteInvitation(s)
  PROVE  IInv'
<1>1. /\ step[s] = "revoking"
      /\ step' = [step EXCEPT ![s] = "deleted"]
      /\ UNCHANGED <<member, invitation, request, by, on>>
  BY DEF DeleteInvitation
<1>2. /\ TypeOK' /\ ResolveAlone'
      /\ step'[s] = "deleted"
      /\ \A t \in Sessions \ {s} : step'[t] = step[t]
      /\ \A t \in Sessions : Joiner(t)' = Joiner(t)
  BY <1>1, MoveTypes DEF Steps
<1>3. OnARow' /\ AcceptAlone'
  BY <1>1, <1>2 DEF IInv, OnARow, AcceptAlone, Accepting
<1>4. InsertAlone'
  BY <1>1, <1>2 DEF IInv, InsertAlone, Writing
<1> QED
  BY <1>2, <1>3, <1>4 DEF IInv

LEMMA FinishRevokePreserves ==
  ASSUME IInv, NEW s \in Sessions, FinishRevoke(s)
  PROVE  IInv'
<1> DEFINE i == on[s]
<1>1. /\ Return(s) /\ UNCHANGED <<member, request>>
      /\ \/ step[s] = "deleted" /\ invitation' = [invitation EXCEPT ![i].state = "revoked"]
         \/ UNCHANGED invitation
  BY DEF FinishRevoke
<1>2. CASE UNCHANGED invitation
  BY <1>1, <1>2, ReturnPreserves
<1>3. CASE step[s] = "deleted" /\ invitation' = [invitation EXCEPT ![i].state = "revoked"]
  <2>1. i \in Invitations
    BY <1>3 DEF IInv, OnARow
  <2>2. /\ SessionTypes' /\ step'[s] = "idle"
        /\ \A t \in Sessions \ {s} :
             step'[t] = step[t] /\ by'[t] = by[t] /\ on'[t] = on[t]
    BY <1>1, ReturnTypes
  <2>3. /\ InvitationRows'
        /\ \A k \in Invitations :
             /\ invitation'[k].email = invitation[k].email
             /\ k # i => invitation'[k] = invitation[k]
        /\ invitation'[i].state = "revoked"
    BY <1>3, <2>1, InvitationSettled, TypeParts DEF IInv
  <2>4. TypeOK'
    BY <1>1, <2>2, <2>3, TypeParts DEF IInv, MemberTypes, RequestRows
  <2>5. AcceptAlone'
    BY <2>2, <2>3 DEF IInv, AcceptAlone, Accepting
  <2>6. OnARow' /\ InsertAlone' /\ ResolveAlone'
    BY <1>1, ReturnKeepsRows
  <2> QED
    BY <2>4, <2>5, <2>6 DEF IInv
<1> QED
  BY <1>1, <1>2, <1>3

LEMMA BeginRevokePreserves ==
  ASSUME IInv, NEW s \in Sessions, NEW m \in Users, NEW i \in Invitations, BeginRevoke(s, m, i)
  PROVE  IInv'
<1>1. Enter(s, "revoking", m, i) /\ UNCHANGED <<member, invitation, request>>
  BY DEF BeginRevoke
<1>2. /\ TypeOK' /\ InsertAlone'
      /\ step[s] = "idle" /\ step'[s] = "revoking" /\ by'[s] = m /\ on'[s] = i
      /\ \A t \in Sessions \ {s} :
           step'[t] = step[t] /\ by'[t] = by[t] /\ on'[t] = on[t]
  BY <1>1, EnterTypes
<1>3. OnARow' /\ AcceptAlone' /\ ResolveAlone'
  BY <1>1, <1>2, RowsAssumption DEF IInv, OnARow, AcceptAlone, ResolveAlone, Accepting
<1> QED
  BY <1>2, <1>3 DEF IInv

-----------------------------------------------------------------------------
LEMMA RequestJoinPreserves ==
  ASSUME IInv, NEW u \in DomainUsers, NEW j \in JoinRequests, RequestJoin(u, j)
  PROVE  IInv'
<1>1. /\ request[j].state = "unused" /\ u \in Users
      /\ \A k \in JoinRequests : request[k] # [user |-> u, state |-> "pending"]
      /\ request' = [request EXCEPT ![j] = [user |-> u, state |-> "pending"]]
      /\ UNCHANGED <<member, invitation, step, by, on>>
  BY PeopleAssumption DEF RequestJoin
<1>2. RequestRows' /\ \A k \in JoinRequests \ {j} : request'[k] = request[k]
  BY <1>1, TypeParts DEF IInv, RequestRows
<1>3. TypeOK'
  BY <1>1, <1>2, TypeParts DEF IInv, MemberTypes, InvitationRows, SessionTypes
<1>4. \A s \in Sessions : on[s] # j
  BY <1>1 DEF IInv, ResolveAlone
<1>5. ResolveAlone'
  BY <1>1, <1>2, <1>4 DEF IInv, ResolveAlone
<1>6. InsertAlone'
  <2>1. \A s \in Sessions : Joiner(s)' = Joiner(s)
    BY <1>1, <1>2, <1>4 DEF Joiner
  <2> QED
    BY <1>1, <2>1 DEF IInv, InsertAlone, Writing
<1> QED
  BY <1>1, <1>3, <1>5, <1>6 DEF IInv, OnARow, AcceptAlone, Accepting

LEMMA BeginResolvePreserves ==
  ASSUME IInv, NEW s \in Sessions, NEW m \in Users, NEW j \in JoinRequests, BeginResolve(s, m, j)
  PROVE  IInv'
<1>1. /\ \A t \in Sessions : on[t] # j
      /\ request[j].state = "pending"
      /\ Enter(s, "resolving", m, j)
      /\ UNCHANGED <<member, invitation, request>>
  BY DEF BeginResolve
<1>2. /\ TypeOK' /\ InsertAlone'
      /\ step[s] = "idle" /\ step'[s] = "resolving" /\ by'[s] = m /\ on'[s] = j
      /\ \A t \in Sessions \ {s} :
           step'[t] = step[t] /\ by'[t] = by[t] /\ on'[t] = on[t]
  BY <1>1, EnterTypes
<1>3. ResolveAlone'
  BY <1>1, <1>2 DEF IInv, ResolveAlone
<1>4. OnARow' /\ AcceptAlone'
  BY <1>1, <1>2, RowsAssumption DEF IInv, OnARow, AcceptAlone, Accepting
<1> QED
  BY <1>2, <1>3, <1>4 DEF IInv

(* The update of the request keeps what the session has inserted.          *)
LEMMA ResolveRequestPreserves ==
  ASSUME IInv, NEW s \in Sessions, ResolveRequest(s)
  PROVE  IInv'
<1>1. /\ on[s] \in JoinRequests
      /\ UNCHANGED <<member, invitation, request, by, on>>
  BY DEF ResolveRequest
<1>2. PICK at \in {"approved", "denied"} :
        /\ step' = [step EXCEPT ![s] = at]
        /\ at = "approved" => step[s] = "inserted"
  BY DEF ResolveRequest
<1>3. /\ TypeOK' /\ ResolveAlone'
      /\ step'[s] = at
      /\ \A t \in Sessions \ {s} : step'[t] = step[t]
      /\ \A t \in Sessions : Joiner(t)' = Joiner(t)
  BY <1>1, <1>2, MoveTypes DEF Steps
<1>4. OnARow' /\ AcceptAlone'
  BY <1>1, <1>2, <1>3 DEF IInv, OnARow, AcceptAlone, Accepting
<1>5. InsertAlone'
  BY <1>1, <1>2, <1>3 DEF IInv, InsertAlone, Writing
<1> QED
  BY <1>3, <1>4, <1>5 DEF IInv

(* The commits of Approve and Deny: nobody else is on that request, and of *)
(* the person approved no other session has a row.                         *)
LEMMA ResolvePreserves ==
  ASSUME IInv, NEW s \in Sessions, Approve(s) \/ Deny(s)
  PROVE  IInv'
<1> DEFINE j == on[s]
           u == request[j].user
<1>1. /\ step[s] \in {"approved", "denied"} /\ Return(s) /\ UNCHANGED invitation
      /\ \/ /\ step[s] = "approved"
            /\ request' = [request EXCEPT ![j].state = "approved"]
            /\ member' = [member EXCEPT ![u] = "viewer"]
         \/ /\ request' = [request EXCEPT ![j].state = "denied"]
            /\ UNCHANGED member
  BY DEF Approve, Deny
<1>2. j \in JoinRequests
  BY <1>1 DEF IInv, OnARow
<1>3. /\ SessionTypes' /\ step'[s] = "idle"
      /\ \A t \in Sessions \ {s} :
           step'[t] = step[t] /\ by'[t] = by[t] /\ on'[t] = on[t]
  BY <1>1, ReturnTypes
<1>4. /\ RequestRows'
      /\ \A k \in JoinRequests : request'[k].user = request[k].user
      /\ \A k \in JoinRequests \ {j} : request'[k] = request[k]
  BY <1>1, <1>2, RequestSettled, TypeParts DEF IInv
<1>5. MemberTypes'
  BY <1>1, TypeParts DEF IInv, MemberTypes, Roles
<1>6. TypeOK'
  BY <1>1, <1>3, <1>4, <1>5, TypeParts DEF IInv, InvitationRows
<1>7. AcceptAlone'
  BY <1>1, <1>3 DEF IInv, AcceptAlone, Accepting
<1>8. \A t \in Sessions \ {s} : on[t] # j
  BY <1>2 DEF IInv, ResolveAlone
<1>9. \A t \in Sessions \ {s} : Writing(t) => member'[Joiner(t)] = member[Joiner(t)]
  <2>1. CASE UNCHANGED member
    BY <2>1
  <2>2. CASE step[s] = "approved" /\ member' = [member EXCEPT ![u] = "viewer"]
    <3>1. Writing(s) /\ Joiner(s) = u
      BY <1>2, <2>2 DEF Writing, Joiner
    <3>2. \A t \in Sessions \ {s} : Writing(t) => Joiner(t) \in Users /\ Joiner(t) # u
      BY <3>1, JoinerIsAUser DEF IInv, InsertAlone
    <3> QED
      BY <2>2, <3>2, TypeParts DEF IInv, MemberTypes
  <2> QED
    BY <1>1, <2>1, <2>2
<1>10. OnARow' /\ InsertAlone' /\ ResolveAlone'
  <2>1. \A t \in Sessions \ {s} : on[t] \in JoinRequests => request'[on[t]] = request[on[t]]
    BY <1>4, <1>8
  <2> QED
    BY <1>1, <1>4, <1>9, <2>1, ReturnKeepsRows
<1> QED
  BY <1>6, <1>7, <1>10 DEF IInv

(* Only rows that exist are managed, and an inserted one does not yet.     *)
LEMMA ManagePreserves ==
  ASSUME IInv, NEW u \in Users, Manage(u)
  PROVE  IInv'
<1>1. PICK r \in Roles : member' = [member EXCEPT ![u] = r]
  BY DEF Manage, Roles, Managers, Table!Roles, Table!Managers, Table!Change
<1>2. member[u] # "none" /\ UNCHANGED <<invitation, request, step, by, on>>
  BY DEF Manage, Table!Change
<1>3. MemberTypes'
  BY <1>1, TypeParts DEF IInv, MemberTypes
<1>4. TypeOK'
  BY <1>2, <1>3, TypeParts DEF IInv, InvitationRows, RequestRows, SessionTypes
<1>5. InsertAlone'
  <2>1. \A s \in Sessions : Joiner(s)' = Joiner(s) /\ (Writing(s)' <=> Writing(s))
    BY <1>2 DEF Joiner, Writing
  <2>2. \A s \in Sessions : Writing(s) => member'[Joiner(s)] = member[Joiner(s)]
    BY <1>1, <1>2, TypeParts DEF IInv, InsertAlone, MemberTypes
  <2> QED
    BY <2>1, <2>2 DEF IInv, InsertAlone
<1> QED
  BY <1>2, <1>4, <1>5 DEF IInv, OnARow, AcceptAlone, ResolveAlone, Accepting

-----------------------------------------------------------------------------
LEMMA StepPreserves == IInv /\ [Next]_vars => IInv'
<1> SUFFICES ASSUME IInv, [Next]_vars
             PROVE  IInv'
  OBVIOUS
<1>1. CASE \E i \in Invitations : Expire(i) \/ \E u \in Users : CreateInvitation(u, i)
  BY <1>1, ExpirePreserves, CreateInvitationPreserves
<1>2. CASE \E j \in JoinRequests, u \in DomainUsers : RequestJoin(u, j)
  BY <1>2, RequestJoinPreserves
<1>3. CASE \E s \in Sessions, i \in Invitations :
             BeginAccept(s, i) \/ \E m \in Users : BeginRevoke(s, m, i)
  BY <1>3, BeginAcceptPreserves, BeginRevokePreserves
<1>4. CASE \E s \in Sessions, j \in JoinRequests, m \in Users : BeginResolve(s, m, j)
  BY <1>4, BeginResolvePreserves
<1>5. ASSUME NEW s \in Sessions, Answer(s)
      PROVE  IInv'
  <2>1. CASE Admit(s) \/ InsertMembership(s)
    BY <2>1, AdmitPreserves, InsertPreserves
  <2>2. CASE FinishAccept(s)
    BY <2>2, FinishAcceptPreserves
  <2>3. CASE RefuseInsert(s) \/ RefuseResolve(s)
    BY <2>3, ReturnPreserves DEF RefuseInsert, RefuseResolve
  <2>4. CASE DeleteInvitation(s) \/ FinishRevoke(s)
    BY <2>4, DeletePreserves, FinishRevokePreserves
  <2>5. CASE ResolveRequest(s)
    BY <2>5, ResolveRequestPreserves
  <2>6. CASE Approve(s) \/ Deny(s)
    BY <2>6, ResolvePreserves
  <2> QED
    BY <1>5, <2>1, <2>2, <2>3, <2>4, <2>5, <2>6 DEF Answer
<1>6. CASE \E s \in Sessions : LoseConnection(s)
  BY <1>6, ReturnPreserves DEF LoseConnection
<1>7. CASE \E u \in Users : Manage(u)
  BY <1>7, ManagePreserves
<1>8. CASE UNCHANGED vars
  <2>1. TypeOK'
    BY <1>8, TypeParts DEF vars, IInv, MemberTypes, InvitationRows, RequestRows, SessionTypes
  <2> QED
    BY <1>8, <2>1
    DEF vars, IInv, OnARow, AcceptAlone, InsertAlone, ResolveAlone, Accepting, Writing, Joiner
<1> QED
  BY <1>1, <1>2, <1>3, <1>4, <1>5, <1>6, <1>7, <1>8 DEF Next

(* The inductive invariant holds in every reachable state.                 *)
THEOREM Invariance == Spec => []IInv
BY InitEstablishes, StepPreserves, PTL DEF Spec

(* Row types, one invitation per email and one pending request per user.   *)
THEOREM EnrollmentTypes == Spec => []TypeOK
<1>1. IInv => TypeOK
  BY DEF IInv
<1> QED
  BY <1>1, Invariance, PTL

(* Every new member was invited, for that role and for the first time, or  *)
(* approved (accept_invitation, _resolve_join_request).                    *)
THEOREM NobodyJoinsUnasked == Spec => JoinedOnInvitationOrApproval
<1> DEFINE ByInvitation(u) == \E s \in Sessions : LET i == invitation[on[s]] IN
             /\ on[s] \in Invitations
             /\ step[s] = "inserted" /\ step'[s] = "idle"
             /\ i.email = u /\ i.role = member'[u] /\ i.state # "used"
             /\ invitation'[on[s]].state # "open"
           ByApproval(u) == \E j \in JoinRequests :
             /\ request[j] = [user |-> u, state |-> "pending"]
             /\ request'[j].state = "approved"
             /\ member'[u] = "viewer"
<1>1. ASSUME IInv, [Next]_vars, NEW u \in Users, member[u] = "none", member'[u] # "none"
      PROVE  ByInvitation(u) \/ ByApproval(u)
  <2>1. MemberTypes /\ InvitationRows /\ RequestRows /\ SessionTypes
    BY <1>1, TypeParts DEF IInv
  <2>2. ASSUME NEW s \in Sessions, FinishAccept(s)
        PROVE  ByInvitation(u)
    <3> DEFINE i == on[s]
    <3>1. /\ step[s] = "inserted" /\ step'[s] = "idle"
          /\ i \in Invitations /\ by[s] = u
          /\ member'[u] = invitation[i].role
      BY <1>1, <2>1, <2>2
      DEF FinishAccept, Return, MemberTypes, SessionTypes
    <3>2. invitation[i].email = u /\ invitation[i].state # "used"
      BY <1>1, <3>1 DEF IInv, AcceptAlone, Accepting
    <3>3. invitation'[i].state # "open"
      BY <2>1, <2>2, <3>1 DEF FinishAccept, InvitationRows
    <3> QED
      BY <3>1, <3>2, <3>3
  <2>3. ASSUME NEW s \in Sessions, Approve(s)
        PROVE  ByApproval(u)
    <3> DEFINE j == on[s]
    <3>1. /\ j \in JoinRequests /\ request[j].state = "pending"
      BY <1>1, <2>3 DEF Approve, IInv, OnARow, ResolveAlone
    <3>2. /\ request[j].user = u /\ member'[u] = "viewer"
      BY <1>1, <2>1, <2>3 DEF Approve, MemberTypes
    <3>3. request[j] = [user |-> u, state |-> "pending"] /\ request'[j].state = "approved"
      BY <2>1, <2>3, <3>1, <3>2 DEF Approve, RequestRows
    <3> QED
      BY <3>1, <3>2, <3>3
  <2>4. CASE \E v \in Users : Manage(v)
    BY <1>1, <2>1, <2>4 DEF Manage, Table!Change, MemberTypes
  <2>5. CASE UNCHANGED member
    BY <1>1, <2>5
  <2> QED
    BY <1>1, <2>2, <2>3, <2>4, <2>5
    DEF Next, vars, Answer, Expire, CreateInvitation, RequestJoin, BeginAccept, BeginRevoke,
        BeginResolve, Admit, InsertMembership, RefuseInsert, DeleteInvitation, FinishRevoke,
        ResolveRequest, Deny, RefuseResolve, LoseConnection
<1>2. IInv /\ [Next]_vars =>
        [\A u \in Users : member[u] = "none" /\ member'[u] # "none" =>
           \/ ByInvitation(u)
           \/ ByApproval(u)]_vars
  BY <1>1
<1> QED
  BY <1>2, Invariance, PTL DEF Spec, JoinedOnInvitationOrApproval

(* Of several managers resolving one join request, one does; who is        *)
(* approved was no member and is a viewer (_resolve_join_request).         *)
THEOREM OneResolution == Spec => ResolvedOnce
<1> DEFINE Resolved(j) ==
      /\ request[j].state = "pending"
      /\ request'[j].user = request[j].user
      /\ IF request'[j].state = "approved"
           THEN member[request[j].user] = "none" /\ member'[request[j].user] = "viewer"
           ELSE UNCHANGED member
<1>1. ASSUME IInv, [Next]_vars, NEW j \in JoinRequests,
             request'[j] # request[j], request[j].state # "unused"
      PROVE  Resolved(j)
  <2>1. MemberTypes /\ RequestRows
    BY <1>1, TypeParts DEF IInv
  <2>2. ASSUME NEW s \in Sessions, Approve(s) \/ Deny(s)
        PROVE  Resolved(j)
    <3>1. on[s] = j
      BY <1>1, <2>1, <2>2 DEF Approve, Deny, RequestRows
    <3>2. request[j].state = "pending" /\ request'[j].user = request[j].user
      BY <1>1, <2>1, <2>2, <3>1 DEF IInv, ResolveAlone, Approve, Deny, RequestRows
    <3>3. CASE Approve(s)
      <4>1. Writing(s) /\ Joiner(s) = request[j].user
        BY <3>1, <3>3 DEF Approve, Writing, Joiner
      <4>2. member[request[j].user] = "none"
        BY <1>1, <4>1 DEF IInv, InsertAlone
      <4>3. request[j].user \in Users
        BY <2>1 DEF RequestRows
      <4>4. member'[request[j].user] = "viewer" /\ request'[j].state = "approved"
        BY <2>1, <3>1, <3>3, <4>3 DEF Approve, MemberTypes, RequestRows
      <4> QED
        BY <3>2, <4>2, <4>4
    <3>4. CASE Deny(s)
      BY <2>1, <3>1, <3>2, <3>4 DEF Deny, RequestRows
    <3> QED
      BY <2>2, <3>3, <3>4
  <2>3. CASE \E u \in DomainUsers, k \in JoinRequests : RequestJoin(u, k)
    BY <1>1, <2>1, <2>3 DEF RequestJoin, RequestRows
  <2>4. CASE UNCHANGED request
    BY <1>1, <2>4
  <2> QED
    BY <1>1, <2>2, <2>3, <2>4
    DEF Next, vars, Answer, Expire, CreateInvitation, BeginAccept, BeginRevoke, BeginResolve,
        Admit, InsertMembership, RefuseInsert, FinishAccept, DeleteInvitation, FinishRevoke,
        ResolveRequest, RefuseResolve, LoseConnection, Manage
<1>2. IInv /\ [Next]_vars =>
        [\A j \in JoinRequests : request'[j] # request[j] /\ request[j].state # "unused" =>
           Resolved(j)]_vars
  BY <1>1
<1> QED
  BY <1>2, Invariance, PTL DEF Spec, ResolvedOnce

-----------------------------------------------------------------------------
SomebodyJoins == \E u \in Users, role \in Table!Joinable : Table!Join(u, role)

(* What an acceptance or an approval adds: a member who was none, for what *)
(* the unique index admits is still absent at the commit (InsertAlone).    *)
LEMMA AcceptJoins ==
  ASSUME IInv, NEW s \in Sessions, FinishAccept(s)
  PROVE  SomebodyJoins
<1>1. /\ step[s] = "inserted" /\ by[s] \in Users /\ on[s] \in Invitations
      /\ member' = [member EXCEPT ![by[s]] = invitation[on[s]].role]
  BY TypeParts DEF FinishAccept, IInv, SessionTypes
<1>2. invitation[on[s]].role \in Table!Joinable
  BY <1>1, TypeParts DEF IInv, InvitationRows, Invitable, Table!Joinable
<1>3. Writing(s) /\ Joiner(s) = by[s]
  BY <1>1, RowsAssumption DEF Writing, Joiner
<1>4. Table!Join(by[s], invitation[on[s]].role)
  BY <1>1, <1>3 DEF IInv, InsertAlone, Table!Join
<1> QED
  BY <1>1, <1>2, <1>4 DEF SomebodyJoins

LEMMA ApproveJoins ==
  ASSUME IInv, NEW s \in Sessions, Approve(s)
  PROVE  SomebodyJoins
<1> DEFINE u == request[on[s]].user
<1>1. on[s] \in JoinRequests
  BY DEF Approve, IInv, OnARow
<1>2. u \in Users
  BY <1>1, TypeParts DEF IInv, RequestRows
<1>3. Writing(s) /\ Joiner(s) = u
  BY <1>1 DEF Approve, Writing, Joiner
<1>4. Table!Join(u, "viewer")
  BY <1>3 DEF IInv, InsertAlone, Approve, Table!Join
<1>5. "viewer" \in Table!Joinable
  BY DEF Table!Joinable
<1> QED
  BY <1>2, <1>4, <1>5 DEF SomebodyJoins

LEMMA StepJoins ==
  IInv /\ [Next]_vars => (\E u \in Users : Manage(u)) \/ SomebodyJoins \/ UNCHANGED member
<1> SUFFICES ASSUME IInv, [Next]_vars
             PROVE  (\E u \in Users : Manage(u)) \/ SomebodyJoins \/ UNCHANGED member
  OBVIOUS
<1>1. CASE \E s \in Sessions : FinishAccept(s)
  BY <1>1, AcceptJoins
<1>2. CASE \E s \in Sessions : Approve(s)
  BY <1>2, ApproveJoins
<1> QED
  BY <1>1, <1>2
  DEF Next, vars, Answer, Expire, CreateInvitation, RequestJoin, BeginAccept, BeginRevoke,
      BeginResolve, Admit, InsertMembership, RefuseInsert, DeleteInvitation, FinishRevoke,
      ResolveRequest, Deny, RefuseResolve, LoseConnection

(* With any number of sessions between their statements, each handler adds *)
(* one member who was none, or nobody (accept_invitation,                  *)
(* _resolve_join_request).                                                 *)
THEOREM HandlersOnlyJoin == Spec => JoinsAtOnce
<1>1. IInv /\ [Next]_vars =>
        [\/ UNCHANGED member
         \/ \E u \in Users, role \in Table!Joinable : Table!Join(u, role)
         \/ \E u \in Users : Manage(u)]_vars
  BY StepJoins DEF SomebodyJoins
<1> QED
  BY <1>1, Invariance, PTL DEF Spec, JoinsAtOnce

(* Enrollment implements the table of memberships.                         *)
THEOREM EnrollmentImplementsTable == Spec => ImplementsTable
<1>1. Init => Table!Init
  BY DEF Init, Table!Init
<1>2. IInv /\ [Next]_vars => [Table!Next]_member
  BY StepJoins DEF SomebodyJoins, Manage, Table!Next
<1> QED
  BY <1>1, <1>2, Invariance, PTL DEF Spec, ImplementsTable, Table!Spec
=============================================================================
