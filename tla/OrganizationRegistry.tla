------------------------ MODULE OrganizationRegistry ------------------------
(***************************************************************************)
(* What founding promises, without requests, index entries, rollbacks or a *)
(* database context: an organization and its owner are there in one step,  *)
(* under a slug that nobody has and for a domain that nobody claims in     *)
(* that very state, the second slug only where the first is taken; an      *)
(* organization is never changed or replaced, and never without a member.  *)
(***************************************************************************)
CONSTANTS Users, Slugs, Bases, Suffixed, NoDomain, DomainOf, NoUser

VARIABLES organization, members

vars == <<organization, members>>

NoRow == [creator |-> NoUser, domain |-> NoDomain]
Rows  == {s \in Slugs : organization[s] # NoRow}

Init ==
  /\ organization = [s \in Slugs |-> NoRow]
  /\ members = {}

Found(u, b, s) ==
  /\ s \notin Rows
  /\ s # b => b \in Rows
  /\ DomainOf[u] # NoDomain => \A t \in Rows : organization[t].domain # DomainOf[u]
  /\ organization' = [organization EXCEPT ![s] = [creator |-> u, domain |-> DomainOf[u]]]
  /\ members' = members \cup {<<s, u>>}

Join(s, u) ==
  /\ s \in Rows
  /\ members' = members \cup {<<s, u>>}
  /\ UNCHANGED organization

Leave(s, u) ==
  /\ \E v \in Users \ {u} : <<s, v>> \in members
  /\ members' = members \ {<<s, u>>}
  /\ UNCHANGED organization

Next ==
  \E u \in Users :
    \/ \E b \in Bases : \E s \in {b, Suffixed[b][u]} : Found(u, b, s)
    \/ \E s \in Slugs : Join(s, u) \/ Leave(s, u)

Spec == Init /\ [][Next]_vars
=============================================================================
