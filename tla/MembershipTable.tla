--------------------------- MODULE MembershipTable ---------------------------
(***************************************************************************)
(* What the memberships of an organization promise, without requests,      *)
(* locks, invitations or transactions: a row that is there changes in one  *)
(* step, by somebody who has the authority for it in that very state and   *)
(* so that an owner remains; and people join who were not members, in a    *)
(* role below the owner's.                                                 *)
(*                                                                         *)
(* The two ways of changing the rows are modelled apart: module            *)
(* Memberships has the steps of a change and people who join at once,      *)
(* module Enrollment the steps of joining and changes at once.  Both are   *)
(* shown to implement this module, so what each takes the other to do is   *)
(* what the other does.                                                    *)
(***************************************************************************)
CONSTANTS Users, Founder

VARIABLE member

Managers == {"owner", "admin"}
Joinable == {"admin", "operator", "viewer"}
Roles    == Managers \cup {"operator", "viewer", "none"}

Init == member = [u \in Users |-> IF u = Founder THEN "owner" ELSE "none"]

(* Who may give u that role, or remove u: a manager, and only an owner     *)
(* where u is one or an owner or an administrator is made.                 *)
Authorities(u, role) ==
  {m \in Users :
     /\ member[m] \in Managers
     /\ member[u] = "owner" \/ role \in Managers => member[m] = "owner"}

Change(u, role) ==
  /\ member[u] # "none"
  /\ Authorities(u, role) # {}
  /\ member' = [member EXCEPT ![u] = role]
  /\ \E v \in Users : member'[v] = "owner"

Join(u, role) ==
  /\ member[u] = "none"
  /\ member' = [member EXCEPT ![u] = role]

Next ==
  \E u \in Users :
    \/ \E role \in Roles : Change(u, role)
    \/ \E role \in Joinable : Join(u, role)

Spec == Init /\ [][Next]_member
=============================================================================
