------------------------ MODULE MCOrganizationContext ------------------------
(***************************************************************************)
(* Instances of OrganizationContext for TLC.  The person has an address of *)
(* a company, a friend has one of free mail, and both choose the same      *)
(* name: two foundings of the person, one of them unheard of, compete for  *)
(* the domain, and foundings of both compete for two slugs.                *)
(***************************************************************************)
EXTENDS OrganizationContext, TLC

CONSTANTS me, friend, acme, acmeToo, company

MCSuffixed == [b \in Bases |-> [u \in Users |-> acmeToo]]
MCDomainOf == (me :> company) @@ (friend :> NoDomain)

(* Every request, and every call, is like every other.                     *)
Interchangeable == Permutations(Requests) \cup Permutations(Calls)
=============================================================================
