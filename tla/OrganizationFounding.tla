------------------------ MODULE OrganizationFounding ------------------------
(***************************************************************************)
(* Founding organizations (create_organization): concurrent transactions   *)
(* that insert an organization and its owner under two unique indexes, on  *)
(* slugs and on claimed email domains, which PostgreSQL enters in that     *)
(* order.  An entry of a transaction under way makes others wait; an entry *)
(* that is committed refuses them.  A refused insert ends the transaction  *)
(* and with it what row security knows about the request.                  *)
(*                                                                         *)
(* An organization is known by its slug here.  People who join later and   *)
(* leave are Enrollment's and Memberships', and steps of others here.      *)
(***************************************************************************)
CONSTANTS
  Users,
  Slugs, Bases,     \* all slugs, and those made of the names people choose
  Suffixed,         \* [Bases -> [Users -> Slugs]]: the slug tried second
  Domains, NoDomain,
  DomainOf,         \* [Users -> Domains \cup {NoDomain}]: none for free mail
  Requests,         \* requests at a time
  NoUser, NoSlug

ASSUME SlugsAssumption ==
  /\ Bases \subseteq Slugs /\ NoSlug \notin Slugs
  /\ Suffixed \in [Bases -> [Users -> Slugs]]
  /\ \A b \in Bases, u \in Users : Suffixed[b][u] # b

ASSUME DomainsAssumption ==
  /\ NoDomain \notin Domains /\ NoUser \notin Users
  /\ DomainOf \in [Users -> Domains \cup {NoDomain}]

VARIABLES
  organization,  \* committed rows: [Slugs -> row or NoRow]
  members,       \* committed memberships: pairs of a slug and a user
  founding       \* what every request is doing

foundingVars == <<organization, members, founding>>

NoRow   == [creator |-> NoUser, domain |-> NoDomain]
AtRest  == [step |-> "idle", user |-> NoUser, base |-> NoSlug, slug |-> NoSlug,
            context |-> FALSE]
Refused == {"domain_in_use", "domain_claimed", "no_slug"}
Answers == {"created", "error"} \cup Refused

Rows == {s \in Slugs : organization[s] # NoRow}

FoundingTypeOK ==
  /\ organization \in [Slugs -> [creator : Users \cup {NoUser}, domain : Domains \cup {NoDomain}]]
  /\ members \subseteq Slugs \X Users
  /\ founding \in [Requests -> [step : {"idle", "trying", "slug", "row"} \cup Answers,
                               user : Users \cup {NoUser}, base : Bases \cup {NoSlug},
                               slug : Slugs \cup {NoSlug}, context : BOOLEAN]]

FoundingInit ==
  /\ organization = [s \in Slugs |-> NoRow]
  /\ members = {}
  /\ founding = [q \in Requests |-> AtRest]

Claims(domain) == {s \in Rows : organization[s].domain = domain /\ domain # NoDomain}

(* Index entries of transactions under way.                                *)
HoldsSlug(s)   == {q \in Requests : founding[q].step \in {"slug", "row"} /\ founding[q].slug = s}
HoldsDomain(d) == {q \in Requests : founding[q].step = "row" /\ DomainOf[founding[q].user] = d}

Domain(q) == DomainOf[founding[q].user]

Answer(q, step) == founding' = [founding EXCEPT ![q].step = step, ![q].context = FALSE]

-----------------------------------------------------------------------------
(* The domain is looked up (_domain_match).                                *)
BeginFounding(q, u, b) ==
  /\ founding[q].step = "idle"
  /\ founding' = [founding EXCEPT ![q] =
       [step |-> IF Claims(DomainOf[u]) # {} THEN "domain_in_use" ELSE "trying",
        user |-> u, base |-> b, slug |-> b, context |-> Claims(DomainOf[u]) = {}]]
  /\ UNCHANGED <<organization, members>>

(* The insert: organizations_insert asks for the creator, who is known     *)
(* from the context; then the slug is entered, or waits.                   *)
RefuseUnknown(q) ==
  /\ founding[q].step = "trying" /\ ~founding[q].context
  /\ Answer(q, "error")
  /\ UNCHANGED <<organization, members>>

EnterSlugUnindexed(q) ==
  /\ founding[q].step = "trying" /\ founding[q].context
  /\ founding[q].slug \notin Rows
  /\ founding' = [founding EXCEPT ![q].step = "slug"]
  /\ UNCHANGED <<organization, members>>

EnterSlug(q) ==
  /\ founding[q].step = "trying" /\ founding[q].context
  /\ HoldsSlug(founding[q].slug) = {} /\ founding[q].slug \notin Rows
  /\ founding' = [founding EXCEPT ![q].step = "slug"]
  /\ UNCHANGED <<organization, members>>

(* organizations_slug_key: rolled back; the suffixed slug is next, under a *)
(* context set anew.  The domain is not looked up again.                   *)
RefuseSlugForgetful(q) ==
  /\ founding[q].step = "trying" /\ founding[q].context
  /\ founding[q].slug \in Rows
  /\ IF founding[q].slug = founding[q].base
     THEN founding' = [founding EXCEPT
            ![q].slug = Suffixed[founding[q].base][founding[q].user], ![q].context = FALSE]
     ELSE Answer(q, "no_slug")
  /\ UNCHANGED <<organization, members>>

RefuseSlug(q) ==
  /\ founding[q].step = "trying" /\ founding[q].context
  /\ founding[q].slug \in Rows
  /\ IF founding[q].slug = founding[q].base
     THEN founding' = [founding EXCEPT
            ![q].slug = Suffixed[founding[q].base][founding[q].user]]
     ELSE Answer(q, "no_slug")
  /\ UNCHANGED <<organization, members>>

(* Then the domain is entered, if one is claimed; it, too, may have to     *)
(* wait.  Without the index only the look-up would keep others out.        *)
EnterDomainUnindexed(q) ==
  /\ founding[q].step = "slug"
  /\ founding' = [founding EXCEPT ![q].step = "row"]
  /\ UNCHANGED <<organization, members>>

EnterDomain(q) ==
  /\ founding[q].step = "slug"
  /\ Domain(q) # NoDomain => HoldsDomain(Domain(q)) = {} /\ Claims(Domain(q)) = {}
  /\ founding' = [founding EXCEPT ![q].step = "row"]
  /\ UNCHANGED <<organization, members>>

(* uq_organizations_claimed_email_domain                                   *)
RefuseDomain(q) ==
  /\ founding[q].step = "slug" /\ Claims(Domain(q)) # {}
  /\ Answer(q, "domain_claimed")
  /\ UNCHANGED <<organization, members>>

(* The owner's row, which can_bootstrap_owner allows the creator of an     *)
(* organization without members, and the commit.                           *)
CommitFounding(q) ==
  LET s == founding[q].slug  u == founding[q].user IN
  /\ founding[q].step = "row"
  /\ organization' = [organization EXCEPT ![s] = [creator |-> u, domain |-> Domain(q)]]
  /\ members' = members \cup {<<s, u>>}
  /\ Answer(q, "created")

(* The connection is lost: nothing is kept, and nobody hears of it.        *)
LoseFounding(q) ==
  /\ founding[q].step \in {"trying", "slug", "row"}
  /\ founding' = [founding EXCEPT ![q] = AtRest]
  /\ UNCHANGED <<organization, members>>

FoundingStep(q) ==
  \/ RefuseUnknown(q) \/ EnterSlug(q) \/ RefuseSlug(q)
  \/ EnterDomain(q) \/ RefuseDomain(q) \/ CommitFounding(q)

-----------------------------------------------------------------------------
(* Properties *)

(* One organization claims a domain, whoever founds at the same time, and  *)
(* every organization is born with its owner: no other transaction ever    *)
(* sees one without members (create_organization).                         *)
FoundedWhole ==
  /\ \A s, t \in Rows : organization[s].domain = organization[t].domain
                          /\ organization[s].domain # NoDomain => s = t
  /\ \A s \in Rows : \E u \in Users : <<s, u>> \in members
  /\ \A s \in Slugs, u \in Users : <<s, u>> \in members => s \in Rows

(* A founding is refused only for what it was told: an organization that   *)
(* has committed claims the domain, or both slugs are taken.  It never     *)
(* fails for want of a context (create_organization).                      *)
RefusedForCause ==
  [][\A q \in Requests : founding'[q].step # founding[q].step =>
       LET u == founding'[q].user  b == founding'[q].base IN
       /\ founding'[q].step # "error"
       /\ founding'[q].step \in {"domain_in_use", "domain_claimed"} => Claims(DomainOf[u]) # {}
       /\ founding'[q].step = "no_slug" => {b, Suffixed[b][u]} \subseteq Rows]_foundingVars

Registry == INSTANCE OrganizationRegistry

(* Whatever foundings interleave, each is as if it had looked the domain   *)
(* up, chosen its slug and inserted organization and owner in one step, at *)
(* its commit, and nothing else writes an organization: none takes the     *)
(* place of another (create_organization).                                 *)
FoundingsActAtOnce ==
  [][\/ UNCHANGED organization
     \/ \E u \in Users, b \in Bases : \E s \in {b, Suffixed[b][u]} :
          Registry!Found(u, b, s)]_foundingVars

(* Organizations and their members are what OrganizationRegistry says.     *)
ImplementsRegistry == Registry!Spec
=============================================================================
