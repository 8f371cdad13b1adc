SPECIFICATION Spec
CONSTANTS
  me = me
  friend = friend
  acme = acme
  acmeToo = acmeToo
  company = company
  Users = {me, friend}
  Me = me
  Slugs = {acme, acmeToo}
  Bases = {acme}
  Suffixed <- MCSuffixed
  Domains = {company}
  NoDomain = NoDomain
  DomainOf <- MCDomainOf
  Requests = {q1, q2}
  NoUser = NoUser
  NoSlug = NoSlug
  Tabs = {t1}
  Calls = {c1, c2}
  NoTab = NoTab
  NoRequest = NoRequest
SYMMETRY Interchangeable
INVARIANTS
  TypeOK
  SelectionStands
  RequestsGoToShown
PROPERTIES
  RefusedForCause
  FoundingsActAtOnce
