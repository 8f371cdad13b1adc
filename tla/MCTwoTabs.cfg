SPECIFICATION Spec
CONSTANTS
  me = me
  friend = friend
  acme = acme
  acmeToo = acmeToo
  company = company
  Users = {me, friend}
  Me = me
  Slugs = {acme, acmeToo}
  Bases = {acme}
  Suffixed <- MCSuffixed
  Domains = {company}
  NoDomain = NoDomain
  DomainOf <- MCDomainOf
  Requests = {q1}
  NoUser = NoUser
  NoSlug = NoSlug
  Tabs = {t1, t2}
  Calls = {c1, c2}
  NoTab = NoTab
  NoRequest = NoRequest
SYMMETRY Interchangeable
PROPERTIES
  SelectorsNameWorkspace
