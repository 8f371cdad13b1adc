---------------------- MODULE OrganizationContextProofs ----------------------
(***************************************************************************)
(* Proofs about OrganizationFounding and OrganizationContext, for any      *)
(* people, names, requests, tabs and calls.  The invariant has a half for  *)
(* the server and one for the browser, and most steps touch only one.      *)
(***************************************************************************)
EXTENDS OrganizationContext, TLAPS

FoundingRows ==
  [step : {"idle", "trying", "slug", "row"} \cup Answers, user : Users \cup {NoUser},
   base : Bases \cup {NoSlug}, slug : Slugs \cup {NoSlug}, context : BOOLEAN]

OrganizationRows == [creator : Users \cup {NoUser}, domain : Domains \cup {NoDomain}]

(* A request under way knows whom it is for; the second slug is tried      *)
(* because the first is taken.                                             *)
Founder(f) ==
  f.step # "idle" =>
    /\ f.user \in Users /\ f.base \in Bases
    /\ f.slug \in {f.base, Suffixed[f.base][f.user]}
    /\ f.step = "trying" => f.context
    /\ f.step = "trying" /\ f.slug # f.base => f.base \in Rows

FoundersKnown == \A q \in Requests : Founder(founding[q])

(* A transaction that has entered a domain is alone with it.               *)
DomainAlone ==
  \A q \in Requests : founding[q].step = "row" /\ Domain(q) # NoDomain =>
    /\ \A s \in Rows : organization[s].domain # Domain(q)
    /\ \A p \in Requests : founding[p].step = "row" /\ Domain(p) = Domain(q) => p = q

OnServer == FoundingTypeOK /\ FoundedWhole /\ FoundersKnown /\ DomainAlone

TabRows ==
  [mounted : BOOLEAN, rows : SUBSET Slugs, shown : Slugs \cup {NoSlug},
   loading : BOOLEAN, error : BOOLEAN]

CallRows ==
  [step : {"idle", "founding", "joining", "asked", "listed"},
   tab : Tabs \cup {NoTab}, request : Requests \cup {NoRequest},
   current : BOOLEAN, orphan : BOOLEAN, again : BOOLEAN,
   preferred : Slugs \cup {NoSlug}, rows : SUBSET Slugs]

BrowserTypes ==
  /\ signedIn \in BOOLEAN /\ strayed \in BOOLEAN
  /\ stored \in Slugs \cup {NoSlug}
  /\ tab \in [Tabs -> TabRows] /\ call \in [Calls -> CallRows]
  /\ intent \in [Tabs -> Slugs \cup {NoSlug}]

CallsOfTabs == \A c \in Calls : call[c].step # "idle" => call[c].tab \in Tabs

(* While a choice stands, no refresh of its tab is current.                *)
ChosenAlone ==
  \A t \in Tabs : intent[t] # NoSlug =>
    \A c \in Calls : call[c].tab = t /\ ~call[c].orphan /\ call[c].step \in {"asked", "listed"}
                       => ~call[c].current

InBrowser == BrowserTypes /\ CallsOfTabs /\ SelectionStands /\ ChosenAlone

(* With one tab, what it shows is what is stored, loading or not.          *)
OneTab      == \A t, u \in Tabs : t = u
ShownStored == \A t \in Tabs : tab[t].shown # NoSlug /\ ~strayed => stored = tab[t].shown

IInv == OnServer /\ InBrowser

LEMMA Parts == TypeOK <=> FoundingTypeOK /\ FoundedWhole /\ BrowserTypes
  BY DEF TypeOK, BrowserTypes, TabRows, CallRows

-----------------------------------------------------------------------------
(* The server's half *)

(* Foundings move on without a commit and without a new domain entered.    *)
LEMMA FoundingsMove ==
  ASSUME OnServer, UNCHANGED <<organization, members>>,
         founding' \in [Requests -> FoundingRows],
         FoundersKnown',
         \A p \in Requests : founding'[p].step = "row" =>
           founding[p].step = "row" /\ founding'[p].user = founding[p].user
  PROVE  OnServer'
<1>1. Rows' = Rows
  BY DEF Rows
<1>2. FoundingTypeOK'
  BY DEF OnServer, FoundingTypeOK, FoundingRows
<1>3. FoundedWhole'
  BY <1>1 DEF OnServer, FoundedWhole
<1>4. DomainAlone'
  BY <1>1 DEF OnServer, DomainAlone, Domain
<1> QED BY <1>2, <1>3, <1>4 DEF OnServer

LEMMA RowsAre ==
  ASSUME FoundingTypeOK
  PROVE  /\ founding \in [Requests -> FoundingRows]
         /\ organization \in [Slugs -> OrganizationRows]
         /\ members \subseteq Slugs \X Users
  BY DEF FoundingTypeOK, FoundingRows, OrganizationRows

LEMMA FoundingBegins ==
  ASSUME OnServer, NEW q \in Requests, NEW u \in Users, NEW b \in Bases, BeginFounding(q, u, b)
  PROVE  OnServer'
<1> DEFINE f == [step |-> IF Claims(DomainOf[u]) # {} THEN "domain_in_use" ELSE "trying",
                 user |-> u, base |-> b, slug |-> b, context |-> Claims(DomainOf[u]) = {}]
<1>1. founding' = [founding EXCEPT ![q] = f] /\ UNCHANGED <<organization, members>>
  BY DEF BeginFounding
<1>2. f \in FoundingRows /\ f.step # "row" /\ f.user = u /\ f.base = b /\ f.slug = b
      /\ (f.step = "trying" => f.context)
  BY SlugsAssumption DEF FoundingRows, Answers, Refused
<1> HIDE DEF f
<1>3. founding' \in [Requests -> FoundingRows]
  BY <1>1, <1>2, RowsAre DEF OnServer
<1>4. Rows' = Rows
  BY <1>1 DEF Rows
<1>5. FoundersKnown'
  BY <1>1, <1>2, <1>4, RowsAre DEF OnServer, FoundersKnown, Founder
<1> QED BY <1>1, <1>2, <1>3, <1>5, RowsAre, FoundingsMove DEF OnServer

(* A request whose answer was heard, or whose connection is lost.          *)
LEMMA RequestsEnd ==
  ASSUME OnServer, UNCHANGED <<organization, members>>,
         NEW R \in SUBSET Requests,
         founding' = [q \in Requests |-> IF q \in R THEN AtRest ELSE founding[q]]
  PROVE  OnServer'
<1>1. AtRest \in FoundingRows /\ AtRest.step = "idle"
  BY DEF AtRest, FoundingRows
<1>2. founding' \in [Requests -> FoundingRows]
  BY <1>1, RowsAre DEF OnServer
<1>3. Rows' = Rows
  BY DEF Rows
<1>4. FoundersKnown'
  BY <1>1, <1>3 DEF OnServer, FoundersKnown, Founder
<1> QED BY <1>1, <1>2, <1>4, FoundingsMove

LEMMA Dismissed ==
  ASSUME OnServer, UNCHANGED <<organization, members>>, NEW R, Dismiss(R)
  PROVE  OnServer'
<1>1. founding' = [q \in Requests |-> IF q \in R \cap Requests THEN AtRest ELSE founding[q]]
  BY DEF Dismiss
<1> QED BY <1>1, RequestsEnd

LEMMA FoundingLost ==
  ASSUME OnServer, NEW q \in Requests, LoseFounding(q)
  PROVE  OnServer'
<1>1. founding' = [p \in Requests |-> IF p \in {q} THEN AtRest ELSE founding[p]]
  BY RowsAre DEF LoseFounding, OnServer
<1> QED BY <1>1, RequestsEnd DEF LoseFounding


(* The steps of a transaction.                                             *)
LEMMA RefusedOrEntered ==
  ASSUME OnServer, NEW q \in Requests,
         RefuseUnknown(q) \/ EnterSlug(q) \/ RefuseSlug(q) \/ RefuseDomain(q)
  PROVE  OnServer'
<1>1. UNCHANGED <<organization, members>>
  BY DEF RefuseUnknown, EnterSlug, RefuseSlug, RefuseDomain
<1>2. Rows' = Rows
  BY <1>1 DEF Rows
<1>3. PICK f \in FoundingRows :
        /\ founding' = [founding EXCEPT ![q] = f]
        /\ f.step # "row" /\ Founder(f)
  <2>1. founding \in [Requests -> FoundingRows] /\ Founder(founding[q])
    BY RowsAre DEF OnServer, FoundersKnown
  <2>2. ASSUME NEW step \in Answers, Answer(q, step), founding[q].step # "idle"
        PROVE  \E f \in FoundingRows :
                 founding' = [founding EXCEPT ![q] = f] /\ f.step # "row" /\ Founder(f)
    <3>1. [founding[q] EXCEPT !.step = step, !.context = FALSE] \in FoundingRows
      BY <2>1 DEF FoundingRows
    <3>2. founding' = [founding EXCEPT ![q] = [founding[q] EXCEPT !.step = step, !.context = FALSE]]
      BY <2>1, <2>2 DEF Answer
    <3> QED BY <2>1, <2>2, <3>1, <3>2 DEF Founder, Answers, Refused, FoundingRows
  <2>3. CASE RefuseUnknown(q)
    BY <2>1, <2>2, <2>3 DEF RefuseUnknown, Answers
  <2>4. CASE RefuseDomain(q)
    BY <2>1, <2>2, <2>4 DEF RefuseDomain, Answers, Refused
  <2>5. CASE EnterSlug(q)
    <3>1. [founding[q] EXCEPT !.step = "slug"] \in FoundingRows
      BY <2>1 DEF FoundingRows
    <3>2. founding' = [founding EXCEPT ![q] = [founding[q] EXCEPT !.step = "slug"]]
      BY <2>1, <2>5 DEF EnterSlug
    <3> QED BY <2>1, <2>5, <3>1, <3>2 DEF Founder, EnterSlug, FoundingRows
  <2>6. CASE RefuseSlug(q) /\ founding[q].slug # founding[q].base
    BY <2>1, <2>2, <2>6 DEF RefuseSlug, Answers, Refused
  <2>7. CASE RefuseSlug(q) /\ founding[q].slug = founding[q].base
    <3> DEFINE s == Suffixed[founding[q].base][founding[q].user]
    <3>1. s \in Slugs
      BY <2>1, <2>7, SlugsAssumption DEF RefuseSlug, Founder
    <3>2. [founding[q] EXCEPT !.slug = s] \in FoundingRows
      BY <2>1, <3>1 DEF FoundingRows
    <3>3. founding' = [founding EXCEPT ![q] = [founding[q] EXCEPT !.slug = s]]
      BY <2>1, <2>7 DEF RefuseSlug
    <3> QED BY <2>1, <2>7, <3>2, <3>3 DEF Founder, RefuseSlug, FoundingRows
  <2> QED BY <2>3, <2>4, <2>5, <2>6, <2>7
<1>4. founding' \in [Requests -> FoundingRows]
  BY <1>3, RowsAre DEF OnServer
<1>5. FoundersKnown'
  BY <1>2, <1>3, RowsAre DEF OnServer, FoundersKnown, Founder
<1> QED BY <1>1, <1>3, <1>4, <1>5, RowsAre, FoundingsMove DEF OnServer

LEMMA DomainEntered ==
  ASSUME OnServer, NEW q \in Requests, EnterDomain(q)
  PROVE  OnServer'
<1>1. UNCHANGED <<organization, members>> /\ founding[q].step = "slug"
  BY DEF EnterDomain
<1>2. Rows' = Rows
  BY <1>1 DEF Rows
<1>3. founding \in [Requests -> FoundingRows]
  BY RowsAre DEF OnServer
<1>4. [founding[q] EXCEPT !.step = "row"] \in FoundingRows
  BY <1>3 DEF FoundingRows
<1>5. founding' = [founding EXCEPT ![q] = [founding[q] EXCEPT !.step = "row"]]
  BY <1>3 DEF EnterDomain
<1>6. FoundingTypeOK' /\ FoundedWhole'
  BY <1>1, <1>2, <1>3, <1>4, <1>5 DEF OnServer, FoundingTypeOK, FoundedWhole, FoundingRows
<1>7. FoundersKnown'
  BY <1>1, <1>2, <1>3, <1>5 DEF OnServer, FoundersKnown, Founder, FoundingRows
<1>8. DomainAlone'
  <2>1. Domain(q) # NoDomain =>
          /\ \A s \in Rows : organization[s].domain # Domain(q)
          /\ \A p \in Requests : founding[p].step = "row" => Domain(p) # Domain(q)
    BY DEF EnterDomain, HoldsDomain, Claims, Domain
  <2>2. \A p \in Requests : Domain(p)' = Domain(p)
                            /\ (founding'[p].step = "row" => p = q \/ founding[p].step = "row")
    BY <1>3, <1>5 DEF Domain, FoundingRows
  <2> QED BY <1>1, <1>2, <2>1, <2>2 DEF OnServer, DomainAlone
<1> QED BY <1>6, <1>7, <1>8 DEF OnServer

LEMMA FoundingCommitted ==
  ASSUME OnServer, NEW q \in Requests, CommitFounding(q)
  PROVE  OnServer'
<1> DEFINE s == founding[q].slug
           u == founding[q].user
           row == [creator |-> u, domain |-> Domain(q)]
<1>1. /\ founding \in [Requests -> FoundingRows] /\ organization \in [Slugs -> OrganizationRows]
      /\ members \subseteq Slugs \X Users /\ Founder(founding[q])
      /\ founding[q].step = "row"
  BY RowsAre DEF OnServer, FoundersKnown, CommitFounding
<1>2. s \in Slugs /\ u \in Users
  BY <1>1, SlugsAssumption DEF Founder
<1>3. row \in OrganizationRows /\ row # NoRow
  BY <1>2, DomainsAssumption DEF OrganizationRows, NoRow, Domain
<1>4. organization' = [organization EXCEPT ![s] = row] /\ members' = members \cup {<<s, u>>}
  BY DEF CommitFounding
<1>5. [founding[q] EXCEPT !.step = "created", !.context = FALSE] \in FoundingRows
  BY <1>1 DEF FoundingRows, Answers
<1>6. founding' = [founding EXCEPT ![q] = [founding[q] EXCEPT !.step = "created", !.context = FALSE]]
  BY <1>1 DEF CommitFounding, Answer
<1>7. Rows' = Rows \cup {s} /\ organization'[s] = row
      /\ \A t \in Slugs \ {s} : organization'[t] = organization[t]
  BY <1>1, <1>2, <1>3, <1>4 DEF Rows
<1> HIDE DEF row
<1>8. FoundingTypeOK'
  BY <1>1, <1>2, <1>3, <1>4, <1>5, <1>6 DEF FoundingTypeOK, FoundingRows, OrganizationRows
<1>9. row.domain = Domain(q)
  BY DEF row
<1>10. FoundedWhole'
  <2>1. Domain(q) # NoDomain => \A t \in Rows : organization[t].domain # Domain(q)
    BY <1>1 DEF OnServer, DomainAlone
  <2>2. Rows \subseteq Slugs
    BY DEF Rows
  <2>3. \A t, v \in Rows' : organization'[t].domain = organization'[v].domain
                              /\ organization'[t].domain # NoDomain => t = v
    BY <1>7, <1>9, <2>1, <2>2 DEF OnServer, FoundedWhole
  <2> QED BY <1>2, <1>4, <1>7, <2>2, <2>3 DEF OnServer, FoundedWhole
<1>11. FoundersKnown'
  BY <1>1, <1>6, <1>7 DEF OnServer, FoundersKnown, Founder, FoundingRows
<1>12. DomainAlone'
  <2>1. \A p \in Requests : Domain(p)' = Domain(p)
                            /\ (founding'[p].step = "row" => p # q /\ founding[p].step = "row")
    BY <1>1, <1>6 DEF Domain, FoundingRows
  <2>2. Rows \subseteq Slugs
    BY DEF Rows
  <2> QED BY <1>1, <1>7, <1>9, <2>1, <2>2 DEF OnServer, DomainAlone
<1> QED BY <1>8, <1>10, <1>11, <1>12 DEF OnServer

LEMMA MemberEnters ==
  ASSUME OnServer, NEW s \in Rows, NEW u \in Users,
         members' = members \cup {<<s, u>>}, UNCHANGED <<organization, founding>>
  PROVE  OnServer'
<1>1. Rows' = Rows /\ s \in Slugs
  BY DEF Rows
<1>2. FoundingTypeOK' /\ FoundedWhole'
  BY <1>1 DEF OnServer, FoundingTypeOK, FoundedWhole
<1>3. FoundersKnown' /\ DomainAlone'
  BY <1>1 DEF OnServer, FoundersKnown, Founder, DomainAlone, Domain
<1> QED BY <1>2, <1>3 DEF OnServer

LEMMA MemberLeaves ==
  ASSUME OnServer, NEW s \in Slugs, Leave(s)
  PROVE  OnServer'
<1>1. Rows' = Rows /\ members' = members \ {<<s, Me>>} /\ UNCHANGED <<organization, founding>>
  BY DEF Rows, Leave
<1>2. PICK v \in Users \ {Me} : <<s, v>> \in members
  BY DEF Leave
<1>3. FoundingTypeOK' /\ FoundedWhole'
  BY <1>1, <1>2 DEF OnServer, FoundingTypeOK, FoundedWhole
<1>4. FoundersKnown' /\ DomainAlone'
  BY <1>1 DEF OnServer, FoundersKnown, Founder, DomainAlone, Domain
<1> QED BY <1>3, <1>4 DEF OnServer

LEMMA ServerIdle ==
  ASSUME OnServer, UNCHANGED foundingVars
  PROVE  OnServer'
<1>1. Rows' = Rows
  BY DEF Rows, foundingVars
<1> QED BY <1>1 DEF OnServer, foundingVars, FoundingTypeOK, FoundedWhole, FoundersKnown, Founder,
             DomainAlone, Domain

-----------------------------------------------------------------------------
(* The browser's half *)

LEMMA TabsStep ==
  ASSUME InBrowser, NEW t \in Tabs, NEW row \in TabRows
  PROVE  /\ [tab EXCEPT ![t] = row] \in [Tabs -> TabRows]
         /\ tab[t] \in TabRows
  BY DEF InBrowser, BrowserTypes

(* What a refresh that begins leaves of the calls: none is current.        *)
LEMMA OutdatedCalls ==
  ASSUME InBrowser, NEW t \in Tabs
  PROVE  /\ Outdated(t) \in [Calls -> CallRows]
         /\ \A c \in Calls :
              /\ Outdated(t)[c].tab = call[c].tab /\ Outdated(t)[c].step = call[c].step
              /\ Outdated(t)[c].orphan = call[c].orphan
              /\ Outdated(t)[c].current => call[c].current
              /\ call[c].tab = t /\ ~call[c].orphan => ~Outdated(t)[c].current
<1>1. call \in [Calls -> CallRows]
  BY DEF InBrowser, BrowserTypes
<1>2. \A c \in Calls : [call[c] EXCEPT !.current = FALSE] \in CallRows
  BY <1>1 DEF CallRows
<1>3. \A c \in Calls : Outdated(t)[c] = IF c \in Of(t) THEN [call[c] EXCEPT !.current = FALSE] ELSE call[c]
  BY DEF Outdated
<1>4. Outdated(t) \in [Calls -> CallRows]
  BY <1>1, <1>2 DEF Outdated
<1>5. ASSUME NEW c \in Calls
      PROVE  /\ Outdated(t)[c].tab = call[c].tab /\ Outdated(t)[c].step = call[c].step
             /\ Outdated(t)[c].orphan = call[c].orphan
             /\ Outdated(t)[c].current => call[c].current
             /\ call[c].tab = t /\ ~call[c].orphan => ~Outdated(t)[c].current
  <2>1. CASE c \in Of(t)
    BY <1>1, <1>3, <1>5, <2>1 DEF CallRows
  <2>2. CASE c \notin Of(t)
    BY <1>3, <1>5, <2>2 DEF Of
  <2> QED BY <2>1, <2>2
<1> QED BY <1>4, <1>5

LEMMA AskedRow ==
  ASSUME NEW t \in Tabs, NEW s \in Slugs \cup {NoSlug}, NEW o \in BOOLEAN, NEW a \in BOOLEAN
  PROVE  /\ NoCall \in CallRows /\ NoCall.step = "idle"
         /\ Asked(t, s) \in CallRows /\ Asked(t, s).tab = t /\ Asked(t, s).step = "asked"
         /\ [Asked(t, s) EXCEPT !.orphan = o] \in CallRows
         /\ [Asked(t, s) EXCEPT !.orphan = o].tab = t
         /\ [Asked(t, s) EXCEPT !.orphan = o].orphan = o
         /\ [Asked(t, s) EXCEPT !.again = a] \in CallRows
         /\ [Asked(t, s) EXCEPT !.again = a].tab = t
         /\ [Asked(t, s) EXCEPT !.orphan = TRUE, !.again = a] \in CallRows
         /\ [Asked(t, s) EXCEPT !.orphan = TRUE, !.again = a].tab = t
         /\ [Asked(t, s) EXCEPT !.orphan = TRUE, !.again = a].orphan
  BY DEF Asked, NoCall, CallRows

(* A refresh begins in a tab: in call c, whose row is x.                   *)
LEMMA RefreshBegins ==
  ASSUME InBrowser, NEW t \in Tabs, NEW c \in Calls, NEW x \in CallRows, x.tab = t,
         call' = [Outdated(t) EXCEPT ![c] = x],
         intent' = [intent EXCEPT ![t] = NoSlug],
         tab' \in [Tabs -> TabRows],
         \A u \in Tabs \ {t} : tab'[u].shown = tab[u].shown,
         signedIn' \in BOOLEAN, strayed' \in BOOLEAN, stored' \in Slugs \cup {NoSlug}
  PROVE  InBrowser'
<1>1. call' \in [Calls -> CallRows] /\ call'[c] = x /\ \A d \in Calls \ {c} : call'[d] = Outdated(t)[d]
  BY OutdatedCalls
<1>2. intent \in [Tabs -> Slugs \cup {NoSlug}]
  BY DEF InBrowser, BrowserTypes
<1>3. BrowserTypes'
  BY <1>1, <1>2 DEF BrowserTypes
<1>4. CallsOfTabs'
  BY <1>1, OutdatedCalls DEF InBrowser, CallsOfTabs
<1>5. SelectionStands'
  BY <1>2 DEF InBrowser, SelectionStands
<1>6. ChosenAlone'
  BY <1>1, <1>2, OutdatedCalls DEF InBrowser, ChosenAlone
<1> QED BY <1>3, <1>4, <1>5, <1>6 DEF InBrowser

(* A call changes alone, and is no current refresh of its tab after it, or *)
(* was one before.                                                         *)
LEMMA CallMoves ==
  ASSUME InBrowser, NEW c \in Calls, NEW x \in CallRows,
         x.step # "idle" => x.tab \in Tabs,
         x.step \in {"asked", "listed"} /\ x.current /\ ~x.orphan =>
           /\ call[c].step \in {"asked", "listed"} /\ call[c].current /\ ~call[c].orphan
           /\ x.tab = call[c].tab,
         call' = [call EXCEPT ![c] = x],
         tab' \in [Tabs -> TabRows],
         \A t \in Tabs : tab'[t].shown = tab[t].shown \/ intent[t] = NoSlug,
         UNCHANGED intent,
         signedIn' \in BOOLEAN, strayed' \in BOOLEAN, stored' \in Slugs \cup {NoSlug}
  PROVE  InBrowser'
<1>1. call \in [Calls -> CallRows]
  BY DEF InBrowser, BrowserTypes
<1>2. call' \in [Calls -> CallRows] /\ call'[c] = x /\ \A d \in Calls \ {c} : call'[d] = call[d]
  BY <1>1
<1>3. BrowserTypes'
  BY <1>2 DEF InBrowser, BrowserTypes
<1>4. CallsOfTabs' /\ SelectionStands' /\ ChosenAlone'
  BY <1>2 DEF InBrowser, CallsOfTabs, SelectionStands, ChosenAlone
<1> QED BY <1>3, <1>4 DEF InBrowser

LEMMA SessionChanges ==
  ASSUME InBrowser, SignIn \/ SignOut
  PROVE  InBrowser'
<1>1. signedIn' \in BOOLEAN /\ UNCHANGED <<stored, tab, call, intent, strayed>>
  BY DEF SignIn, SignOut
<1> QED BY <1>1 DEF InBrowser, BrowserTypes, CallsOfTabs, SelectionStands, ChosenAlone

LEMMA BrowserIdle ==
  ASSUME InBrowser, UNCHANGED browser
  PROVE  InBrowser'
  BY DEF browser, InBrowser, BrowserTypes, CallsOfTabs, SelectionStands, ChosenAlone

LEMMA Remembered ==
  ASSUME InBrowser
  PROVE  /\ signedIn \in BOOLEAN /\ strayed \in BOOLEAN /\ stored \in Slugs \cup {NoSlug}
         /\ tab \in [Tabs -> TabRows] /\ call \in [Calls -> CallRows]
         /\ intent \in [Tabs -> Slugs \cup {NoSlug}]
  BY DEF InBrowser, BrowserTypes

LEMMA TabMounts ==
  ASSUME InBrowser, NEW t \in Tabs, Mount(t)
  PROVE  InBrowser'
<1> DEFINE row == [NoProvider EXCEPT !.mounted = TRUE, !.loading = TRUE]
<1>1. row \in TabRows
  BY DEF NoProvider, TabRows
<1>2. tab' = [tab EXCEPT ![t] = row] /\ UNCHANGED <<signedIn, stored, strayed>>
  BY DEF Mount
<1> HIDE DEF row
<1>3. tab' \in [Tabs -> TabRows] /\ \A u \in Tabs \ {t} : tab'[u] = tab[u]
  BY <1>1, <1>2, Remembered
<1>4. PICK c \in Calls : call' = [Outdated(t) EXCEPT ![c] = Asked(t, NoSlug)]
  BY DEF Mount, Asking
<1>5. intent' = [intent EXCEPT ![t] = NoSlug]
  BY DEF Mount, Asking
<1>6. Asked(t, NoSlug) \in CallRows /\ Asked(t, NoSlug).tab = t
  BY AskedRow, FALSE \in BOOLEAN
<1>7. \A u \in Tabs \ {t} : tab'[u].shown = tab[u].shown
  BY <1>3
<1>8. signedIn' \in BOOLEAN /\ strayed' \in BOOLEAN /\ stored' \in Slugs \cup {NoSlug}
  BY <1>2, Remembered
<1> QED BY <1>3, <1>4, <1>5, <1>6, <1>7, <1>8, RefreshBegins

LEMMA TabRefreshes ==
  ASSUME InBrowser, NEW t \in Tabs, Refresh(t)
  PROVE  InBrowser'
<1>1. tab' = [tab EXCEPT ![t].loading = TRUE] /\ UNCHANGED <<signedIn, stored, strayed>>
  BY DEF Refresh
<1>2. tab' \in [Tabs -> TabRows] /\ \A u \in Tabs \ {t} : tab'[u] = tab[u]
  BY <1>1, Remembered DEF TabRows
<1>3. PICK c \in Calls : call' = [Outdated(t) EXCEPT ![c] = Asked(t, NoSlug)]
  BY DEF Refresh, Asking
<1>4. intent' = [intent EXCEPT ![t] = NoSlug]
  BY DEF Refresh, Asking
<1>6. Asked(t, NoSlug) \in CallRows /\ Asked(t, NoSlug).tab = t
  BY AskedRow, FALSE \in BOOLEAN
<1>7. \A u \in Tabs \ {t} : tab'[u].shown = tab[u].shown
  BY <1>2
<1>8. signedIn' \in BOOLEAN /\ strayed' \in BOOLEAN /\ stored' \in Slugs \cup {NoSlug}
  BY <1>1, Remembered
<1> QED BY <1>2, <1>3, <1>4, <1>6, <1>7, <1>8, RefreshBegins

LEMMA TabUnmounts ==
  ASSUME InBrowser, NEW t \in Tabs, Unmount(t)
  PROVE  InBrowser'
<1>1. UNCHANGED <<signedIn, stored, strayed>> /\ intent' = [intent EXCEPT ![t] = NoSlug]
  BY DEF Unmount
<1>2. NoProvider \in TabRows
  BY DEF NoProvider, TabRows
<1>3. tab' \in [Tabs -> TabRows] /\ \A u \in Tabs \ {t} : tab'[u] = tab[u]
  BY <1>2, Remembered DEF Unmount
<1>4. \A c \in Calls : [call[c] EXCEPT !.current = FALSE, !.orphan = TRUE] \in CallRows
  BY Remembered DEF CallRows
<1>5. call' = [c \in Calls |-> IF c \in Of(t)
                THEN [call[c] EXCEPT !.current = FALSE, !.orphan = TRUE] ELSE call[c]]
  BY DEF Unmount
<1>6. call' \in [Calls -> CallRows]
  BY <1>4, <1>5, Remembered
<1>7. \A c \in Calls : /\ call'[c].tab = call[c].tab /\ call'[c].step = call[c].step
                       /\ call'[c].orphan \/ call'[c] = call[c]
  BY <1>5, Remembered DEF CallRows
<1>8. BrowserTypes'
  BY <1>1, <1>3, <1>6, Remembered DEF BrowserTypes
<1>9. CallsOfTabs' /\ SelectionStands' /\ ChosenAlone'
  BY <1>1, <1>3, <1>7, Remembered DEF InBrowser, CallsOfTabs, SelectionStands, ChosenAlone
<1> QED BY <1>8, <1>9 DEF InBrowser

LEMMA TabSelects ==
  ASSUME InBrowser, NEW t \in Tabs, NEW s \in Slugs, Select(t, s)
  PROVE  InBrowser'
<1>1. /\ tab' = [tab EXCEPT ![t].shown = s] /\ call' = Outdated(t) /\ stored' = s
      /\ intent' = [intent EXCEPT ![t] = s] /\ strayed' = FALSE /\ UNCHANGED signedIn
  BY DEF Select
<1>2. tab' \in [Tabs -> TabRows] /\ tab'[t].shown = s /\ \A u \in Tabs \ {t} : tab'[u] = tab[u]
  BY <1>1, Remembered DEF TabRows
<1>3. BrowserTypes'
  BY <1>1, <1>2, OutdatedCalls, Remembered DEF BrowserTypes
<1>4. \A u \in Tabs : intent'[u] = IF u = t THEN s ELSE intent[u]
  BY <1>1, Remembered
<1>5. \A c \in Calls :
        /\ call'[c].tab = call[c].tab /\ call'[c].step = call[c].step
        /\ call'[c].orphan = call[c].orphan
        /\ call'[c].current => call[c].current
        /\ call[c].tab = t /\ ~call[c].orphan => ~call'[c].current
  BY <1>1, OutdatedCalls
<1>6. CallsOfTabs' /\ SelectionStands'
  BY <1>2, <1>4, <1>5 DEF InBrowser, CallsOfTabs, SelectionStands
<1>7. ChosenAlone'
  BY <1>4, <1>5 DEF InBrowser, ChosenAlone
<1> QED BY <1>3, <1>6, <1>7 DEF InBrowser


LEMMA AnswerListed ==
  ASSUME InBrowser, NEW c \in Calls, List(c)
  PROVE  InBrowser'
<1>1. call' = [call EXCEPT ![c] = [call[c] EXCEPT !.step = "listed", !.rows = Mine]]
  BY Remembered DEF List
<1>2. UNCHANGED <<signedIn, stored, tab, intent, strayed>> /\ call[c].step = "asked"
  BY DEF List
<1> DEFINE x == [call[c] EXCEPT !.step = "listed", !.rows = Mine]
<1>3. /\ x \in CallRows /\ x.tab = call[c].tab /\ x.current = call[c].current
      /\ x.orphan = call[c].orphan
  BY Remembered DEF CallRows, Mine
<1> HIDE DEF x
<1>4. call[c].tab \in Tabs
  BY <1>2 DEF InBrowser, CallsOfTabs
<1>5. call' = [call EXCEPT ![c] = x]
  BY <1>1 DEF x
<1> QED BY <1>2, <1>3, <1>4, <1>5, Remembered, CallMoves

(* A refresh returns; it may have shown something where nobody has chosen. *)
LEMMA RefreshReturns ==
  ASSUME InBrowser, NEW c \in Calls, call[c].step = "listed",
         NEW settled \in [Tabs -> TabRows],
         \A u \in Tabs : settled[u].shown = tab[u].shown \/ (u = call[c].tab /\ intent[u] = NoSlug),
         Return(c, settled),
         signedIn' \in BOOLEAN, strayed' \in BOOLEAN, stored' \in Slugs \cup {NoSlug}
  PROVE  /\ InBrowser'
         /\ \A u \in Tabs : tab'[u].shown = settled[u].shown
<1> DEFINE t == call[c].tab
           next == [Asked(t, call[c].preferred) EXCEPT !.orphan = call[c].orphan]
<1>1. t \in Tabs /\ call[c] \in CallRows
  BY Remembered DEF InBrowser, CallsOfTabs
<1>2. call[c].preferred \in Slugs \cup {NoSlug} /\ call[c].orphan \in BOOLEAN
  BY <1>1 DEF CallRows
<1>3. next \in CallRows /\ next.tab = t /\ next.orphan = call[c].orphan
  BY <1>1, <1>2 DEF Asked, NoCall, CallRows
<1>4. NoCall \in CallRows /\ NoCall.step = "idle"
  BY DEF NoCall, CallRows
<1> HIDE DEF next
<1>5. CASE ~call[c].again
  <2>1. call' = [call EXCEPT ![c] = NoCall] /\ tab' = settled /\ UNCHANGED intent
    BY <1>5 DEF Return
  <2>2. InBrowser'
    BY <1>4, <2>1, CallMoves
  <2> QED BY <2>1, <2>2
<1>6. CASE call[c].again /\ call[c].orphan
  <2>1. call' = [call EXCEPT ![c] = next] /\ tab' = settled /\ UNCHANGED intent
    BY <1>6 DEF Return, next
  <2>2. InBrowser'
    BY <1>1, <1>3, <1>6, <2>1, CallMoves
  <2> QED BY <2>1, <2>2
<1>7. CASE call[c].again /\ ~call[c].orphan
  <2>1. /\ call' = [Outdated(t) EXCEPT ![c] = next]
        /\ tab' = [settled EXCEPT ![t].loading = TRUE]
        /\ intent' = [intent EXCEPT ![t] = NoSlug]
    BY <1>7 DEF Return, next
  <2>2. tab' \in [Tabs -> TabRows] /\ \A u \in Tabs : tab'[u].shown = settled[u].shown
    BY <1>1, <2>1 DEF TabRows
  <2>3. \A u \in Tabs \ {t} : tab'[u].shown = tab[u].shown
    BY <2>2
  <2>4. InBrowser'
    BY <1>1, <1>3, <2>1, <2>2, <2>3, RefreshBegins
  <2> QED BY <2>2, <2>4
<1> QED BY <1>5, <1>6, <1>7

(* An answer that is used is shown, unless its provider is gone.           *)
LEMMA AnswerUsed ==
  ASSUME InBrowser, NEW c \in Calls, call[c].step = "listed", call[c].current,
         NEW s \in Slugs \cup {NoSlug}, Use(c, s), UNCHANGED signedIn
  PROVE  /\ InBrowser'
         /\ call[c].orphan => strayed'
         /\ ~call[c].orphan =>
              tab'[call[c].tab].shown = s /\ stored' = s /\ call[c].tab \in Tabs
<1> DEFINE t == call[c].tab
           settled == IF call[c].orphan THEN tab ELSE Settled(t, call[c].rows, s)
<1>1. t \in Tabs /\ call[c] \in CallRows
  BY Remembered DEF InBrowser, CallsOfTabs
<1>2. /\ Settled(t, call[c].rows, s) \in [Tabs -> TabRows]
      /\ Settled(t, call[c].rows, s)[t].shown = s
      /\ \A u \in Tabs \ {t} : Settled(t, call[c].rows, s)[u] = tab[u]
  <2>1. call[c].rows \in SUBSET Slugs
    BY <1>1 DEF CallRows
  <2> DEFINE row == [tab[t] EXCEPT !.rows = call[c].rows, !.shown = s, !.loading = FALSE, !.error = FALSE]
  <2>2. row \in TabRows /\ row.shown = s
    BY <1>1, <2>1, Remembered DEF TabRows
  <2>3. Settled(t, call[c].rows, s) = [tab EXCEPT ![t] = row]
    BY <1>1, Remembered DEF Settled
  <2> HIDE DEF row
  <2> QED BY <1>1, <2>2, <2>3, Remembered
<1>3. ~call[c].orphan => intent[t] = NoSlug
  BY <1>1 DEF InBrowser, ChosenAlone
<1>4. settled \in [Tabs -> TabRows]
      /\ \A u \in Tabs : settled[u].shown = tab[u].shown \/ (u = t /\ intent[u] = NoSlug)
  BY <1>2, <1>3, Remembered
<1>5. Return(c, settled) /\ stored' = s /\ strayed' = call[c].orphan
  BY DEF Use
<1>6. settled[t].shown = s \/ call[c].orphan
  BY <1>2
<1> HIDE DEF settled
<1>7. call[c].orphan \in BOOLEAN
  BY <1>1 DEF CallRows
<1>8. strayed' \in BOOLEAN
  BY <1>5, <1>7, Remembered
<1>9. InBrowser' /\ \A u \in Tabs : tab'[u].shown = settled[u].shown
  BY <1>4, <1>5, <1>8, Remembered, RefreshReturns
<1> QED BY <1>1, <1>5, <1>6, <1>9

LEMMA AnswerDropped ==
  ASSUME InBrowser, NEW c \in Calls, call[c].step = "listed", Drop(c), UNCHANGED signedIn
  PROVE  /\ InBrowser' /\ UNCHANGED <<stored, strayed>>
         /\ \A u \in Tabs : tab'[u].shown = tab[u].shown
<1>1. Return(c, tab) /\ UNCHANGED <<stored, strayed>>
  BY DEF Drop
<1> QED BY <1>1, Remembered, RefreshReturns

LEMMA RefreshFails ==
  ASSUME InBrowser, NEW c \in Calls, FailRefresh(c)
  PROVE  /\ InBrowser' /\ UNCHANGED <<stored, strayed>>
         /\ \A u \in Tabs : tab'[u].shown = tab[u].shown
<1>1. call' = [call EXCEPT ![c] = NoCall] /\ UNCHANGED <<signedIn, stored, intent, strayed>>
  BY DEF FailRefresh
<1>2. NoCall \in CallRows /\ NoCall.step = "idle"
  BY DEF NoCall, CallRows
<1>3. \A u \in Tabs : [tab[u] EXCEPT !.error = TRUE, !.loading = FALSE] \in TabRows
                      /\ [tab[u] EXCEPT !.error = TRUE, !.loading = FALSE].shown = tab[u].shown
  BY Remembered DEF TabRows
<1>4. call[c].tab \in Tabs
  BY DEF FailRefresh, InBrowser, CallsOfTabs
<1>5. \/ tab' = tab
      \/ tab' = [tab EXCEPT ![call[c].tab] = [tab[call[c].tab] EXCEPT !.error = TRUE, !.loading = FALSE]]
  BY <1>4, Remembered DEF FailRefresh
<1>6. tab' \in [Tabs -> TabRows] /\ \A u \in Tabs : tab'[u].shown = tab[u].shown
  BY <1>3, <1>4, <1>5, Remembered
<1> QED BY <1>1, <1>2, <1>6, Remembered, CallMoves

(* Creating and accepting leave the page as it is until they are answered. *)
LEMMA FormSent ==
  ASSUME InBrowser, NEW t \in Tabs, NEW x \in CallRows,
         x.tab = t, x.step \in {"founding", "joining"}, Sending(x),
         UNCHANGED <<signedIn, stored, tab, intent, strayed>>
  PROVE  InBrowser'
<1>1. PICK c \in Calls : call' = [call EXCEPT ![c] = x]
  BY DEF Sending
<1> QED BY <1>1, Remembered, CallMoves

LEMMA FormGivenUp ==
  ASSUME InBrowser, NEW c \in Calls, GiveUp(c)
  PROVE  InBrowser'
<1>1. call' = [call EXCEPT ![c] = NoCall] /\ UNCHANGED <<signedIn, stored, tab, intent, strayed>>
  BY DEF GiveUp
<1>2. NoCall \in CallRows /\ NoCall.step = "idle"
  BY DEF NoCall, CallRows
<1> QED BY <1>1, <1>2, Remembered, CallMoves

LEMMA FormFollowed ==
  ASSUME InBrowser, FoundingTypeOK, NEW c \in Calls, Follow(c)
  PROVE  /\ InBrowser' /\ UNCHANGED <<stored, strayed>>
         /\ \A u \in Tabs : tab'[u].shown = tab[u].shown
<1> DEFINE t == call[c].tab
<1>1. call[c] \in CallRows /\ call[c].step \in {"founding", "joining"}
  BY Remembered DEF Follow, Joined
<1>2. t \in Tabs /\ call[c].again \in BOOLEAN
  BY <1>1 DEF InBrowser, CallsOfTabs, CallRows
<1>3. Joined(c) \subseteq Slugs \cup {NoSlug}
  <2>1. CASE call[c].step = "joining"
    BY <1>1, <2>1 DEF Joined, CallRows
  <2>2. CASE call[c].step = "founding"
    <3>1. \A q \in Awaited(c) : founding[q].slug \in Slugs \cup {NoSlug}
      BY DEF Awaited, FoundingTypeOK
    <3> QED BY <2>2, <3>1 DEF Joined
  <2> QED BY <1>1, <2>1, <2>2
<1>4. PICK s \in Slugs \cup {NoSlug} :
       IF call[c].orphan
       THEN /\ call' = [call EXCEPT ![c] = [Asked(t, s) EXCEPT
                          !.orphan = TRUE, !.again = call[c].again]]
            /\ UNCHANGED <<tab, intent>>
       ELSE /\ call' = [Outdated(t) EXCEPT ![c] = [Asked(t, s) EXCEPT !.again = call[c].again]]
            /\ tab' = [tab EXCEPT ![t].loading = TRUE]
            /\ intent' = [intent EXCEPT ![t] = NoSlug]
  BY <1>3 DEF Follow
<1>5. UNCHANGED <<signedIn, stored, strayed>>
  BY DEF Follow
<1>6. CASE call[c].orphan
  <2> DEFINE x == [Asked(t, s) EXCEPT !.orphan = TRUE, !.again = call[c].again]
  <2>1. x \in CallRows /\ x.tab = t /\ x.orphan
    BY <1>2 DEF Asked, NoCall, CallRows
  <2>2. call' = [call EXCEPT ![c] = x] /\ UNCHANGED <<tab, intent>>
    BY <1>4, <1>6
  <2> HIDE DEF x
  <2>3. InBrowser'
    BY <1>2, <1>5, <2>1, <2>2, Remembered, CallMoves
  <2> QED BY <1>5, <2>2, <2>3
<1>7. CASE ~call[c].orphan
  <2> DEFINE x == [Asked(t, s) EXCEPT !.again = call[c].again]
  <2>1. x \in CallRows /\ x.tab = t
    BY <1>2 DEF Asked, NoCall, CallRows
  <2>2. /\ call' = [Outdated(t) EXCEPT ![c] = x] /\ tab' = [tab EXCEPT ![t].loading = TRUE]
        /\ intent' = [intent EXCEPT ![t] = NoSlug]
    BY <1>4, <1>7
  <2> HIDE DEF x
  <2>3. tab' \in [Tabs -> TabRows] /\ \A u \in Tabs : tab'[u].shown = tab[u].shown
    BY <1>2, <2>2, Remembered DEF TabRows
  <2>4. InBrowser'
    BY <1>2, <1>5, <2>1, <2>2, <2>3, Remembered, RefreshBegins
  <2> QED BY <1>5, <2>3, <2>4
<1> QED BY <1>6, <1>7

-----------------------------------------------------------------------------
(* Both halves *)

LEMMA InitIInv == Init => IInv
<1> SUFFICES ASSUME Init PROVE IInv
  OBVIOUS
<1>1. AtRest \in FoundingRows /\ AtRest.step = "idle" /\ NoRow \in OrganizationRows
  BY DEF AtRest, FoundingRows, NoRow, OrganizationRows
<1>2. Rows = {}
  BY DEF Init, FoundingInit, Rows
<1>3. OnServer
  BY <1>1, <1>2 DEF Init, FoundingInit, OnServer, FoundingTypeOK, FoundingRows, OrganizationRows,
     FoundedWhole, FoundersKnown, Founder, DomainAlone
<1>4. NoProvider \in TabRows /\ NoCall \in CallRows /\ NoCall.step = "idle"
  BY DEF NoProvider, TabRows, NoCall, CallRows
<1>5. InBrowser
  BY <1>4 DEF Init, InBrowser, BrowserTypes, CallsOfTabs, SelectionStands, ChosenAlone
<1> QED BY <1>3, <1>5 DEF IInv

(* What a step may do to what tabs show and to where requests go.          *)
Kept     == UNCHANGED <<stored, strayed>> /\ \A t \in Tabs : tab'[t].shown = tab[t].shown
Cleared  == UNCHANGED <<stored, strayed>>
            /\ \A t \in Tabs : tab'[t].shown \in {tab[t].shown, NoSlug}
Redirect == strayed' \/ \E t \in Tabs : tab'[t].shown = stored'

LEMMA ProviderStep ==
  ASSUME IInv, NEW t \in Tabs, Provider(t)
  PROVE  IInv' /\ (Kept \/ Cleared \/ Redirect)
<1>1. CASE Mount(t)
  <2>1. UNCHANGED <<foundingVars, stored, strayed>>
        /\ tab' = [tab EXCEPT ![t] = [NoProvider EXCEPT !.mounted = TRUE, !.loading = TRUE]]
    BY <1>1 DEF Mount
  <2>2. Cleared
    BY <2>1, Remembered DEF IInv, Cleared, NoProvider
  <2> QED BY <1>1, <2>1, <2>2, TabMounts, ServerIdle DEF IInv
<1>2. CASE Unmount(t)
  <2>1. UNCHANGED <<foundingVars, stored, strayed>> /\ tab' = [tab EXCEPT ![t] = NoProvider]
    BY <1>2 DEF Unmount
  <2>2. Cleared
    BY <2>1, Remembered DEF IInv, Cleared, NoProvider
  <2> QED BY <1>2, <2>1, <2>2, TabUnmounts, ServerIdle DEF IInv
<1>3. CASE Refresh(t)
  <2>1. UNCHANGED <<foundingVars, stored, strayed>> /\ tab' = [tab EXCEPT ![t].loading = TRUE]
    BY <1>3 DEF Refresh
  <2>2. Kept
    BY <2>1, Remembered DEF IInv, Kept, TabRows
  <2> QED BY <1>3, <2>1, <2>2, TabRefreshes, ServerIdle DEF IInv
<1>4. ASSUME NEW s \in Slugs, Select(t, s)
      PROVE  IInv' /\ (Kept \/ Cleared \/ Redirect)
  <2>1. UNCHANGED foundingVars /\ stored' = s /\ tab' = [tab EXCEPT ![t].shown = s]
    BY <1>4 DEF Select
  <2>2. Redirect
    BY <2>1, Remembered DEF IInv, Redirect, TabRows
  <2> QED BY <1>4, <2>1, <2>2, TabSelects, ServerIdle DEF IInv
<1>5. ASSUME NEW s \in Slugs, Accept(t, s) PROVE IInv' /\ Kept
  <2>1. /\ s \in Rows /\ members' = members \cup {<<s, Me>>}
        /\ UNCHANGED <<organization, founding, signedIn, stored, tab, intent, strayed>>
    BY <1>5 DEF Accept
  <2>2. OnServer'
    BY <2>1, ContextAssumption, MemberEnters DEF IInv
  <2> DEFINE x == [NoCall EXCEPT !.step = "joining", !.tab = t, !.preferred = s,
                                 !.again = TRUE, !.current = TRUE]
  <2>3. x \in CallRows /\ x.tab = t /\ x.step \in {"founding", "joining"}
    BY DEF NoCall, CallRows
  <2>4. Sending(x)
    BY <1>5 DEF Accept
  <2> HIDE DEF x
  <2>5. InBrowser'
    BY <2>1, <2>3, <2>4, FormSent DEF IInv
  <2> QED BY <2>1, <2>2, <2>5 DEF IInv, Kept
<1>6. ASSUME NEW q \in Requests, NEW b \in Bases, Create(t, q, b) PROVE IInv' /\ Kept
  <2>1. BeginFounding(q, Me, b) /\ UNCHANGED <<signedIn, stored, tab, intent, strayed>>
    BY <1>6 DEF Create
  <2>2. OnServer'
    BY <2>1, ContextAssumption, FoundingBegins DEF IInv
  <2> DEFINE x == [NoCall EXCEPT !.step = "founding", !.tab = t, !.request = q, !.current = TRUE]
  <2>3. x \in CallRows /\ x.tab = t /\ x.step \in {"founding", "joining"}
    BY DEF NoCall, CallRows
  <2>4. Sending(x)
    BY <1>6 DEF Create
  <2> HIDE DEF x
  <2>5. InBrowser'
    BY <2>1, <2>3, <2>4, FormSent DEF IInv
  <2> QED BY <2>1, <2>2, <2>5 DEF IInv, Kept
<1> QED BY <1>1, <1>2, <1>3, <1>4, <1>5, <1>6 DEF Provider

LEMMA CallStep ==
  ASSUME IInv, NEW c \in Calls,
         List(c) \/ Settle(c) \/ SettleEmpty(c) \/ FailRefresh(c) \/ Follow(c) \/ GiveUp(c)
  PROVE  IInv' /\ (Kept \/ Redirect)
<1> USE DEF IInv
<1>1. CASE List(c)
  <2>1. UNCHANGED <<foundingVars, stored, tab, strayed>>
    BY <1>1 DEF List
  <2> QED BY <1>1, <2>1, AnswerListed, ServerIdle DEF Kept
<1>2. ASSUME call[c].step = "listed", call[c].current, UNCHANGED <<foundingVars, signedIn>>,
             NEW s \in Slugs \cup {NoSlug}, Use(c, s)
      PROVE  IInv' /\ Redirect
  <2>1. /\ InBrowser'
        /\ call[c].orphan => strayed'
        /\ ~call[c].orphan => tab'[call[c].tab].shown = s /\ stored' = s /\ call[c].tab \in Tabs
    BY <1>2, AnswerUsed
  <2>2. OnServer'
    BY <1>2, ServerIdle
  <2> QED BY <2>1, <2>2 DEF Redirect
<1>3. ASSUME call[c].step = "listed", Drop(c), UNCHANGED <<foundingVars, signedIn>>
      PROVE  IInv' /\ Kept
  <2>1. InBrowser' /\ Kept
    BY <1>3, AnswerDropped DEF Kept
  <2> QED BY <1>3, <2>1, ServerIdle
<1>4. CASE Settle(c)
  <2>1. call[c].rows \subseteq Slugs
    BY Remembered DEF CallRows
  <2>2. Choices(c) \subseteq Slugs \cup {NoSlug}
    BY <2>1 DEF Choices
  <2> QED BY <1>2, <1>3, <1>4, <2>2 DEF Settle
<1>5. CASE SettleEmpty(c)
  BY <1>2, <1>3, <1>5 DEF SettleEmpty
<1>6. CASE FailRefresh(c)
  <2>1. InBrowser' /\ Kept
    BY <1>6, RefreshFails DEF Kept
  <2> QED BY <1>6, <2>1, ServerIdle DEF FailRefresh
<1>7. CASE Follow(c)
  <2>1. InBrowser' /\ Kept
    BY <1>7, FormFollowed DEF Kept, OnServer
  <2>2. OnServer'
    BY <1>7, Dismissed DEF Follow
  <2> QED BY <2>1, <2>2
<1>8. CASE GiveUp(c)
  <2>1. OnServer' /\ UNCHANGED <<stored, tab, strayed>>
    BY <1>8, Dismissed DEF GiveUp
  <2> QED BY <1>8, <2>1, FormGivenUp DEF Kept
<1> QED BY <1>1, <1>4, <1>5, <1>6, <1>7, <1>8

LEMMA ServerStep ==
  ASSUME IInv, Server
  PROVE  IInv' /\ Kept
<1>1. UNCHANGED browser
  BY DEF Server, Found, Hear, Enter, Leave
<1>2. ASSUME NEW q \in Requests, FoundingStep(q) \/ LoseFounding(q)
      PROVE  OnServer'
  BY <1>2, RefusedOrEntered, DomainEntered, FoundingCommitted, FoundingLost DEF FoundingStep, IInv
<1>3. ASSUME NEW q \in Requests, NEW u \in Users, NEW b \in Bases, Found(q, u, b)
      PROVE  OnServer'
  BY <1>3, FoundingBegins DEF Found, IInv
<1>4. ASSUME NEW q \in Requests, Hear(q)
      PROVE  OnServer'
  BY <1>4, Dismissed DEF Hear, IInv
<1>5. ASSUME NEW s \in Slugs, Enter(s) \/ Leave(s)
      PROVE  OnServer'
  <2>1. CASE Enter(s)
    <3>1. s \in Rows /\ members' = members \cup {<<s, Me>>} /\ UNCHANGED <<organization, founding>>
      BY <2>1 DEF Enter
    <3> QED BY <3>1, ContextAssumption, MemberEnters DEF IInv
  <2>2. CASE Leave(s)
    BY <2>2, MemberLeaves DEF IInv
  <2> QED BY <1>5, <2>1, <2>2
<1>6. OnServer'
  BY <1>2, <1>3, <1>4, <1>5 DEF Server
<1>7. InBrowser' /\ Kept
  BY <1>1, BrowserIdle DEF IInv, Kept, browser
<1> QED BY <1>6, <1>7 DEF IInv

LEMMA NextStep ==
  ASSUME IInv, [Next]_vars
  PROVE  IInv' /\ (Kept \/ Cleared \/ Redirect)
<1>1. CASE UNCHANGED vars
  <2>1. UNCHANGED foundingVars /\ UNCHANGED browser /\ Kept
    BY <1>1 DEF vars, browser, Kept
  <2> QED BY <2>1, ServerIdle, BrowserIdle DEF IInv
<1>2. CASE SignIn \/ SignOut
  <2>1. UNCHANGED foundingVars /\ Kept
    BY <1>2 DEF SignIn, SignOut, Kept
  <2> QED BY <1>2, <2>1, ServerIdle, SessionChanges DEF IInv
<1>3. CASE Server
  BY <1>3, ServerStep
<1>4. ASSUME NEW t \in Tabs, Provider(t) PROVE IInv' /\ (Kept \/ Cleared \/ Redirect)
  BY <1>4, ProviderStep
<1>5. ASSUME NEW c \in Calls,
             List(c) \/ Settle(c) \/ SettleEmpty(c) \/ FailRefresh(c) \/ Follow(c) \/ GiveUp(c)
      PROVE  IInv' /\ (Kept \/ Cleared \/ Redirect)
  BY <1>5, CallStep
<1> QED BY <1>1, <1>2, <1>3, <1>4, <1>5 DEF Next

-----------------------------------------------------------------------------
(* The invariant that the proofs below rest on, of the server and of the  *)
(* browser.                                                                *)
THEOREM Invariant == Spec => []IInv
<1>1. IInv /\ [Next]_vars => IInv'
  BY NextStep
<1> QED BY <1>1, InitIInv, PTL DEF Spec

(* Every variable keeps its type; one organization claims a domain, and    *)
(* none is ever without a member (create_organization).                    *)
THEOREM FoundingTypes == Spec => []TypeOK
<1>1. IInv => TypeOK
  BY Parts DEF IInv, OnServer, InBrowser
<1> QED BY <1>1, Invariant, PTL

(* An overtaken answer never replaces what a person has chosen since.      *)
THEOREM ChoiceStands == Spec => []SelectionStands
<1>1. IInv => SelectionStands
  BY DEF IInv, InBrowser
<1> QED BY <1>1, Invariant, PTL

(* With a single tab, requests go to the organization that it shows.       *)
THEOREM OneTabIsTrue == ASSUME OneTab PROVE Spec => []RequestsGoToShown
<1>1. Init => ShownStored
  BY DEF Init, ShownStored, NoProvider
<1>2. IInv /\ ShownStored /\ [Next]_vars => ShownStored'
  <2> SUFFICES ASSUME IInv, ShownStored, [Next]_vars PROVE ShownStored'
    OBVIOUS
  <2>1. CASE Kept
    BY <2>1 DEF Kept, ShownStored
  <2>2. CASE Cleared
    BY <2>2 DEF Cleared, ShownStored
  <2>3. CASE Redirect
    BY <2>3 DEF Redirect, ShownStored, OneTab
  <2> QED BY <2>1, <2>2, <2>3, NextStep
<1>3. ShownStored => RequestsGoToShown
  BY DEF ShownStored, RequestsGoToShown, Showing
<1> QED BY <1>1, <1>2, <1>3, Invariant, PTL DEF Spec


(* No founding is refused without a cause that has been committed.         *)
Caused ==
  \A q \in Requests : founding'[q].step # founding[q].step =>
    LET u == founding'[q].user  b == founding'[q].base IN
    /\ founding'[q].step # "error"
    /\ founding'[q].step \in {"domain_in_use", "domain_claimed"} => Claims(DomainOf[u]) # {}
    /\ founding'[q].step = "no_slug" => {b, Suffixed[b][u]} \subseteq Rows

LEMMA DismissedCaused == ASSUME NEW R, Dismiss(R) PROVE Caused
  BY DEF Dismiss, Caused, AtRest

LEMMA BegunCaused ==
  ASSUME OnServer, NEW q \in Requests, NEW u \in Users, NEW b \in Bases, BeginFounding(q, u, b)
  PROVE  Caused
<1> DEFINE f == [step |-> IF Claims(DomainOf[u]) # {} THEN "domain_in_use" ELSE "trying",
                 user |-> u, base |-> b, slug |-> b, context |-> Claims(DomainOf[u]) = {}]
<1>1. founding' = [founding EXCEPT ![q] = f]
  BY DEF BeginFounding
<1>2. f.step \in {"domain_in_use", "trying"} /\ f.user = u
      /\ (f.step = "domain_in_use" => Claims(DomainOf[u]) # {})
  OBVIOUS
<1> HIDE DEF f
<1>3. founding'[q] = f /\ \A p \in Requests \ {q} : founding'[p] = founding[p]
  BY <1>1, RowsAre DEF OnServer
<1> QED BY <1>2, <1>3 DEF Caused

LEMMA StepCaused ==
  ASSUME OnServer, NEW q \in Requests, FoundingStep(q)
  PROVE  Caused
<1>1. founding \in [Requests -> FoundingRows] /\ Founder(founding[q])
  BY RowsAre DEF OnServer, FoundersKnown
<1>2. ASSUME NEW step, Answer(q, step),
             step # "error",
             step = "domain_claimed" => Claims(Domain(q)) # {},
             step # "domain_in_use",
             step = "no_slug" =>
               {founding[q].base, Suffixed[founding[q].base][founding[q].user]} \subseteq Rows
      PROVE  Caused
  <2>1. /\ founding'[q].step = step /\ founding'[q].user = founding[q].user
        /\ founding'[q].base = founding[q].base
        /\ \A p \in Requests \ {q} : founding'[p] = founding[p]
    BY <1>1, <1>2 DEF Answer, FoundingRows
  <2> QED BY <1>2, <2>1 DEF Caused, Domain
<1>3. ASSUME \A p \in Requests : founding'[p].step \in {founding[p].step, "slug", "row"}
      PROVE  Caused
  BY <1>3 DEF Caused
<1>4. ~RefuseUnknown(q)
  BY <1>1 DEF RefuseUnknown, Founder
<1>5. CASE EnterSlug(q) \/ EnterDomain(q)
  BY <1>1, <1>3, <1>5 DEF EnterSlug, EnterDomain, FoundingRows
<1>6. CASE RefuseSlug(q) /\ founding[q].slug = founding[q].base
  BY <1>1, <1>3, <1>6 DEF RefuseSlug, FoundingRows
<1>7. CASE RefuseSlug(q) /\ founding[q].slug # founding[q].base
  <2>1. Answer(q, "no_slug") /\ founding[q].slug \in Rows /\ founding[q].step = "trying"
    BY <1>7 DEF RefuseSlug
  <2>2. {founding[q].base, Suffixed[founding[q].base][founding[q].user]} \subseteq Rows
    BY <1>1, <1>7, <2>1 DEF Founder
  <2> QED BY <1>2, <2>1, <2>2
<1>8. CASE RefuseDomain(q)
  BY <1>2, <1>8 DEF RefuseDomain
<1>9. CASE CommitFounding(q)
  BY <1>2, <1>9 DEF CommitFounding
<1> QED BY <1>4, <1>5, <1>6, <1>7, <1>8, <1>9 DEF FoundingStep

LEMMA NextCaused ==
  ASSUME IInv, Next
  PROVE  Caused \/ UNCHANGED foundingVars
<1>1. ASSUME UNCHANGED founding PROVE Caused
  BY <1>1 DEF Caused
<1>2. CASE SignIn \/ SignOut
  BY <1>1, <1>2 DEF SignIn, SignOut, foundingVars
<1>3. CASE Server
  <2>1. ASSUME NEW q \in Requests, LoseFounding(q) PROVE Caused
    BY <2>1 DEF LoseFounding, Caused, AtRest, IInv, OnServer, FoundingTypeOK
  <2>2. ASSUME NEW q \in Requests, NEW u \in Users, NEW b \in Bases, Found(q, u, b) PROVE Caused
    BY <2>2, BegunCaused DEF Found, IInv
  <2>3. ASSUME NEW q \in Requests, Hear(q) PROVE Caused
    BY <2>3, DismissedCaused DEF Hear
  <2>4. ASSUME NEW s \in Slugs, Enter(s) \/ Leave(s) PROVE Caused
    BY <1>1, <2>4 DEF Enter, Leave
  <2> QED BY <1>3, <2>1, <2>2, <2>3, <2>4, StepCaused DEF Server, IInv
<1>4. ASSUME NEW t \in Tabs, Provider(t) PROVE Caused
  <2>1. ASSUME NEW q \in Requests, NEW b \in Bases, Create(t, q, b) PROVE Caused
    BY <2>1, BegunCaused, ContextAssumption DEF Create, IInv
  <2>2. CASE Mount(t) \/ Unmount(t) \/ Refresh(t)
    BY <1>1, <2>2 DEF Mount, Unmount, Refresh, foundingVars
  <2>3. ASSUME NEW s \in Slugs, Select(t, s) \/ Accept(t, s) PROVE Caused
    BY <1>1, <2>3 DEF Select, Accept, foundingVars
  <2> QED BY <1>4, <2>1, <2>2, <2>3 DEF Provider
<1>5. ASSUME NEW c \in Calls,
             List(c) \/ Settle(c) \/ SettleEmpty(c) \/ FailRefresh(c) \/ Follow(c) \/ GiveUp(c)
      PROVE  Caused
  <2>1. CASE Follow(c) \/ GiveUp(c)
    BY <2>1, DismissedCaused DEF Follow, GiveUp
  <2>2. CASE List(c) \/ Settle(c) \/ SettleEmpty(c) \/ FailRefresh(c)
    BY <1>1, <2>2 DEF List, Settle, SettleEmpty, FailRefresh, foundingVars
  <2> QED BY <1>5, <2>1, <2>2
<1> QED BY <1>2, <1>3, <1>4, <1>5 DEF Next

(* A founding is refused only because an organization that has committed   *)
(* claims the domain, or both slugs are taken (create_organization).       *)
THEOREM RefusalsHaveCause == Spec => RefusedForCause
<1>1. IInv /\ [Next]_vars => [Caused]_foundingVars
  BY NextCaused DEF vars
<1>2. Spec => [][Caused]_foundingVars
  BY <1>1, Invariant, PTL DEF Spec
<1> QED BY <1>2 DEF RefusedForCause, Caused

-----------------------------------------------------------------------------
(* Founding at once.  A transaction that has entered its slug is alone     *)
(* with it, also among the committed, and is at its second slug only       *)
(* because the first is taken.                                             *)
Entered(q) == founding[q].step \in {"slug", "row"}

SlugAlone ==
  \A q \in Requests : Entered(q) =>
    /\ founding[q].slug \notin Rows
    /\ founding[q].slug # founding[q].base => founding[q].base \in Rows
    /\ \A p \in Requests : Entered(p) /\ founding[p].slug = founding[q].slug => p = q

(* What a step does on the server: members come and go, requests move.     *)
ComeOrGo ==
  /\ UNCHANGED <<organization, founding>>
  /\ \E s \in Slugs :
       \/ s \in Rows /\ members' = members \cup {<<s, Me>>}
       \/ Leave(s)

LEMMA OnTheServer ==
  ASSUME Next
  PROVE  \/ \E q \in Requests : FoundingStep(q) \/ LoseFounding(q)
         \/ \E q \in Requests, u \in Users, b \in Bases : BeginFounding(q, u, b)
         \/ (\E R \in SUBSET Requests : Dismiss(R)) /\ UNCHANGED <<organization, members>>
         \/ ComeOrGo
         \/ UNCHANGED foundingVars
<1>1. CASE SignIn \/ SignOut
  BY <1>1 DEF SignIn, SignOut
<1>2. CASE Server
  <2>1. ASSUME NEW s \in Slugs, Enter(s) \/ Leave(s) PROVE ComeOrGo
    BY <2>1 DEF Enter, Leave, ComeOrGo
  <2> QED BY <1>2, <2>1 DEF Server, Found, Hear
<1>3. ASSUME NEW t \in Tabs, Provider(t)
      PROVE  \/ \E q \in Requests, b \in Bases : BeginFounding(q, Me, b)
             \/ ComeOrGo
             \/ UNCHANGED foundingVars
  <2>1. ASSUME NEW s \in Slugs, Accept(t, s) PROVE ComeOrGo
    BY <2>1 DEF Accept, ComeOrGo
  <2> QED BY <1>3, <2>1 DEF Provider, Mount, Unmount, Refresh, Select, Create
<1>4. ASSUME NEW c \in Calls,
             List(c) \/ Settle(c) \/ SettleEmpty(c) \/ FailRefresh(c) \/ Follow(c) \/ GiveUp(c)
      PROVE  \/ (\E R \in SUBSET Requests : Dismiss(R)) /\ UNCHANGED <<organization, members>>
             \/ UNCHANGED foundingVars
  <2>1. Awaited(c) \in SUBSET Requests
    BY DEF Awaited
  <2> QED BY <1>4, <2>1 DEF List, Settle, SettleEmpty, FailRefresh, Follow, GiveUp
<1> QED BY <1>1, <1>2, <1>3, <1>4, ContextAssumption DEF Next

(* No slug is entered and none is committed.                               *)
LEMMA SlugsKept ==
  ASSUME SlugAlone, UNCHANGED organization,
         \A q \in Requests : Entered(q)' =>
           /\ Entered(q)
           /\ founding'[q].slug = founding[q].slug /\ founding'[q].base = founding[q].base
  PROVE  SlugAlone'
<1>1. Rows' = Rows
  BY DEF Rows
<1> QED BY <1>1 DEF SlugAlone

LEMMA SlugEntered ==
  ASSUME OnServer, SlugAlone, NEW q \in Requests, EnterSlug(q)
  PROVE  SlugAlone'
<1>1. /\ founding \in [Requests -> FoundingRows] /\ Founder(founding[q])
      /\ founding[q].step = "trying"
      /\ \A p \in Requests : Entered(p) => founding[p].slug # founding[q].slug
      /\ founding[q].slug \notin Rows
      /\ founding' = [founding EXCEPT ![q].step = "slug"]
  BY RowsAre DEF OnServer, FoundersKnown, EnterSlug, HoldsSlug, Entered
<1>2. Rows' = Rows
  BY DEF EnterSlug, Rows
<1>3. \A p \in Requests :
        /\ founding'[p].slug = founding[p].slug /\ founding'[p].base = founding[p].base
        /\ Entered(p)' <=> Entered(p) \/ p = q
  BY <1>1 DEF Entered, FoundingRows
<1> QED BY <1>1, <1>2, <1>3 DEF SlugAlone, Founder

LEMMA SlugCommitted ==
  ASSUME OnServer, SlugAlone, NEW q \in Requests, CommitFounding(q)
  PROVE  SlugAlone'
<1> DEFINE s == founding[q].slug
<1>1. /\ founding \in [Requests -> FoundingRows]
      /\ founding[q].step = "row"
      /\ Answer(q, "created")
      /\ organization \in [Slugs -> OrganizationRows]
      /\ organization' = [organization EXCEPT ![s] =
                            [creator |-> founding[q].user, domain |-> Domain(q)]]
  BY RowsAre DEF OnServer, CommitFounding
<1>2. \A p \in Requests :
        /\ founding'[p].slug = founding[p].slug /\ founding'[p].base = founding[p].base
        /\ Entered(p)' => Entered(p) /\ p # q
  BY <1>1 DEF Entered, Answer, FoundingRows
<1>3. Founder(founding[q]) /\ founding[q].user # NoUser
  BY <1>1, DomainsAssumption DEF OnServer, FoundersKnown, Founder
<1>4. Rows \subseteq Rows' /\ Rows' \subseteq Rows \cup {s}
  BY <1>1, <1>3 DEF Rows, NoRow
<1>5. Entered(q)
  BY <1>1 DEF Entered
<1> QED BY <1>2, <1>4, <1>5 DEF SlugAlone

LEMMA SlugsStep ==
  ASSUME OnServer, SlugAlone, [Next]_vars
  PROVE  SlugAlone'
<1>1. founding \in [Requests -> FoundingRows]
  BY RowsAre DEF OnServer
<1>2. ASSUME NEW q \in Requests, FoundingStep(q) PROVE SlugAlone'
  <2>1. ASSUME NEW step \in Answers, Answer(q, step), UNCHANGED organization
        PROVE  SlugAlone'
    BY <1>1, <2>1, SlugsKept DEF Answer, Answers, Refused, Entered, FoundingRows
  <2>2. CASE RefuseUnknown(q) \/ RefuseDomain(q)
    BY <2>1, <2>2 DEF RefuseUnknown, RefuseDomain, Answers, Refused
  <2>3. CASE RefuseSlug(q) /\ founding[q].slug # founding[q].base
    BY <2>1, <2>3 DEF RefuseSlug, Answers, Refused
  <2>4. CASE RefuseSlug(q) /\ founding[q].slug = founding[q].base
    <3> DEFINE second == Suffixed[founding[q].base][founding[q].user]
    <3>1. /\ founding[q].step = "trying" /\ UNCHANGED organization
          /\ founding' = [founding EXCEPT ![q].slug = second]
      BY <2>4 DEF RefuseSlug
    <3> HIDE DEF second
    <3> QED BY <1>1, <3>1, SlugsKept DEF Entered, FoundingRows
  <2>5. CASE EnterDomain(q)
    BY <1>1, <2>5, SlugsKept DEF EnterDomain, Entered, FoundingRows
  <2> QED BY <1>2, <2>2, <2>3, <2>4, <2>5, SlugEntered, SlugCommitted DEF FoundingStep
<1>3. ASSUME NEW q \in Requests, LoseFounding(q) PROVE SlugAlone'
  BY <1>1, <1>3, SlugsKept DEF LoseFounding, AtRest, Entered
<1>4. ASSUME NEW q \in Requests, NEW u \in Users, NEW b \in Bases, BeginFounding(q, u, b)
      PROVE  SlugAlone'
  <2> DEFINE f == [step |-> IF Claims(DomainOf[u]) # {} THEN "domain_in_use" ELSE "trying",
                   user |-> u, base |-> b, slug |-> b, context |-> Claims(DomainOf[u]) = {}]
  <2>1. founding' = [founding EXCEPT ![q] = f] /\ UNCHANGED organization
    BY <1>4 DEF BeginFounding
  <2>2. f.step \notin {"slug", "row"}
    OBVIOUS
  <2> HIDE DEF f
  <2> QED BY <1>1, <2>1, <2>2, SlugsKept DEF Entered
<1>5. ASSUME NEW R, Dismiss(R), UNCHANGED organization PROVE SlugAlone'
  BY <1>5, SlugsKept DEF Dismiss, AtRest, Entered
<1>6. CASE UNCHANGED <<organization, founding>>
  BY <1>6, SlugsKept DEF Entered
<1>7. UNCHANGED vars => UNCHANGED foundingVars
  BY DEF vars
<1> QED BY <1>2, <1>3, <1>4, <1>5, <1>6, <1>7, OnTheServer DEF ComeOrGo, foundingVars

(* A commit meets what the atomic founding asks for: the slug free, the    *)
(* domain unclaimed.                                                       *)
LEMMA CommitFounds ==
  ASSUME OnServer, SlugAlone, NEW q \in Requests, CommitFounding(q)
  PROVE  \E u \in Users, b \in Bases : \E s \in {b, Suffixed[b][u]} : Registry!Found(u, b, s)
<1> DEFINE f == founding[q]
<1>1. f.step = "row" /\ Founder(f)
  BY DEF OnServer, FoundersKnown, CommitFounding
<1>2. f.user \in Users /\ f.base \in Bases /\ f.slug \in {f.base, Suffixed[f.base][f.user]}
  BY <1>1 DEF Founder
<1>3. Registry!Rows = Rows
  BY DEF Registry!Rows, Registry!NoRow, Rows, NoRow
<1>4. f.slug \notin Rows /\ (f.slug # f.base => f.base \in Rows)
  BY <1>1 DEF SlugAlone, Entered
<1>5. DomainOf[f.user] # NoDomain => \A t \in Rows : organization[t].domain # DomainOf[f.user]
  BY <1>1 DEF OnServer, DomainAlone, Domain
<1>6. Registry!Found(f.user, f.base, f.slug)
  BY <1>3, <1>4, <1>5 DEF Registry!Found, CommitFounding, Domain
<1> QED BY <1>2, <1>6

LEMMA OnlyCommitsWrite ==
  ASSUME OnServer, SlugAlone, [Next]_vars
  PROVE  \/ UNCHANGED <<organization, members>>
         \/ ComeOrGo
         \/ \E u \in Users, b \in Bases : \E s \in {b, Suffixed[b][u]} : Registry!Found(u, b, s)
<1>1. ASSUME NEW q \in Requests, FoundingStep(q), ~CommitFounding(q)
      PROVE  UNCHANGED <<organization, members>>
  BY <1>1 DEF FoundingStep, RefuseUnknown, EnterSlug, RefuseSlug, EnterDomain, RefuseDomain
<1>2. ASSUME NEW q \in Requests, LoseFounding(q)
      PROVE  UNCHANGED <<organization, members>>
  BY <1>2 DEF LoseFounding
<1>3. ASSUME NEW q \in Requests, NEW u \in Users, NEW b \in Bases, BeginFounding(q, u, b)
      PROVE  UNCHANGED <<organization, members>>
  BY <1>3 DEF BeginFounding
<1>4. UNCHANGED vars => UNCHANGED foundingVars
  BY DEF vars
<1> QED BY <1>1, <1>2, <1>3, <1>4, CommitFounds, OnTheServer DEF foundingVars

LEMMA InitSlugs == Init => SlugAlone
  BY DEF Init, FoundingInit, SlugAlone, Entered, AtRest

(* No two foundings under way have entered one slug, and none has entered  *)
(* a slug that is taken: organizations_slug_key (create_organization).     *)
THEOREM SlugInvariant == Spec => []SlugAlone
<1>1. IInv /\ SlugAlone /\ [Next]_vars => SlugAlone'
  BY SlugsStep DEF IInv
<1> QED BY <1>1, InitSlugs, Invariant, PTL DEF Spec

(* Concurrent foundings never share a slug or replace an organization:     *)
(* each is as if made in one step (create_organization).                   *)
THEOREM FoundingsAreAtomic == Spec => FoundingsActAtOnce
<1>1. OnServer /\ SlugAlone /\ [Next]_vars =>
        [\/ UNCHANGED organization
         \/ \E u \in Users, b \in Bases : \E s \in {b, Suffixed[b][u]} :
              Registry!Found(u, b, s)]_foundingVars
  BY OnlyCommitsWrite DEF ComeOrGo
<1>2. IInv => OnServer
  BY DEF IInv
<1> QED BY <1>1, <1>2, Invariant, SlugInvariant, PTL DEF Spec, FoundingsActAtOnce

(* Foundings, and people who come and go, implement the registry.          *)
THEOREM FoundingImplementsRegistry == Spec => ImplementsRegistry
<1>1. Init => Registry!Init
  BY DEF Init, FoundingInit, Registry!Init, Registry!NoRow, NoRow
<1>2. ComeOrGo => Registry!Next
  <2>1. Registry!Rows = Rows
    BY DEF Registry!Rows, Registry!NoRow, Rows, NoRow
  <2> QED BY <2>1, ContextAssumption
          DEF ComeOrGo, Leave, Registry!Next, Registry!Join, Registry!Leave
<1>3. OnServer /\ SlugAlone /\ [Next]_vars => [Registry!Next]_<<organization, members>>
  BY <1>2, OnlyCommitsWrite DEF Registry!Next
<1>4. IInv => OnServer
  BY DEF IInv
<1> QED BY <1>1, <1>3, <1>4, Invariant, SlugInvariant, PTL
        DEF Spec, ImplementsRegistry, Registry!Spec, Registry!vars
=============================================================================
