------------------------- MODULE OrganizationContext -------------------------
(***************************************************************************)
(* One person's browser over OrganizationFounding: tabs that share a       *)
(* session and localStorage, and in each the provider that lists the       *)
(* person's organizations and shows one of them (OrganizationContext.jsx). *)
(* Calls are asynchronous and may overtake each other; a refresh is        *)
(* current until the provider's version moves on.  Every other request of  *)
(* a tab goes to the organization that localStorage names when it is sent  *)
(* (organizationPath).                                                     *)
(*                                                                         *)
(* A provider lives as long as its tab sees a session (ProtectedRoute).    *)
(* What it had begun goes on after its end and may still refresh (orphan). *)
(***************************************************************************)
EXTENDS OrganizationFounding

CONSTANTS
  Me,
  Tabs,
  Calls,      \* asynchronous functions under way at a time, of all tabs
  NoTab, NoRequest

ASSUME ContextAssumption ==
  /\ Me \in Users
  /\ NoTab \notin Tabs /\ NoRequest \notin Requests

VARIABLES
  signedIn,   \* the session that tabs share
  stored,     \* tibbou.organizationId in localStorage
  tab,        \* the provider of each tab
  call,       \* founding, accepting and refreshing, each up to its end
  intent,     \* history: what a tab's user has selected, until the tab refreshes
  strayed     \* history: what is stored is from a refresh that outlived its provider

browser == <<signedIn, stored, tab, call, intent, strayed>>
vars    == <<foundingVars, browser>>

NoProvider == [mounted |-> FALSE, rows |-> {}, shown |-> NoSlug, loading |-> FALSE,
               error |-> FALSE]
NoCall     == [step |-> "idle", tab |-> NoTab, request |-> NoRequest, current |-> FALSE,
               orphan |-> FALSE, again |-> FALSE, preferred |-> NoSlug, rows |-> {}]

(* With one organization for a domain, and an owner for each from birth.   *)
TypeOK ==
  /\ FoundingTypeOK /\ FoundedWhole
  /\ signedIn \in BOOLEAN /\ strayed \in BOOLEAN
  /\ stored \in Slugs \cup {NoSlug}
  /\ tab \in [Tabs -> [mounted : BOOLEAN, rows : SUBSET Slugs, shown : Slugs \cup {NoSlug},
                       loading : BOOLEAN, error : BOOLEAN]]
  /\ call \in [Calls -> [step : {"idle", "founding", "joining", "asked", "listed"},
                         tab : Tabs \cup {NoTab}, request : Requests \cup {NoRequest},
                         current : BOOLEAN, orphan : BOOLEAN, again : BOOLEAN,
                         preferred : Slugs \cup {NoSlug}, rows : SUBSET Slugs]]
  /\ intent \in [Tabs -> Slugs \cup {NoSlug}]

Init ==
  /\ FoundingInit
  /\ signedIn = FALSE /\ strayed = FALSE /\ stored = NoSlug
  /\ tab = [t \in Tabs |-> NoProvider]
  /\ call = [c \in Calls |-> NoCall]
  /\ intent = [t \in Tabs |-> NoSlug]

Mine == {s \in Slugs : <<s, Me>> \in members}

Of(t) == {c \in Calls : call[c].tab = t /\ ~call[c].orphan}

(* refreshVersion moves on.                                                *)
Outdated(t) ==
  [c \in Calls |-> IF c \in Of(t) THEN [call[c] EXCEPT !.current = FALSE] ELSE call[c]]

(* The beginning of refresh(preferred).                                    *)
Asked(t, preferred) ==
  [NoCall EXCEPT !.step = "asked", !.tab = t, !.current = TRUE, !.preferred = preferred]

Asking(t) ==
  /\ \E c \in Calls : call[c].step = "idle" /\ call' = [Outdated(t) EXCEPT ![c] = Asked(t, NoSlug)]
  /\ intent' = [intent EXCEPT ![t] = NoSlug]

Sending(sent) ==
  \E c \in Calls : call[c].step = "idle" /\ call' = [call EXCEPT ![c] = sent]

Ready(t) == tab[t].mounted /\ ~tab[t].loading /\ ~tab[t].error

(* A form waits for its answer.  A refresh takes it off the page, and what *)
(* it sent is no longer current; a form shown again does not wait.         *)
Waiting(t, steps) == \E c \in Of(t) : call[c].step \in steps /\ call[c].current

-----------------------------------------------------------------------------
(* Sessions *)

SignIn ==
  /\ ~signedIn /\ signedIn' = TRUE
  /\ UNCHANGED <<foundingVars, stored, tab, call, intent, strayed>>

SignOut ==
  /\ signedIn /\ signedIn' = FALSE
  /\ UNCHANGED <<foundingVars, stored, tab, call, intent, strayed>>

(* onAuthStateChange: a provider is mounted, and its effect refreshes.     *)
Mount(t) ==
  /\ signedIn /\ ~tab[t].mounted
  /\ tab' = [tab EXCEPT ![t] = [NoProvider EXCEPT !.mounted = TRUE, !.loading = TRUE]]
  /\ Asking(t)
  /\ UNCHANGED <<foundingVars, signedIn, stored, strayed>>

(* ProtectedRoute leaves the provider out: its effect cleans up, and never *)
(* runs again without a session.                                           *)
Unmount(t) ==
  /\ ~signedIn /\ tab[t].mounted
  /\ tab' = [tab EXCEPT ![t] = NoProvider]
  /\ call' = [c \in Calls |-> IF c \in Of(t)
                THEN [call[c] EXCEPT !.current = FALSE, !.orphan = TRUE] ELSE call[c]]
  /\ intent' = [intent EXCEPT ![t] = NoSlug]
  /\ UNCHANGED <<foundingVars, signedIn, stored, strayed>>

-----------------------------------------------------------------------------
(* Refreshing *)

(* A new session object, and changes of one's own membership.              *)
Refresh(t) ==
  /\ signedIn /\ tab[t].mounted
  /\ Asking(t)
  /\ tab' = [tab EXCEPT ![t].loading = TRUE]
  /\ UNCHANGED <<foundingVars, signedIn, stored, strayed>>

(* The server lists the person's organizations.                            *)
List(c) ==
  /\ call[c].step = "asked"
  /\ call' = [call EXCEPT ![c].step = "listed", ![c].rows = Mine]
  /\ UNCHANGED <<foundingVars, signedIn, stored, tab, intent, strayed>>

(* The organization preferred, or else the stored one, or else the first.  *)
Choices(c) ==
  LET rows == call[c].rows IN
  IF call[c].preferred \in rows THEN {call[c].preferred}
  ELSE IF stored \in rows THEN {stored} ELSE rows

Settled(t, rows, s) ==
  [tab EXCEPT ![t].rows = rows, ![t].shown = s, ![t].loading = FALSE, ![t].error = FALSE]

(* refresh returns, whether or not its answer was used.  Its caller may    *)
(* refresh again: acceptInvitation did once, EntryStep does so after it.   *)
Return(c, settled) ==
  LET t == call[c].tab
      next == [Asked(t, call[c].preferred) EXCEPT !.orphan = call[c].orphan] IN
  IF ~call[c].again
  THEN /\ call' = [call EXCEPT ![c] = NoCall] /\ tab' = settled
       /\ UNCHANGED intent
  ELSE IF call[c].orphan
  THEN /\ call' = [call EXCEPT ![c] = next] /\ tab' = settled
       /\ UNCHANGED intent
  ELSE /\ call' = [Outdated(t) EXCEPT ![c] = next]
       /\ tab' = [settled EXCEPT ![t].loading = TRUE]
       /\ intent' = [intent EXCEPT ![t] = NoSlug]

(* The answer is used while its refresh is current; an orphan's provider   *)
(* is gone, but localStorage is not.                                       *)
Use(c, s) ==
  /\ stored' = s
  /\ strayed' = call[c].orphan
  /\ Return(c, IF call[c].orphan THEN tab ELSE Settled(call[c].tab, call[c].rows, s))

Drop(c) == Return(c, tab) /\ UNCHANGED <<stored, strayed>>

SettleAnyhow(c) ==
  /\ call[c].step = "listed"
  /\ \E s \in Choices(c) : Use(c, s)
  /\ UNCHANGED <<foundingVars, signedIn>>

Settle(c) ==
  /\ call[c].step = "listed"
  /\ \E s \in Choices(c) : IF call[c].current THEN Use(c, s) ELSE Drop(c)
  /\ UNCHANGED <<foundingVars, signedIn>>

(* Nothing to show: invitations are asked for before the answer is used.   *)
SettleEmpty(c) ==
  /\ call[c].step = "listed" /\ call[c].rows = {}
  /\ IF call[c].current THEN Use(c, NoSlug) ELSE Drop(c)
  /\ UNCHANGED <<foundingVars, signedIn>>

(* A request is refused or lost: getOrganizations, or getInvitations.      *)
FailRefresh(c) ==
  /\ call[c].step = "asked" \/ (call[c].step = "listed" /\ call[c].rows = {})
  /\ tab' = IF call[c].current /\ ~call[c].orphan
            THEN [tab EXCEPT ![call[c].tab].error = TRUE, ![call[c].tab].loading = FALSE]
            ELSE tab
  /\ call' = [call EXCEPT ![c] = NoCall]
  /\ UNCHANGED <<foundingVars, signedIn, stored, intent, strayed>>

-----------------------------------------------------------------------------
(* Choosing, founding and joining *)

(* selectOrganization                                                      *)
SelectForgetful(t, s) ==
  /\ Ready(t) /\ s \in tab[t].rows /\ tab[t].shown # NoSlug
  /\ tab' = [tab EXCEPT ![t].shown = s]
  /\ call' = Outdated(t)
  /\ intent' = [intent EXCEPT ![t] = s]
  /\ UNCHANGED <<foundingVars, signedIn, stored, strayed>>

Select(t, s) ==
  /\ Ready(t) /\ s \in tab[t].rows /\ tab[t].shown # NoSlug
  /\ tab' = [tab EXCEPT ![t].shown = s]
  /\ stored' = s /\ strayed' = FALSE
  /\ call' = Outdated(t)
  /\ intent' = [intent EXCEPT ![t] = s]
  /\ UNCHANGED <<foundingVars, signedIn>>

(* OrganizationStep, offered to a person without organization, also while  *)
(* an acceptance is under way.                                             *)
Create(t, q, b) ==
  /\ Ready(t) /\ signedIn /\ tab[t].shown = NoSlug /\ ~Waiting(t, {"founding"})
  /\ BeginFounding(q, Me, b)
  /\ Sending([NoCall EXCEPT !.step = "founding", !.tab = t, !.request = q, !.current = TRUE])
  /\ UNCHANGED <<signedIn, stored, tab, intent, strayed>>

(* EntryStep: an organization that invited the person (acceptInvitation).  *)
Accept(t, s) ==
  /\ Ready(t) /\ signedIn /\ tab[t].shown = NoSlug /\ ~Waiting(t, {"founding", "joining"})
  /\ s \in Rows \ Mine
  /\ members' = members \cup {<<s, Me>>}
  /\ Sending([NoCall EXCEPT !.step = "joining", !.tab = t, !.preferred = s,
                               !.again = TRUE, !.current = TRUE])
  /\ UNCHANGED <<organization, founding, signedIn, stored, tab, intent, strayed>>

(* What a call waits for, if it waits for a founding.                      *)
Awaited(c) == {q \in Requests : call[c].step = "founding" /\ call[c].request = q}

Joined(c) ==
  CASE call[c].step = "joining"  -> {call[c].preferred}
    [] call[c].step = "founding" ->
         {founding[q].slug : q \in {p \in Awaited(c) : founding[p].step = "created"}}
    [] OTHER -> {}

Dismiss(requests) == founding' = [q \in Requests |-> IF q \in requests THEN AtRest ELSE founding[q]]

(* The answer is there: refresh(organization.id), in the provider that     *)
(* began, even if its tab has another one by now.                          *)
Follow(c) ==
  /\ signedIn
  /\ \E s \in Joined(c) :
       IF call[c].orphan
       THEN /\ call' = [call EXCEPT ![c] = [Asked(call[c].tab, s) EXCEPT
                          !.orphan = TRUE, !.again = call[c].again]]
            /\ UNCHANGED <<tab, intent>>
       ELSE /\ call' = [Outdated(call[c].tab) EXCEPT ![c] =
                          [Asked(call[c].tab, s) EXCEPT !.again = call[c].again]]
            /\ tab' = [tab EXCEPT ![call[c].tab].loading = TRUE]
            /\ intent' = [intent EXCEPT ![call[c].tab] = NoSlug]
  /\ Dismiss(Awaited(c))
  /\ UNCHANGED <<organization, members, signedIn, stored, strayed>>

(* The answer is an error, is lost, or comes when the session has ended.   *)
GiveUp(c) ==
  /\ call[c].step \in {"founding", "joining"}
  /\ \A q \in Awaited(c) : founding[q].step \in Answers \cup {"idle"}
  /\ call' = [call EXCEPT ![c] = NoCall]
  /\ Dismiss(Awaited(c))
  /\ UNCHANGED <<organization, members, signedIn, stored, tab, intent, strayed>>

-----------------------------------------------------------------------------
(* Other people, on the server *)

Found(q, u, b) == u # Me /\ BeginFounding(q, u, b) /\ UNCHANGED browser

Hear(q) ==
  /\ founding[q].step \in Answers /\ \A c \in Calls : q \notin Awaited(c)
  /\ Dismiss({q})
  /\ UNCHANGED <<organization, members, browser>>

(* The person is added to an organization, or leaves one that has others.  *)
Enter(s) ==
  /\ s \in Rows \ Mine /\ members' = members \cup {<<s, Me>>}
  /\ UNCHANGED <<organization, founding, browser>>

Leave(s) ==
  /\ s \in Mine /\ \E u \in Users \ {Me} : <<s, u>> \in members
  /\ members' = members \ {<<s, Me>>}
  /\ UNCHANGED <<organization, founding, browser>>

-----------------------------------------------------------------------------
Server ==
  \/ \E q \in Requests : (FoundingStep(q) \/ LoseFounding(q)) /\ UNCHANGED browser
  \/ \E q \in Requests, u \in Users, b \in Bases : Found(q, u, b)
  \/ \E q \in Requests : Hear(q)
  \/ \E s \in Slugs : Enter(s) \/ Leave(s)

Provider(t) ==
  \/ Mount(t) \/ Unmount(t) \/ Refresh(t)
  \/ \E s \in Slugs : Select(t, s) \/ Accept(t, s)
  \/ \E q \in Requests, b \in Bases : Create(t, q, b)

Next ==
  \/ SignIn \/ SignOut \/ Server
  \/ \E t \in Tabs : Provider(t)
  \/ \E c \in Calls :
       \/ List(c) \/ Settle(c) \/ SettleEmpty(c) \/ FailRefresh(c)
       \/ Follow(c) \/ GiveUp(c)

Spec == Init /\ [][Next]_vars

-----------------------------------------------------------------------------
(* Properties *)

(* An answer that was overtaken never takes the person out of the          *)
(* organization they have chosen since (refresh, selectOrganization).      *)
SelectionStands ==
  \A t \in Tabs : intent[t] # NoSlug => tab[t].shown = intent[t]

(* The page of a workspace.                                                *)
Showing(t) == tab[t].mounted /\ ~tab[t].loading /\ tab[t].shown # NoSlug

(* Requests of a tab go to the organization it shows: what the person      *)
(* reads, edits and runs is of the workspace named at the top of the page  *)
(* (organizationPath, TopBar), unless a refresh that outlived its provider *)
(* has chosen last.                                                        *)
RequestsGoToShown == \A t \in Tabs : Showing(t) /\ ~strayed => stored = tab[t].shown

(* A selection, in whichever tab, takes no tab whose requests go to the    *)
(* organization it shows to a state where they do not: the selector        *)
(* "identifies your current workspace; choose another organization there"  *)
(* (user-manual.md:33).  Of the tab that selects this is true.             *)
SelectorsNameWorkspace ==
  [][\A u, t \in Tabs, s \in Slugs :
       Select(u, s) /\ Showing(t) /\ stored = tab[t].shown => stored' = tab'[t].shown]_vars
=============================================================================
