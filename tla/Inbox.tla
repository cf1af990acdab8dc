-------------------------------- MODULE Inbox --------------------------------
(***************************************************************************)
(* The inbox of one domain: the workers add triggered_alerts, the pages of *)
(* TriggeredAlertsController list them, all of them or the new ones, a     *)
(* badge on every page counts the new ones, and a link marks them read.    *)
(*                                                                         *)
(* A user with domain_user_group_permissions sees only the alerts of the   *)
(* servers in his groups.  Nothing removes a group_servers or permission   *)
(* row when the server or the group it names is destroyed.                 *)
(*                                                                         *)
(* A request first collects the servers of the user (before_filter), then  *)
(* reads the alerts and renders; a page shown in a browser tab may be old  *)
(* when its link is followed.                                              *)
(***************************************************************************)
EXTENDS Integers, FiniteSets

CONSTANTS
  Servers,    \* the servers of the domain
  Groups,     \* its groups (one nothing refers to yet stands for one not created yet)
  MoreGroups, \* has it another group, which stays and which no row refers to?
  Users,      \* its users
  Grantable,  \* the users that may be restricted: all but the account owner
  Tabs,       \* browser tabs
  UserOf,     \* the user of each tab
  PageSize,   \* paginates_per of TriggeredAlert, 25
  MaxAlerts,  \* bound: ids of triggered_alerts
  MaxPage,    \* bound: pages asked for
  MaxCopies   \* bound: equal rows of group_servers and of permissions

ASSUME SetsAssumption ==
  Grantable \subseteq Users /\ UserOf \in [Tabs -> Users] /\ MoreGroups \in BOOLEAN
ASSUME BoundsAssumption ==
  /\ PageSize \in Nat \ {0} /\ MaxAlerts \in Nat
  /\ MaxPage \in Nat \ {0} /\ MaxCopies \in Nat

Ids == 1..MaxAlerts

VARIABLES
  servers,    \* the servers that have not been destroyed
  groups,     \* the groups that have not been destroyed
  inGroup,    \* inGroup[g][s]: the group_servers rows of group g for server s
  permits,    \* permits[u][g]: the permissions of user u for group g
  links,      \* pairs <<u, g>>: an open page has a link that removes u's permission for g
  triggered,  \* the triggered_alerts table: its ids mapped to their servers
  lastId,     \* the highest id used so far
  mark,       \* domain_users.triggered_alert_id; NULL is read as 0
  tab,        \* the tabs
  seen        \* seen[u]: the highest id on the pages shown to u so far (history)

vars == <<servers, groups, inGroup, permits, links, triggered, lastId, mark, tab, seen>>
Access == <<servers, groups, inGroup, permits, links>>

Tab == [st: {"idle", "begun", "shown", "failed", "away"},
        list: {"index", "new"}, page: 1..MaxPage,
        restricted: BOOLEAN,       \* had the user permissions when it was last asked
        granted: SUBSET Servers,   \* @servers of the request
        rows: SUBSET Ids,          \* @trigger
        top: 0..MaxAlerts,         \* the id in the link "Mark All Read", 0 without link
        upTo: 0..MaxAlerts]        \* the highest id when the alerts were read (history)

----------------------------------------------------------------------------
\* user_is_restricted_to_these_groups # 0.
Restricted(u) == \E g \in Groups : permits[u][g] > 0

\* The servers of the group_servers rows of a user's groups.
Granted(u) == {s \in Servers : \E g \in Groups : permits[u][g] > 0 /\ inGroup[g][s] > 0}

\* A permission for a destroyed group, or a row for a destroyed server, makes
\* g.group.id or s.id a call on nil: every page of the user raises.
Orphaned(u) == \E g \in Groups \ groups : permits[u][g] > 0
Broken(u) == Orphaned(u) \/ ~(Granted(u) \subseteq servers)

Newer(S, i) == {k \in S : k > i}

\* Page p of the ids in S, newest first.
Page(S, p) ==
  {i \in S : Cardinality(Newer(S, i)) \in ((p - 1) * PageSize)..(p * PageSize - 1)}

Unread(u) == {i \in DOMAIN triggered : i > mark[u]}

\* What the badge on a page without page number counts.
Badge(u) ==
  IF Restricted(u)
  THEN {i \in Page(Unread(u), 1) : triggered[i] \in servers \cap Granted(u)}
  ELSE Unread(u)

\* The ids the query of a request selects, before the restriction.
Selected(t) ==
  Page(IF tab[t].list = "new" THEN Unread(UserOf[t]) ELSE DOMAIN triggered, tab[t].page)

\* What the page lists.  For a restricted user the ids left of the page are
\* searched again, and the result is paged by the same number again.
Rows_PagedOnce(t) ==
  LET own == {i \in Selected(t) : triggered[i] \in servers \cap tab[t].granted}
  IN  IF Restricted(UserOf[t]) THEN own ELSE Selected(t)

Rows(t) ==
  LET own == {i \in Selected(t) : triggered[i] \in servers \cap tab[t].granted}
  IN  IF Restricted(UserOf[t]) THEN Page(own, tab[t].page) ELSE Selected(t)

----------------------------------------------------------------------------
Blank == [st |-> "idle", list |-> "index", page |-> 1, restricted |-> FALSE,
          granted |-> {}, rows |-> {}, top |-> 0, upTo |-> 0]

Init ==
  /\ servers = Servers /\ groups = Groups
  /\ inGroup = [g \in Groups |-> [s \in Servers |-> 0]]
  /\ permits = [u \in Users |-> [g \in Groups |-> 0]]
  /\ links = {}
  /\ triggered = [i \in {} |-> "none"]
  /\ lastId = 0
  /\ mark = [u \in Users |-> 0]
  /\ tab = [t \in Tabs |-> Blank]
  /\ seen = [u \in Users |-> 0]

----------------------------------------------------------------------------
\* The workers, which may still hold a server that has been destroyed, and
\* the purge of the rows that are older than a month (the lowest ids).

Trigger(s) ==
  /\ lastId < MaxAlerts
  /\ lastId' = lastId + 1
  /\ triggered' = [i \in DOMAIN triggered \cup {lastId + 1} |->
                     IF i = lastId + 1 THEN s ELSE triggered[i]]
  /\ UNCHANGED <<Access, mark, tab, seen>>

Purge(i) ==
  /\ i \in DOMAIN triggered /\ \A k \in DOMAIN triggered : i <= k
  /\ triggered' = [k \in DOMAIN triggered \ {i} |-> triggered[k]]
  /\ UNCHANGED <<Access, lastId, mark, tab, seen>>

----------------------------------------------------------------------------
\* Servers, groups and permissions, by somebody who is not restricted.  The
\* form or the link of a request may be older than what it is about, and the
\* controllers check only what is said here.

AlertsStay == UNCHANGED <<triggered, lastId, mark, tab, seen>>
AccessStep == servers # {} /\ AlertsStay

DestroyServer(s) ==
  /\ s \in servers /\ servers' = servers \ {s}
  /\ AccessStep /\ UNCHANGED <<groups, inGroup, permits, links>>

DestroyGroup(g) ==
  /\ g \in groups /\ groups' = groups \ {g}
  /\ AccessStep /\ UNCHANGED <<servers, inGroup, permits, links>>

AddServer(g, s) ==
  /\ inGroup[g][s] < MaxCopies
  /\ inGroup' = [inGroup EXCEPT ![g][s] = @ + 1]
  /\ AccessStep /\ UNCHANGED <<servers, groups, permits, links>>

\* One of several equal rows is removed.
RemoveServer_Unchecked(g, s) ==
  /\ g \in groups
  /\ inGroup' = [inGroup EXCEPT ![g][s] = @ - 1]
  /\ AccessStep /\ UNCHANGED <<servers, groups, permits, links>>

RemoveServer(g, s) ==
  /\ g \in groups /\ inGroup[g][s] > 0
  /\ inGroup' = [inGroup EXCEPT ![g][s] = @ - 1]
  /\ AccessStep /\ UNCHANGED <<servers, groups, permits, links>>

\* DomainUserGroupPermissionsController, whose filters want some group to exist.
PermissionStep(u) == u \in Grantable /\ (MoreGroups \/ groups # {}) /\ AccessStep

\* index leaves out the permissions whose group is gone, and with them the
\* link that removes them; a page that is left or loaded again offers no more.
ListPermissions(u) ==
  /\ links' = links \cup {<<u, g>> : g \in {h \in groups : permits[u][h] > 0}}
  /\ PermissionStep(u) /\ UNCHANGED <<servers, groups, inGroup, permits>>

LeavePage(p) ==
  /\ p \in links /\ links' = links \ {p}
  /\ AlertsStay /\ UNCHANGED <<servers, groups, inGroup, permits>>

Permit(u, g) ==
  /\ permits[u][g] < MaxCopies
  /\ permits' = [permits EXCEPT ![u][g] = @ + 1]
  /\ PermissionStep(u) /\ UNCHANGED <<servers, groups, inGroup, links>>

Revoke_AlsoHidden(u, g) ==
  /\ permits[u][g] > 0
  /\ permits' = [permits EXCEPT ![u][g] = @ - 1]
  /\ PermissionStep(u) /\ UNCHANGED <<servers, groups, inGroup, links>>

Revoke(u, g) ==
  /\ <<u, g>> \in links /\ permits[u][g] > 0
  /\ permits' = [permits EXCEPT ![u][g] = @ - 1]
  /\ PermissionStep(u) /\ UNCHANGED <<servers, groups, inGroup, links>>

----------------------------------------------------------------------------
\* TriggeredAlertsController.

Become(t, r) == tab' = [tab EXCEPT ![t] = r]

\* The filters that end a request before its action: without servers every
\* page leads to the one about the agents (check_server_num), and collecting
\* the user's servers may raise (set_servers).
Stopped(u) == servers = {} \/ Broken(u)
Elsewhere == [Blank EXCEPT !.st = IF servers = {} THEN "away" ELSE "failed"]

\* set_servers.  For an unrestricted user @servers stays nil.
SetServers(t, list, p) ==
  LET u == UserOf[t] IN
  /\ tab[t].st # "begun"
  /\ IF Stopped(u)
     THEN Become(t, Elsewhere)
     ELSE Become(t, [Blank EXCEPT !.st = "begun", !.list = list, !.page = p,
                                  !.restricted = Restricted(u), !.granted = Granted(u)])
  /\ UNCHANGED <<Access, triggered, lastId, mark, seen>>

\* index or new, with the badge in the layout.  A user whose first permission
\* was granted since has no @servers to look an alert's server up in.
Fails(t) ==
  \/ Broken(UserOf[t])
  \/ /\ Restricted(UserOf[t]) /\ ~tab[t].restricted
     /\ \E i \in Selected(t) : triggered[i] \in servers

Newest(S) == IF S = {} THEN 0 ELSE CHOOSE i \in S : \A k \in S : k <= i
Oldest(S) == IF S = {} THEN 0 ELSE CHOOSE i \in S : \A k \in S : i <= k

Show_LinkToOldest(t) ==
  LET u == UserOf[t] IN
  /\ tab[t].st = "begun"
  /\ IF Fails(t)
     THEN Become(t, [Blank EXCEPT !.st = "failed"]) /\ UNCHANGED seen
     ELSE /\ Become(t, [tab[t] EXCEPT !.st = "shown", !.restricted = Restricted(u),
                          !.rows = Rows(t), !.top = Oldest(Rows(t)), !.upTo = lastId])
          /\ seen' = [seen EXCEPT ![u] = Newest(Rows(t) \cup {@})]
  /\ UNCHANGED <<Access, triggered, lastId, mark>>

Show(t) ==
  LET u == UserOf[t] IN
  /\ tab[t].st = "begun"
  /\ IF Fails(t)
     THEN Become(t, [Blank EXCEPT !.st = "failed"]) /\ UNCHANGED seen
     ELSE /\ Become(t, [tab[t] EXCEPT !.st = "shown", !.restricted = Restricted(u),
                          !.rows = Rows(t), !.top = Newest(Rows(t)), !.upTo = lastId])
          /\ seen' = [seen EXCEPT ![u] = Newest(Rows(t) \cup {@})]
  /\ UNCHANGED <<Access, triggered, lastId, mark>>

\* The link "Mark All Read" of the list of new alerts; another tab may have
\* set a higher mark since.
Mark_Latest(t) ==
  LET u == UserOf[t] IN
  /\ tab[t].st = "shown" /\ tab[t].list = "new" /\ tab[t].top > 0
  /\ IF Stopped(u)
     THEN Become(t, Elsewhere) /\ UNCHANGED mark
     ELSE Become(t, Blank) /\ mark' = [mark EXCEPT ![u] = lastId]
  /\ UNCHANGED <<Access, triggered, lastId, seen>>

Mark(t) ==
  LET u == UserOf[t] IN
  /\ tab[t].st = "shown" /\ tab[t].list = "new" /\ tab[t].top > 0
  /\ IF Stopped(u)
     THEN Become(t, Elsewhere) /\ UNCHANGED mark
     ELSE Become(t, Blank) /\ mark' = [mark EXCEPT ![u] = tab[t].top]
  /\ UNCHANGED <<Access, triggered, lastId, seen>>

RequestStep(t) ==
  \/ \E list \in {"index", "new"}, p \in 1..MaxPage : SetServers(t, list, p)
  \/ Show(t) \/ Mark(t)

GroupStep(g) ==
  \/ DestroyGroup(g)
  \/ \E s \in Servers : AddServer(g, s) \/ RemoveServer(g, s)
  \/ \E u \in Users : Permit(u, g) \/ Revoke(u, g) \/ LeavePage(<<u, g>>)

Next ==
  \/ \E s \in Servers : Trigger(s) \/ DestroyServer(s)
  \/ \E i \in Ids : Purge(i)
  \/ \E u \in Users : ListPermissions(u)
  \/ \E g \in Groups : GroupStep(g)
  \/ \E t \in Tabs : RequestStep(t)

Spec == Init /\ [][Next]_vars

----------------------------------------------------------------------------
TypeOK ==
  /\ servers \subseteq Servers /\ groups \subseteq Groups
  /\ inGroup \in [Groups -> [Servers -> 0..MaxCopies]]
  /\ permits \in [Users -> [Groups -> 0..MaxCopies]]
  /\ links \subseteq Users \X Groups
  /\ lastId \in 0..MaxAlerts
  /\ DOMAIN triggered \subseteq 1..lastId /\ triggered \in [DOMAIN triggered -> Servers]
  /\ mark \in [Users -> 0..MaxAlerts]
  /\ tab \in [Tabs -> Tab]
  /\ seen \in [Users -> 0..MaxAlerts]

\* However old the page is whose link a user follows, an alert newer than all
\* the alerts he was shown stays unread (mark and new.html.erb, line 2).
NewStayUnread ==
  \A u \in Users, i \in DOMAIN triggered : i > seen[u] => i \in Unread(u)

\* A restricted user never gets anything on a page after the first: what is
\* left of such a page is paged again (lines 16 and 41 of the controller).
\* His alerts behind a page full of others can be reached by no page number.
LaterPagesEmpty ==
  \A t \in Tabs : tab[t].st = "shown" /\ tab[t].restricted /\ tab[t].page > 1 => tab[t].rows = {}

\* "Mark All Read" on the first page of the new alerts leaves the badge only
\* what came after the page was read, what the user had no access to then, and
\* for a restricted user the alerts of destroyed servers.
MarkClearsBadge ==
  [][\A t \in Tabs :
       tab[t].st = "shown" /\ tab[t].page = 1 /\ tab'[t].st = "idle" =>
         \A i \in Badge(UserOf[t])' :
           \/ i > tab[t].upTo
           \/ tab[t].restricted /\ triggered[i] \notin servers \cap tab[t].granted]_vars

\* Once a group he has a permission for is destroyed, no page of a user works
\* any more.  Only a page loaded before that can repair it; when none is left
\* open, no form or link, however old, does: the list of his permissions hides
\* the one to remove (a new membership, which would help, is left out here).
Stranded(u) == \E g \in Groups \ groups : permits[u][g] > 0 /\ <<u, g>> \notin links

LockedOutForGood == [][\A u \in Users : Stranded(u) => Stranded(u)']_vars
=============================================================================
