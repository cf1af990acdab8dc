------------------------------ MODULE Accounts ------------------------------
(***************************************************************************)
(* The account of one customer: it is provisioned through the API          *)
(* (ApiController#add_user), users ask for access by visiting the domain   *)
(* (ApplicationController#verify_domain_user), those who have it grant,    *)
(* withdraw and remove it (UserManagementController), as far as the limit  *)
(* on the active users allows.                                             *)
(*                                                                         *)
(* Of the rows a user may have in domain_users everything reads the first. *)
(* Nothing is in a transaction, no row is unique, and what is counted is   *)
(* counted before it is changed.                                           *)
(***************************************************************************)
EXTENDS Integers, FiniteSets

CONSTANTS
  Owner,      \* the user add_user creates, domains.user_id
  Others,     \* users who registered themselves
  Visits,     \* first visits under way at a time
  Changes,    \* requests to toggle or to remove a member under way at a time
  UserLimit,  \* domains.user_limit
  MaxRows,    \* bound: rows ever created in domain_users
  MaxCancels  \* bound: users who cancel their registration

Users == Others \cup {Owner}

ASSUME NamesAssumption == Owner \notin Others /\ "none" \notin Users
ASSUME SizesAssumption ==
  /\ UserLimit \in Nat \ {0} /\ MaxRows \in Nat /\ MaxCancels \in Nat
  /\ IsFiniteSet(Visits) /\ IsFiniteSet(Changes) /\ Changes # {}

VARIABLES
  created,     \* how far add_user has come: "none", "user", "domain", "all"
  registered,  \* the users table
  suspended,   \* domains.active is 0
  rows,        \* the domain_users table, as a function on the ids in it
  nextId,      \* the id the next row gets
  visit,       \* visitors found to have no row, who are about to get one
  change,      \* the requests to toggle or to remove a member under way
  early        \* the owner's first visit came before add_user's row (history)

vars == <<created, registered, suspended, rows, nextId, visit, change, early>>
Account == <<created, registered, suspended>>
Members == <<rows, nextId, visit, change, early>>

Row == [user: Users, active: {0, 1}]
Change == [st: {"idle", "find", "count", "save"}, id: 1..MaxRows \cup {0}, active: {0, 1}]
NoChange == [st |-> "idle", id |-> 0, active |-> 0]

RowsOf(u) == {i \in DOMAIN rows : rows[i].user = u}

\* domain_users.where(:user_id => u).first: rows come in the order of their ids.
IsFirst(i) == i \in DOMAIN rows /\ \A k \in RowsOf(rows[i].user) : i <= k

\* Host names resolve to the domain once it exists.
Online == created \in {"domain", "all"}

\* What verify_domain_user and verify_active let through.
HasAccess(u) ==
  /\ Online /\ ~suspended /\ u \in registered
  /\ \E i \in RowsOf(u) : IsFirst(i) /\ rows[i].active = 1

SomebodyActs == \E u \in Users : HasAccess(u)

AddRow(u, active) ==
  /\ nextId <= MaxRows
  /\ rows' = [i \in DOMAIN rows \cup {nextId} |->
                IF i = nextId THEN [user |-> u, active |-> active] ELSE rows[i]]
  /\ nextId' = nextId + 1

----------------------------------------------------------------------------
Init ==
  /\ created = "none"
  /\ registered = Others
  /\ suspended = FALSE
  /\ rows = [i \in {} |-> "none"]
  /\ nextId = 1
  /\ visit = [v \in Visits |-> "none"]
  /\ change = [t \in Changes |-> NoChange]
  /\ early = FALSE

----------------------------------------------------------------------------
\* ApiController#add_user.  Nothing validates the domain or its first member,
\* so the branch that takes everything back is never entered; a request that
\* dies stays where it is, and a repetition fails on the e-mail address.

CreateUser ==
  /\ created = "none"
  /\ created' = "user"
  /\ registered' = registered \cup {Owner}
  /\ UNCHANGED <<suspended, Members>>

\* Domain.create, with its services and its API key in one transaction.
CreateDomain ==
  /\ created = "user"
  /\ created' = "domain"
  /\ UNCHANGED <<registered, suspended, Members>>

CreateMember ==
  /\ created = "domain"
  /\ created' = "all"
  /\ AddRow(Owner, 1)
  /\ UNCHANGED <<registered, suspended, visit, change, early>>

\* ApiController#suspend_domain; nothing takes it back.
Suspend ==
  /\ Online /\ ~suspended
  /\ suspended' = TRUE
  /\ UNCHANGED <<created, registered, Members>>

\* Devise: a user cancels his registration.  His rows stay.
Gone == (IF created = "none" THEN Others ELSE Users) \ registered

CancelRegistration(u) ==
  /\ u \in registered /\ Cardinality(Gone) < MaxCancels
  /\ registered' = registered \ {u}
  /\ UNCHANGED <<created, suspended, Members>>

----------------------------------------------------------------------------
\* Visit, if it looked for an active row.
Visit_ActiveOnly(v, u) ==
  /\ visit[v] = "none" /\ Online /\ u \in registered
  /\ \A i \in RowsOf(u) : rows[i].active = 0
  /\ visit' = [visit EXCEPT ![v] = u]
  /\ UNCHANGED <<Account, rows, nextId, change, early>>

\* verify_domain_user: a visitor without a row gets one that is pending.  The
\* row is looked up here and created in Pend.
Visit(v, u) ==
  /\ visit[v] = "none" /\ Online /\ u \in registered
  /\ RowsOf(u) = {}
  /\ visit' = [visit EXCEPT ![v] = u]
  /\ UNCHANGED <<Account, rows, nextId, change, early>>

Pend(v) ==
  /\ visit[v] # "none"
  /\ AddRow(visit[v], 0)
  /\ visit' = [visit EXCEPT ![v] = "none"]
  /\ early' = (early \/ (visit[v] = Owner /\ created = "domain"))
  /\ UNCHANGED <<Account, change>>

----------------------------------------------------------------------------
\* UserManagementController.  The page of the users links to the first row of
\* each user who is still registered.

\* verify_not_owner: of a user who is gone it reads the id of nil and raises.
NotOwner_Anybody(i) == rows[i].user \in registered
NotOwner(i) == rows[i].user # Owner /\ rows[i].user \in registered

\* The filters in front of toggle_activation and destroy: somebody has access,
\* the domain is not suspended, the row is there and is not the owner's.  Behind
\* the first of them the answers only change from yes to no, so that a request
\* the later ones let through is one they would have let through then.  Nothing
\* asks again: the domain may be suspended, the member gone or the row removed
\* before the row is found.
Filters_AnyRow(c, i) ==
  /\ change[c].st = "idle" /\ SomebodyActs
  /\ i \in DOMAIN rows /\ NotOwner(i)
  /\ change' = [change EXCEPT ![c] = [NoChange EXCEPT !.st = "find", !.id = i]]
  /\ UNCHANGED <<Account, rows, nextId, visit, early>>

Filters(c, i) ==
  /\ change[c].st = "idle" /\ SomebodyActs
  /\ IsFirst(i) /\ NotOwner(i)
  /\ change' = [change EXCEPT ![c] = [NoChange EXCEPT !.st = "find", !.id = i]]
  /\ UNCHANGED <<Account, rows, nextId, visit, early>>

\* toggle_activation loads the row, if it is still there, ...
ToggleLoad_Swapped(c) ==
  LET i == change[c].id IN
  /\ change[c].st = "find"
  /\ change' = [change EXCEPT ![c] = IF i \notin DOMAIN rows THEN NoChange
                                     ELSE [@ EXCEPT !.st = "count", !.active = rows[i].active - 1]]
  /\ UNCHANGED <<Account, rows, nextId, visit, early>>

ToggleLoad(c) ==
  LET i == change[c].id IN
  /\ change[c].st = "find"
  /\ change' = [change EXCEPT ![c] = IF i \notin DOMAIN rows THEN NoChange
                                     ELSE [@ EXCEPT !.st = "count", !.active = 1 - rows[i].active]]
  /\ UNCHANGED <<Account, rows, nextId, visit, early>>

\* ... counts the active rows as they are in the database ...
ActiveRows == {i \in DOMAIN rows : rows[i].active = 1}

CountAllows_OneMore(n, active) == (IF active = 1 THEN n ELSE n - 1) <= UserLimit
CountAllows(n, active) == (IF active = 1 THEN n + 1 ELSE n - 1) <= UserLimit

ToggleCount(c) ==
  /\ change[c].st = "count"
  /\ change' = [change EXCEPT ![c] = IF CountAllows(Cardinality(ActiveRows), @.active)
                                     THEN [@ EXCEPT !.st = "save"] ELSE NoChange]
  /\ UNCHANGED <<Account, rows, nextId, visit, early>>

\* ... and saves the row, which may be gone.
ToggleSave(c) ==
  LET i == change[c].id IN
  /\ change[c].st = "save"
  /\ rows' = IF i \in DOMAIN rows THEN [rows EXCEPT ![i].active = change[c].active] ELSE rows
  /\ change' = [change EXCEPT ![c] = NoChange]
  /\ UNCHANGED <<Account, nextId, visit, early>>

\* destroy finds the row and deletes it, if it is still there.
Remove(c) ==
  /\ change[c].st = "find"
  /\ rows' = [k \in DOMAIN rows \ {change[c].id} |-> rows[k]]
  /\ change' = [change EXCEPT ![c] = NoChange]
  /\ UNCHANGED <<Account, nextId, visit, early>>

----------------------------------------------------------------------------
ApiStep == CreateUser \/ CreateDomain \/ CreateMember \/ Suspend

MemberStep ==
  \/ \E u \in Users : CancelRegistration(u) \/ \E v \in Visits : Visit(v, u)
  \/ \E v \in Visits : Pend(v)
  \/ \E c \in Changes, i \in DOMAIN rows : Filters(c, i)
  \/ \E c \in Changes : ToggleLoad(c) \/ ToggleCount(c) \/ ToggleSave(c) \/ Remove(c)

Next == ApiStep \/ MemberStep

\* Users come and go as they please, and any request may stop half way.
Spec == Init /\ [][Next]_vars

----------------------------------------------------------------------------
TypeOK ==
  /\ created \in {"none", "user", "domain", "all"}
  /\ registered \subseteq Users
  /\ suspended \in BOOLEAN
  /\ DOMAIN rows \subseteq 1..MaxRows /\ rows \in [DOMAIN rows -> Row]
  /\ nextId \in 1..(MaxRows + 1) /\ \A i \in DOMAIN rows : i < nextId
  /\ visit \in [Visits -> Users \cup {"none"}]
  /\ change \in [Changes -> Change]
  /\ early \in BOOLEAN

\* Toggles that count together exceed the package by no more than their
\* number less one (lines 7-23 of the user management).
ActiveBounded == Cardinality(ActiveRows) <= UserLimit - 1 + Cardinality(Changes)

\* Once add_user has come to its end nobody can take the access of the owner
\* away, whatever rows his visits add; but a visit between lines 76 and 84
\* leaves a pending row in front of the active one, and he never has access.
OwnerHasAccess ==
  created = "all" => \A i \in RowsOf(Owner) : IsFirst(i) => rows[i].active = (IF early THEN 0 ELSE 1)

\* An activation takes effect: only rows that are their user's first are
\* active, although users may have several (but for the owner's, see above).
ActiveIsFirst == \A i \in ActiveRows : IsFirst(i) \/ (early /\ rows[i].user = Owner)

\* A visit looks for a row before it adds one: visits that race leave a user
\* several, but no more than they were (lines 64 and 66 of the filters).
RowsBounded == \A u \in Others : Cardinality(RowsOf(u)) <= Cardinality(Visits)
=============================================================================
