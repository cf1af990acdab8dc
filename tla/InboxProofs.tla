----------------------------- MODULE InboxProofs -----------------------------
(***************************************************************************)
(* Proofs about Inbox, for any servers, groups, users, tabs and page size. *)
(* The heart of them is how the numbered pages of a list of ids nest: the  *)
(* ids newer than one on the first page are on it too, and paging what is  *)
(* left of a later page leaves nothing.                                    *)
(***************************************************************************)
EXTENDS Inbox, FiniteSetTheorems, WellFoundedInduction, TLAPS

\* What is known of a page that is shown: a page after the first is empty
\* for a restricted user, and the alerts newer than the one its link would
\* mark came later or were none of his.
TabOK(t) ==
  LET r == tab[t] IN
  /\ r.upTo <= lastId
  /\ r.top <= seen[UserOf[t]]
  /\ r.st = "shown" /\ r.restricted /\ r.page > 1 => r.rows = {}
  /\ r.st = "shown" /\ r.list = "new" /\ r.page = 1 /\ r.top > 0 =>
       \A i \in DOMAIN triggered :
         r.top < i /\ i <= r.upTo => r.restricted /\ triggered[i] \notin servers \cap r.granted

MarksOK == \A u \in Users : mark[u] <= seen[u]

IInv == TypeOK /\ MarksOK /\ \A t \in Tabs : TabOK(t)

----------------------------------------------------------------------------
\* A nonempty set of natural numbers has a least element.
LEMMA LeastNatural ==
  ASSUME NEW S \in SUBSET Nat, S # {}
  PROVE  \E n \in S : \A m \in S : n <= m
  <1> DEFINE R == OpToRel(<, Nat)
  <1>1. \E n \in S : \A m \in S : <<m, n>> \notin R
    <2> HIDE DEF R
    <2>1. IsWellFoundedOn(R, Nat)
      BY NatLessThanWellFounded DEF R
    <2> QED
      BY <2>1, WFMin
  <1>2. \A m, n \in Nat : <<m, n>> \notin R => n <= m
    BY DEF OpToRel
  <1> QED
    BY <1>1, <1>2

\* Newest is the greatest id of a nonempty set of ids.
LEMMA NewestIsGreatest ==
  ASSUME NEW S \in SUBSET (0..MaxAlerts), S # {}
  PROVE  Newest(S) \in S /\ \A k \in S : k <= Newest(S)
  <1> DEFINE D == {MaxAlerts - k : k \in S}
  <1>1. D \in SUBSET Nat /\ D # {}
    BY BoundsAssumption
  <1>2. PICK d \in D : \A e \in D : d <= e
    BY <1>1, LeastNatural
  <1>3. PICK i \in S : d = MaxAlerts - i
    BY <1>2
  <1>4. \A k \in S : k <= i
    <2> TAKE k \in S
    <2>1. MaxAlerts - i <= MaxAlerts - k
      BY <1>2, <1>3
    <2> QED
      BY <2>1, BoundsAssumption
  <1> QED
    BY <1>3, <1>4 DEF Newest

LEMMA NewestType ==
  ASSUME NEW S \in SUBSET (0..MaxAlerts)
  PROVE  Newest(S) \in 0..MaxAlerts /\ (Newest(S) > 0 => Newest(S) \in S)
  <1>1. CASE S = {}
    BY <1>1, BoundsAssumption DEF Newest
  <1>2. CASE S # {}
    <2>1. Newest(S) \in S
      BY <1>2, NewestIsGreatest
    <2> QED
      BY <2>1
  <1> QED
    BY <1>1, <1>2

\* The ids newer than another are finitely many, and fewer in a smaller set.
LEMMA NewerFinite ==
  ASSUME NEW S \in SUBSET Ids, NEW i
  PROVE  IsFiniteSet(Newer(S, i)) /\ Cardinality(Newer(S, i)) \in Nat
  <1>1. IsFiniteSet(Ids)
    BY FS_Interval, BoundsAssumption DEF Ids
  <1>2. Newer(S, i) \in SUBSET Ids
    BY DEF Newer
  <1> QED
    BY <1>1, <1>2, FS_Subset, FS_CardinalityType

LEMMA NewerFewer ==
  ASSUME NEW S \in SUBSET Ids, NEW T \in SUBSET Ids, NEW i, NEW k, Newer(T, k) \subseteq Newer(S, i)
  PROVE  Cardinality(Newer(T, k)) <= Cardinality(Newer(S, i))
  BY NewerFinite, FS_Subset

\* The first page holds an id together with all newer ones.
LEMMA FirstPage ==
  ASSUME NEW S \in SUBSET Ids, NEW i \in S
  PROVE  i \in Page(S, 1) <=> Cardinality(Newer(S, i)) < PageSize
  <1>1. Cardinality(Newer(S, i)) \in Nat /\ PageSize \in Nat
    BY NewerFinite, BoundsAssumption
  <1>2. (1 - 1) * PageSize = 0 /\ 1 * PageSize = PageSize
    BY <1>1
  <1> QED
    BY <1>1, <1>2 DEF Page

LEMMA FirstPageClosed ==
  ASSUME NEW S \in SUBSET Ids, NEW T \in SUBSET S, NEW i \in T, NEW k \in Page(S, 1), k <= i
  PROVE  i \in Page(T, 1)
  <1>1. k \in S /\ \A j \in S : j \in Nat
    BY BoundsAssumption DEF Page, Ids
  <1>2. ASSUME NEW j \in Newer(T, i)
        PROVE  j \in Newer(S, k)
    <2>1. j \in T /\ j > i
      BY DEF Newer
    <2>2. j \in Nat /\ i \in Nat /\ k \in Nat
      BY <1>1, <2>1
    <2>3. j > k
      BY <2>1, <2>2
    <2> QED
      BY <2>1, <2>3 DEF Newer
  <1>3. Cardinality(Newer(T, i)) <= Cardinality(Newer(S, k))
    BY <1>2, NewerFewer
  <1>4. /\ Cardinality(Newer(T, i)) \in Nat /\ Cardinality(Newer(S, k)) \in Nat
        /\ Cardinality(Newer(S, k)) < PageSize
    BY <1>1, NewerFinite, FirstPage
  <1> QED
    BY <1>3, <1>4, FirstPage, BoundsAssumption

\* Paging a part of a later page by the number of that page leaves nothing:
\* an id on it would have a page of that part before it, and all pages before
\* that one as well.
LEMMA PagedTwice ==
  ASSUME NEW S \in SUBSET Ids, NEW p \in Nat, p > 1, NEW T \in SUBSET Page(S, p)
  PROVE  Page(T, p) = {}
  <1> SUFFICES ASSUME NEW i \in Page(T, p)
               PROVE  FALSE
    OBVIOUS
  <1>0. i \in T /\ T \subseteq S /\ S \subseteq Nat /\ T \subseteq Ids
    BY BoundsAssumption DEF Page, Ids
  <1> DEFINE before == (p - 1) * PageSize
  <1>1. before \in Nat /\ p * PageSize = before + PageSize /\ before >= PageSize
    <2>1. PageSize \in Nat
      BY BoundsAssumption
    <2>2. PICK q \in Nat : p = q + 2
      <3>1. p - 2 \in Nat
        OBVIOUS
      <3> QED
        BY <3>1
    <2>3. q * PageSize \in Nat
      BY <2>1
    <2>4. (q + 1) * PageSize = q * PageSize + PageSize /\ (q + 2) * PageSize = q * PageSize + 2 * PageSize
      BY <2>1
    <2> QED
      BY <2>1, <2>2, <2>3, <2>4
  <1> DEFINE k == Newest(T)
  <1>2. k \in T /\ \A j \in T : j <= k
    BY <1>0, NewestIsGreatest DEF Ids
  <1> HIDE DEF k, before
  <1>3. Cardinality(Newer(S, k)) >= before
    <2>1. k \in Page(S, p) /\ Cardinality(Newer(S, k)) \in Nat
      BY <1>2, NewerFinite
    <2> QED
      BY <2>1, <1>1 DEF Page, before
  <1>4. Cardinality(Newer(T, i)) >= before
    BY <1>0, <1>1, NewerFinite DEF Page, before
  <1>5. Newer(S, k) \cap Newer(T, i) = {}
    <2> SUFFICES ASSUME NEW j \in S, j > k, j \in T
                 PROVE  FALSE
      BY DEF Newer
    <2>1. j <= k /\ j \in Nat /\ k \in Nat
      BY <1>0, <1>2
    <2> QED
      BY <2>1
  <1>6. Newer(S, k) \cup Newer(T, i) \subseteq Newer(S, i)
    <2> SUFFICES ASSUME NEW j \in S, j > k
                 PROVE  j > i
      BY <1>0 DEF Newer
    <2>1. i <= k /\ j \in Nat /\ k \in Nat /\ i \in Nat
      BY <1>0, <1>2
    <2> QED
      BY <2>1
  <1>7. /\ IsFiniteSet(Newer(S, k)) /\ Cardinality(Newer(S, k)) \in Nat
        /\ IsFiniteSet(Newer(T, i)) /\ Cardinality(Newer(T, i)) \in Nat
        /\ IsFiniteSet(Newer(S, i)) /\ Cardinality(Newer(S, i)) \in Nat
    BY <1>0, NewerFinite
  <1>8. Cardinality(Newer(S, k) \cup Newer(T, i))
          = Cardinality(Newer(S, k)) + Cardinality(Newer(T, i))
    <2>1. Cardinality(Newer(S, k) \cap Newer(T, i)) = 0
      BY <1>5, FS_EmptySet
    <2>2. Cardinality(Newer(S, k) \cup Newer(T, i))
            = Cardinality(Newer(S, k)) + Cardinality(Newer(T, i))
                - Cardinality(Newer(S, k) \cap Newer(T, i))
      BY <1>7, FS_Union
    <2> QED
      BY <1>7, <2>1, <2>2
  <1>9. Cardinality(Newer(S, i)) >= before + before
    BY <1>1, <1>3, <1>4, <1>6, <1>7, <1>8, FS_Subset
  <1>10. Cardinality(Newer(S, i)) < before + PageSize
    <2>1. i \in Page(S, p)
      BY <1>0
    <2> QED
      BY <2>1, <1>1, <1>7, BoundsAssumption DEF Page, before
  <1> QED
    BY <1>1, <1>7, <1>9, <1>10, BoundsAssumption
----------------------------------------------------------------------------
\* The ids a request works with are ids of the table.
LEMMA RowsType ==
  ASSUME TypeOK, NEW t \in Tabs
  PROVE  /\ UserOf[t] \in Users /\ tab[t] \in Tab
         /\ DOMAIN triggered \in SUBSET Ids /\ Unread(UserOf[t]) \in SUBSET Ids
         /\ Selected(t) \in SUBSET Ids /\ Rows(t) \in SUBSET Ids
         /\ Newest(Rows(t)) \in 0..MaxAlerts
  <1>1. UserOf[t] \in Users /\ tab[t] \in Tab
    BY SetsAssumption DEF TypeOK
  <1>2. DOMAIN triggered \in SUBSET Ids
    BY BoundsAssumption DEF TypeOK, Ids
  <1>3. Unread(UserOf[t]) \in SUBSET Ids
    BY <1>2 DEF Unread
  <1>4. Selected(t) \in SUBSET Ids
    BY <1>2, <1>3 DEF Selected, Page
  <1>5. Rows(t) \in SUBSET Ids
    BY <1>4 DEF Rows, Page
  <1>6. Rows(t) \in SUBSET (0..MaxAlerts)
    BY <1>5 DEF Ids
  <1> QED
    BY <1>1, <1>2, <1>3, <1>4, <1>5, <1>6, NewestType

\* For a restricted user a page after the first comes out empty.
LEMMA RowsLater ==
  ASSUME TypeOK, NEW t \in Tabs, Restricted(UserOf[t]), tab[t].page > 1
  PROVE  Rows(t) = {}
  <1> DEFINE S == IF tab[t].list = "new" THEN Unread(UserOf[t]) ELSE DOMAIN triggered
             p == tab[t].page
             own == {i \in Selected(t) : triggered[i] \in servers \cap tab[t].granted}
  <1>1. S \in SUBSET Ids
    BY RowsType
  <1>2. p \in Nat
    BY RowsType, BoundsAssumption DEF Tab
  <1>3. own \in SUBSET Page(S, p)
    BY DEF Selected
  <1>4. Page(own, p) = {}
    <2> HIDE DEF own, S, p
    <2> QED
      BY <1>1, <1>2, <1>3, PagedTwice DEF p
  <1> QED
    BY <1>4 DEF Rows

\* The first page of the new alerts misses no alert newer than the newest it
\* shows, other than those a restricted user has no access to.
LEMMA RowsFirst ==
  ASSUME TypeOK, NEW t \in Tabs, tab[t].list = "new", tab[t].page = 1,
         NEW i \in DOMAIN triggered, Newest(Rows(t)) > 0, i > Newest(Rows(t))
  PROVE  Restricted(UserOf[t]) /\ triggered[i] \notin servers \cap tab[t].granted
  <1> DEFINE S == Unread(UserOf[t])
             own == {k \in Selected(t) : triggered[k] \in servers \cap tab[t].granted}
             top == Newest(Rows(t))
  <1>1. S \in SUBSET Ids /\ Selected(t) = Page(S, 1) /\ i \in Nat
    BY RowsType DEF Selected, Ids
  <1>2. Rows(t) \in SUBSET (0..MaxAlerts) /\ Rows(t) # {}
    BY RowsType DEF Newest, Ids
  <1>3. top \in Rows(t) /\ top \in Nat /\ \A k \in Rows(t) : k <= top
    BY <1>2, NewestIsGreatest
  <1>4. i \notin Rows(t) /\ top <= i
    BY <1>1, <1>3
  <1>5. Rows(t) \subseteq Page(S, 1)
    BY <1>1 DEF Rows, Page
  <1>6. i \in S
    <2>1. top \in S
      BY <1>3, <1>5 DEF Page
    <2>2. top > mark[UserOf[t]] /\ mark[UserOf[t]] \in Nat
      BY <2>1, RowsType DEF Unread, TypeOK
    <2>3. i > mark[UserOf[t]]
      BY <1>1, <1>3, <1>4, <2>2
    <2> QED
      BY <2>3 DEF Unread
  <1> HIDE DEF S, top
  <1>7. i \in Selected(t)
    BY <1>1, <1>3, <1>4, <1>5, <1>6, FirstPageClosed
  <1>8. Restricted(UserOf[t])
    BY <1>4, <1>7 DEF Rows
  <1>9. ASSUME triggered[i] \in servers \cap tab[t].granted
        PROVE  FALSE
    <2>1. own \in SUBSET Ids /\ i \in own /\ Rows(t) = Page(own, 1)
      BY <1>7, <1>8, <1>9, RowsType DEF Rows
    <2> HIDE DEF own
    <2>2. i \in Page(own, 1)
      BY <1>3, <1>4, <2>1, FirstPageClosed
    <2> QED
      BY <1>4, <2>1, <2>2
  <1> QED
    BY <1>8, <1>9
----------------------------------------------------------------------------
\* Initially no tab shows anything and nothing is marked.
LEMMA InitInv == Init => IInv
  <1> SUFFICES ASSUME Init PROVE IInv
    OBVIOUS
  <1>1. Blank \in Tab /\ Blank.upTo = 0 /\ Blank.top = 0 /\ Blank.st = "idle"
    BY BoundsAssumption DEF Blank, Tab
  <1>2. TypeOK
    BY <1>1, BoundsAssumption DEF Init, TypeOK
  <1>3. MarksOK
    BY DEF Init, MarksOK
  <1>4. \A t \in Tabs : TabOK(t)
    BY <1>1, SetsAssumption DEF Init, TabOK
  <1> QED
    BY <1>2, <1>3, <1>4 DEF IInv

\* A new alert is newer than what any shown page was read from.
LEMMA TriggerStep ==
  ASSUME IInv, NEW s \in Servers, Trigger(s)
  PROVE  IInv'
  <1>1. TypeOK'
    <2>1. lastId' = lastId + 1 /\ lastId' \in 0..MaxAlerts /\ lastId \in Nat
      BY BoundsAssumption DEF IInv, TypeOK, Trigger
    <2>2. DOMAIN triggered' = DOMAIN triggered \cup {lastId + 1}
      BY DEF Trigger
    <2>3. DOMAIN triggered' \subseteq 1..lastId'
      BY <2>1, <2>2 DEF IInv, TypeOK
    <2>4. triggered' \in [DOMAIN triggered' -> Servers]
      BY <2>2 DEF IInv, TypeOK, Trigger
    <2> QED
      BY <2>1, <2>3, <2>4 DEF IInv, TypeOK, Trigger, Access
  <1>2. MarksOK'
    BY DEF IInv, MarksOK, Trigger
  <1>3. ASSUME NEW t \in Tabs
        PROVE  TabOK(t)'
    <2>1. TabOK(t) /\ lastId \in Nat /\ tab[t].upTo \in Nat /\ DOMAIN triggered \in SUBSET Ids
      BY RowsType, BoundsAssumption DEF IInv, TypeOK, Tab
    <2>2. /\ tab' = tab /\ seen' = seen /\ servers' = servers /\ lastId' = lastId + 1
          /\ DOMAIN triggered' = DOMAIN triggered \cup {lastId + 1}
          /\ \A i \in DOMAIN triggered : i # lastId + 1 => triggered'[i] = triggered[i]
      BY DEF Trigger, Access
    <2>3. tab[t].upTo <= lastId' /\ ~ lastId + 1 <= tab[t].upTo
      BY <2>1, <2>2 DEF TabOK
    <2> QED
      BY <2>1, <2>2, <2>3 DEF TabOK
  <1> QED
    BY <1>1, <1>2, <1>3 DEF IInv

\* Fewer alerts and fewer servers: what a tab knows stays true.
LEMMA PurgeStep ==
  ASSUME IInv, NEW i \in Ids, Purge(i)
  PROVE  IInv'
  <1>1. /\ DOMAIN triggered' = DOMAIN triggered \ {i}
        /\ \A k \in DOMAIN triggered' : triggered'[k] = triggered[k]
        /\ UNCHANGED <<servers, groups, inGroup, permits, links, lastId, mark, tab, seen>>
    BY DEF Purge, Access
  <1>2. TypeOK'
    <2>1. triggered' \in [DOMAIN triggered' -> Servers]
      BY DEF Purge, IInv, TypeOK
    <2> QED
      BY <1>1, <2>1 DEF IInv, TypeOK
  <1>3. MarksOK'
    BY <1>1 DEF IInv, MarksOK
  <1>4. \A t \in Tabs : TabOK(t)'
    BY <1>1 DEF IInv, TabOK
  <1> QED
    BY <1>2, <1>3, <1>4 DEF IInv

LEMMA AccessInv ==
  ASSUME IInv, AlertsStay, servers' \subseteq servers, groups' \subseteq groups,
         inGroup' \in [Groups -> [Servers -> 0..MaxCopies]],
         permits' \in [Users -> [Groups -> 0..MaxCopies]],
         links' \subseteq Users \X Groups
  PROVE  IInv'
  <1>1. TypeOK'
    BY DEF IInv, TypeOK, AlertsStay
  <1>2. MarksOK'
    BY DEF IInv, MarksOK, AlertsStay
  <1>3. \A t \in Tabs : TabOK(t)'
    BY DEF IInv, TabOK, AlertsStay
  <1> QED
    BY <1>1, <1>2, <1>3 DEF IInv

\* The copies of a row are counted up to the bound, and never below none.
LEMMA GroupStepInv ==
  ASSUME IInv, NEW g \in Groups, GroupStep(g)
  PROVE  IInv'
  <1>1. CASE DestroyGroup(g)
    BY <1>1, AccessInv DEF DestroyGroup, AccessStep, IInv, TypeOK
  <1>2. ASSUME NEW s \in Servers, AddServer(g, s)
        PROVE  IInv'
    <2>1. inGroup[g][s] \in 0..MaxCopies /\ inGroup[g][s] < MaxCopies
      BY <1>2 DEF AddServer, IInv, TypeOK
    <2>2. inGroup[g][s] + 1 \in 0..MaxCopies
      BY <2>1, BoundsAssumption
    <2>3. inGroup' \in [Groups -> [Servers -> 0..MaxCopies]]
      BY <1>2, <2>2 DEF AddServer, IInv, TypeOK
    <2> QED
      BY <1>2, <2>3, AccessInv DEF AddServer, AccessStep, IInv, TypeOK
  <1>3. ASSUME NEW s \in Servers, RemoveServer(g, s)
        PROVE  IInv'
    <2>1. inGroup[g][s] \in 0..MaxCopies /\ inGroup[g][s] > 0
      BY <1>3 DEF RemoveServer, IInv, TypeOK
    <2>2. inGroup[g][s] - 1 \in 0..MaxCopies
      BY <2>1, BoundsAssumption
    <2>3. inGroup' \in [Groups -> [Servers -> 0..MaxCopies]]
      BY <1>3, <2>2 DEF RemoveServer, IInv, TypeOK
    <2> QED
      BY <1>3, <2>3, AccessInv DEF RemoveServer, AccessStep, IInv, TypeOK
  <1>4. ASSUME NEW u \in Users, Permit(u, g)
        PROVE  IInv'
    <2>1. permits[u][g] \in 0..MaxCopies /\ permits[u][g] < MaxCopies
      BY <1>4 DEF Permit, IInv, TypeOK
    <2>2. permits[u][g] + 1 \in 0..MaxCopies
      BY <2>1, BoundsAssumption
    <2>3. permits' \in [Users -> [Groups -> 0..MaxCopies]]
      BY <1>4, <2>2 DEF Permit, IInv, TypeOK
    <2> QED
      BY <1>4, <2>3, AccessInv DEF Permit, PermissionStep, AccessStep, IInv, TypeOK
  <1>5. ASSUME NEW u \in Users, Revoke(u, g)
        PROVE  IInv'
    <2>1. permits[u][g] \in 0..MaxCopies /\ permits[u][g] > 0
      BY <1>5 DEF Revoke, IInv, TypeOK
    <2>2. permits[u][g] - 1 \in 0..MaxCopies
      BY <2>1, BoundsAssumption
    <2>3. permits' \in [Users -> [Groups -> 0..MaxCopies]]
      BY <1>5, <2>2 DEF Revoke, IInv, TypeOK
    <2> QED
      BY <1>5, <2>3, AccessInv DEF Revoke, PermissionStep, AccessStep, IInv, TypeOK
  <1>6. ASSUME NEW u \in Users, LeavePage(<<u, g>>)
        PROVE  IInv'
    BY <1>6, AccessInv DEF LeavePage, IInv, TypeOK
  <1> QED
    BY <1>1, <1>2, <1>3, <1>4, <1>5, <1>6 DEF GroupStep

\* The links on a page are about groups that exist.
LEMMA ListInv ==
  ASSUME IInv, NEW u \in Users, ListPermissions(u)
  PROVE  IInv'
  BY AccessInv DEF ListPermissions, PermissionStep, AccessStep, IInv, TypeOK

----------------------------------------------------------------------------
\* A tab that a step leaves alone stays right when more has been shown.
LEMMA TabStep ==
  ASSUME IInv, NEW t \in Tabs, tab'[t] = tab[t],
         UNCHANGED <<servers, triggered, lastId>>,
         seen'[UserOf[t]] \in Nat, seen[UserOf[t]] <= seen'[UserOf[t]]
  PROVE  TabOK(t)'
  <1>1. tab[t].top \in Nat /\ seen[UserOf[t]] \in Nat /\ TabOK(t)
    BY RowsType, BoundsAssumption DEF IInv, TypeOK, Tab
  <1>2. tab[t].top <= seen'[UserOf[t]]
    BY <1>1 DEF TabOK
  <1> QED
    BY <1>1, <1>2 DEF TabOK

\* A tab without a page knows nothing that could become wrong.
LEMMA IdleTab ==
  ASSUME IInv, NEW t \in Tabs, NEW r \in Tab, r.st # "shown", r.top = 0, r.upTo = 0,
         NEW marks \in [Users -> 0..MaxAlerts],
         tab' = [tab EXCEPT ![t] = r], mark' = marks, \A u \in Users : marks[u] <= seen[u],
         UNCHANGED <<servers, groups, inGroup, permits, links, triggered, lastId, seen>>
  PROVE  IInv'
  <1>1. TypeOK'
    BY DEF IInv, TypeOK
  <1>2. MarksOK'
    BY DEF MarksOK
  <1>3. ASSUME NEW x \in Tabs
        PROVE  TabOK(x)'
    <2>0. UserOf[x] \in Users
      BY SetsAssumption
    <2>1. seen[UserOf[x]] \in Nat /\ lastId \in Nat /\ tab \in [Tabs -> Tab]
      BY <2>0, BoundsAssumption DEF IInv, TypeOK
    <2>2. CASE x = t
      <3>1. tab'[x] = r
        BY <2>1, <2>2
      <3> QED
        BY <2>1, <3>1 DEF TabOK
    <2>3. CASE x # t
      <3>1. tab'[x] = tab[x]
        BY <2>1, <2>3
      <3> QED
        BY <2>1, <3>1, TabStep
    <2> QED
      BY <2>2, <2>3
  <1> QED
    BY <1>1, <1>2, <1>3 DEF IInv

LEMMA BlankTab ==
  /\ Blank \in Tab /\ Elsewhere \in Tab /\ [Blank EXCEPT !.st = "failed"] \in Tab
  /\ Blank.st = "idle" /\ Elsewhere.st \in {"away", "failed"}
  /\ Blank.top = 0 /\ Elsewhere.top = 0 /\ Blank.upTo = 0 /\ Elsewhere.upTo = 0
  <1>1. 1 \in 1..MaxPage /\ 0 \in 0..MaxAlerts
    BY BoundsAssumption
  <1>2. Blank \in Tab /\ Blank.st = "idle" /\ Blank.top = 0 /\ Blank.upTo = 0
    BY <1>1 DEF Blank, Tab
  <1>3. ASSUME NEW st \in {"away", "failed"}
        PROVE  /\ [Blank EXCEPT !.st = st] \in Tab /\ [Blank EXCEPT !.st = st].st = st
               /\ [Blank EXCEPT !.st = st].top = 0 /\ [Blank EXCEPT !.st = st].upTo = 0
    BY <1>2 DEF Tab
  <1> QED
    BY <1>2, <1>3 DEF Elsewhere

LEMMA SetServersStep ==
  ASSUME IInv, NEW t \in Tabs, NEW list \in {"index", "new"}, NEW p \in 1..MaxPage,
         SetServers(t, list, p)
  PROVE  IInv'
  <1> DEFINE u == UserOf[t]
             r == [Blank EXCEPT !.st = "begun", !.list = list, !.page = p,
                                !.restricted = Restricted(u), !.granted = Granted(u)]
  <1>1. /\ mark \in [Users -> 0..MaxAlerts] /\ \A v \in Users : mark[v] <= seen[v]
        /\ UNCHANGED <<servers, groups, inGroup, permits, links, triggered, lastId, mark, seen>>
    BY DEF IInv, TypeOK, MarksOK, SetServers, Access
  <1>2. CASE Stopped(u)
    <2>1. tab' = [tab EXCEPT ![t] = Elsewhere]
      BY <1>2 DEF SetServers, Become
    <2> QED
      BY <1>1, <2>1, BlankTab, IdleTab
  <1>3. CASE ~Stopped(u)
    <2>1. tab' = [tab EXCEPT ![t] = r]
      BY <1>3 DEF SetServers, Become
    <2>2. r \in Tab /\ r.st = "begun" /\ r.top = 0 /\ r.upTo = 0
      <3>1. Restricted(u) \in BOOLEAN /\ Granted(u) \in SUBSET Servers
        BY DEF Restricted, Granted
      <3> QED
        BY <3>1, BlankTab DEF Tab
    <2> HIDE DEF r
    <2> QED
      BY <1>1, <2>1, <2>2, IdleTab
  <1> QED
    BY <1>2, <1>3

\* The link carries an id the user was shown, so no mark passes what he saw.
LEMMA MarkStep ==
  ASSUME IInv, NEW t \in Tabs, Mark(t)
  PROVE  IInv'
  <1> DEFINE u == UserOf[t]
  <1>1. /\ u \in Users /\ tab[t].top \in 0..MaxAlerts /\ tab[t].top <= seen[u]
        /\ mark \in [Users -> 0..MaxAlerts] /\ \A v \in Users : mark[v] <= seen[v]
        /\ UNCHANGED <<servers, groups, inGroup, permits, links, triggered, lastId, seen>>
    BY RowsType DEF IInv, TypeOK, MarksOK, TabOK, Tab, Mark, Access
  <1>2. CASE Stopped(u)
    <2>1. tab' = [tab EXCEPT ![t] = Elsewhere] /\ mark' = mark
      BY <1>2 DEF Mark, Become
    <2> QED
      BY <1>1, <2>1, BlankTab, IdleTab
  <1>3. CASE ~Stopped(u)
    <2> DEFINE marks == [mark EXCEPT ![u] = tab[t].top]
    <2>1. tab' = [tab EXCEPT ![t] = Blank] /\ mark' = marks
      BY <1>3 DEF Mark, Become
    <2>2. marks \in [Users -> 0..MaxAlerts] /\ \A v \in Users : marks[v] <= seen[v]
      BY <1>1
    <2> HIDE DEF marks
    <2> QED
      BY <1>1, <2>1, <2>2, BlankTab, IdleTab
  <1> QED
    BY <1>2, <1>3

\* A page that comes up is as RowsLater and RowsFirst say.
LEMMA ShowStep ==
  ASSUME IInv, NEW t \in Tabs, Show(t)
  PROVE  IInv'
  <1> DEFINE u == UserOf[t]
             r == [tab[t] EXCEPT !.st = "shown", !.restricted = Restricted(u),
                     !.rows = Rows(t), !.top = Newest(Rows(t)), !.upTo = lastId]
             highest == Newest(Rows(t) \cup {seen[u]})
  <1>1. /\ mark \in [Users -> 0..MaxAlerts] /\ \A v \in Users : mark[v] <= seen[v]
        /\ UNCHANGED <<servers, groups, inGroup, permits, links, triggered, lastId, mark>>
        /\ TypeOK /\ u \in Users /\ tab[t] \in Tab
    BY RowsType DEF IInv, TypeOK, MarksOK, Show, Access
  <1>2. CASE Fails(t)
    <2>1. tab' = [tab EXCEPT ![t] = [Blank EXCEPT !.st = "failed"]] /\ UNCHANGED seen
      BY <1>2 DEF Show, Become
    <2>2. [Blank EXCEPT !.st = "failed"].st = "failed"
      BY DEF Blank
    <2>3. [Blank EXCEPT !.st = "failed"].top = 0 /\ [Blank EXCEPT !.st = "failed"].upTo = 0
      BY DEF Blank
    <2> QED
      BY <1>1, <2>1, <2>2, <2>3, BlankTab, IdleTab
  <1>3. CASE ~Fails(t)
    <2>1. tab' = [tab EXCEPT ![t] = r] /\ seen' = [seen EXCEPT ![u] = highest]
      BY <1>3 DEF Show, Become
    <2>2. /\ Rows(t) \in SUBSET Ids /\ Newest(Rows(t)) \in 0..MaxAlerts /\ seen[u] \in 0..MaxAlerts
          /\ lastId \in 0..MaxAlerts /\ Restricted(u) \in BOOLEAN
      BY <1>1, RowsType DEF TypeOK, Restricted
    <2>3. /\ highest \in 0..MaxAlerts /\ seen[u] <= highest /\ Newest(Rows(t)) <= highest
      <3>1. Rows(t) \cup {seen[u]} \in SUBSET (0..MaxAlerts) /\ Rows(t) \in SUBSET (0..MaxAlerts)
        BY <2>2 DEF Ids
      <3>2. highest \in Rows(t) \cup {seen[u]} /\ \A k \in Rows(t) \cup {seen[u]} : k <= highest
        BY <3>1, NewestIsGreatest
      <3>3. Newest(Rows(t)) = 0 \/ Newest(Rows(t)) \in Rows(t)
        BY <2>2, <3>1, NewestType
      <3>4. highest \in 0..MaxAlerts
        BY <3>1, <3>2
      <3> QED
        BY <3>2, <3>3, <3>4
    <2>4. /\ r \in Tab /\ r.st = "shown" /\ r.list = tab[t].list /\ r.page = tab[t].page
          /\ r.restricted = Restricted(u) /\ r.granted = tab[t].granted
          /\ r.rows = Rows(t) /\ r.top = Newest(Rows(t)) /\ r.upTo = lastId
      BY <1>1, <2>2 DEF Tab
    <2> HIDE DEF r, highest
    <2>5. TypeOK'
      BY <1>1, <2>1, <2>3, <2>4 DEF TypeOK
    <2>6. \A v \in Users : seen[v] <= seen'[v] /\ seen[v] \in Nat /\ seen'[v] \in Nat /\ mark[v] \in Nat
      BY <1>1, <2>1, <2>3, BoundsAssumption DEF TypeOK
    <2>7. MarksOK'
      BY <1>1, <2>6 DEF MarksOK
    <2>8. ASSUME NEW x \in Tabs
          PROVE  TabOK(x)'
      <3>1. CASE x = t
        <4>1. tab'[x] = r /\ seen'[UserOf[x]] = highest
          BY <1>1, <2>1, <3>1 DEF TypeOK
        <4>2. tab[t].page > 1 /\ Restricted(u) => Rows(t) = {}
          BY <1>1, RowsLater
        <4>3. tab[t].list = "new" /\ tab[t].page = 1 /\ Newest(Rows(t)) > 0 =>
                \A i \in DOMAIN triggered :
                  Newest(Rows(t)) < i => Restricted(u) /\ triggered[i] \notin servers \cap tab[t].granted
          <5> SUFFICES ASSUME tab[t].list = "new", tab[t].page = 1, Newest(Rows(t)) > 0,
                              NEW i \in DOMAIN triggered, Newest(Rows(t)) < i
                       PROVE  Restricted(u) /\ triggered[i] \notin servers \cap tab[t].granted
            OBVIOUS
          <5>1. i > Newest(Rows(t))
            BY <1>1, <2>2, RowsType DEF Ids
          <5> QED
            BY <1>1, <5>1, RowsFirst
        <4> QED
          BY <1>1, <2>2, <2>3, <2>4, <4>1, <4>2, <4>3 DEF TabOK
      <3>2. CASE x # t
        <4>1. tab'[x] = tab[x] /\ UserOf[x] \in Users
          BY <1>1, <2>1, <3>2, SetsAssumption DEF TypeOK
        <4> QED
          BY <1>1, <2>6, <4>1, TabStep
      <3> QED
        BY <3>1, <3>2
    <2> QED
      BY <2>5, <2>7, <2>8 DEF IInv
  <1> QED
    BY <1>2, <1>3
----------------------------------------------------------------------------
LEMMA NextStep == IInv /\ [Next]_vars => IInv'
  <1> SUFFICES ASSUME IInv, [Next]_vars PROVE IInv'
    OBVIOUS
  <1>1. ASSUME NEW s \in Servers, Trigger(s)
        PROVE  IInv'
    BY <1>1, TriggerStep
  <1>2. ASSUME NEW s \in Servers, DestroyServer(s)
        PROVE  IInv'
    BY <1>2, AccessInv DEF DestroyServer, AccessStep, IInv, TypeOK
  <1>3. ASSUME NEW i \in Ids, Purge(i)
        PROVE  IInv'
    BY <1>3, PurgeStep
  <1>4. ASSUME NEW g \in Groups, GroupStep(g)
        PROVE  IInv'
    BY <1>4, GroupStepInv
  <1>5. ASSUME NEW t \in Tabs, RequestStep(t)
        PROVE  IInv'
    BY <1>5, SetServersStep, ShowStep, MarkStep DEF RequestStep
  <1>6. ASSUME NEW u \in Users, ListPermissions(u)
        PROVE  IInv'
    BY <1>6, ListInv
  <1>7. CASE UNCHANGED vars
    BY <1>7 DEF vars, Access, IInv, TypeOK, MarksOK, TabOK
  <1> QED
    BY <1>1, <1>2, <1>3, <1>4, <1>5, <1>6, <1>7 DEF Next

\* What the pages show and the links mark is as IInv says, forever.
THEOREM Inductive == Spec => []IInv
  <1> QED
    BY InitInv, NextStep, PTL DEF Spec

\* Every variable keeps its type: no row is removed that is not there.
THEOREM TypeCorrect == Spec => []TypeOK
  <1>1. IInv => TypeOK
    BY DEF IInv
  <1> QED
    BY <1>1, Inductive, PTL

\* However many tabs a user has and however old they are, he marks nothing
\* read that is newer than all he was shown (mark and new.html.erb, line 2).
THEOREM NewAlertsStayUnread == Spec => []NewStayUnread
  <1>1. IInv => NewStayUnread
    <2> SUFFICES ASSUME IInv, NEW u \in Users, NEW i \in DOMAIN triggered, i > seen[u]
                 PROVE  i \in Unread(u)
      BY DEF NewStayUnread
    <2>1. mark[u] <= seen[u] /\ mark[u] \in Nat /\ seen[u] \in Nat
      BY BoundsAssumption DEF IInv, MarksOK, TypeOK
    <2>2. i \in Nat
      BY BoundsAssumption DEF IInv, TypeOK
    <2>3. i > mark[u]
      BY <2>1, <2>2
    <2> QED
      BY <2>3 DEF Unread
  <1> QED
    BY <1>1, Inductive, PTL

\* For any page size and any number of alerts, a restricted user gets nothing
\* on a page after the first (lines 16 and 41 of the controller).
THEOREM LaterPagesAreEmpty == Spec => []LaterPagesEmpty
  <1>1. IInv => LaterPagesEmpty
    BY DEF IInv, TabOK, LaterPagesEmpty
  <1> QED
    BY <1>1, Inductive, PTL

\* "Mark All Read" on the first page of the new alerts leaves the badge only
\* what came later and what the user had no access to (mark and
\* triggered_alert_count).
THEOREM MarkClears == Spec => MarkClearsBadge
  <1> DEFINE Cleared(t) ==
        tab[t].st = "shown" /\ tab[t].page = 1 /\ tab'[t].st = "idle" =>
          \A i \in Badge(UserOf[t])' :
            \/ i > tab[t].upTo
            \/ tab[t].restricted /\ triggered[i] \notin servers \cap tab[t].granted
  <1>1. IInv /\ [Next]_vars => [\A t \in Tabs : Cleared(t)]_vars
    <2> SUFFICES ASSUME IInv, Next, NEW t \in Tabs,
                        tab[t].st = "shown", tab[t].page = 1, tab'[t].st = "idle"
                 PROVE  \A i \in Badge(UserOf[t])' :
                          \/ i > tab[t].upTo
                          \/ tab[t].restricted /\ triggered[i] \notin servers \cap tab[t].granted
      OBVIOUS
    <2>1. tab \in [Tabs -> Tab] /\ mark \in [Users -> 0..MaxAlerts] /\ UserOf[t] \in Users
      BY SetsAssumption DEF IInv, TypeOK
    <2>2. PICK x \in Tabs : RequestStep(x)
      <3>1. tab' # tab
        OBVIOUS
      <3>2. \A s \in Servers : ~Trigger(s) /\ ~DestroyServer(s)
        BY <3>1 DEF Trigger, DestroyServer, AccessStep, AlertsStay
      <3>3. \A i \in Ids : ~Purge(i)
        BY <3>1 DEF Purge
      <3>4. \A g \in Groups : ~GroupStep(g)
        BY <3>1 DEF GroupStep, DestroyGroup, AddServer, RemoveServer, Permit, Revoke, LeavePage,
                    PermissionStep, AccessStep, AlertsStay
      <3>5. \A u \in Users : ~ListPermissions(u)
        BY <3>1 DEF ListPermissions, PermissionStep, AccessStep, AlertsStay
      <3> QED
        BY <3>2, <3>3, <3>4, <3>5 DEF Next
    <2>3. \E r : tab' = [tab EXCEPT ![x] = r]
      BY <2>2 DEF RequestStep, SetServers, Show, Mark, Become
    <2>4. x = t
      BY <2>1, <2>3
    <2>5. ~Show(t)
      BY DEF Show
    <2>6. ASSUME NEW list \in {"index", "new"}, NEW p \in 1..MaxPage, SetServers(t, list, p)
          PROVE  FALSE
      BY <2>1, <2>6, BlankTab DEF SetServers, Become, Blank
    <2>7. Mark(t)
      BY <2>2, <2>4, <2>5, <2>6 DEF RequestStep
    <2>8. ~Stopped(UserOf[t])
      BY <2>1, <2>7, BlankTab DEF Mark, Become
    <2>9. /\ tab[t].list = "new" /\ tab[t].top > 0 /\ mark'[UserOf[t]] = tab[t].top
          /\ triggered' = triggered
      BY <2>1, <2>7, <2>8 DEF Mark
    <2> SUFFICES ASSUME NEW i \in Badge(UserOf[t])', ~(i > tab[t].upTo)
                 PROVE  tab[t].restricted /\ triggered[i] \notin servers \cap tab[t].granted
      OBVIOUS
    <2>10. i \in DOMAIN triggered /\ i > tab[t].top
      BY <2>9 DEF Badge, Page, Unread
    <2>11. i \in Nat /\ tab[t].top \in Nat /\ tab[t].upTo \in Nat
      BY <2>1, <2>10, BoundsAssumption DEF IInv, TypeOK, Tab
    <2>12. tab[t].top < i /\ i <= tab[t].upTo
      BY <2>10, <2>11
    <2> QED
      BY <2>9, <2>10, <2>12 DEF IInv, TabOK
  <1> QED
    BY <1>1, Inductive, PTL DEF Spec, MarkClearsBadge

\* No form, link or page about groups, permissions or servers, except a page of
\* permissions from before, brings back the pages of a user who has a permission
\* for a destroyed group (the hidden link of the permissions page).
THEOREM LockedOut == Spec => LockedOutForGood
  <1>1. IInv /\ [Next]_vars => [\A u \in Users : Stranded(u) => Stranded(u)']_vars
    <2> SUFFICES ASSUME IInv, Next, NEW u \in Users, NEW g \in Groups \ groups,
                        permits[u][g] > 0, <<u, g>> \notin links
                 PROVE  g \notin groups' /\ permits'[u][g] > 0 /\ <<u, g>> \notin links'
      BY DEF Stranded
    <2>1. CASE UNCHANGED <<groups, permits, links>>
      BY <2>1
    <2>2. ASSUME NEW h \in Groups, DestroyGroup(h)
          PROVE  g \notin groups' /\ permits'[u][g] > 0 /\ <<u, g>> \notin links'
      BY <2>2 DEF DestroyGroup
    <2>3. ASSUME NEW h \in Groups, NEW v \in Users, Permit(v, h) \/ Revoke(v, h)
          PROVE  g \notin groups' /\ permits'[u][g] > 0 /\ <<u, g>> \notin links'
      <3>1. groups' = groups /\ links' = links /\ permits[u][g] \in Nat
        BY <2>3 DEF Permit, Revoke, IInv, TypeOK
      <3>2. CASE <<v, h>> = <<u, g>>
        <4>1. permits'[u][g] = permits[u][g] + 1
          BY <2>3, <3>2 DEF Permit, Revoke, IInv, TypeOK
        <4> QED
          BY <3>1, <4>1
      <3>3. CASE <<v, h>> # <<u, g>>
        BY <2>3, <3>1, <3>3 DEF Permit, Revoke, IInv, TypeOK
      <3> QED
        BY <3>2, <3>3
    <2>4. ASSUME NEW v \in Users, ListPermissions(v)
          PROVE  g \notin groups' /\ permits'[u][g] > 0 /\ <<u, g>> \notin links'
      BY <2>4 DEF ListPermissions
    <2>5. ASSUME NEW p, LeavePage(p)
          PROVE  g \notin groups' /\ permits'[u][g] > 0 /\ <<u, g>> \notin links'
      BY <2>5 DEF LeavePage
    <2> QED
      BY <2>1, <2>2, <2>3, <2>4, <2>5
      DEF Next, GroupStep, RequestStep, Trigger, DestroyServer, Purge, AddServer,
          RemoveServer, SetServers, Show, Mark, Access
  <1> QED
    BY <1>1, Inductive, PTL DEF Spec, LockedOutForGood
=============================================================================
