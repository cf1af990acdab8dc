--------------------------- MODULE AccountsProofs ---------------------------
(***************************************************************************)
(* Theorems about Accounts for any users, any numbers of visits and of     *)
(* requests to change a member, and any package.  The invariant adds to    *)
(* the properties what a visit or a change under way will still do: the    *)
(* bounds count it in advance, and a change holds a row that is the first  *)
(* of its user.                                                            *)
(***************************************************************************)
EXTENDS Accounts, FiniteSetTheorems, TLAPS

\* Nobody is in before add_user has ended; until then the rows are visits'.
StageInv ==
  /\ created \in {"none", "user"} =>
       DOMAIN rows = {} /\ ~early /\ \A v \in Visits : visit[v] = "none"
  /\ created = "domain" => (early <=> RowsOf(Owner) # {})
  /\ created = "all" => RowsOf(Owner) # {}
  /\ created # "all" => ActiveRows = {} /\ \A t \in Changes : change[t].st = "idle"

\* Rows never come back, and no change is about a row of the owner.
ChangeInv ==
  \A t \in Changes : change[t].st # "idle" =>
    /\ change[t].id < nextId
    /\ change[t].id \in DOMAIN rows =>
         IsFirst(change[t].id) /\ rows[change[t].id].user # Owner

\* Activations that have been counted but not saved.
Saving == {t \in Changes : change[t].st = "save" /\ change[t].active = 1}
CountInv == Cardinality(ActiveRows) + Cardinality(Saving) <= UserLimit - 1 + Cardinality(Changes)

\* Visits of u that have found no row.
Awaiting(u) == {v \in Visits : visit[v] = u}
VisitInv == \A u \in Others : Cardinality(RowsOf(u)) + Cardinality(Awaiting(u)) <= Cardinality(Visits)

IInv ==
  /\ TypeOK /\ StageInv /\ ChangeInv /\ CountInv /\ VisitInv
  /\ OwnerHasAccess /\ ActiveIsFirst

----------------------------------------------------------------------------
LEMMA Numbers ==
  /\ UserLimit \in Nat \ {0} /\ MaxRows \in Nat
  /\ Cardinality(Visits) \in Nat /\ Cardinality(Changes) \in Nat /\ Cardinality(Changes) >= 1
  <1>1. Cardinality(Visits) \in Nat /\ Cardinality(Changes) \in Nat /\ Cardinality(Changes) # 0
    BY SizesAssumption, FS_CardinalityType, FS_EmptySet
  <1> QED
    BY <1>1, SizesAssumption

\* All the sets that are counted are finite.
LEMMA Finite ==
  ASSUME TypeOK
  PROVE  /\ IsFiniteSet(DOMAIN rows)
         /\ \A S \in SUBSET DOMAIN rows : IsFiniteSet(S) /\ Cardinality(S) \in Nat
         /\ \A S \in SUBSET Changes : /\ IsFiniteSet(S) /\ Cardinality(S) \in Nat
                                      /\ Cardinality(S) <= Cardinality(Changes)
         /\ \A S \in SUBSET Visits : /\ IsFiniteSet(S) /\ Cardinality(S) \in Nat
                                     /\ Cardinality(S) <= Cardinality(Visits)
         /\ ActiveRows \in SUBSET DOMAIN rows
         /\ \A u : RowsOf(u) \in SUBSET DOMAIN rows
  <1>1. IsFiniteSet(1..MaxRows)
    BY FS_Interval, SizesAssumption
  <1>2. IsFiniteSet(DOMAIN rows)
    BY <1>1, FS_Subset DEF TypeOK
  <1>3. \A S, T : IsFiniteSet(S) /\ T \in SUBSET S =>
          IsFiniteSet(T) /\ Cardinality(T) \in Nat /\ Cardinality(T) <= Cardinality(S)
    BY FS_Subset, FS_CardinalityType
  <1> QED
    BY <1>2, <1>3, SizesAssumption DEF ActiveRows, RowsOf

\* What one element more or less does to the size of a set.
LEMMA OneElement ==
  ASSUME NEW S, IsFiniteSet(S), NEW x
  PROVE  /\ IsFiniteSet(S \cup {x}) /\ Cardinality(S \cup {x}) \in Nat
         /\ Cardinality(S \cup {x}) <= Cardinality(S) + 1
         /\ IsFiniteSet(S \ {x}) /\ Cardinality(S \ {x}) \in Nat
         /\ Cardinality(S \ {x}) <= Cardinality(S)
  <1>1. Cardinality(S) \in Nat
    BY FS_CardinalityType
  <1>2. /\ IsFiniteSet(S \cup {x})
        /\ Cardinality(S \cup {x}) = IF x \in S THEN Cardinality(S) ELSE Cardinality(S) + 1
    BY FS_AddElement
  <1>3. IsFiniteSet(S \ {x}) /\ Cardinality(S \ {x}) <= Cardinality(S)
    BY FS_Subset
  <1>4. Cardinality(S \ {x}) \in Nat
    BY <1>3, FS_CardinalityType
  <1> QED
    BY <1>1, <1>2, <1>3, <1>4

\* A new row, n, comes after all the others.
LEMMA RowAdded ==
  ASSUME TypeOK, NEW u \in Users, NEW a \in {0, 1}, AddRow(u, a), NEW n, n = nextId
  PROVE  /\ n \notin DOMAIN rows /\ DOMAIN rows' = DOMAIN rows \cup {n}
         /\ \A i \in DOMAIN rows : rows'[i] = rows[i] /\ i < n
         /\ rows'[n] = [user |-> u, active |-> a]
         /\ nextId' = n + 1
         /\ DOMAIN rows' \subseteq 1..MaxRows /\ rows' \in [DOMAIN rows' -> Row]
         /\ nextId' \in 1..(MaxRows + 1) /\ \A i \in DOMAIN rows' : i < nextId'
         /\ \A i \in DOMAIN rows : IsFirst(i) => IsFirst(i)'
         /\ RowsOf(u)' = RowsOf(u) \cup {n}
         /\ \A w : w # u => RowsOf(w)' = RowsOf(w)
         /\ ActiveRows' = IF a = 1 THEN ActiveRows \cup {n} ELSE ActiveRows
         /\ RowsOf(u) = {} => IsFirst(n)'
  <1>1. /\ DOMAIN rows \subseteq 1..MaxRows /\ rows \in [DOMAIN rows -> Row]
        /\ n \in 1..(MaxRows + 1) /\ \A i \in DOMAIN rows : i < n
        /\ MaxRows \in Nat /\ n <= MaxRows /\ nextId' = n + 1
    BY SizesAssumption DEF TypeOK, AddRow
  <1>2. n \notin DOMAIN rows /\ n \in Nat
    BY <1>1
  <1>3. rows' = [i \in DOMAIN rows \cup {n} |->
                   IF i = n THEN [user |-> u, active |-> a] ELSE rows[i]]
    BY DEF AddRow
  <1>4. [user |-> u, active |-> a] \in Row
    BY DEF Row
  <1>5. /\ DOMAIN rows' = DOMAIN rows \cup {n}
        /\ \A i \in DOMAIN rows : rows'[i] = rows[i] /\ i < n
        /\ rows'[n] = [user |-> u, active |-> a]
    BY <1>1, <1>2, <1>3
  <1>6. rows' \in [DOMAIN rows' -> Row]
    BY <1>1, <1>2, <1>3, <1>4, <1>5
  <1>7. DOMAIN rows' \subseteq 1..MaxRows /\ \A i \in DOMAIN rows' : i < nextId' /\ i \in Nat
    BY <1>1, <1>2, <1>5
  <1>8. RowsOf(u)' = RowsOf(u) \cup {n} /\ \A w : w # u => RowsOf(w)' = RowsOf(w)
    BY <1>2, <1>5 DEF RowsOf
  <1>9. ActiveRows' = IF a = 1 THEN ActiveRows \cup {n} ELSE ActiveRows
    BY <1>2, <1>5 DEF ActiveRows
  <1>10. \A i \in DOMAIN rows : IsFirst(i) => IsFirst(i)'
    <2>1. SUFFICES ASSUME NEW i \in DOMAIN rows, IsFirst(i),
                          NEW k \in DOMAIN rows', rows'[k].user = rows'[i].user
                   PROVE  i \in DOMAIN rows' /\ i <= k
      BY <1>5 DEF IsFirst, RowsOf
    <2>2. i \in Nat /\ i < n
      BY <1>1
    <2>3. CASE k = n
      BY <1>2, <1>5, <2>2, <2>3
    <2>4. CASE k \in DOMAIN rows
      BY <1>5, <2>1, <2>4 DEF IsFirst, RowsOf
    <2> QED
      BY <1>5, <2>1, <2>3, <2>4
  <1>11. RowsOf(u) = {} => IsFirst(n)'
    BY <1>1, <1>2, <1>5 DEF IsFirst, RowsOf
  <1> QED
    BY <1>1, <1>2, <1>5, <1>6, <1>7, <1>8, <1>9, <1>10, <1>11

\* What a step that leaves the rows alone keeps.
LEMMA SameRows ==
  ASSUME UNCHANGED rows
  PROVE  /\ ActiveRows' = ActiveRows /\ \A u : RowsOf(u)' = RowsOf(u)
         /\ \A i : IsFirst(i)' = IsFirst(i)
  BY DEF ActiveRows, RowsOf, IsFirst

----------------------------------------------------------------------------
LEMMA InitIInv == Init => IInv
  <1> SUFFICES ASSUME Init PROVE IInv
    OBVIOUS
  <1>1. DOMAIN rows = {} /\ rows \in [{} -> Row]
    BY DEF Init
  <1>2. ActiveRows = {} /\ \A u : RowsOf(u) = {}
    BY <1>1 DEF ActiveRows, RowsOf
  <1>3. NoChange \in Change /\ NoChange.st = "idle"
    BY DEF NoChange, Change
  <1>4. TypeOK
    <2>1. nextId \in 1..(MaxRows + 1) /\ DOMAIN rows \subseteq 1..MaxRows
      BY <1>1, SizesAssumption DEF Init
    <2>2. visit \in [Visits -> Users \cup {"none"}] /\ change \in [Changes -> Change]
      BY <1>3 DEF Init
    <2> QED
      BY <1>1, <2>1, <2>2 DEF Init, TypeOK, Users
  <1>5. StageInv /\ ChangeInv /\ OwnerHasAccess /\ ActiveIsFirst
    BY <1>1, <1>2, <1>3 DEF Init, StageInv, ChangeInv, OwnerHasAccess, ActiveIsFirst
  <1>6. CountInv
    <2>1. Saving = {}
      BY <1>3 DEF Init, Saving
    <2> QED
      BY <1>2, <2>1, Numbers, FS_EmptySet DEF CountInv
  <1>7. VisitInv
    <2>1. \A u \in Others : Awaiting(u) = {}
      BY NamesAssumption DEF Init, Awaiting, Users
    <2> QED
      BY <1>2, <2>1, Numbers, FS_EmptySet DEF VisitInv
  <1> QED
    BY <1>4, <1>5, <1>6, <1>7 DEF IInv

\* Steps that leave the rows, the visits and the changes alone.
LEMMA AccountStep ==
  ASSUME IInv,
         CreateUser \/ CreateDomain \/ Suspend \/ \E u \in Users : CancelRegistration(u)
  PROVE  IInv'
  <1>1. UNCHANGED <<rows, nextId, visit, change, early>>
    BY DEF CreateUser, CreateDomain, Suspend, CancelRegistration, Members
  <1>2. /\ ActiveRows' = ActiveRows /\ \A u : RowsOf(u)' = RowsOf(u)
        /\ \A i : IsFirst(i)' = IsFirst(i) /\ Saving' = Saving
        /\ \A u : Awaiting(u)' = Awaiting(u)
    BY <1>1, SameRows DEF Saving, Awaiting
  <1>3. TypeOK'
    BY <1>1 DEF CreateUser, CreateDomain, Suspend, CancelRegistration, IInv, TypeOK, Users
  <1>4. ChangeInv' /\ CountInv' /\ VisitInv' /\ ActiveIsFirst'
    BY <1>1, <1>2 DEF IInv, ChangeInv, CountInv, VisitInv, ActiveIsFirst
  <1>5. \/ created' = created
        \/ created = "none" /\ created' = "user"
        \/ created = "user" /\ created' = "domain"
    BY DEF CreateUser, CreateDomain, Suspend, CancelRegistration
  <1>6. created \in {"none", "user"} => RowsOf(Owner) = {}
    BY DEF IInv, StageInv, RowsOf
  <1>7. StageInv'
    BY <1>1, <1>2, <1>5, <1>6 DEF IInv, StageInv
  <1>8. OwnerHasAccess'
    BY <1>1, <1>2, <1>5 DEF IInv, OwnerHasAccess
  <1> QED
    BY <1>3, <1>4, <1>7, <1>8 DEF IInv

\* The last step of add_user: the owner's row is his first unless he came early.
LEMMA MemberStepIInv == ASSUME IInv, CreateMember PROVE IInv'
  <1>1. /\ created = "domain" /\ created' = "all" /\ AddRow(Owner, 1)
        /\ UNCHANGED <<registered, suspended, visit, change, early>>
    BY DEF CreateMember
  <1>0. PICK n : n = nextId
    OBVIOUS
  <1>2. /\ n \notin DOMAIN rows /\ DOMAIN rows' = DOMAIN rows \cup {n}
        /\ \A i \in DOMAIN rows : rows'[i] = rows[i] /\ i < n
        /\ rows'[n] = [user |-> Owner, active |-> 1]
        /\ nextId' = n + 1
        /\ DOMAIN rows' \subseteq 1..MaxRows /\ rows' \in [DOMAIN rows' -> Row]
        /\ nextId' \in 1..(MaxRows + 1) /\ \A i \in DOMAIN rows' : i < nextId'
        /\ \A i \in DOMAIN rows : IsFirst(i) => IsFirst(i)'
        /\ RowsOf(Owner)' = RowsOf(Owner) \cup {n}
        /\ \A w : w # Owner => RowsOf(w)' = RowsOf(w)
        /\ ActiveRows' = ActiveRows \cup {n}
        /\ RowsOf(Owner) = {} => IsFirst(n)'
    BY <1>0, <1>1, RowAdded DEF Users, IInv
  <1>3. /\ ActiveRows = {} /\ \A t \in Changes : change[t].st = "idle"
        /\ early <=> RowsOf(Owner) # {}
    BY <1>1 DEF IInv, StageInv
  <1>4. TypeOK'
    BY <1>1, <1>2 DEF IInv, TypeOK
  <1>5. StageInv' /\ ChangeInv'
    BY <1>1, <1>2, <1>3 DEF StageInv, ChangeInv
  <1>6. CountInv'
    <2>1. Saving' = {} /\ ActiveRows' = {n}
      BY <1>1, <1>2, <1>3 DEF Saving
    <2> QED
      <3>1. Cardinality(Saving') = 0 /\ Cardinality(ActiveRows') = 1
        BY <2>1, FS_EmptySet, FS_Singleton
      <3> QED
        BY <3>1, Numbers DEF CountInv
  <1>7. VisitInv'
    <2>1. \A u \in Others : RowsOf(u)' = RowsOf(u) /\ Awaiting(u)' = Awaiting(u)
      BY <1>1, <1>2, NamesAssumption DEF Awaiting
    <2> QED
      BY <2>1 DEF IInv, VisitInv
  <1>8. OwnerHasAccess'
    <2>1. CASE early
      <3>1. PICK k \in RowsOf(Owner) : TRUE
        BY <1>3, <2>1
      <3>2. k \in DOMAIN rows /\ k < n /\ k \in RowsOf(Owner)' /\ k \in Nat /\ n \in Nat
        BY <1>0, <1>2, <3>1, SizesAssumption DEF RowsOf, IInv, TypeOK
      <3>3. ~IsFirst(n)'
        BY <1>2, <3>1, <3>2 DEF IsFirst, RowsOf
      <3>4. \A i \in RowsOf(Owner) : rows'[i].active = 0
        <4>1. TAKE i \in RowsOf(Owner)
        <4>2. i \in DOMAIN rows /\ rows[i] \in Row /\ i \notin ActiveRows
          BY <1>3 DEF RowsOf, IInv, TypeOK
        <4> QED
          BY <1>2, <4>2 DEF ActiveRows, Row
      <3> QED
        BY <1>1, <1>2, <2>1, <3>3, <3>4 DEF OwnerHasAccess
    <2>2. CASE ~early
      BY <1>1, <1>2, <1>3, <2>2 DEF OwnerHasAccess
    <2> QED
      BY <2>1, <2>2
  <1>9. ActiveIsFirst'
    BY <1>1, <1>2, <1>3 DEF ActiveIsFirst
  <1> QED
    BY <1>4, <1>5, <1>6, <1>7, <1>8, <1>9 DEF IInv

----------------------------------------------------------------------------
\* A visit is counted from its lookup on.
LEMMA VisitIInv == ASSUME IInv, NEW v \in Visits, NEW u \in Users, Visit(v, u) PROVE IInv'
  <1>1. /\ visit[v] = "none" /\ RowsOf(u) = {} /\ created \in {"domain", "all"}
        /\ visit' = [visit EXCEPT ![v] = u]
        /\ UNCHANGED <<created, registered, suspended, rows, nextId, change, early>>
    BY DEF Visit, Account, Online
  <1>2. /\ ActiveRows' = ActiveRows /\ \A w : RowsOf(w)' = RowsOf(w)
        /\ \A i : IsFirst(i)' = IsFirst(i) /\ Saving' = Saving
    BY <1>1, SameRows DEF Saving
  <1>3. TypeOK'
    BY <1>1 DEF IInv, TypeOK
  <1>4. StageInv' /\ ChangeInv' /\ CountInv' /\ OwnerHasAccess' /\ ActiveIsFirst'
    BY <1>1, <1>2 DEF IInv, StageInv, ChangeInv, CountInv, OwnerHasAccess, ActiveIsFirst
  <1>5. VisitInv'
    <2>1. SUFFICES ASSUME NEW w \in Others
                   PROVE  Cardinality(RowsOf(w)') + Cardinality(Awaiting(w)') <= Cardinality(Visits)
      BY DEF VisitInv
    <2>2. \A x \in Visits : visit'[x] = IF x = v THEN u ELSE visit[x]
      BY <1>1 DEF IInv, TypeOK
    <2>3. CASE w = u
      <3>1. Awaiting(w)' \in SUBSET Visits
        BY DEF Awaiting
      <3>2. Cardinality(Awaiting(w)') <= Cardinality(Visits) /\ Cardinality(Awaiting(w)') \in Nat
        BY <3>1, Finite DEF IInv
      <3>3. Cardinality(RowsOf(w)') = 0
        BY <1>1, <1>2, <2>3, FS_EmptySet
      <3> QED
        BY <3>2, <3>3, Numbers
    <2>4. CASE w # u
      <3>1. Awaiting(w)' = Awaiting(w)
        BY <1>1, <2>2, <2>4, NamesAssumption DEF Awaiting, Users
      <3> QED
        BY <1>2, <3>1 DEF IInv, VisitInv
    <2> QED
      BY <2>3, <2>4
  <1> QED
    BY <1>3, <1>4, <1>5 DEF IInv

\* The visit makes a row, which is the first of its user only if he had none.
LEMMA PendIInv == ASSUME IInv, NEW v \in Visits, Pend(v) PROVE IInv'
  <1>0. PICK n, u : n = nextId /\ u = visit[v]
    OBVIOUS
  <1>1. /\ u \in Users /\ u # "none" /\ AddRow(u, 0)
        /\ visit' = [visit EXCEPT ![v] = "none"]
        /\ early' = (early \/ (u = Owner /\ created = "domain"))
        /\ UNCHANGED <<created, registered, suspended, change>>
    BY <1>0 DEF Pend, Account, IInv, TypeOK
  <1>2. /\ n \notin DOMAIN rows /\ DOMAIN rows' = DOMAIN rows \cup {n}
        /\ \A i \in DOMAIN rows : rows'[i] = rows[i] /\ i < n
        /\ rows'[n] = [user |-> u, active |-> 0]
        /\ nextId' = n + 1
        /\ DOMAIN rows' \subseteq 1..MaxRows /\ rows' \in [DOMAIN rows' -> Row]
        /\ nextId' \in 1..(MaxRows + 1) /\ \A i \in DOMAIN rows' : i < nextId'
        /\ \A i \in DOMAIN rows : IsFirst(i) => IsFirst(i)'
        /\ RowsOf(u)' = RowsOf(u) \cup {n}
        /\ \A w : w # u => RowsOf(w)' = RowsOf(w)
        /\ ActiveRows' = ActiveRows
    <2>1. TypeOK /\ 0 \in {0, 1} /\ 0 # 1
      BY DEF IInv
    <2> QED
      BY <1>0, <1>1, <2>1, RowAdded
  <1>3. created \in {"domain", "all"}
    BY <1>0, <1>1 DEF IInv, StageInv, TypeOK
  <1>4. n \in Nat /\ \A i \in DOMAIN rows : i \in Nat
    BY <1>0, SizesAssumption DEF IInv, TypeOK
  <1>5. \A x \in Visits : visit'[x] = IF x = v THEN "none" ELSE visit[x]
    BY <1>1 DEF IInv, TypeOK
  <1>6. v \in Awaiting(u)
    BY <1>0 DEF Awaiting
  <1>7. TypeOK'
    BY <1>1, <1>2, <1>5 DEF IInv, TypeOK
  <1>8. StageInv'
    <2>1. created = "domain" => (early' <=> RowsOf(Owner)' # {})
      <3>1. CASE u = Owner
        BY <1>1, <1>2, <3>1
      <3>2. CASE u # Owner
        BY <1>1, <1>2, <3>2 DEF IInv, StageInv
      <3> QED
        BY <3>1, <3>2
    <2>2. created = "all" => RowsOf(Owner)' # {}
      <3>1. CASE u = Owner
        BY <1>2, <3>1
      <3>2. CASE u # Owner
        BY <1>2, <3>2 DEF IInv, StageInv
      <3> QED
        BY <3>1, <3>2
    <2> QED
      BY <1>1, <1>2, <1>3, <2>1, <2>2 DEF IInv, StageInv
  <1>9. ChangeInv'
    <2>1. SUFFICES ASSUME NEW t \in Changes, NEW k, k = change[t].id, change[t].st # "idle"
                   PROVE  /\ k < nextId'
                          /\ k \in DOMAIN rows' => IsFirst(k)' /\ rows'[k].user # Owner
      BY <1>1 DEF ChangeInv
    <2>2. k < n /\ k \in Nat
      <3>1. change[t] \in Change
        BY DEF IInv, TypeOK
      <3> QED
        BY <1>0, <2>1, <3>1, SizesAssumption DEF IInv, ChangeInv, Change
    <2>3. k < nextId' /\ k # n
      BY <1>2, <1>4, <2>2
    <2>4. ASSUME k \in DOMAIN rows
          PROVE  IsFirst(k)' /\ rows'[k].user # Owner
      <3>1. IsFirst(k) /\ rows[k].user # Owner
        BY <2>1, <2>4 DEF IInv, ChangeInv
      <3> QED
        BY <1>2, <2>4, <3>1
    <2> QED
      BY <1>2, <2>3, <2>4
  <1>10. CountInv'
    <2>1. Saving' = Saving
      BY <1>1 DEF Saving
    <2> QED
      BY <1>2, <2>1 DEF IInv, CountInv
  <1>11. VisitInv'
    <2>1. SUFFICES ASSUME NEW w \in Others
                   PROVE  Cardinality(RowsOf(w)') + Cardinality(Awaiting(w)') <= Cardinality(Visits)
      BY DEF VisitInv
    <2>2. /\ IsFiniteSet(RowsOf(w)) /\ IsFiniteSet(Awaiting(w))
          /\ Cardinality(RowsOf(w)) \in Nat /\ Cardinality(Awaiting(w)) \in Nat
      BY Finite DEF IInv, Awaiting
    <2>3. CASE w = u
      <3>1. Awaiting(w)' = Awaiting(w) \ {v}
        BY <1>5, <2>3, NamesAssumption DEF Awaiting, Users
      <3>2. Cardinality(Awaiting(w)') = Cardinality(Awaiting(w)) - 1
        BY <1>6, <2>2, <2>3, <3>1, FS_RemoveElement
      <3>3. n \notin RowsOf(w)
        BY <1>2 DEF RowsOf
      <3>4. Cardinality(RowsOf(w)') = Cardinality(RowsOf(w)) + 1
        BY <1>2, <2>2, <2>3, <3>3, FS_AddElement
      <3> QED
        BY <2>2, <3>2, <3>4 DEF IInv, VisitInv
    <2>4. CASE w # u
      <3>1. Awaiting(w)' = Awaiting(w)
        BY <1>0, <1>5, <2>4, NamesAssumption DEF Awaiting, Users
      <3> QED
        BY <1>2, <2>4, <3>1 DEF IInv, VisitInv
    <2> QED
      BY <2>3, <2>4
  <1>12. OwnerHasAccess'
    <2>1. SUFFICES ASSUME created = "all", NEW i \in RowsOf(Owner)', IsFirst(i)'
                   PROVE  rows'[i].active = (IF early' THEN 0 ELSE 1)
      BY <1>1 DEF OwnerHasAccess
    <2>2. early' = early
      BY <1>1, <2>1 DEF IInv, TypeOK
    <2>3. PICK k \in RowsOf(Owner) : TRUE
      BY <2>1 DEF IInv, StageInv
    <2>4. k \in DOMAIN rows /\ rows[k].user = Owner /\ k < n /\ k \in Nat
      BY <1>2, <1>4, <2>3 DEF RowsOf
    <2>5. i # n
      <3>1. SUFFICES ASSUME i = n PROVE FALSE
        OBVIOUS
      <3>2. rows'[i].user = Owner /\ rows'[k].user = Owner /\ k \in DOMAIN rows'
        BY <1>2, <2>1, <2>4 DEF RowsOf
      <3> QED
        BY <1>4, <2>1, <2>4, <3>1, <3>2 DEF IsFirst, RowsOf
    <2>6. i \in DOMAIN rows /\ rows[i].user = Owner /\ rows'[i] = rows[i]
      BY <1>2, <2>1, <2>5 DEF RowsOf
    <2>7. IsFirst(i)
      <3>1. \A x \in RowsOf(Owner) : x \in DOMAIN rows' /\ rows'[x].user = Owner
        BY <1>2 DEF RowsOf
      <3> QED
        BY <2>1, <2>6, <3>1 DEF IsFirst, RowsOf
    <2> QED
      BY <2>1, <2>2, <2>6, <2>7 DEF IInv, OwnerHasAccess, RowsOf
  <1>13. ActiveIsFirst'
    <2>1. SUFFICES ASSUME NEW i \in ActiveRows
                   PROVE  IsFirst(i)' \/ (early' /\ rows'[i].user = Owner)
      BY <1>2 DEF ActiveIsFirst
    <2>2. i \in DOMAIN rows
      BY DEF ActiveRows
    <2> QED
      BY <1>1, <1>2, <2>2 DEF IInv, ActiveIsFirst
  <1> QED
    BY <1>7, <1>8, <1>9, <1>10, <1>11, <1>12, <1>13 DEF IInv

----------------------------------------------------------------------------
\* An activation that passes the count has its place below the bound, because
\* the count left one and there are only so many toggles.
LEMMA CountIInv == ASSUME IInv, NEW t \in Changes, ToggleCount(t) PROVE IInv'
  <1> DEFINE r == IF CountAllows(Cardinality(ActiveRows), change[t].active)
                  THEN [change[t] EXCEPT !.st = "save"] ELSE NoChange
  <1>1. /\ change[t].st = "count" /\ change[t] \in Change
        /\ change' = [change EXCEPT ![t] = r]
        /\ UNCHANGED <<created, registered, suspended, rows, nextId, visit, early>>
    BY DEF ToggleCount, Account, IInv, TypeOK
  <1>2. /\ ActiveRows' = ActiveRows /\ \A w : RowsOf(w)' = RowsOf(w)
        /\ \A i : IsFirst(i)' = IsFirst(i)
    BY <1>1, SameRows
  <1>3. /\ r \in Change
        /\ r.st # "idle" => /\ r.id = change[t].id /\ r.active = change[t].active
                            /\ CountAllows(Cardinality(ActiveRows), r.active)
    BY <1>1 DEF Change, NoChange
  <1> HIDE DEF r
  <1>4. \A x \in Changes : change'[x] = IF x = t THEN r ELSE change[x]
    BY <1>1 DEF IInv, TypeOK
  <1>5. TypeOK'
    BY <1>1, <1>3 DEF IInv, TypeOK
  <1>6. created = "all"
    BY <1>1 DEF IInv, StageInv
  <1>7. StageInv' /\ OwnerHasAccess' /\ ActiveIsFirst'
    BY <1>1, <1>2, <1>6 DEF IInv, StageInv, OwnerHasAccess, ActiveIsFirst
  <1>8. ChangeInv'
    <2>1. SUFFICES ASSUME NEW x \in Changes, NEW k, k = change'[x].id, change'[x].st # "idle"
                   PROVE  /\ k < nextId'
                          /\ k \in DOMAIN rows' => IsFirst(k)' /\ rows'[k].user # Owner
      BY DEF ChangeInv
    <2>2. change[x].st # "idle" /\ change[x].id = k
      BY <1>1, <1>3, <1>4, <2>1
    <2> QED
      BY <1>1, <1>2, <2>2 DEF IInv, ChangeInv
  <1>9. CountInv'
    <2>1. /\ Cardinality(ActiveRows) \in Nat /\ Saving \in SUBSET Changes
          /\ Saving' \in SUBSET Changes
      BY Finite DEF IInv, Saving
    <2>2. Cardinality(Saving') <= Cardinality(Changes) /\ Cardinality(Saving') \in Nat
      BY <2>1, Finite DEF IInv
    <2>3. CASE r.st = "save" /\ r.active = 1
      <3>1. Cardinality(ActiveRows) + 1 <= UserLimit
        BY <1>3, <2>3 DEF CountAllows
      <3> QED
        BY <1>2, <2>1, <2>2, <3>1, Numbers DEF CountInv
    <2>4. CASE ~(r.st = "save" /\ r.active = 1)
      <3>1. Saving' \in SUBSET Saving
        BY <1>4, <2>4 DEF Saving
      <3>2. IsFiniteSet(Saving) /\ Cardinality(Saving) \in Nat
        BY <2>1, Finite DEF IInv
      <3>3. Cardinality(Saving') <= Cardinality(Saving)
        BY <3>1, <3>2, FS_Subset
      <3> QED
        BY <1>2, <2>1, <2>2, <3>2, <3>3, Numbers DEF IInv, CountInv
    <2> QED
      BY <2>3, <2>4
  <1>10. VisitInv'
    BY <1>1, <1>2 DEF IInv, VisitInv, Awaiting
  <1> QED
    BY <1>5, <1>7, <1>8, <1>9, <1>10 DEF IInv

\* A request that passes the filters is about the first row of a member.
LEMMA FiltersIInv ==
  ASSUME IInv, NEW t \in Changes, NEW i \in DOMAIN rows, Filters(t, i) PROVE IInv'
  <1> DEFINE r == [NoChange EXCEPT !.st = "find", !.id = i]
  <1>1. /\ change[t].st = "idle" /\ IsFirst(i) /\ rows[i].user # Owner
        /\ change' = [change EXCEPT ![t] = r]
        /\ UNCHANGED <<created, registered, suspended, rows, nextId, visit, early>>
    BY DEF Filters, NotOwner, Account
  <1>2. /\ ActiveRows' = ActiveRows /\ \A w : RowsOf(w)' = RowsOf(w)
        /\ \A k : IsFirst(k)' = IsFirst(k)
    BY <1>1, SameRows
  <1>3. r \in Change /\ r.st = "find" /\ r.id = i /\ i < nextId
    BY DEF NoChange, Change, IInv, TypeOK
  <1> HIDE DEF r
  <1>4. \A x \in Changes : change'[x] = IF x = t THEN r ELSE change[x]
    BY <1>1 DEF IInv, TypeOK
  <1>5. TypeOK'
    BY <1>1, <1>3 DEF IInv, TypeOK
  \* Somebody acts, so some row is active.
  <1>6. created = "all"
    <2>1. \E k \in DOMAIN rows : rows[k].active = 1
      BY DEF Filters, SomebodyActs, HasAccess, IsFirst
    <2> QED
      BY <2>1 DEF IInv, StageInv, ActiveRows
  <1>7. StageInv' /\ OwnerHasAccess' /\ ActiveIsFirst'
    BY <1>1, <1>2, <1>6 DEF IInv, StageInv, OwnerHasAccess, ActiveIsFirst
  <1>8. ChangeInv'
    <2>1. SUFFICES ASSUME NEW x \in Changes, NEW k, k = change'[x].id, change'[x].st # "idle"
                   PROVE  /\ k < nextId'
                          /\ k \in DOMAIN rows' => IsFirst(k)' /\ rows'[k].user # Owner
      BY DEF ChangeInv
    <2>2. CASE x = t
      BY <1>1, <1>2, <1>3, <1>4, <2>1, <2>2
    <2>3. CASE x # t
      BY <1>1, <1>2, <1>4, <2>1, <2>3 DEF IInv, ChangeInv
    <2> QED
      BY <2>2, <2>3
  <1>9. CountInv'
    <2>1. Saving' = Saving
      BY <1>1, <1>3, <1>4 DEF Saving
    <2> QED
      BY <1>2, <2>1 DEF IInv, CountInv
  <1>10. VisitInv'
    BY <1>1, <1>2 DEF IInv, VisitInv, Awaiting
  <1> QED
    BY <1>5, <1>7, <1>8, <1>9, <1>10 DEF IInv

\* What is loaded is the row the filters let through, if it is still there.
LEMMA LoadIInv == ASSUME IInv, NEW t \in Changes, ToggleLoad(t) PROVE IInv'
  <1> DEFINE i == change[t].id
             r == IF i \notin DOMAIN rows THEN NoChange
                  ELSE [change[t] EXCEPT !.st = "count", !.active = 1 - rows[i].active]
  <1>1. /\ change[t].st = "find" /\ change[t] \in Change
        /\ change' = [change EXCEPT ![t] = r]
        /\ UNCHANGED <<created, registered, suspended, rows, nextId, visit, early>>
    BY DEF ToggleLoad, Account, IInv, TypeOK
  <1>2. /\ ActiveRows' = ActiveRows /\ \A w : RowsOf(w)' = RowsOf(w)
        /\ \A k : IsFirst(k)' = IsFirst(k)
    BY <1>1, SameRows
  <1>3. r \in Change /\ r.st \in {"idle", "count"} /\ (r.st # "idle" => r.id = change[t].id)
    <2>1. i \in DOMAIN rows => 1 - rows[i].active \in {0, 1}
      <3>1. i \in DOMAIN rows => rows[i].active \in {0, 1}
        BY DEF IInv, TypeOK, Row
      <3> QED
        BY <3>1
    <2> QED
      BY <1>1, <2>1 DEF Change, NoChange
  <1> HIDE DEF r
  <1>4. \A x \in Changes : change'[x] = IF x = t THEN r ELSE change[x]
    BY <1>1 DEF IInv, TypeOK
  <1>5. TypeOK'
    BY <1>1, <1>3 DEF IInv, TypeOK
  <1>6. created = "all"
    BY <1>1 DEF IInv, StageInv
  <1>7. StageInv' /\ OwnerHasAccess' /\ ActiveIsFirst'
    BY <1>1, <1>2, <1>6 DEF IInv, StageInv, OwnerHasAccess, ActiveIsFirst
  <1>8. ChangeInv'
    <2>1. SUFFICES ASSUME NEW x \in Changes, NEW k, k = change'[x].id, change'[x].st # "idle"
                   PROVE  /\ k < nextId'
                          /\ k \in DOMAIN rows' => IsFirst(k)' /\ rows'[k].user # Owner
      BY DEF ChangeInv
    <2>2. change[x].st # "idle" /\ change[x].id = k
      BY <1>1, <1>3, <1>4, <2>1
    <2> QED
      BY <1>1, <1>2, <2>2 DEF IInv, ChangeInv
  <1>9. CountInv'
    <2>1. Saving' = Saving
      BY <1>1, <1>3, <1>4 DEF Saving
    <2> QED
      BY <1>2, <2>1 DEF IInv, CountInv
  <1>10. VisitInv'
    BY <1>1, <1>2 DEF IInv, VisitInv, Awaiting
  <1> QED
    BY <1>5, <1>7, <1>8, <1>9, <1>10 DEF IInv

\* A change that saves turns its place below the bound into an active row.
LEMMA SaveIInv == ASSUME IInv, NEW t \in Changes, ToggleSave(t) PROVE IInv'
  <1>0. PICK i, a : i = change[t].id /\ a = change[t].active
    OBVIOUS
  <1>1. /\ change[t].st = "save" /\ a \in {0, 1} /\ i < nextId
        /\ change' = [change EXCEPT ![t] = NoChange]
        /\ rows' = IF i \in DOMAIN rows THEN [rows EXCEPT ![i].active = a] ELSE rows
        /\ i \in DOMAIN rows => IsFirst(i) /\ rows[i].user # Owner
        /\ UNCHANGED <<created, registered, suspended, nextId, visit, early>>
    BY <1>0 DEF ToggleSave, Account, IInv, TypeOK, Change, ChangeInv
  <1>2. /\ DOMAIN rows' = DOMAIN rows /\ rows' \in [DOMAIN rows -> Row]
        /\ \A k \in DOMAIN rows : /\ rows'[k].user = rows[k].user
                                  /\ rows'[k].active = IF k = i THEN a ELSE rows[k].active
    BY <1>1 DEF IInv, TypeOK, Row
  <1>3. (\A w : RowsOf(w)' = RowsOf(w)) /\ (\A k : IsFirst(k)' <=> IsFirst(k))
    BY <1>2 DEF RowsOf, IsFirst
  <1>4. NoChange \in Change /\ NoChange.st = "idle"
    BY DEF NoChange, Change
  <1>5. \A x \in Changes : change'[x] = IF x = t THEN NoChange ELSE change[x]
    BY <1>1 DEF IInv, TypeOK
  <1>6. TypeOK'
    BY <1>1, <1>2, <1>4 DEF IInv, TypeOK
  <1>7. created = "all"
    BY <1>1 DEF IInv, StageInv
  <1>8. StageInv'
    BY <1>1, <1>3, <1>7 DEF IInv, StageInv
  <1>9. ChangeInv'
    <2>1. SUFFICES ASSUME NEW x \in Changes, NEW k, k = change'[x].id, change'[x].st # "idle"
                   PROVE  /\ k < nextId'
                          /\ k \in DOMAIN rows' => IsFirst(k)' /\ rows'[k].user # Owner
      BY DEF ChangeInv
    <2>2. change[x] = change'[x]
      BY <1>4, <1>5, <2>1
    <2> QED
      BY <1>1, <1>2, <1>3, <2>1, <2>2 DEF IInv, ChangeInv
  <1>10. OwnerHasAccess'
    <2>1. SUFFICES ASSUME NEW k \in RowsOf(Owner), IsFirst(k)
                   PROVE  rows'[k].active = (IF early THEN 0 ELSE 1)
      BY <1>1, <1>3 DEF OwnerHasAccess
    <2>2. k \in DOMAIN rows /\ k # i
      BY <1>1 DEF RowsOf
    <2>3. rows[k].active = (IF early THEN 0 ELSE 1)
      BY <1>7, <2>1 DEF IInv, OwnerHasAccess
    <2> QED
      BY <1>2, <2>2, <2>3
  <1>11. ActiveIsFirst'
    <2>1. SUFFICES ASSUME NEW k \in DOMAIN rows, rows'[k].active = 1
                   PROVE  IsFirst(k) \/ (early /\ rows[k].user = Owner)
      BY <1>1, <1>2, <1>3 DEF ActiveIsFirst, ActiveRows
    <2> QED
      BY <1>1, <1>2, <2>1 DEF IInv, ActiveIsFirst, ActiveRows
  <1>12. CountInv'
    <2>1. /\ IsFiniteSet(ActiveRows) /\ IsFiniteSet(Saving)
          /\ Cardinality(ActiveRows) \in Nat /\ Cardinality(Saving) \in Nat
      BY Finite DEF IInv, Saving
    <2>2. Saving' = Saving \ {t}
      BY <1>4, <1>5 DEF Saving
    <2>3. ActiveRows' \in SUBSET (ActiveRows \cup {i}) /\ (a = 0 => ActiveRows' \in SUBSET ActiveRows)
      BY <1>2 DEF ActiveRows
    <2>4. CASE a = 1
      <3>1. t \in Saving
        BY <1>0, <1>1, <2>4 DEF Saving
      <3>2. Cardinality(Saving') = Cardinality(Saving) - 1
        BY <2>1, <2>2, <3>1, FS_RemoveElement
      <3>3. /\ IsFiniteSet(ActiveRows \cup {i}) /\ Cardinality(ActiveRows \cup {i}) \in Nat
            /\ Cardinality(ActiveRows \cup {i}) <= Cardinality(ActiveRows) + 1
        BY <2>1, OneElement
      <3>4. Cardinality(ActiveRows') <= Cardinality(ActiveRows \cup {i})
        BY <2>3, <3>3, FS_Subset
      <3>5. Cardinality(ActiveRows') \in Nat
        BY <2>3, <3>3, FS_Subset, FS_CardinalityType
      <3> QED
        BY <2>1, <3>2, <3>3, <3>4, <3>5, Numbers DEF IInv, CountInv
    <2>5. CASE a = 0
      <3>1. Cardinality(ActiveRows') <= Cardinality(ActiveRows)
        BY <2>1, <2>3, <2>5, FS_Subset
      <3>2. Cardinality(Saving') <= Cardinality(Saving)
        BY <2>1, <2>2, OneElement
      <3>3. Cardinality(ActiveRows') \in Nat /\ Cardinality(Saving') \in Nat
        <4>1. IsFiniteSet(ActiveRows')
          BY <2>1, <2>3, <2>5, FS_Subset
        <4> QED
          BY <2>1, <2>2, <4>1, FS_CardinalityType, OneElement
      <3> QED
        BY <2>1, <3>1, <3>2, <3>3, Numbers DEF IInv, CountInv
    <2> QED
      BY <1>1, <2>4, <2>5
  <1>13. VisitInv'
    BY <1>1, <1>3 DEF IInv, VisitInv, Awaiting
  <1> QED
    BY <1>6, <1>8, <1>9, <1>10, <1>11, <1>12, <1>13 DEF IInv

LEMMA RemoveIInv == ASSUME IInv, NEW t \in Changes, Remove(t) PROVE IInv'
  <1> DEFINE i == change[t].id
  <1>1. /\ rows' = [k \in DOMAIN rows \ {i} |-> rows[k]]
        /\ i \in DOMAIN rows => rows[i].user # Owner
        /\ change[t].st = "find" /\ change' = [change EXCEPT ![t] = NoChange]
        /\ UNCHANGED <<created, registered, suspended, nextId, visit, early>>
    BY DEF Remove, Account, IInv, ChangeInv
  <1>14. /\ NoChange \in Change /\ NoChange.st = "idle"
         /\ \A x \in Changes : change'[x] = IF x = t THEN NoChange ELSE change[x]
    BY <1>1 DEF NoChange, Change, IInv, TypeOK
  <1>15. created = "all"
    BY <1>1 DEF IInv, StageInv
  <1> HIDE DEF i
  <1>2. /\ DOMAIN rows' = DOMAIN rows \ {i} /\ rows' \in [DOMAIN rows' -> Row]
        /\ \A k \in DOMAIN rows' : rows'[k] = rows[k]
    BY <1>1 DEF IInv, TypeOK
  <1>3. \A w : RowsOf(w)' = RowsOf(w) \ {i}
    BY <1>2 DEF RowsOf
  <1>4. RowsOf(Owner)' = RowsOf(Owner)
    BY <1>1, <1>3 DEF RowsOf
  <1>5. ActiveRows' = ActiveRows \ {i}
    BY <1>2 DEF ActiveRows
  <1>6. \A k \in DOMAIN rows' : IsFirst(k) => IsFirst(k)'
    BY <1>2 DEF IsFirst, RowsOf
  <1>7. TypeOK'
    BY <1>1, <1>2, <1>14 DEF IInv, TypeOK
  <1>8. StageInv'
    BY <1>1, <1>4, <1>15 DEF IInv, StageInv
  <1>9. ChangeInv'
    <2>1. SUFFICES ASSUME NEW x \in Changes, NEW k, k = change'[x].id, change'[x].st # "idle"
                   PROVE  /\ k < nextId
                          /\ k \in DOMAIN rows' => IsFirst(k)' /\ rows'[k].user # Owner
      BY <1>1 DEF ChangeInv
    <2>2. k < nextId /\ (k \in DOMAIN rows => IsFirst(k) /\ rows[k].user # Owner)
      BY <1>14, <2>1 DEF IInv, ChangeInv
    <2> QED
      BY <1>2, <1>6, <2>2
  <1>10. OwnerHasAccess'
    <2>1. SUFFICES ASSUME created = "all", NEW k \in RowsOf(Owner), IsFirst(k)'
                   PROVE  rows'[k].active = (IF early THEN 0 ELSE 1)
      BY <1>1, <1>4 DEF OwnerHasAccess
    <2>2. k \in DOMAIN rows' /\ rows'[k] = rows[k] /\ rows[k].user = Owner
      BY <1>1, <1>2 DEF RowsOf
    <2>3. \A x \in RowsOf(Owner) : x \in DOMAIN rows' /\ rows'[x].user = Owner
      BY <1>1, <1>2 DEF RowsOf
    <2>4. IsFirst(k)
      BY <2>1, <2>2, <2>3 DEF IsFirst, RowsOf
    <2> QED
      BY <2>1, <2>2, <2>4 DEF IInv, OwnerHasAccess
  <1>11. ActiveIsFirst'
    <2>1. SUFFICES ASSUME NEW k \in ActiveRows, k # i
                   PROVE  IsFirst(k)' \/ (early /\ rows'[k].user = Owner)
      BY <1>1, <1>5 DEF ActiveIsFirst
    <2>2. k \in DOMAIN rows'
      BY <1>2, <2>1 DEF ActiveRows
    <2> QED
      BY <1>2, <1>6, <2>2 DEF IInv, ActiveIsFirst
  <1>12. CountInv'
    <2>1. /\ IsFiniteSet(ActiveRows) /\ Cardinality(ActiveRows) \in Nat
          /\ Cardinality(Saving) \in Nat
      BY Finite DEF IInv, Saving
    <2>2. Cardinality(ActiveRows') \in Nat /\ Cardinality(ActiveRows') <= Cardinality(ActiveRows)
      <3>1. ActiveRows' \in SUBSET ActiveRows
        BY <1>5
      <3> QED
        BY <2>1, <3>1, FS_Subset, FS_CardinalityType
    <2>3. Saving' = Saving
      BY <1>1, <1>14 DEF Saving
    <2> QED
      BY <2>1, <2>2, <2>3, Numbers DEF IInv, CountInv
  <1>13. VisitInv'
    <2>1. SUFFICES ASSUME NEW u \in Others
                   PROVE  Cardinality(RowsOf(u)') + Cardinality(Awaiting(u)') <= Cardinality(Visits)
      BY DEF VisitInv
    <2>2. /\ IsFiniteSet(RowsOf(u)) /\ Cardinality(RowsOf(u)) \in Nat
          /\ Cardinality(Awaiting(u)) \in Nat
      BY Finite DEF IInv, Awaiting
    <2>3. Cardinality(RowsOf(u)') \in Nat /\ Cardinality(RowsOf(u)') <= Cardinality(RowsOf(u))
      <3>1. RowsOf(u)' \in SUBSET RowsOf(u)
        BY <1>3
      <3> QED
        BY <2>2, <3>1, FS_Subset, FS_CardinalityType
    <2>4. Awaiting(u)' = Awaiting(u)
      BY <1>1 DEF Awaiting
    <2> QED
      BY <2>2, <2>3, <2>4, Numbers DEF IInv, VisitInv
  <1> QED
    BY <1>7, <1>8, <1>9, <1>10, <1>11, <1>12, <1>13 DEF IInv

----------------------------------------------------------------------------
LEMMA StepIInv == IInv /\ [Next]_vars => IInv'
  <1> SUFFICES ASSUME IInv, [Next]_vars PROVE IInv'
    OBVIOUS
  <1>1. CASE UNCHANGED vars
    <2>1. UNCHANGED <<created, registered, suspended, rows, nextId, visit, change, early>>
      BY <1>1 DEF vars
    <2>2. TypeOK' /\ StageInv'
      BY <2>1 DEF IInv, TypeOK, StageInv, RowsOf, ActiveRows
    <2>3. ChangeInv' /\ CountInv' /\ VisitInv'
      BY <2>1 DEF IInv, ChangeInv, CountInv, Saving, VisitInv, Awaiting, RowsOf, ActiveRows, IsFirst
    <2>4. OwnerHasAccess' /\ ActiveIsFirst'
      BY <2>1 DEF IInv, OwnerHasAccess, ActiveIsFirst, RowsOf, ActiveRows, IsFirst
    <2> QED
      BY <2>2, <2>3, <2>4 DEF IInv
  <1>2. CASE ApiStep
    BY <1>2, AccountStep, MemberStepIInv DEF ApiStep
  <1>3. CASE MemberStep
    BY <1>3, AccountStep, VisitIInv, PendIInv, FiltersIInv, LoadIInv, CountIInv,
       SaveIInv, RemoveIInv
       DEF MemberStep
  <1> QED
    BY <1>1, <1>2, <1>3 DEF Next

\* The inductive invariant holds.
THEOREM Inductive == Spec => []IInv
  BY InitIInv, StepIInv, PTL DEF Spec

\* All variables keep their types.
THEOREM TypeCorrect == Spec => []TypeOK
  <1>1. IInv => TypeOK
    BY DEF IInv
  <1> QED
    BY <1>1, Inductive, PTL

\* Toggles that count together exceed the package by no more than their number
\* less one, for every package and any number of toggles.
THEOREM PackageKept == Spec => []ActiveBounded
  <1>1. IInv => ActiveBounded
    <2> SUFFICES ASSUME IInv PROVE ActiveBounded
      OBVIOUS
    <2>1. Cardinality(ActiveRows) \in Nat /\ Cardinality(Saving) \in Nat
      BY Finite DEF IInv, Saving
    <2> QED
      BY <2>1, Numbers DEF IInv, CountInv, ActiveBounded
  <1> QED
    BY <1>1, Inductive, PTL

\* A customer whose account was completed keeps his access, unless he visited
\* the domain before add_user gave him his row, and then he never has it.
THEOREM OwnerKeepsAccess == Spec => []OwnerHasAccess
  <1>1. IInv => OwnerHasAccess
    BY DEF IInv
  <1> QED
    BY <1>1, Inductive, PTL

\* Every active row is the one its user is judged by.
THEOREM ActiveRowsCount == Spec => []ActiveIsFirst
  <1>1. IInv => ActiveIsFirst
    BY DEF IInv
  <1> QED
    BY <1>1, Inductive, PTL

\* A user has no more rows than visits that could race.
THEOREM RowsKeptFew == Spec => []RowsBounded
  <1>1. IInv => RowsBounded
    <2> SUFFICES ASSUME IInv, NEW u \in Others
                 PROVE  Cardinality(RowsOf(u)) <= Cardinality(Visits)
      BY DEF RowsBounded
    <2>1. Cardinality(RowsOf(u)) \in Nat /\ Cardinality(Awaiting(u)) \in Nat
      BY Finite DEF IInv, Awaiting
    <2> QED
      BY <2>1, Numbers DEF IInv, VisitInv
  <1> QED
    BY <1>1, Inductive, PTL

=============================================================================
