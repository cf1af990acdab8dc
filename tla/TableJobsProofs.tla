--------------------------- MODULE TableJobsProofs ---------------------------
(***************************************************************************)
(* Theorems about the two components whose jobs load a whole table and     *)
(* work on what they loaded: TcpServices, for any servers, rows, workers   *)
(* and length of the queue, and Dashboard (D below), for any servers,      *)
(* figures, workers and length of the queue.                               *)
(***************************************************************************)
EXTENDS TcpServices, TLAPS

\* The invariant of TcpServices adds to the safety property that the history of
\* an id that is not in the table is a fresh one.
FreshIds == \A i \in Ids \ DOMAIN row : verdict[i] = "open"

IInv == TypeOK /\ FreshIds /\ DownShows

----------------------------------------------------------------------------
LEMMA NoneType == None \in [{} -> Row] /\ DOMAIN None = {}
  BY DEF None

\* What a worker has to check are rows.
LEMMA LoadedType ==
  ASSUME TypeOK, NEW w \in Workers
  PROVE  Todo(w) \subseteq Ids /\ loaded[w] \in [Todo(w) -> Row]
  <1>1. PICK S \in SUBSET Ids : loaded[w] \in [S -> Row]
    BY DEF TypeOK
  <1> QED
    BY <1>1 DEF Todo

\* A worker takes over some rows.
LEMMA LoadedNext ==
  ASSUME TypeOK, NEW w \in Workers, NEW S \in SUBSET Ids, NEW l \in [S -> Row],
         loaded' = [loaded EXCEPT ![w] = l]
  PROVE  loaded' \in [Workers -> UNION {[T -> Row] : T \in SUBSET Ids}]
  BY DEF TypeOK

----------------------------------------------------------------------------
LEMMA InitIInv == Init => IInv
  <1> SUFFICES ASSUME Init PROVE IInv
    OBVIOUS
  <1>1. row = None /\ loaded = [w \in Workers |-> None]
    BY DEF Init
  <1>2. TypeOK
    <2>1. row \in [DOMAIN row -> Row] /\ DOMAIN row \subseteq Ids
      BY <1>1, NoneType
    <2>2. None \in UNION {[S -> Row] : S \in SUBSET Ids}
      BY NoneType
    <2>3. loaded \in [Workers -> UNION {[S -> Row] : S \in SUBSET Ids}]
      BY <1>1, <2>2
    <2>4. queue \in 0..MaxQueue
      BY SizesAssumption DEF Init
    <2> QED
      BY <2>1, <2>3, <2>4 DEF Init, TypeOK
  <1>3. DOMAIN row = {}
    BY <1>1, NoneType
  <1>4. FreshIds
    BY DEF Init, FreshIds
  <1> QED
    BY <1>2, <1>3, <1>4 DEF IInv, DownShows

\* Steps that leave the table and its history alone.
LEMMA TableKept ==
  ASSUME IInv, UNCHANGED Table
  PROVE  FreshIds' /\ DownShows'
  BY DEF IInv, Table, FreshIds, DownShows

LEMMA NextIInv == IInv /\ [Next]_vars => IInv'
  <1> SUFFICES ASSUME IInv, [Next]_vars PROVE IInv'
    OBVIOUS
  <1>ty. TypeOK /\ FreshIds /\ DownShows
    BY DEF IInv
  <1>1. CASE UNCHANGED vars
    <2>1. UNCHANGED Table
      BY <1>1 DEF vars, Table
    <2>2. TypeOK'
      BY <1>1, <1>ty DEF vars, TypeOK
    <2> QED
      BY <2>1, <2>2, TableKept DEF IInv
  <1>2. ASSUME NEW s \in Servers, NEW a \in Answers, MachineChanges(s, a)
        PROVE  IInv'
    <2>1. UNCHANGED Table
      BY <1>2 DEF MachineChanges
    <2>2. TypeOK'
      BY <1>2, <1>ty DEF MachineChanges, TypeOK, Table, Work
    <2> QED
      BY <2>1, <2>2, TableKept DEF IInv
  <1>3. ASSUME NEW s \in Servers, DestroyServer(s)
        PROVE  IInv'
    <2>1. UNCHANGED Table
      BY <1>3 DEF DestroyServer
    <2>2. TypeOK'
      BY <1>3, <1>ty DEF DestroyServer, TypeOK, Table, Work
    <2> QED
      BY <2>1, <2>2, TableKept DEF IInv
  <1>4. ASSUME NEW type \in {"tcp", "server"}, UpdateService(type)
        PROVE  IInv'
    <2>1. UNCHANGED Table
      BY <1>4 DEF UpdateService
    <2>2. TypeOK'
      BY <1>4, <1>ty DEF UpdateService, TypeOK, Table, Work
    <2> QED
      BY <2>1, <2>2, TableKept DEF IInv
  <1>5. CASE DestroyService
    <2>1. row' = None /\ verdict' = [i \in Ids |-> "open"] /\ service' = "gone"
          /\ UNCHANGED <<machine, queue, loaded, answer>>
      BY <1>5 DEF DestroyService, Work
    <2>2. DOMAIN row' = {} /\ row' \in [DOMAIN row' -> Row]
      BY <2>1, NoneType
    <2>3. TypeOK'
      BY <2>1, <2>2, <1>ty DEF TypeOK
    <2>4. FreshIds' /\ DownShows'
      BY <2>1, <2>2 DEF FreshIds, DownShows
    <2> QED
      BY <2>3, <2>4 DEF IInv
  <1>6. ASSUME NEW i \in Ids, NEW s \in Servers, Attach(i, s)
        PROVE  IInv'
    <2>1. /\ i \in Ids \ DOMAIN row
          /\ row' = [k \in DOMAIN row \cup {i} |->
                       IF k = i THEN [server |-> s, status |-> 0] ELSE row[k]]
          /\ UNCHANGED <<machine, service, verdict, queue, loaded, answer>>
      BY <1>6 DEF Attach, Work
    <2>2. [server |-> s, status |-> 0] \in Row
      BY DEF Row
    <2>3. DOMAIN row' = DOMAIN row \cup {i} /\ row' \in [DOMAIN row' -> Row]
      BY <2>1, <2>2, <1>ty DEF TypeOK
    <2>4. TypeOK'
      BY <2>1, <2>3, <1>ty DEF TypeOK
    <2>5. row'[i].status = 0 /\ \A k \in DOMAIN row : row'[k] = row[k]
      BY <2>1
    <2>6. FreshIds'
      BY <2>1, <2>3, <1>ty DEF FreshIds
    <2>7. DownShows'
      BY <2>1, <2>3, <2>5, <1>ty DEF FreshIds, DownShows
    <2> QED
      BY <2>4, <2>6, <2>7 DEF IInv
  <1>7. ASSUME NEW i \in Ids, Detach(i)
        PROVE  IInv'
    <2>1. /\ row' = [k \in DOMAIN row \ {i} |-> row[k]]
          /\ verdict' = [verdict EXCEPT ![i] = "open"]
          /\ UNCHANGED <<machine, service, queue, loaded, answer>>
      BY <1>7 DEF Detach, Work
    <2>2. DOMAIN row' = DOMAIN row \ {i} /\ row' \in [DOMAIN row' -> Row]
      BY <2>1, <1>ty DEF TypeOK
    <2>3. TypeOK'
      BY <2>1, <2>2, <1>ty DEF TypeOK
    <2>4. FreshIds' /\ DownShows'
      BY <2>1, <2>2, <1>ty DEF TypeOK, FreshIds, DownShows
    <2> QED
      BY <2>3, <2>4 DEF IInv
  <1>8. CASE CronEnqueue
    <2>1. UNCHANGED Table
      BY <1>8 DEF CronEnqueue
    <2>2. queue' \in 0..MaxQueue
      BY <1>8, <1>ty, SizesAssumption DEF CronEnqueue, TypeOK
    <2>3. TypeOK'
      BY <1>8, <2>2, <1>ty DEF CronEnqueue, TypeOK, Table
    <2> QED
      BY <2>1, <2>3, TableKept DEF IInv
  <1>9. ASSUME NEW w \in Workers, Perform(w)
        PROVE  IInv'
    <2>1. UNCHANGED Table
      BY <1>9 DEF Perform
    <2>2. queue' \in 0..MaxQueue
      BY <1>9, <1>ty, SizesAssumption DEF Perform, TypeOK
    <2>3. loaded' \in [Workers -> UNION {[S -> Row] : S \in SUBSET Ids}]
      <3>1. CASE service = "gone"
        BY <1>9, <1>ty, <3>1, NoneType, LoadedNext DEF Perform
      <3>2. CASE service # "gone"
        <4>1. row \in [DOMAIN row -> Row] /\ DOMAIN row \in SUBSET Ids
          BY <1>ty DEF TypeOK
        <4>2. loaded' = [loaded EXCEPT ![w] = row]
          BY <1>9, <3>2 DEF Perform
        <4> QED
          BY <1>ty, <4>1, <4>2, LoadedNext
      <3> QED
        BY <3>1, <3>2
    <2>4. TypeOK'
      BY <1>9, <2>2, <2>3, <1>ty DEF Perform, TypeOK, Table
    <2> QED
      BY <2>1, <2>4, TableKept DEF IInv
  <1>10. ASSUME NEW w \in Workers, NEW i \in Ids, Connect(w, i)
         PROVE  IInv'
    <2>1. /\ i \in Todo(w) /\ loaded[w] \in [Todo(w) -> Row] /\ loaded[w][i] \in Row
      BY <1>10, <1>ty, LoadedType DEF Connect, Current
    <2> DEFINE outcome == Outcome(loaded[w][i].server)
    <2>2. outcome \in Answers
      <3>1. loaded[w][i].server \in Servers
        BY <2>1 DEF Row
      <3> QED
        BY <3>1, <1>ty DEF Outcome, TypeOK, Answers
    <2>3. UNCHANGED <<machine, service, row, queue>>
      BY <1>10 DEF Connect
    <2>4. CASE outcome = "error"
      <3>1. UNCHANGED <<answer, verdict>> /\ loaded' = [loaded EXCEPT ![w] = None]
        BY <1>10, <2>4 DEF Connect
      <3>2. loaded' \in [Workers -> UNION {[S -> Row] : S \in SUBSET Ids}]
        BY <1>ty, <3>1, NoneType, LoadedNext
      <3>3. TypeOK'
        BY <2>3, <3>1, <3>2, <1>ty DEF TypeOK
      <3> QED
        BY <2>3, <3>1, <3>3, TableKept DEF Table, IInv
    <2>5. CASE outcome # "error"
      <3>1. /\ answer' = [answer EXCEPT ![w] = outcome] /\ loaded' = loaded
            /\ verdict' = IF i \notin DOMAIN row THEN verdict
                          ELSE [verdict EXCEPT ![i] = IF outcome = "up" THEN "open" ELSE w]
        BY <1>10, <2>5 DEF Connect
      <3>2. outcome \in {"up", "down"}
        BY <2>2, <2>5 DEF Answers
      <3> HIDE DEF outcome
      <3>3. TypeOK'
        BY <2>3, <3>1, <3>2, <1>ty DEF TypeOK
      <3>4. FreshIds'
        BY <2>3, <3>1, <1>ty DEF FreshIds, TypeOK
      <3>5. \A k \in Ids : verdict'[k] = "failed" => verdict[k] = "failed"
        BY <3>1, <1>ty, NamesAssumption DEF TypeOK
      <3>6. DownShows'
        BY <2>3, <3>5, <1>ty DEF DownShows, TypeOK
      <3> QED
        BY <3>3, <3>4, <3>6 DEF IInv
    <2> QED
      BY <2>4, <2>5
  <1>11. ASSUME NEW w \in Workers, NEW i \in Ids, Store(w, i)
         PROVE  IInv'
    <2> DEFINE up == answer[w] = "up"
               writes == Writes(up, loaded[w][i].status)
               rest == [k \in Todo(w) \ {i} |-> loaded[w][k]]
    <2>1. /\ i \in Todo(w) /\ Todo(w) \subseteq Ids /\ loaded[w] \in [Todo(w) -> Row]
      BY <1>11, <1>ty, LoadedType DEF Store, Current
    <2>2. loaded' \in [Workers -> UNION {[S -> Row] : S \in SUBSET Ids}]
      <3>1. rest \in [Todo(w) \ {i} -> Row] /\ Todo(w) \ {i} \in SUBSET Ids
        BY <2>1
      <3>2. loaded' = [loaded EXCEPT ![w] = rest]
        BY <1>11 DEF Store
      <3> HIDE DEF rest
      <3> QED
        BY <1>ty, <3>1, <3>2, LoadedNext
    <2>3. /\ UNCHANGED <<machine, service, queue>>
          /\ answer' = [answer EXCEPT ![w] = "none"]
      BY <1>11 DEF Store
    <2>4. CASE UNCHANGED Table
      <3>1. TypeOK'
        BY <2>2, <2>3, <2>4, <1>ty DEF TypeOK, Table
      <3> QED
        BY <2>4, <3>1, TableKept DEF IInv
    <2>5. CASE i \in DOMAIN row
      <3>1. /\ row' = IF writes THEN [row EXCEPT ![i].status = IF up THEN 1 ELSE 0] ELSE row
            /\ verdict' = [verdict EXCEPT ![i] = IF ~up /\ @ = w THEN "failed"
                                                 ELSE IF up /\ writes THEN Overruled(i) ELSE @]
        BY <1>11, <2>5 DEF Store
      <3>2. ~up => writes
        BY DEF Writes
      <3> HIDE DEF up, writes
      <3>3. /\ row[i] \in Row /\ verdict[i] \in {"open", "failed"} \cup Workers
            /\ row \in [DOMAIN row -> Row] /\ verdict \in [Ids -> {"open", "failed"} \cup Workers]
        BY <2>5, <1>ty DEF TypeOK
      <3>4. Overruled(i) \in {"open"} \cup Workers /\ Overruled(i) # "failed"
        BY <3>3, NamesAssumption DEF Overruled
      <3>5. [row[i] EXCEPT !.status = IF up THEN 1 ELSE 0] \in Row
        BY <3>3 DEF Row
      <3>6. DOMAIN row' = DOMAIN row /\ row' \in [DOMAIN row -> Row]
        BY <2>5, <3>1, <3>3, <3>5
      <3>7. verdict' \in [Ids -> {"open", "failed"} \cup Workers]
        BY <3>1, <3>3, <3>4
      <3>8. TypeOK'
        BY <2>2, <2>3, <3>6, <3>7, <1>ty DEF TypeOK
      <3>9. \A k \in DOMAIN row \ {i} : row'[k] = row[k] /\ verdict'[k] = verdict[k]
        <4>1. DOMAIN row \subseteq Ids
          BY <1>ty DEF TypeOK
        <4> QED
          BY <3>1, <3>3, <4>1
      <3>10. FreshIds'
        BY <2>5, <3>1, <3>3, <3>6, <1>ty DEF FreshIds
      <3>11. verdict'[i] = "failed" => row'[i].status = 0
        <4>1. CASE ~up
          BY <2>5, <3>1, <3>2, <3>3, <4>1 DEF Row
        <4>2. CASE up /\ writes
          BY <3>1, <3>3, <3>4, <4>2
        <4>3. CASE up /\ ~writes
          <5>1. row' = row /\ verdict'[i] = verdict[i]
            BY <3>1, <3>3, <4>3
          <5> QED
            BY <2>5, <5>1, <1>ty DEF DownShows
        <4> QED
          BY <4>1, <4>2, <4>3
      <3>12. DownShows'
        BY <3>6, <3>9, <3>11, <1>ty DEF DownShows
      <3> QED
        BY <3>8, <3>10, <3>12 DEF IInv
    <2> QED
      BY <1>11, <2>4, <2>5 DEF Store
  <1>12. ASSUME NEW i \in Ids, NEW status \in {0, 1}, Post(i, status)
         PROVE  IInv'
    <2>1. /\ i \in DOMAIN row
          /\ row' = [row EXCEPT ![i].status = status]
          /\ verdict' = [verdict EXCEPT ![i] = IF status = 1 THEN Overruled(i) ELSE @]
          /\ UNCHANGED <<machine, service, queue, loaded, answer>>
      BY <1>12 DEF Post, Work
    <2>2. /\ row[i] \in Row /\ verdict[i] \in {"open", "failed"} \cup Workers
          /\ row \in [DOMAIN row -> Row] /\ DOMAIN row \subseteq Ids
          /\ verdict \in [Ids -> {"open", "failed"} \cup Workers]
      BY <2>1, <1>ty DEF TypeOK
    <2>3. Overruled(i) \in {"open"} \cup Workers /\ Overruled(i) # "failed"
      BY <2>2, NamesAssumption DEF Overruled
    <2>4. [row[i] EXCEPT !.status = status] \in Row /\ row'[i].status = status
      BY <2>1, <2>2 DEF Row
    <2>5. DOMAIN row' = DOMAIN row /\ row' \in [DOMAIN row -> Row]
      BY <2>1, <2>2, <2>4
    <2>6. verdict' \in [Ids -> {"open", "failed"} \cup Workers]
      BY <2>1, <2>2, <2>3
    <2>7. TypeOK'
      BY <2>1, <2>5, <2>6, <1>ty DEF TypeOK
    <2>8. \A k \in DOMAIN row \ {i} : row'[k] = row[k] /\ verdict'[k] = verdict[k]
      BY <2>1, <2>2
    <2>9. FreshIds'
      BY <2>1, <2>2, <2>5, <1>ty DEF FreshIds
    <2>10. verdict'[i] = "failed" => row'[i].status = 0
      BY <2>1, <2>2, <2>3, <2>4
    <2>11. DownShows'
      BY <2>5, <2>8, <2>10, <1>ty DEF DownShows
    <2> QED
      BY <2>7, <2>9, <2>11 DEF IInv
  <1> QED
    BY <1>1, <1>2, <1>3, <1>4, <1>5, <1>6, <1>7, <1>8, <1>9, <1>10, <1>11, <1>12
    DEF Next, UserStep, JobStep

\* The invariant is one of every reachable state.
THEOREM Inductive == Spec => []IInv
  BY InitIInv, NextIInv, PTL DEF Spec

\* The table, the jobs and their history keep their types.
THEOREM TypeCorrect == Spec => []TypeOK
  <1>1. IInv => TypeOK
    BY DEF IInv
  <1> QED
    BY <1>1, Inductive, PTL

\* A failure is never lost to what its job had loaded, however many jobs overlap
\* (tcp_services_worker.rb:27): it shows until a later connection, the late store
\* of an older answer or an agent's post (status_controller.rb:122) replaces it.
THEOREM DownIsShown == Spec => []DownShows
  <1>1. IInv => DownShows
    BY DEF IInv
  <1> QED
    BY <1>1, Inductive, PTL

----------------------------------------------------------------------------
\* Dashboard, with the names of its state that TcpServices has, too, renamed.

CONSTANTS NumServers, Figures, Bare

VARIABLES server, stat, jobs, busy, snapshot

D == INSTANCE Dashboard WITH queue <- jobs, loaded <- snapshot

DashboardConstants ==
  /\ Bare \subseteq Figures /\ {"none", "gone"} \cap Figures = {}
  /\ NumServers \in Nat /\ MaxQueue \in Nat

\* An idle worker holds nothing, and the servers whose traffic a row shows are
\* all of those in its sums, or none.
DInv ==
  /\ D!TypeOK
  /\ \A w \in Workers \ busy : snapshot[w] = D!NoStat.sums
  /\ stat.net \in {{}, DOMAIN stat.sums}
  /\ stat = [sums |-> stat.sums, net |-> stat.net]

\* What a row is made of is a snapshot of the servers.
LEMMA StatType ==
  ASSUME DashboardConstants, NEW l \in D!Snapshots
  PROVE  /\ D!StatOf(l).sums \in UNION {[S -> Figures] : S \in SUBSET D!Servers}
         /\ D!StatOf(l).net \subseteq D!Servers
         /\ D!StatOf(l).net \in {{}, DOMAIN D!StatOf(l).sums}
         /\ D!StatOf(l) = [sums |-> D!StatOf(l).sums, net |-> D!StatOf(l).net]
  <1>1. PICK S \in SUBSET D!Servers : l \in [S -> Figures \cup {"none"}]
    BY DEF D!Snapshots
  <1>2. D!Complete(l) \in SUBSET D!Servers
    BY <1>1 DEF D!Complete
  <1>3. D!StatOf(l).sums = [s \in D!Complete(l) |-> l[s]] /\ D!StatOf(l).net = D!Networked(l)
    BY DEF D!StatOf
  <1>4. [s \in D!Complete(l) |-> l[s]] \in [D!Complete(l) -> Figures]
    BY <1>1 DEF D!Complete
  <1>5. D!Networked(l) \in {{}, D!Complete(l)} /\ D!Networked(l) \subseteq D!Servers
    BY <1>1 DEF D!Networked
  <1>6. DOMAIN D!StatOf(l).sums = D!Complete(l)
    BY <1>3
  <1> QED
    BY <1>2, <1>3, <1>4, <1>5, <1>6 DEF D!StatOf

LEMMA NowType == ASSUME D!TypeOK PROVE D!Now \in D!Snapshots
  <1>1. D!Existing \in SUBSET D!Servers
    BY DEF D!Existing
  <1>2. D!Now \in [D!Existing -> Figures \cup {"none"}]
    BY DEF D!Now, D!Existing, D!TypeOK
  <1> QED
    BY <1>1, <1>2 DEF D!Snapshots

LEMMA NothingType ==
  /\ D!NoStat.sums \in D!Snapshots
  /\ D!NoStat.sums \in UNION {[S -> Figures] : S \in SUBSET D!Servers}
  /\ DOMAIN D!NoStat.sums = {}
  <1>1. D!NoStat.sums = [s \in {} |-> "none"]
    BY DEF D!NoStat
  <1>2. {} \in SUBSET D!Servers
    OBVIOUS
  <1>3. [s \in {} |-> "none"] \in [{} -> Figures] /\ [s \in {} |-> "none"] \in [{} -> Figures \cup {"none"}]
    OBVIOUS
  <1> QED
    BY <1>1, <1>2, <1>3 DEF D!Snapshots

LEMMA DInit == DashboardConstants /\ D!Init => DInv
  <1> SUFFICES ASSUME DashboardConstants, D!Init PROVE DInv
    OBVIOUS
  <1>1. server \in [D!Servers -> Figures \cup {"none", "gone"}] /\ jobs \in 0..MaxQueue
    BY DEF D!Init, DashboardConstants
  <1>2. stat.sums = D!NoStat.sums /\ stat.net = {} /\ stat = [sums |-> stat.sums, net |-> stat.net]
    BY DEF D!Init, D!NoStat
  <1>3. busy = {} /\ snapshot = [w \in Workers |-> D!NoStat.sums]
    BY DEF D!Init
  <1>4. D!TypeOK
    BY <1>1, <1>2, <1>3, NothingType DEF D!TypeOK
  <1> QED
    BY <1>2, <1>3, <1>4 DEF DInv

LEMMA DNext == DashboardConstants /\ DInv /\ [D!Next]_D!vars => DInv'
  <1> SUFFICES ASSUME DashboardConstants, DInv, [D!Next]_D!vars PROVE DInv'
    OBVIOUS
  <1>ty. D!TypeOK
    BY DEF DInv
  <1>1. CASE UNCHANGED D!vars
    BY <1>1 DEF D!vars, DInv, D!TypeOK
  \* Whoever changes the servers touches nothing else.
  <1>2. ASSUME server' \in [D!Servers -> Figures \cup {"none", "gone"}],
               UNCHANGED <<stat, jobs, busy, snapshot>>
        PROVE  DInv'
    BY <1>2 DEF DInv, D!TypeOK
  <1>3. ASSUME NEW s \in D!Servers, D!AddServer(s) \/ D!DestroyServer(s) PROVE DInv'
    BY <1>2, <1>3, <1>ty DEF D!AddServer, D!DestroyServer, D!Work, D!TypeOK
  <1>4. ASSUME NEW s \in D!Servers, NEW f \in Figures, D!Post(s, f) PROVE DInv'
    BY <1>2, <1>4, <1>ty DEF D!Post, D!Work, D!TypeOK
  <1>5. CASE D!CronEnqueue
    <2>1. jobs' \in 0..MaxQueue
      BY <1>5, <1>ty DEF D!CronEnqueue, D!TypeOK, DashboardConstants
    <2> QED
      BY <1>5, <2>1 DEF D!CronEnqueue, DInv, D!TypeOK
  <1>6. ASSUME NEW w \in Workers, D!Perform(w) PROVE DInv'
    <2>1. jobs' \in 0..MaxQueue /\ busy' = busy \cup {w} /\ UNCHANGED <<server, stat>>
      BY <1>6, <1>ty DEF D!Perform, D!TypeOK, DashboardConstants
    <2>2. snapshot' = [snapshot EXCEPT ![w] = D!Now] /\ D!Now \in D!Snapshots
      BY <1>6, <1>ty, NowType DEF D!Perform
    <2>3. D!TypeOK'
      BY <1>ty, <2>1, <2>2 DEF D!TypeOK
    <2>4. \A v \in Workers \ busy' : snapshot'[v] = D!NoStat.sums
      BY <1>ty, <2>1, <2>2 DEF DInv, D!TypeOK
    <2> QED
      BY <2>1, <2>3, <2>4 DEF DInv
  <1>7. ASSUME NEW w \in Workers, D!Store(w) PROVE DInv'
    <2>1. stat' = D!StatOf(snapshot[w]) /\ busy' = busy \ {w} /\ UNCHANGED <<server, jobs>>
      BY <1>7 DEF D!Store
    <2>2. snapshot' = [snapshot EXCEPT ![w] = D!NoStat.sums] /\ D!NoStat.sums \in D!Snapshots
      BY <1>7, NothingType DEF D!Store
    <2>3. snapshot[w] \in D!Snapshots
      BY <1>ty DEF D!TypeOK
    <2>4. /\ stat'.sums \in UNION {[S -> Figures] : S \in SUBSET D!Servers}
          /\ stat'.net \subseteq D!Servers /\ stat'.net \in {{}, DOMAIN stat'.sums}
          /\ stat' = [sums |-> stat'.sums, net |-> stat'.net]
      BY <2>1, <2>3, StatType
    <2>5. D!TypeOK'
      BY <1>ty, <2>1, <2>2, <2>4 DEF D!TypeOK
    <2>6. \A v \in Workers \ busy' : snapshot'[v] = D!NoStat.sums
      BY <1>ty, <2>1, <2>2 DEF DInv, D!TypeOK
    <2> QED
      BY <2>4, <2>5, <2>6 DEF DInv
  <1> QED
    BY <1>1, <1>3, <1>4, <1>5, <1>6, <1>7 DEF D!Next, D!JobStep

\* The invariant of Dashboard is one of every reachable state.
THEOREM DashboardInductive == ASSUME DashboardConstants PROVE D!Spec => []DInv
  BY DInit, DNext, PTL DEF D!Spec

\* Servers, rows, jobs and what they loaded keep their types.
THEOREM DashboardTypes == ASSUME DashboardConstants PROVE D!Spec => []D!TypeOK
  <1>1. DInv => D!TypeOK
    BY DEF DInv
  <1> QED
    BY <1>1, DashboardInductive, PTL

----------------------------------------------------------------------------
\* The safety halves of FiguresSettle and DashboardRecovers: what has been
\* reached is kept.  That it is reached at all takes the fairness of cron and
\* the workers.

\* No job under way holds servers that have changed meanwhile.
UpToDate == \A w \in busy : snapshot[w] = D!Now

LEMMA CurrentRowSettles ==
  /\ D!StatOf(D!Now).sums = [s \in D!Reported |-> server[s]]
  /\ D!StatOf(D!Now).net = IF D!Reported = D!Existing THEN D!Existing ELSE {}
  <1>1. DOMAIN D!Now = D!Existing /\ \A s \in D!Existing : D!Now[s] = server[s]
    BY DEF D!Now
  <1>2. D!Complete(D!Now) = D!Reported
    BY <1>1 DEF D!Complete, D!Reported
  <1>3. D!Reported \subseteq D!Existing
    BY DEF D!Reported
  <1>4. [s \in D!Complete(D!Now) |-> D!Now[s]] = [s \in D!Reported |-> server[s]]
    BY <1>1, <1>2, <1>3
  <1>5. D!StatOf(D!Now).sums = [s \in D!Complete(D!Now) |-> D!Now[s]]
    BY DEF D!StatOf
  <1>6. D!StatOf(D!Now).net = D!Networked(D!Now)
    BY DEF D!StatOf
  <1>7. D!Networked(D!Now) = IF D!Reported = D!Existing THEN D!Existing ELSE {}
    BY <1>1, <1>2 DEF D!Networked
  <1> QED
    BY <1>4, <1>5, <1>6, <1>7

SettledKept ==
  UNCHANGED server /\ UpToDate =>
    /\ UpToDate'
    /\ D!Settled \/ (\E w \in Workers : D!Store(w)) => D!Settled'

\* While the servers do not change and no job holds older figures of them, no
\* job takes up older ones, every job that ends settles the row, and a settled
\* row stays settled (dashboard_worker.rb).
THEOREM SettledRowsStay == ASSUME DashboardConstants PROVE D!Spec => [][SettledKept]_D!vars
  <1>1. DInv /\ [D!Next]_D!vars => SettledKept
    <2> SUFFICES ASSUME DInv, [D!Next]_D!vars, UNCHANGED server, UpToDate
                 PROVE  /\ UpToDate'
                        /\ D!Settled \/ (\E w \in Workers : D!Store(w)) => D!Settled'
      BY DEF SettledKept
    <2>ty. D!TypeOK
      BY DEF DInv
    <2>1. D!Now' = D!Now /\ D!Reported' = D!Reported /\ D!Existing' = D!Existing
      BY DEF D!Now, D!Reported, D!Existing, D!Servers
    <2>2. ASSUME UNCHANGED <<stat, busy, snapshot>>
          PROVE  UpToDate' /\ (D!Settled => D!Settled')
      <3>1. UpToDate'
        BY <2>1, <2>2 DEF UpToDate
      <3>2. D!Settled => D!Settled'
        BY <2>1, <2>2 DEF D!Settled
      <3> QED
        BY <3>1, <3>2
    <2>3. ASSUME NEW w \in Workers, D!Perform(w)
          PROVE  UpToDate' /\ (D!Settled => D!Settled')
      <3>1. busy' = busy \cup {w} /\ stat' = stat /\ snapshot' = [snapshot EXCEPT ![w] = D!Now]
        BY <2>3 DEF D!Perform
      <3>2. UpToDate'
        BY <2>ty, <2>1, <3>1 DEF UpToDate, D!TypeOK
      <3>3. D!Settled => D!Settled'
        BY <2>1, <3>1 DEF D!Settled
      <3> QED
        BY <3>2, <3>3
    <2>4. ASSUME NEW w \in Workers, D!Store(w)
          PROVE  UpToDate' /\ D!Settled'
      <3>1. w \in busy /\ busy' = busy \ {w} /\ stat' = D!StatOf(snapshot[w])
            /\ snapshot' = [snapshot EXCEPT ![w] = D!NoStat.sums]
        BY <2>4 DEF D!Store
      <3>2. stat' = D!StatOf(D!Now)
        BY <3>1 DEF UpToDate
      <3>3. UpToDate'
        BY <2>ty, <2>1, <3>1 DEF UpToDate, D!TypeOK
      <3>4. D!Settled'
        <4>1. /\ stat'.sums = [s \in D!Reported |-> server[s]]
              /\ stat'.net = IF D!Reported = D!Existing THEN D!Existing ELSE {}
          BY <3>2, CurrentRowSettles
        <4> QED
          BY <2>1, <4>1 DEF D!Settled
      <3> QED
        BY <3>3, <3>4
    <2>5. (\A w \in Workers : ~D!Perform(w) /\ ~D!Store(w)) => UNCHANGED <<stat, busy, snapshot>>
      BY DEF D!Next, D!JobStep, D!AddServer, D!DestroyServer, D!Post, D!CronEnqueue, D!Work, D!vars
    <2>6. (\E w \in Workers : D!Perform(w)) => ~\E w \in Workers : D!Store(w)
      BY <2>ty DEF D!Perform, D!Store, D!TypeOK
    <2> QED
      BY <2>2, <2>3, <2>4, <2>5, <2>6
  <1> QED
    BY <1>1, DashboardInductive, PTL DEF D!Spec

\* Server s has figures that fill the bars of the page, as it stands, in the
\* last row, and as a job holds it.
Bars(f) == f \in Figures \ Bare
BarsNow(s) == Bars(server[s])
BarsShown(s) == s \in DOMAIN stat.sums /\ Bars(stat.sums[s])
BarsHeld(s, w) == s \in DOMAIN snapshot[w] /\ Bars(snapshot[w][s])

BarsKept ==
  \A s \in D!Servers :
    BarsNow(s) /\ BarsNow(s)' /\ (\A w \in busy : BarsHeld(s, w)) =>
      /\ (\A w \in busy : BarsHeld(s, w))'
      /\ BarsShown(s) \/ (\E w \in Workers : D!Store(w)) => BarsShown(s)' /\ D!Page' = "shown"

\* While one server keeps reporting file systems and all jobs under way have
\* found it so, every row they store keeps the page from dividing by zero,
\* whatever the other servers report (dashboard_worker.rb, dashboard/index).
THEOREM ShownPagesStay == ASSUME DashboardConstants PROVE D!Spec => [][BarsKept]_D!vars
  <1>1. DashboardConstants /\ DInv /\ [D!Next]_D!vars => BarsKept
    <2> SUFFICES ASSUME DashboardConstants, DInv, [D!Next]_D!vars, NEW s \in D!Servers,
                        BarsNow(s), BarsNow(s)', \A w \in busy : BarsHeld(s, w)
                 PROVE  /\ (\A w \in busy : BarsHeld(s, w))'
                        /\ BarsShown(s) \/ (\E w \in Workers : D!Store(w))
                             => BarsShown(s)' /\ D!Page' = "shown"
      BY DEF BarsKept
    <2>ty. D!TypeOK
      BY DEF DInv
    <2>1. s \in D!Existing /\ s \in D!Existing' /\ D!Now[s] = server[s]
      BY DEF D!Existing, D!Now, BarsNow, Bars, DashboardConstants, D!Servers
    <2>2. BarsShown(s)' => D!Page' = "shown"
      BY <2>1 DEF D!Page, BarsShown, Bars
    <2>3. CASE UNCHANGED <<stat, busy, snapshot>>
      <3>1. \A w \in busy' : BarsHeld(s, w)'
        BY <2>3 DEF BarsHeld
      <3>2. BarsShown(s) => BarsShown(s)'
        BY <2>3 DEF BarsShown
      <3>3. \A w \in Workers : ~D!Store(w)
        BY <2>ty, <2>3 DEF D!Store
      <3> QED
        BY <2>2, <3>1, <3>2, <3>3
    <2>4. ASSUME NEW w \in Workers, D!Perform(w)
          PROVE  (\A v \in busy : BarsHeld(s, v))' /\ stat' = stat /\ jobs' # jobs
      <3>1. /\ busy' = busy \cup {w} /\ stat' = stat /\ snapshot' = [snapshot EXCEPT ![w] = D!Now]
            /\ jobs' # jobs
        BY <2>4, <2>ty DEF D!Perform, D!TypeOK
      <3>2. s \in DOMAIN D!Now /\ Bars(D!Now[s])
        BY <2>1 DEF D!Now, BarsNow
      <3> QED
        BY <2>ty, <3>1, <3>2 DEF BarsHeld, D!TypeOK
    <2>5. ASSUME NEW w \in Workers, D!Store(w)
          PROVE  (\A v \in busy : BarsHeld(s, v))' /\ BarsShown(s)'
      <3>1. w \in busy /\ busy' = busy \ {w} /\ stat' = D!StatOf(snapshot[w])
            /\ snapshot' = [snapshot EXCEPT ![w] = D!NoStat.sums]
        BY <2>5 DEF D!Store
      <3>2. s \in DOMAIN snapshot[w] /\ Bars(snapshot[w][s]) /\ snapshot[w][s] # "none"
        BY <3>1 DEF BarsHeld, Bars, DashboardConstants
      <3>3. s \in D!Complete(snapshot[w])
        BY <3>2 DEF D!Complete
      <3>4. stat'.sums = [k \in D!Complete(snapshot[w]) |-> snapshot[w][k]]
        BY <3>1 DEF D!StatOf
      <3>5. BarsShown(s)'
        BY <3>2, <3>3, <3>4 DEF BarsShown
      <3>6. \A v \in busy' : BarsHeld(s, v)'
        BY <2>ty, <3>1 DEF BarsHeld, D!TypeOK
      <3> QED
        BY <3>5, <3>6
    <2>6. (\A w \in Workers : ~D!Perform(w) /\ ~D!Store(w)) => UNCHANGED <<stat, busy, snapshot>>
      BY DEF D!Next, D!JobStep, D!AddServer, D!DestroyServer, D!Post, D!CronEnqueue, D!Work, D!vars
    <2>7. \A w \in Workers : D!Store(w) => jobs' = jobs
      BY DEF D!Store
    <2>8. CASE \E w \in Workers : D!Perform(w)
      <3>1. (\A v \in busy : BarsHeld(s, v))' /\ stat' = stat /\ \A w \in Workers : ~D!Store(w)
        BY <2>4, <2>7, <2>8
      <3>2. BarsShown(s) => BarsShown(s)'
        BY <3>1 DEF BarsShown
      <3> QED
        BY <2>2, <3>1, <3>2
    <2>9. CASE \E w \in Workers : D!Store(w)
      BY <2>2, <2>5, <2>9
    <2> QED
      BY <2>3, <2>6, <2>8, <2>9
  <1> QED
    BY <1>1, DashboardInductive, PTL DEF D!Spec
=============================================================================
