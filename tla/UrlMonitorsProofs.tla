-------------------------- MODULE UrlMonitorsProofs --------------------------
(***************************************************************************)
(* Theorems about UrlMonitors for any monitors, users, jobs, workers,      *)
(* limit and pages.  The invariant adds to the properties that every       *)
(* request past check_limits already has its place below the bound, and    *)
(* what a job knows at each stage.                                         *)
(***************************************************************************)
EXTENDS UrlMonitors, FiniteSetTheorems, WellFoundedInduction, TLAPS

LimitInv == Total + adding <= Limit - 1 + MaxAdding

\* Only an odd answer that is in the log is mailed, and in the order of ids.
JobOK(r) ==
  /\ r.st \in {"save", "log", "mail"} => r.page \in Pages
  /\ r.st # "mail" => r.mailed = {}
  /\ r.st = "mail" => /\ r.page \in OddPages /\ r.logged = "odd"
                      /\ Users \ r.mailed # {} \/ Users = {}
                      /\ \A u \in r.mailed, v \in Users \ r.mailed : u < v

IInv == TypeOK /\ LimitInv /\ RowWhole /\ \A j \in Jobs : JobOK(job[j])

----------------------------------------------------------------------------
\* The first of a nonempty set of users comes before the others.
LEMMA FirstIsFirst ==
  ASSUME NEW S \in SUBSET Users, S # {}
  PROVE  First(S) \in S /\ \A v \in S : First(S) <= v
  <1> DEFINE R == OpToRel(<, Nat)
  <1>1. S \in SUBSET Nat
    BY SizesAssumption DEF Users
  <1>2. \E n \in S : \A m \in S : <<m, n>> \notin R
    <2> HIDE DEF R
    <2>1. IsWellFoundedOn(R, Nat)
      BY NatLessThanWellFounded DEF R
    <2> QED
      BY <1>1, <2>1, WFMin
  <1>3. \E n \in S : \A m \in S : n <= m
    <2>1. \A m, n \in Nat : <<m, n>> \notin R => n <= m
      BY DEF OpToRel
    <2> QED
      BY <1>1, <1>2, <2>1
  <1> QED
    BY <1>3 DEF First

\* Adding an element to the domain of the table adds one to its size.
LEMMA Counted ==
  ASSUME TypeOK
  PROVE  /\ IsFiniteSet(DOMAIN monitor) /\ Cardinality(DOMAIN monitor) \in Nat
         /\ \A m \in Monitors \ DOMAIN monitor :
              Cardinality(DOMAIN monitor \cup {m}) = Cardinality(DOMAIN monitor) + 1
         /\ \A m \in DOMAIN monitor :
              Cardinality(DOMAIN monitor \ {m}) = Cardinality(DOMAIN monitor) - 1
  <1>1. IsFiniteSet(Monitors)
    BY FS_Interval, SizesAssumption DEF Monitors
  <1>2. IsFiniteSet(DOMAIN monitor)
    BY <1>1, FS_Subset DEF TypeOK
  <1> QED
    BY <1>2, FS_CardinalityType, FS_AddElement, FS_RemoveElement

LEMMA FreshJobs ==
  ASSUME NEW m \in Monitors
  PROVE  Fresh(m) \in Job /\ Idle \in Job /\ JobOK(Fresh(m)) /\ JobOK(Idle)
  <1>1. 1 \in Monitors
    BY SizesAssumption DEF Monitors
  <1>2. NoRow \in Row
    BY DEF NoRow, Row, Statuses
  <1>3. Fresh(m) \in Job /\ Idle \in Job
    BY <1>1, <1>2 DEF Fresh, Idle, Job, Statuses
  <1> QED
    BY <1>3 DEF JobOK, Fresh, Idle

LEMMA StatusType == \A page \in Pages : StatusOf(page) \in Statuses /\ page # "none"
  BY SetsAssumption DEF StatusOf, Statuses

----------------------------------------------------------------------------
LEMMA InitIInv == Init => IInv
  <1> SUFFICES ASSUME Init PROVE IInv
    OBVIOUS
  <1>1. Idle \in Job /\ JobOK(Idle)
    BY FreshJobs, SizesAssumption DEF Monitors
  <1>2. DOMAIN monitor = {} /\ monitor \in [{} -> Row]
    BY DEF Init
  <1>3. TypeOK
    BY <1>1, <1>2, SizesAssumption DEF Init, TypeOK, Answers
  <1>4. LimitInv
    <2>1. Total = 0
      BY <1>2, FS_EmptySet DEF Init, Total
    <2> QED
      BY <2>1, SizesAssumption DEF Init, LimitInv
  <1> QED
    BY <1>1, <1>2, <1>3, <1>4 DEF Init, IInv, RowWhole

\* Steps of the sites and the users leave the jobs alone.
LEMMA WorldStep ==
  ASSUME IInv, (\E m \in Monitors, a \in Answers : SiteChanges(m, a)) \/ UserStep
  PROVE  IInv'
  <1>1. /\ Cardinality(DOMAIN monitor) \in Nat /\ others \in Nat /\ adding \in Nat
        /\ adding <= MaxAdding /\ Limit \in Nat \ {0} /\ MaxAdding \in Nat \ {0}
        /\ Total = Cardinality(DOMAIN monitor) + others
        /\ Total + adding <= Limit - 1 + MaxAdding
    BY Counted, SizesAssumption DEF IInv, TypeOK, Total, LimitInv
  <1>2. UNCHANGED Work => /\ cronAt' = cronAt /\ queue' = queue /\ job' = job
    BY DEF Work
  <1>3. ASSUME NEW m \in Monitors, NEW a \in Answers, SiteChanges(m, a)
        PROVE  IInv'
    <2>1. UNCHANGED <<monitor, raced, others, adding, Work>> /\ site' \in [Monitors -> Answers]
      BY <1>3 DEF SiteChanges, Table, Count, IInv, TypeOK
    <2> QED
      BY <1>2, <2>1 DEF IInv, TypeOK, LimitInv, Total, RowWhole
  <1>4. CASE CheckLimits \/ CreateOther \/ DestroyOther
    <2>1. UNCHANGED <<site, monitor, raced, Work>>
      BY <1>4 DEF CheckLimits, CreateOther, DestroyOther, Table
    <2>2. /\ others' \in Nat /\ adding' \in 0..MaxAdding
          /\ Cardinality(DOMAIN monitor) + others' + adding' <= Limit - 1 + MaxAdding
      BY <1>1, <1>4 DEF CheckLimits, CreateOther, DestroyOther
    <2>3. Total' = Cardinality(DOMAIN monitor) + others'
      BY <2>1 DEF Total
    <2> QED
      BY <1>2, <2>1, <2>2, <2>3 DEF IInv, TypeOK, LimitInv, RowWhole
  <1>5. ASSUME NEW m \in Monitors, NEW url \in Typed, Create(m, url)
        PROVE  IInv'
    <2> DEFINE r == [NoRow EXCEPT !.url = VerifyHttp(url)]
    <2>1. r \in Row /\ r.run = "none" /\ r.status = "none"
      BY DEF NoRow, Row, Statuses, VerifyHttp
    <2>2. /\ DOMAIN monitor' = DOMAIN monitor \cup {m} /\ m \notin DOMAIN monitor
          /\ \A k \in DOMAIN monitor' : monitor'[k] = IF k = m THEN r ELSE monitor[k]
          /\ raced' = raced \ {m}
      BY <1>5 DEF Create
    <2>3. monitor' \in [DOMAIN monitor' -> Row]
      <3> HIDE DEF r
      <3>1. monitor' = [k \in DOMAIN monitor \cup {m} |-> IF k = m THEN r ELSE monitor[k]]
        BY <1>5 DEF Create, r
      <3> QED
        BY <2>1, <3>1 DEF IInv, TypeOK
    <2>4. site' \in [Monitors -> Answers]
      BY <1>5 DEF Create, IInv, TypeOK
    <2>5. /\ UNCHANGED <<others, Work>> /\ adding' = adding - 1 /\ adding > 0
      BY <1>5 DEF Create
    <2>6. Total' = Total + 1
      <3>1. Cardinality(DOMAIN monitor') = Cardinality(DOMAIN monitor) + 1
        BY <2>2, Counted DEF IInv
      <3> QED
        BY <1>1, <2>5, <3>1 DEF Total
    <2>7. LimitInv'
      BY <1>1, <2>5, <2>6 DEF LimitInv
    <2>8. RowWhole'
      <3> HIDE DEF r
      <3>1. SUFFICES ASSUME NEW k \in DOMAIN monitor', k \notin raced'
                     PROVE  monitor'[k].status = IF monitor'[k].run = "none" THEN "none"
                                                 ELSE StatusOf(monitor'[k].run)
        BY DEF RowWhole
      <3>2. CASE k = m
        BY <2>1, <2>2, <3>2
      <3>3. CASE k # m
        BY <2>2, <3>1, <3>3 DEF IInv, RowWhole
      <3> QED
        BY <3>2, <3>3
    <2>9. TypeOK'
      BY <1>1, <1>2, <2>2, <2>3, <2>4, <2>5 DEF IInv, TypeOK
    <2> QED
      BY <1>2, <2>5, <2>7, <2>8, <2>9 DEF IInv
  <1>6. ASSUME NEW m \in Monitors, NEW url \in Typed, Update(m, url)
        PROVE  IInv'
    <2>1. /\ UNCHANGED <<site, raced, others, adding, Work>> /\ m \in DOMAIN monitor
          /\ monitor' = [monitor EXCEPT ![m].url = VerifyHttp(url)]
      BY <1>6 DEF Update, Count
    <2>2. monitor \in [DOMAIN monitor -> Row] /\ VerifyHttp(url) \in {"http", "mangled"}
      BY DEF IInv, TypeOK, VerifyHttp
    <2>3. monitor' \in [DOMAIN monitor -> Row] /\ DOMAIN monitor' = DOMAIN monitor
      BY <2>1, <2>2 DEF Row
    <2>4. \A k \in DOMAIN monitor : /\ monitor'[k].run = monitor[k].run
                                    /\ monitor'[k].status = monitor[k].status
      BY <2>1, <2>2 DEF Row
    <2>5. RowWhole'
      BY <2>1, <2>3, <2>4 DEF IInv, RowWhole
    <2> QED
      BY <1>2, <2>1, <2>3, <2>5 DEF IInv, TypeOK, LimitInv, Total
  <1>7. ASSUME NEW m \in Monitors, Destroy(m)
        PROVE  IInv'
    <2>1. /\ UNCHANGED <<site, others, adding, Work>> /\ m \in DOMAIN monitor
          /\ monitor' = [k \in DOMAIN monitor \ {m} |-> monitor[k]]
          /\ raced' = raced \ {m}
      BY <1>7 DEF Destroy, Count
    <2>2. DOMAIN monitor' = DOMAIN monitor \ {m} /\ monitor' \in [DOMAIN monitor' -> Row]
      BY <2>1 DEF IInv, TypeOK
    <2>3. Total' = Total - 1
      <3>1. Cardinality(DOMAIN monitor') = Cardinality(DOMAIN monitor) - 1
        BY <2>1, <2>2, Counted DEF IInv
      <3> QED
        BY <1>1, <2>1, <3>1 DEF Total
    <2>4. RowWhole'
      BY <2>1, <2>2 DEF IInv, RowWhole
    <2> QED
      BY <1>1, <1>2, <2>1, <2>2, <2>3, <2>4 DEF IInv, TypeOK, LimitInv
  <1> QED
    BY <1>3, <1>4, <1>5, <1>6, <1>7 DEF UserStep

----------------------------------------------------------------------------
\* What is left to show of a step that replaces one job.
LEMMA Replaced ==
  ASSUME IInv, NEW j \in Jobs, NEW r, r \in Job, JobOK(r), Become(j, r),
         UNCHANGED <<site, monitor, raced, Count>>,
         cronAt' \in 0..NumMonitors, queue' \in Seq(Jobs)
  PROVE  IInv'
  <1>1. job' \in [Jobs -> Job] /\ \A k \in Jobs : job'[k] = IF k = j THEN r ELSE job[k]
    BY DEF IInv, TypeOK, Become
  <1> QED
    BY <1>1 DEF IInv, TypeOK, Count, LimitInv, Total, RowWhole

LEMMA CronIInv == ASSUME IInv, CronStep PROVE IInv'
  <1>1. NumMonitors \in Nat \ {0} /\ cronAt \in 0..NumMonitors
    BY SizesAssumption DEF IInv, TypeOK
  <1>2. CASE CronStart \/ CronSkip
    <2>1. cronAt' \in 0..NumMonitors
      BY <1>1, <1>2 DEF CronStart, CronSkip, AdvanceCron
    <2>2. UNCHANGED <<site, monitor, raced, Count, queue, job>>
      BY <1>2 DEF CronStart, CronSkip, Table
    <2> QED
      BY <2>1, <2>2 DEF IInv, TypeOK, Count, LimitInv, Total, RowWhole
  <1>3. ASSUME NEW j \in Jobs, CronEnqueue(j) PROVE IInv'
    <2>1. cronAt \in Monitors
      BY <1>3 DEF CronEnqueue, IInv, TypeOK
    <2>2. cronAt' \in 0..NumMonitors
      BY <1>1, <1>3 DEF CronEnqueue, AdvanceCron
    <2>3. queue' \in Seq(Jobs)
      BY <1>3 DEF CronEnqueue, IInv, TypeOK
    <2>4. Become(j, Fresh(cronAt)) /\ UNCHANGED <<site, monitor, raced, Count>>
      BY <1>3 DEF CronEnqueue, Become, Table
    <2> QED
      BY <2>1, <2>2, <2>3, <2>4, FreshJobs, Replaced
  <1> QED
    BY <1>2, <1>3 DEF CronStep

\* Saving an answer: the row is whole if nobody else wrote it since the job
\* loaded it, because then the columns left out hold what the answer says.
LEMMA SaveIInv == ASSUME IInv, NEW j \in Jobs, Save(j) PROVE IInv'
  <1> DEFINE m == job[j].id  r == job[j].loaded  page == job[j].page
             v == [job[j] EXCEPT !.st = "log", !.loaded = NoRow]
  <1>1. job[j] \in Job /\ JobOK(job[j]) /\ job[j].st = "save"
    BY DEF IInv, TypeOK, Save
  <1>2. m \in Monitors /\ r \in Row /\ page \in Pages
    BY <1>1 DEF Job, JobOK
  <1>3. v \in Job /\ JobOK(v)
    <2>1. NoRow \in Row
      BY DEF NoRow, Row, Statuses
    <2>2. v \in Job
      BY <1>1, <2>1 DEF Job, Running
    <2>3. v.st = "log" /\ v.page = job[j].page /\ v.mailed = job[j].mailed
      BY <1>1 DEF Job
    <2> HIDE DEF v
    <2> QED
      BY <1>1, <2>2, <2>3 DEF JobOK
  <1>4. UNCHANGED <<site, Count, cronAt, queue>> /\ Become(j, v)
    BY DEF Save, Outside
  <1>5. CASE m \notin DOMAIN monitor
    <2>1. UNCHANGED <<monitor, raced>>
      BY <1>5 DEF Save, Table
    <2> HIDE DEF v
    <2> QED
      BY <1>3, <1>4, <2>1, Replaced DEF IInv, TypeOK
  <1>6. CASE m \in DOMAIN monitor
    <2> DEFINE w == Written(m, r, page)
    <2>1. /\ monitor' = [monitor EXCEPT ![m] = w]
          /\ raced' = IF monitor[m].run = r.run /\ monitor[m].status = r.status
                      THEN raced \ {m} ELSE raced \cup {m}
      BY <1>6 DEF Save
    <2>2. monitor[m] \in Row /\ StatusOf(page) \in Statuses /\ page # "none"
      BY <1>2, <1>6, StatusType DEF IInv, TypeOK
    <2>3. /\ w \in Row
          /\ w.run = (IF page # r.run THEN page ELSE monitor[m].run)
          /\ w.status = (IF StatusOf(page) # r.status THEN StatusOf(page) ELSE monitor[m].status)
      BY <1>2, <2>2 DEF Written, Row
    <2>4. m \notin raced' => w.run = page /\ w.status = StatusOf(page)
      BY <2>1, <2>3
    <2> HIDE DEF w, v
    <2>5. /\ DOMAIN monitor' = DOMAIN monitor /\ monitor' \in [DOMAIN monitor -> Row]
          /\ \A k \in DOMAIN monitor : monitor'[k] = IF k = m THEN w ELSE monitor[k]
      BY <1>6, <2>1, <2>3 DEF IInv, TypeOK
    <2>6. raced' \subseteq Monitors /\ \A k \in Monitors \ {m} : k \in raced' <=> k \in raced
      BY <1>2, <2>1 DEF IInv, TypeOK
    <2>7. RowWhole'
      <3>1. SUFFICES ASSUME NEW k \in DOMAIN monitor', k \notin raced'
                     PROVE  monitor'[k].status = IF monitor'[k].run = "none" THEN "none"
                                                 ELSE StatusOf(monitor'[k].run)
        BY DEF RowWhole
      <3>2. CASE k = m
        BY <2>2, <2>4, <2>5, <3>1, <3>2
      <3>3. CASE k # m
        BY <2>5, <2>6, <3>1, <3>3 DEF IInv, TypeOK, RowWhole
      <3> QED
        BY <3>2, <3>3
    <2>8. job' \in [Jobs -> Job] /\ \A k \in Jobs : job'[k] = IF k = j THEN v ELSE job[k]
      BY <1>3, <1>4 DEF IInv, TypeOK, Become
    <2>9. TypeOK'
      BY <1>4, <2>5, <2>6, <2>8 DEF IInv, TypeOK, Count
    <2> QED
      BY <1>3, <1>4, <2>5, <2>7, <2>8, <2>9 DEF IInv, LimitInv, Total, Count
  <1> QED
    BY <1>5, <1>6

\* The other steps of a job leave the table alone.
LEMMA JobIInv ==
  ASSUME IInv, NEW j \in Jobs, Perform(j) \/ Get(j) \/ Log(j) \/ MailUser(j) \/ Cut(j)
  PROVE  IInv'
  <1>1. job[j] \in Job /\ JobOK(job[j]) /\ job[j].id \in Monitors
    BY DEF IInv, TypeOK, Job
  <1>2. Idle \in Job /\ JobOK(Idle)
    BY <1>1, FreshJobs
  <1>3. UNCHANGED <<site, monitor, raced, Count>> /\ cronAt' \in 0..NumMonitors
    BY DEF Perform, Get, Log, MailUser, Cut, Outside, Table, IInv, TypeOK
  <1>4. queue' \in Seq(Jobs)
    <2>1. queue \in Seq(Jobs)
      BY DEF IInv, TypeOK
    <2>2. CASE queue # <<>> /\ queue' = Tail(queue)
      BY <2>1, <2>2
    <2>3. CASE queue' = queue
      BY <2>1, <2>3
    <2> QED
      BY <2>2, <2>3 DEF Perform, Get, Log, MailUser, Cut
  <1>5. SUFFICES \E r \in Job : JobOK(r) /\ Become(j, r)
    BY <1>3, <1>4, Replaced
  <1>6. CASE Perform(j)
    <2> DEFINE m == job[j].id  r == [Fresh(m) EXCEPT !.st = "get", !.loaded = monitor[m]]
    <2>1. CASE m \in DOMAIN monitor
      <3>1. monitor[m] \in Row /\ Fresh(m) \in Job
        BY <1>1, <2>1, FreshJobs DEF IInv, TypeOK
      <3>2. r \in Job
        BY <3>1 DEF Job, Running
      <3>3. r.st = "get" /\ r.mailed = {}
        BY DEF Fresh
      <3>4. Become(j, r)
        BY <1>6, <2>1 DEF Perform
      <3> HIDE DEF r
      <3> QED
        BY <3>2, <3>3, <3>4 DEF JobOK
    <2>2. CASE m \notin DOMAIN monitor
      BY <1>2, <1>6, <2>2 DEF Perform
    <2> QED
      BY <2>1, <2>2
  <1>7. CASE Get(j)
    <2>1. ASSUME NEW page \in Pages,
                 Become(j, [job[j] EXCEPT !.st = "save", !.loaded.url = "http", !.page = page])
          PROVE  \E r \in Job : JobOK(r) /\ Become(j, r)
      <3> DEFINE r == [job[j] EXCEPT !.st = "save", !.loaded.url = "http", !.page = page]
      <3>1. job[j].loaded \in Row /\ job[j].st = "get" /\ job[j].mailed = {}
        BY <1>1, <1>7 DEF Job, JobOK, Get
      <3>2. [job[j].loaded EXCEPT !.url = "http"] \in Row
        BY <3>1 DEF Row
      <3>3. r \in Job
        BY <1>1, <3>2 DEF Job, Running
      <3>4. r.st = "save" /\ r.page = page /\ r.mailed = {}
        BY <1>1, <3>1 DEF Job
      <3>5. Become(j, r)
        BY <2>1
      <3> HIDE DEF r
      <3> QED
        BY <3>3, <3>4, <3>5 DEF JobOK
    <2> QED
      BY <1>2, <1>7, <2>1 DEF Get
  <1>8. CASE Log(j)
    <2> DEFINE r == [job[j] EXCEPT !.st = "mail", !.logged = StatusOf(job[j].page)]
    <2>1. job[j].st = "log" /\ job[j].page \in Pages /\ job[j].mailed = {}
      BY <1>1, <1>8 DEF Log, JobOK
    <2>2. CASE StatusOf(job[j].page) = "odd"
      <3>1. job[j].page \in OddPages
        BY <2>1, <2>2 DEF StatusOf, Pages
      <3>2. r \in Job
        BY <1>1, <2>2 DEF Job, Running, Statuses
      <3>3. r.st = "mail" /\ r.page = job[j].page /\ r.mailed = {} /\ r.logged = "odd"
        BY <1>1, <2>1, <2>2 DEF Job
      <3>4. Become(j, r)
        BY <1>8, <2>2 DEF Log
      <3> HIDE DEF r
      <3> QED
        BY <2>1, <3>1, <3>2, <3>3, <3>4 DEF JobOK
    <2>3. CASE StatusOf(job[j].page) # "odd"
      BY <1>2, <1>8, <2>3 DEF Log
    <2> QED
      BY <2>2, <2>3
  <1>9. CASE MailUser(j)
    <2> DEFINE todo == Users \ job[j].mailed  u == First(todo)
               r == [job[j] EXCEPT !.mailed = @ \cup {u}]
    <2>1. job[j].st = "mail"
      BY <1>9 DEF MailUser
    <2>2. CASE Become(j, r) /\ Users \ (job[j].mailed \cup {u}) # {}
      <3>1. todo # {} /\ todo \in SUBSET Users
        BY <2>2
      <3>2. u \in todo /\ \A v \in todo : u <= v
        <4> HIDE DEF todo
        <4> QED
          BY <3>1, FirstIsFirst
      <3>3. r \in Job
        BY <1>1, <3>2 DEF Job
      <3>4. /\ r.st = "mail" /\ r.page = job[j].page /\ r.logged = job[j].logged
            /\ r.mailed = job[j].mailed \cup {u}
        BY <1>1, <2>1 DEF Job
      <3>5. \A x \in r.mailed, y \in Users \ r.mailed : x < y
        <4>1. TAKE x \in r.mailed, y \in Users \ r.mailed
        <4>2. y \in todo /\ y # u
          BY <3>4
        <4>3. CASE x = u
          BY <3>2, <4>2, <4>3, SizesAssumption DEF Users
        <4>4. CASE x \in job[j].mailed
          BY <1>1, <2>1, <4>2, <4>4 DEF JobOK
        <4> QED
          BY <3>4, <4>3, <4>4
      <3>6. Users \ r.mailed # {}
        BY <2>2, <3>4
      <3> HIDE DEF r
      <3> QED
        BY <1>1, <2>1, <2>2, <3>3, <3>4, <3>5, <3>6 DEF JobOK
    <2> QED
      BY <1>2, <1>9, <2>2 DEF MailUser
  <1>10. CASE Cut(j)
    BY <1>2, <1>10 DEF Cut
  <1> QED
    BY <1>6, <1>7, <1>8, <1>9, <1>10

LEMMA StepIInv == IInv /\ [Next]_vars => IInv'
  <1> SUFFICES ASSUME IInv, [Next]_vars PROVE IInv'
    OBVIOUS
  <1>1. CASE UNCHANGED vars
    BY <1>1 DEF vars, IInv, TypeOK, LimitInv, Total, RowWhole, JobOK
  <1>2. CASE Next
    BY <1>2, WorldStep, CronIInv, SaveIInv, JobIInv DEF Next, JobStep
  <1> QED
    BY <1>1, <1>2

\* The inductive invariant holds.
THEOREM Inductive == Spec => []IInv
  BY InitIInv, StepIInv, PTL DEF Spec

\* All variables keep their types.
THEOREM TypeCorrect == Spec => []TypeOK
  <1>1. IInv => TypeOK
    BY DEF IInv
  <1> QED
    BY <1>1, Inductive, PTL

\* However many requests pass check_limits together, the monitors exceed the
\* limit by no more than their number less one.
THEOREM LimitKept == Spec => []MonitorsBounded
  <1>1. IInv => MonitorsBounded
    <2> SUFFICES ASSUME IInv PROVE MonitorsBounded
      OBVIOUS
    <2>1. Total \in Nat /\ adding \in Nat /\ Limit \in Nat /\ MaxAdding \in Nat
      BY Counted, SizesAssumption DEF IInv, TypeOK, Total
    <2> QED
      BY <2>1 DEF IInv, LimitInv, MonitorsBounded
  <1> QED
    BY <1>1, Inductive, PTL

\* A row no other job wrote while the last one worked on it shows one answer.
THEOREM RowsWhole == Spec => []RowWhole
  <1>1. IInv => RowWhole
    BY DEF IInv
  <1> QED
    BY <1>1, Inductive, PTL

\* Mails are about odd answers in the log, and pass nobody over.
THEOREM AlarmsOrdered == Spec => []AlarmsInOrder
  <1>1. IInv => AlarmsInOrder
    <2> SUFFICES ASSUME IInv, NEW j \in Jobs, job[j].mailed # {}
                 PROVE  /\ job[j].logged = StatusOf(job[j].page) /\ job[j].page \in OddPages
                        /\ \A u \in job[j].mailed, v \in Users \ job[j].mailed : u < v
      BY DEF AlarmsInOrder
    <2>1. JobOK(job[j]) /\ job[j].st = "mail"
      BY DEF IInv, JobOK
    <2>2. job[j].page \in OddPages /\ job[j].logged = "odd"
      BY <2>1 DEF JobOK
    <2>3. StatusOf(job[j].page) = "odd"
      BY <2>2, SetsAssumption DEF StatusOf
    <2> QED
      BY <2>1, <2>2, <2>3 DEF JobOK
  <1> QED
    BY <1>1, Inductive, PTL

----------------------------------------------------------------------------
\* Every run ends: the steps a job has left, at most.
Unmailed(r) == Users \ r.mailed
StepsLeft(r) ==
  CASE r.st = "idle" -> 0
    [] r.st = "mail" -> Cardinality(Unmailed(r)) + 1
    [] r.st = "log" -> NumUsers + 2
    [] r.st = "save" -> NumUsers + 3
    [] r.st = "get" -> NumUsers + 4
    [] OTHER -> NumUsers + 5

RunsAdvance ==
  \A j \in Jobs :
    \/ job'[j] = job[j]
    \/ job[j].st = "idle" /\ job'[j].st = "queued"
    \/ StepsLeft(job'[j]) < StepsLeft(job[j])

LEMMA UnmailedAreFew ==
  ASSUME NEW r \in Job
  PROVE  /\ IsFiniteSet(Unmailed(r)) /\ Cardinality(Unmailed(r)) \in Nat
         /\ Cardinality(Unmailed(r)) <= NumUsers /\ StepsLeft(r) \in Nat
         /\ r.st # "idle" => StepsLeft(r) > 0
  <1>1. IsFiniteSet(Users) /\ Cardinality(Users) = NumUsers /\ NumUsers \in Nat
    BY FS_Interval, SizesAssumption DEF Users
  <1>2. Unmailed(r) \in SUBSET Users
    BY DEF Unmailed
  <1>3. IsFiniteSet(Unmailed(r)) /\ Cardinality(Unmailed(r)) <= NumUsers
    BY <1>1, <1>2, FS_Subset
  <1>4. Cardinality(Unmailed(r)) \in Nat
    BY <1>3, FS_CardinalityType
  <1> QED
    BY <1>1, <1>3, <1>4 DEF StepsLeft

LEMMA Advanced ==
  ASSUME IInv, NEW j \in Jobs, NEW r, Become(j, r), StepsLeft(r) < StepsLeft(job[j])
  PROVE  RunsAdvance
  BY DEF IInv, TypeOK, Become, RunsAdvance

LEMMA Ended ==
  ASSUME IInv, NEW j \in Jobs, job[j].st # "idle", Become(j, Idle)
  PROVE  RunsAdvance
  <1>1. StepsLeft(Idle) = 0
    BY DEF StepsLeft, Idle, Fresh
  <1>2. StepsLeft(job[j]) \in Nat /\ StepsLeft(job[j]) > 0
    BY UnmailedAreFew DEF IInv, TypeOK
  <1> QED
    BY <1>1, <1>2, Advanced

LEMMA JobAdvances == ASSUME IInv, NEW j \in Jobs, JobStep(j) PROVE RunsAdvance
  <1>1. job[j] \in Job /\ JobOK(job[j]) /\ NumUsers \in Nat
    BY SizesAssumption DEF IInv, TypeOK
  <1>2. CASE Perform(j)
    <2> DEFINE m == job[j].id
               r == [Fresh(m) EXCEPT !.st = "get", !.loaded = monitor[m]]
    <2>1. job[j].st = "queued" /\ (Become(j, Idle) \/ Become(j, r))
      BY <1>2 DEF Perform
    <2>2. r.st = "get"
      BY DEF Fresh
    <2> HIDE DEF r
    <2>3. StepsLeft(r) < StepsLeft(job[j])
      BY <1>1, <2>1, <2>2 DEF StepsLeft
    <2> QED
      BY <2>1, <2>3, Advanced, Ended
  <1>3. CASE Get(j)
    <2>1. job[j].st = "get"
      BY <1>3 DEF Get
    <2>2. ASSUME NEW page \in Pages,
                 Become(j, [job[j] EXCEPT !.st = "save", !.loaded.url = "http", !.page = page])
          PROVE  RunsAdvance
      <3> DEFINE r == [job[j] EXCEPT !.st = "save", !.loaded.url = "http", !.page = page]
      <3>1. r.st = "save"
        BY <1>1 DEF Job
      <3> HIDE DEF r
      <3>2. StepsLeft(r) < StepsLeft(job[j])
        BY <1>1, <2>1, <3>1 DEF StepsLeft
      <3> QED
        BY <2>2, <3>2, Advanced DEF r
    <2> QED
      BY <1>3, <2>1, <2>2, Ended DEF Get
  <1>4. CASE Save(j)
    <2> DEFINE r == [job[j] EXCEPT !.st = "log", !.loaded = NoRow]
    <2>1. job[j].st = "save" /\ Become(j, r)
      BY <1>4 DEF Save
    <2>2. r.st = "log"
      BY <1>1 DEF Job
    <2> HIDE DEF r
    <2>3. StepsLeft(r) < StepsLeft(job[j])
      BY <1>1, <2>1, <2>2 DEF StepsLeft
    <2> QED
      BY <2>1, <2>3, Advanced
  <1>5. CASE Log(j)
    <2> DEFINE r == [job[j] EXCEPT !.st = "mail", !.logged = StatusOf(job[j].page)]
    <2>1. job[j].st = "log" /\ (Become(j, Idle) \/ Become(j, r))
      BY <1>5 DEF Log
    <2>2. r.st = "mail" /\ Unmailed(r) = Unmailed(job[j])
      BY <1>1 DEF Job, Unmailed
    <2> HIDE DEF r
    <2>3. StepsLeft(r) < StepsLeft(job[j])
      BY <1>1, <2>1, <2>2, UnmailedAreFew DEF StepsLeft
    <2> QED
      BY <2>1, <2>3, Advanced, Ended
  <1>6. CASE MailUser(j)
    <2> DEFINE u == First(Users \ job[j].mailed)
               r == [job[j] EXCEPT !.mailed = @ \cup {u}]
    <2>1. job[j].st = "mail" /\ (Become(j, Idle) \/ (Unmailed(r) # {} /\ Become(j, r)))
      <3>1. Unmailed(r) = Users \ (job[j].mailed \cup {u})
        BY <1>1 DEF Job, Unmailed
      <3> QED
        BY <1>6, <3>1 DEF MailUser
    <2>2. CASE Unmailed(r) # {} /\ Become(j, r)
      <3>1. r.st = "mail" /\ Unmailed(r) = Unmailed(job[j]) \ {u}
        BY <1>1, <2>1 DEF Job, Unmailed
      <3>2. u \in Unmailed(job[j])
        <4>1. Users \ job[j].mailed \in SUBSET Users /\ Users \ job[j].mailed # {}
          BY <2>2, <3>1 DEF Unmailed
        <4> QED
          BY <4>1, FirstIsFirst DEF Unmailed
      <3> HIDE DEF r, u
      <3>3. IsFiniteSet(Unmailed(job[j])) /\ Cardinality(Unmailed(job[j])) \in Nat
        BY <1>1, UnmailedAreFew
      <3>4. Cardinality(Unmailed(r)) = Cardinality(Unmailed(job[j])) - 1
        BY <3>1, <3>2, <3>3, FS_RemoveElement
      <3>5. StepsLeft(r) < StepsLeft(job[j])
        BY <2>1, <3>1, <3>3, <3>4 DEF StepsLeft
      <3> QED
        BY <2>2, <3>5, Advanced
    <2> QED
      BY <2>1, <2>2, Ended
  <1>7. CASE Cut(j)
    BY <1>7, Ended DEF Cut
  <1> QED
    BY <1>2, <1>3, <1>4, <1>5, <1>6, <1>7 DEF JobStep

\* Whatever happens around it, a job that was enqueued only comes nearer to its
\* end, which is NumUsers + 5 steps away: it fetches once, saves once, and no
\* user is mailed twice (url_monitor_worker.rb).  With the fairness of the
\* workers, every run ends.
THEOREM RunsEnd == Spec => [][RunsAdvance]_vars
  <1>1. IInv /\ [Next]_vars => RunsAdvance
    <2> SUFFICES ASSUME IInv, [Next]_vars PROVE RunsAdvance
      OBVIOUS
    <2>1. CASE UNCHANGED job
      BY <2>1 DEF RunsAdvance
    <2>2. ASSUME NEW j \in Jobs, CronEnqueue(j) PROVE RunsAdvance
      <3>1. job[j].st = "idle" /\ Become(j, Fresh(cronAt)) /\ Fresh(cronAt).st = "queued"
        BY <2>2 DEF CronEnqueue, Become, Fresh
      <3> QED
        BY <3>1 DEF RunsAdvance, Become, IInv, TypeOK
    <2>3. ASSUME NEW j \in Jobs, JobStep(j) PROVE RunsAdvance
      BY <2>3, JobAdvances
    <2> QED
      BY <2>1, <2>2, <2>3
      DEF Next, CronStep, CronStart, CronSkip, UserStep, SiteChanges, CheckLimits, Create,
          CreateOther, Update, Destroy, DestroyOther, Work, vars
  <1> QED
    BY <1>1, Inductive, PTL DEF Spec

----------------------------------------------------------------------------
\* The refinement of module Watch.
Checks == [j \in Jobs |-> CheckOf(job[j])]

\* A step of one job is a step of the check in its slot.
LEMMA CheckStep ==
  ASSUME TypeOK, NEW j \in Jobs, NEW r, Become(j, r)
  PROVE  W!Become(j, CheckOf(r))
  <1>1. Checks' = [Checks EXCEPT ![j] = CheckOf(r)]
    BY DEF TypeOK, Become, Checks
  <1> QED
    BY <1>1 DEF W!Become, Checks

\* Steps that jobs make before and after their check are none of it.
LEMMA SameCheck ==
  ASSUME TypeOK, NEW j \in Jobs, NEW r, Become(j, r), CheckOf(r) = CheckOf(job[j]),
         UNCHANGED <<site, monitor>>
  PROVE  UNCHANGED W!vars
  <1>1. Checks' = Checks
    BY DEF TypeOK, Become, Checks
  <1> QED
    BY <1>1 DEF W!vars, Checks

LEMMA IdleIsClosed ==
  /\ CheckOf(Idle) = W!Closed
  /\ \A m \in Monitors : CheckOf(Fresh(m)) = W!Closed
  BY DEF CheckOf, Idle, Fresh, W!Closed

\* What the two modules say of pages and answers is the same.
LEMMA SameWords ==
  /\ W!Pages = Pages /\ W!Answers = Answers
  /\ \A page \in Pages : W!StatusOf(page) = StatusOf(page)
  BY DEF W!Pages, Pages, W!Answers, Answers, W!StatusOf, StatusOf

LEMMA InitWatch == Init => W!Init
  <1> SUFFICES ASSUME Init PROVE W!Init
    OBVIOUS
  <1>1. Checks = [j \in Jobs |-> W!Closed]
    BY IdleIsClosed DEF Init, Checks
  <1>2. site \in [Monitors -> W!Answers]
    BY DEF Init, W!Answers
  <1>3. monitor = [m \in {} |-> W!Blank("http")]
    BY DEF Init, NoRow, W!Blank
  <1> QED
    BY <1>1, <1>2, <1>3 DEF W!Init, Checks

\* Steps of sites and users.
LEMMA WorldWatch ==
  ASSUME IInv, (\E m \in Monitors, a \in Answers : SiteChanges(m, a)) \/ UserStep
  PROVE  [W!Next]_W!vars
  <1>1. TypeOK /\ job' = job /\ Checks' = Checks
    BY DEF IInv, SiteChanges, UserStep, CheckLimits, CreateOther, DestroyOther, Create, Update,
           Destroy, Work, Checks
  <1>2. ASSUME NEW m \in Monitors, NEW a \in Answers, SiteChanges(m, a) PROVE W!Next
    <2>1. W!Turn(m)
      BY <1>1, <1>2, SameWords DEF SiteChanges, Table, W!Turn, W!Turned, Checks
    <2> QED
      BY <2>1 DEF W!Next
  <1>3. CASE CheckLimits \/ CreateOther \/ DestroyOther
    <2>1. UNCHANGED <<site, monitor>>
      BY <1>3 DEF CheckLimits, CreateOther, DestroyOther, Table
    <2> QED
      BY <1>1, <2>1 DEF W!vars, Checks
  <1>4. ASSUME NEW m \in Monitors, NEW url \in Typed, Create(m, url) PROVE W!Next
    <2>1. VerifyHttp(url) \in W!Urls
      BY DEF VerifyHttp, W!Urls
    <2>2. [NoRow EXCEPT !.url = VerifyHttp(url)] = W!Blank(VerifyHttp(url))
      BY DEF NoRow, W!Blank
    <2>3. \A c \in Jobs : Checks[c] # W!Closed => Checks[c].about # m
      <3>1. SUFFICES ASSUME NEW c \in Jobs, CheckOf(job[c]) # W!Closed
                     PROVE  CheckOf(job[c]).about # m
        BY DEF Checks
      <3>2. job[c].st \in Running
        BY <3>1 DEF CheckOf, W!Closed, Running
      <3>3. job[c].id # m
        BY <1>4, <3>2 DEF Create, Running
      <3> QED
        BY <3>2, <3>3 DEF CheckOf, Running
    <2>4. monitor' = [k \in DOMAIN monitor \cup {m} |->
                        IF k = m THEN W!Blank(VerifyHttp(url)) ELSE monitor[k]]
      BY <1>4, <2>2 DEF Create
    <2>5. W!Adopt(m, VerifyHttp(url))
      BY <1>1, <1>4, <2>3, <2>4, SameWords DEF Create, W!Adopt, W!Turned, Checks
    <2> QED
      BY <2>1, <2>5 DEF W!Next
  <1>5. ASSUME NEW m \in Monitors, NEW url \in Typed, Update(m, url) PROVE W!Next
    <2>1. W!Edit(m, VerifyHttp(url)) /\ VerifyHttp(url) \in W!Urls
      BY <1>1, <1>5 DEF Update, VerifyHttp, W!Urls, W!Edit, Checks
    <2> QED
      BY <2>1 DEF W!Next
  <1>6. ASSUME NEW m \in Monitors, Destroy(m) PROVE W!Next
    <2>1. W!Abandon(m)
      BY <1>1, <1>6 DEF Destroy, W!Abandon, Checks
    <2> QED
      BY <2>1 DEF W!Next
  <1> QED
    BY <1>2, <1>3, <1>4, <1>5, <1>6 DEF UserStep

LEMMA CronWatch == ASSUME IInv, CronStep PROVE UNCHANGED W!vars
  <1>1. CASE CronStart \/ CronSkip
    BY <1>1 DEF CronStart, CronSkip, Table, W!vars
  <1>2. ASSUME NEW j \in Jobs, CronEnqueue(j) PROVE UNCHANGED W!vars
    <2>1. /\ TypeOK /\ Become(j, Fresh(cronAt)) /\ UNCHANGED <<site, monitor>>
          /\ cronAt \in Monitors
      BY <1>2 DEF CronEnqueue, Become, Table, IInv, TypeOK
    <2>2. CheckOf(job[j]) = W!Closed
      BY <1>2 DEF CronEnqueue, CheckOf, W!Closed
    <2> QED
      BY <2>1, <2>2, IdleIsClosed, SameCheck
  <1> QED
    BY <1>1, <1>2 DEF CronStep

LEMMA PerformWatch == ASSUME IInv, NEW j \in Jobs, Perform(j) PROVE [W!Next]_W!vars
  <1> DEFINE m == job[j].id
             r == [Fresh(m) EXCEPT !.st = "get", !.loaded = monitor[m]]
  <1>1. /\ TypeOK /\ job[j] \in Job /\ m \in Monitors /\ UNCHANGED <<site, monitor>>
        /\ CheckOf(job[j]) = W!Closed
    BY DEF IInv, TypeOK, Job, Perform, Outside, Table, CheckOf, W!Closed
  <1>2. CASE m \in DOMAIN monitor
    <2>1. Become(j, r)
      BY <1>2 DEF Perform
    <2>2. CheckOf(r) = [stage |-> "asking", about |-> m, saw |-> monitor[m]]
      BY DEF CheckOf, Fresh
    <2> HIDE DEF r
    <2>3. W!Become(j, CheckOf(r))
      BY <1>1, <2>1, CheckStep
    <2>4. W!Open(j, m)
      BY <1>1, <1>2, <2>2, <2>3 DEF W!Open
    <2> QED
      BY <1>1, <2>4 DEF W!Next
  <1>3. CASE m \notin DOMAIN monitor
    <2>1. Become(j, Idle)
      BY <1>3 DEF Perform
    <2> QED
      BY <1>1, <2>1, IdleIsClosed, SameCheck
  <1> QED
    BY <1>2, <1>3

\* A job that ends for one of the reasons a check ends.
LEMMA EndWatch ==
  ASSUME IInv, NEW j \in Jobs, job[j].st \in Running, Become(j, Idle), UNCHANGED <<site, monitor>>,
         \/ job[j].st = "get" /\ (job[j].loaded.url = "mangled" \/ site[job[j].id] = "error")
         \/ job[j].st = "log" /\ job[j].page \in OkPages
         \/ job[j].st = "mail"
         \/ site[job[j].id] = "slow"
  PROVE  W!Next
  <1>1. W!Become(j, W!Closed)
    BY CheckStep, IdleIsClosed DEF IInv
  <1>2. Checks[j] = CheckOf(job[j])
    BY DEF Checks
  <1>3. Checks[j] # W!Closed /\ Checks[j].about = job[j].id
    BY <1>2 DEF CheckOf, W!Closed, Running
  <1>4. \/ Checks[j].stage = "asking" /\ (Checks[j].saw.url = "mangled"
                                          \/ site[Checks[j].about] = "error")
        \/ Checks[j].stage = "kept" /\ Checks[j].page \in OkPages
        \/ Checks[j].stage = "telling"
        \/ site[Checks[j].about] = "slow"
    BY <1>2, <1>3 DEF CheckOf
  <1>5. W!Close(j)
    BY <1>1, <1>3, <1>4 DEF W!Close, Checks
  <1> QED
    BY <1>5 DEF W!Next

LEMMA GetWatch == ASSUME IInv, NEW j \in Jobs, Get(j) PROVE W!Next
  <1>1. /\ TypeOK /\ job[j] \in Job /\ job[j].st = "get" /\ UNCHANGED <<site, monitor>>
        /\ job[j].loaded \in Row
    BY DEF IInv, TypeOK, Job, Get, Outside, Table
  <1>2. CASE site[job[j].id] = "error" \/ job[j].loaded.url = "mangled"
    <2>1. Become(j, Idle)
      BY <1>2 DEF Get
    <2> QED
      BY <1>1, <1>2, <2>1, EndWatch DEF Running
  <1>3. CASE ~(site[job[j].id] = "error" \/ job[j].loaded.url = "mangled")
    <2> DEFINE r(page) == [job[j] EXCEPT !.st = "save", !.loaded.url = "http", !.page = page]
    <2>1. PICK page \in Pages : site[job[j].id] \in {page, "slow"} /\ Become(j, r(page))
      BY <1>3 DEF Get
    <2>2. job[j].loaded.url = "http" /\ [job[j].loaded EXCEPT !.url = "http"] = job[j].loaded
      BY <1>1, <1>3 DEF Row
    <2>3. r(page).st = "save" /\ r(page).id = job[j].id /\ r(page).page = page
          /\ r(page).loaded = job[j].loaded
      BY <1>1, <2>2 DEF Job
    <2> HIDE DEF r
    <2>4. CheckOf(r(page)) = [stage |-> "heard", about |-> job[j].id, saw |-> job[j].loaded,
                              page |-> page]
      BY <2>3 DEF CheckOf
    <2>5. Checks[j] = [stage |-> "asking", about |-> job[j].id, saw |-> job[j].loaded]
      BY <1>1 DEF Checks, CheckOf
    <2>6. W!Become(j, CheckOf(r(page)))
      BY <1>1, <2>1, CheckStep
    <2>7. W!Hear(j, page)
      BY <1>1, <2>1, <2>2, <2>4, <2>5, <2>6 DEF W!Hear, Checks
    <2> QED
      BY <2>1, <2>7, SameWords DEF W!Next
  <1> QED
    BY <1>2, <1>3

\* The columns that update_attributes writes, and those it leaves out.
LEMMA WrittenIsKept ==
  ASSUME NEW m \in DOMAIN monitor, monitor[m] \in Row, NEW s \in Row, NEW page \in Pages
  PROVE  Written(m, s, page) \in W!Kept(monitor[m], s, page)
  <1> DEFINE r == monitor[m]  w == Written(m, s, page)
  <1>1. W!StatusOf(page) = StatusOf(page)
    BY SameWords
  <1> DEFINE run == IF page # s.run THEN page ELSE r.run
             status == IF StatusOf(page) # s.status THEN StatusOf(page) ELSE r.status
  <1>2. w = [url |-> r.url, run |-> run, status |-> status]
    <2>1. w = [r EXCEPT !.run = run, !.status = status]
      BY DEF Written
    <2> HIDE DEF w, run, status
    <2> QED
      BY <2>1 DEF Row
  <1> HIDE DEF w
  <1>3. CASE r.run = s.run /\ r.status = s.status
    <2>1. w = [url |-> r.url, run |-> page, status |-> W!StatusOf(page)]
      BY <1>1, <1>2, <1>3
    <2> QED
      BY <1>3, <2>1 DEF W!Kept, w
  <1>4. CASE ~(r.run = s.run /\ r.status = s.status)
    <2>1. run \in {r.run, page} /\ status \in {r.status, W!StatusOf(page)}
      BY <1>1
    <2> HIDE DEF run, status
    <2>2. w \in [url: {r.url}, run: {r.run, page}, status: {r.status, W!StatusOf(page)}]
      BY <1>2, <2>1
    <2> QED
      BY <1>4, <2>2 DEF W!Kept, w
  <1> QED
    BY <1>3, <1>4

LEMMA SaveWatch == ASSUME IInv, NEW j \in Jobs, Save(j) PROVE W!Next
  <1> DEFINE m == job[j].id  s == job[j].loaded  page == job[j].page
             r == [job[j] EXCEPT !.st = "log", !.loaded = NoRow]
  <1>1. /\ TypeOK /\ job[j] \in Job /\ JobOK(job[j]) /\ job[j].st = "save"
        /\ site' = site /\ Become(j, r)
    BY DEF IInv, TypeOK, Save, Outside
  <1>2. s \in Row /\ page \in Pages
    BY <1>1 DEF Job, JobOK
  <1>3. r.st = "log" /\ r.id = m /\ r.page = page
    BY <1>1 DEF Job
  <1> HIDE DEF r
  <1>4. CheckOf(r) = [stage |-> "kept", about |-> m, page |-> page]
    BY <1>3 DEF CheckOf
  <1>5. Checks[j] = [stage |-> "heard", about |-> m, saw |-> s, page |-> page]
    BY <1>1 DEF Checks, CheckOf
  <1>6. W!Become(j, CheckOf(r))
    BY <1>1, CheckStep
  <1>7. IF m \in DOMAIN monitor
        THEN \E v \in W!Kept(monitor[m], s, page) : monitor' = [monitor EXCEPT ![m] = v]
        ELSE UNCHANGED monitor
    <2>1. CASE m \in DOMAIN monitor
      <3>1. monitor' = [monitor EXCEPT ![m] = Written(m, s, page)]
        BY <2>1 DEF Save
      <3>2. Written(m, s, page) \in W!Kept(monitor[m], s, page)
        BY <1>1, <1>2, <2>1, WrittenIsKept DEF TypeOK
      <3> QED
        BY <2>1, <3>1, <3>2
    <2>2. CASE m \notin DOMAIN monitor
      BY <2>2 DEF Save, Table
    <2> QED
      BY <2>1, <2>2
  <1> HIDE DEF m, s, page
  <1>8. W!Keep(j)
    BY <1>1, <1>4, <1>5, <1>6, <1>7 DEF W!Keep, Checks
  <1> QED
    BY <1>8 DEF W!Next

LEMMA LogWatch == ASSUME IInv, NEW j \in Jobs, Log(j) PROVE W!Next
  <1> DEFINE page == job[j].page
             r == [job[j] EXCEPT !.st = "mail", !.logged = StatusOf(page)]
  <1>1. /\ TypeOK /\ job[j] \in Job /\ JobOK(job[j]) /\ job[j].st = "log"
        /\ UNCHANGED <<site, monitor>> /\ page \in Pages /\ job[j].mailed = {}
    BY DEF IInv, TypeOK, Log, Outside, Table, JobOK
  <1>2. CASE StatusOf(page) = "odd"
    <2>1. Become(j, r) /\ page \in OddPages
      BY <1>1, <1>2 DEF Log, StatusOf, Pages
    <2>2. /\ r.st = "mail" /\ r.id = job[j].id /\ r.page = page /\ r.mailed = {}
          /\ r.logged = W!StatusOf(page)
      BY <1>1, SameWords DEF Job
    <2> HIDE DEF r, page
    <2>3. CheckOf(r) = [stage |-> "telling", about |-> job[j].id, page |-> page,
                        logged |-> W!StatusOf(page), told |-> {}]
      BY <2>2 DEF CheckOf
    <2>4. Checks[j] = [stage |-> "kept", about |-> job[j].id, page |-> page]
      BY <1>1 DEF Checks, CheckOf, page
    <2>5. W!Become(j, CheckOf(r))
      BY <1>1, <2>1, CheckStep
    <2>6. W!Log(j)
      BY <1>1, <2>1, <2>3, <2>4, <2>5 DEF W!Log, Checks
    <2> QED
      BY <2>6 DEF W!Next
  <1>3. CASE StatusOf(page) # "odd"
    <2>1. Become(j, Idle) /\ page \in OkPages
      BY <1>1, <1>3 DEF Log, StatusOf
    <2> QED
      BY <1>1, <2>1, EndWatch DEF Running
  <1> QED
    BY <1>2, <1>3

LEMMA MailWatch == ASSUME IInv, NEW j \in Jobs, MailUser(j) PROVE W!Next
  <1> DEFINE told == job[j].mailed  u == First(Users \ told)
             r == [job[j] EXCEPT !.mailed = @ \cup {u}]
  <1>1. /\ TypeOK /\ job[j] \in Job /\ job[j].st = "mail" /\ UNCHANGED <<site, monitor>>
        /\ told \subseteq Users
    BY DEF IInv, TypeOK, Job, MailUser, Outside, Table
  <1>2. CASE u \in Unmailable \/ Users \ (told \cup {u}) = {}
    <2>1. Become(j, Idle)
      BY <1>2 DEF MailUser
    <2> QED
      BY <1>1, <2>1, EndWatch DEF Running
  <1>3. CASE ~(u \in Unmailable \/ Users \ (told \cup {u}) = {})
    <2>1. Become(j, r)
      BY <1>3 DEF MailUser
    <2>2. u \in Users \ told /\ \A v \in Users \ told : u <= v
      <3>1. Users \ told # {} /\ Users \ told \in SUBSET Users
        BY <1>3
      <3> HIDE DEF told
      <3> QED
        BY <3>1, FirstIsFirst
    <2>3. /\ r.st = "mail" /\ r.id = job[j].id /\ r.page = job[j].page
          /\ r.logged = job[j].logged /\ r.mailed = told \cup {u}
      BY <1>1 DEF Job
    <2>4. told \cup {u} # Users
      BY <1>3
    <2> HIDE DEF r, u
    <2>5. Checks[j] = [stage |-> "telling", about |-> job[j].id, page |-> job[j].page,
                       logged |-> job[j].logged, told |-> told]
      BY <1>1 DEF Checks, CheckOf
    <2>6. CheckOf(r) = [Checks[j] EXCEPT !.told = @ \cup {u}]
      BY <2>3, <2>5 DEF CheckOf
    <2>7. W!Become(j, CheckOf(r))
      BY <1>1, <2>1, CheckStep
    <2>8. W!Tell(j, u)
      BY <1>1, <1>3, <2>2, <2>4, <2>5, <2>6, <2>7 DEF W!Tell, Checks
    <2> QED
      BY <2>2, <2>8 DEF W!Next
  <1> QED
    BY <1>2, <1>3

LEMMA NextWatch == IInv /\ [Next]_vars => [W!Next]_W!vars
  <1> SUFFICES ASSUME IInv, [Next]_vars PROVE [W!Next]_W!vars
    OBVIOUS
  <1>1. CASE UNCHANGED vars
    BY <1>1 DEF vars, W!vars
  <1>2. ASSUME NEW j \in Jobs, Cut(j) PROVE W!Next
    <2>1. /\ UNCHANGED <<site, monitor>> /\ Become(j, Idle) /\ job[j].st \in Running
          /\ job[j].st = "mail" \/ site[job[j].id] = "slow"
      BY <1>2 DEF Cut, Outside, Table, Running
    <2> QED
      BY <2>1, EndWatch
  <1>3. CASE (\E m \in Monitors, a \in Answers : SiteChanges(m, a)) \/ UserStep
    BY <1>3, WorldWatch
  <1>4. CASE CronStep
    BY <1>4, CronWatch
  <1>5. ASSUME NEW j \in Jobs, JobStep(j) PROVE [W!Next]_W!vars
    BY <1>2, <1>5, PerformWatch, GetWatch, SaveWatch, LogWatch, MailWatch DEF JobStep
  <1> QED
    BY <1>1, <1>3, <1>4, <1>5 DEF Next

\* For any monitors, users, jobs, workers and pages, the jobs of
\* URLMonitorWorker are the checks module Watch promises, however they overlap
\* and wherever the timeout cuts them (url_monitor_worker.rb, lines 7-51).
THEOREM ImplementsWatch == Spec => WatchesSites
  <1>1. Init => W!Init
    BY InitWatch
  <1>2. IInv /\ [Next]_vars => [W!Next]_W!vars
    BY NextWatch
  <1> QED
    BY <1>1, <1>2, Inductive, PTL DEF Spec, WatchesSites, W!Spec
=============================================================================
