----------------------- MODULE ThresholdAlertsProofs -----------------------
(***************************************************************************)
(* Theorems about ThresholdAlerts for any servers, users, alerts, jobs,    *)
(* windows and failing mails.  The invariant says how far a run is in its  *)
(* plan: it has served the pairs before the first one that has no row yet. *)
(***************************************************************************)
EXTENDS ThresholdAlerts, WellFoundedInduction, FiniteSetTheorems, TLAPS

\* Where the run of r is in its plan.
Progress(r) ==
  /\ r.st \notin {"mail", "row"} => r.plan = {} /\ r.mailed = {} /\ r.rowed = {}
  /\ r.st = "audience" => r.due # {}
  /\ r.st \in {"mail", "row"} => r.plan \ r.rowed # {}
  /\ r.st = "mail" => r.mailed = r.rowed
  /\ r.st = "row" => r.mailed = r.rowed \cup {First(r.plan \ r.rowed)}
  /\ r.rowed \subseteq r.plan
  /\ \A p \in r.rowed, q \in r.plan \ r.rowed : Before(p, q)

IInv == TypeOK /\ \A j \in Jobs : Progress(job[j])

----------------------------------------------------------------------------
\* A nonempty set of natural numbers has a least element.
LEMMA LeastNatural ==
  ASSUME NEW S \in SUBSET Nat, S # {}
  PROVE  \E n \in S : \A m \in S : n <= m
  <1> DEFINE Less == OpToRel(<, Nat)
  <1>1. \E n \in S : \A m \in S : <<m, n>> \notin Less
    <2> HIDE DEF Less
    <2>1. IsWellFoundedOn(Less, Nat)
      BY NatLessThanWellFounded DEF Less
    <2> QED
      BY <2>1, WFMin
  <1>2. \A m, n \in Nat : <<m, n>> \notin Less => n <= m
    BY DEF OpToRel
  <1> QED
    BY <1>1, <1>2

\* The first pair of a nonempty plan is in it and before the others.
LEMMA FirstIsFirst ==
  ASSUME NEW plan \in SUBSET (Servers \X Users), plan # {}
  PROVE  /\ First(plan) \in plan
         /\ \A q \in plan : First(plan) = q \/ Before(First(plan), q)
  <1>1. PICK s \in {p[1] : p \in plan} : \A t \in {p[1] : p \in plan} : s <= t
    <2>1. {p[1] : p \in plan} \subseteq Nat /\ {p[1] : p \in plan} # {}
      BY SizesAssumption DEF Servers
    <2> QED
      BY <2>1, LeastNatural
  <1> DEFINE mine == {p \in plan : p[1] = s}
  <1>2. PICK u \in {p[2] : p \in mine} : \A v \in {p[2] : p \in mine} : u <= v
    <2>1. {p[2] : p \in mine} \subseteq Nat /\ {p[2] : p \in mine} # {}
      BY <1>1, SizesAssumption DEF Users
    <2> QED
      BY <2>1, LeastNatural
  <1>3. PICK p \in plan : p[1] = s /\ p[2] = u
    BY <1>2
  <1>4. \A q \in plan : p = q \/ Before(p, q)
    <2>1. TAKE q \in plan
    <2>2. p \in Servers \X Users /\ q \in Servers \X Users
      OBVIOUS
    <2>3. p[1] <= q[1]
      BY <1>1, <1>3
    <2>4. q[1] = p[1] => p[2] <= q[2]
      BY <1>2, <1>3
    <2>5. p[1] \in Nat /\ q[1] \in Nat /\ p[2] \in Nat /\ q[2] \in Nat
      BY <2>2, SizesAssumption DEF Servers, Users
    <2>6. p[1] = q[1] /\ p[2] = q[2] => p = q
      BY <2>2
    <2> QED
      BY <2>3, <2>4, <2>5, <2>6 DEF Before
  <1> QED
    BY <1>4 DEF First

\* Serving the first pair without a row moves it in front of the others.
LEMMA FirstServed ==
  ASSUME NEW plan \in SUBSET (Servers \X Users), NEW rowed \in SUBSET plan,
         plan \ rowed # {},
         \A p \in rowed, q \in plan \ rowed : Before(p, q)
  PROVE  /\ First(plan \ rowed) \in plan \ rowed
         /\ \A p \in rowed \cup {First(plan \ rowed)},
               q \in plan \ (rowed \cup {First(plan \ rowed)}) : Before(p, q)
  BY FirstIsFirst, plan \ rowed \in SUBSET (Servers \X Users)

LEMMA AlertExists == Unread \in Alert
  <1>1. PICK w \in Windows : TRUE
    BY SetsAssumption
  <1>2. [operator |-> "lt", targetable |-> Domain, alertable |-> Domain, window |-> w] \in Alert
    BY DEF Alert
  <1> QED
    BY <1>2 DEF Unread

LEMMA FreshJobs ==
  ASSUME NEW a \in Alerts
  PROVE  Fresh(a) \in Job /\ Idle \in Job /\ Progress(Fresh(a)) /\ Progress(Idle)
  <1>1. 1 \in Alerts
    BY SizesAssumption DEF Alerts
  <1>2. Fresh(a) \in Job /\ Idle \in Job
    BY <1>1, AlertExists DEF Fresh, Idle, Job
  <1>3. Progress(Fresh(a)) /\ Progress(Idle)
    BY DEF Progress, Fresh, Idle
  <1> QED
    BY <1>2, <1>3

----------------------------------------------------------------------------
LEMMA InitIInv == Init => IInv
  <1> SUFFICES ASSUME Init PROVE IInv
    OBVIOUS
  <1>1. Idle \in Job /\ Progress(Idle)
    BY FreshJobs, SizesAssumption DEF Alerts
  <1>2. TypeOK
    BY <1>1, SizesAssumption DEF Init, TypeOK, Hours, Levels, Servers, Users
  <1> QED
    BY <1>1, <1>2 DEF Init, IInv

\* The steps of agents, users and the clock leave the jobs alone.
LEMMA WorldStep ==
  ASSUME IInv, Jobless,
         \/ Tick
         \/ \E s \in Servers : DestroyServer(s) \/ \E l \in Levels : Post(s, l)
         \/ \E u \in Users : RemoveUser(u)
         \/ AlertStep
  PROVE  IInv'
  <1>1. job' = job /\ cronAt' = cronAt /\ queue' = queue
    BY DEF Jobless
  <1>2. SUFFICES TypeOK'
    BY <1>1 DEF IInv
  <1> USE DEF IInv, TypeOK
  <1>3. CASE Tick
    BY <1>1, <1>3, SizesAssumption DEF Tick, Hours
  <1>4. CASE \E s \in Servers : DestroyServer(s) \/ \E l \in Levels : Post(s, l)
    BY <1>1, <1>4 DEF DestroyServer, Post
  <1>5. CASE \E u \in Users : RemoveUser(u)
    BY <1>1, <1>5 DEF RemoveUser
  <1>6. CASE AlertStep
    <2>1. ASSUME NEW a \in Alerts, NEW r \in Alert, CreateAlert(a, r)
          PROVE  TypeOK'
      BY <1>1, <2>1 DEF CreateAlert
    <2>2. ASSUME NEW a \in Alerts, NEW op \in {"lt", "gt"}, NEW w \in Windows, UpdateAlert(a, op, w)
          PROVE  TypeOK'
      <3>1. alert[a] \in Alert
        BY <2>2 DEF UpdateAlert
      <3>2. [alert[a] EXCEPT !.operator = op, !.window = w] \in Alert
        BY <3>1 DEF Alert
      <3>3. alert' \in [DOMAIN alert -> Alert] /\ DOMAIN alert' = DOMAIN alert
        BY <2>2, <3>2 DEF UpdateAlert
      <3> QED
        BY <1>1, <2>2, <3>3 DEF UpdateAlert
    <2>3. ASSUME NEW a \in Alerts, DestroyAlert(a)
          PROVE  TypeOK'
      BY <1>1, <2>3 DEF DestroyAlert
    <2> QED
      BY <1>6, <2>1, <2>2, <2>3 DEF AlertStep
  <1> QED
    BY <1>3, <1>4, <1>5, <1>6

----------------------------------------------------------------------------
\* What is left to show of a step that replaces one job.
LEMMA Replaced ==
  ASSUME IInv, NEW j \in Jobs, NEW r, r \in Job, Progress(r), Become(j, r),
         UNCHANGED World, cronAt' \in 0..NumAlerts, queue' \in Seq(Jobs),
         reached' \subseteq Alerts \X Servers \X Users
  PROVE  IInv'
  <1>1. job' \in [Jobs -> Job] /\ \A k \in Jobs : job'[k] = IF k = j THEN r ELSE job[k]
    BY DEF IInv, TypeOK, Become
  <1>2. TypeOK'
    BY <1>1 DEF IInv, TypeOK, World
  <1> QED
    BY <1>1, <1>2 DEF IInv

LEMMA CronIInv == ASSUME IInv, CronStep PROVE IInv'
  <1>1. NumAlerts \in Nat /\ cronAt \in 0..NumAlerts
    BY SizesAssumption DEF IInv, TypeOK
  <1>2. CASE CronStart \/ CronSkip
    <2>1. cronAt' \in 0..NumAlerts
      BY <1>1, <1>2, SizesAssumption DEF CronStart, CronSkip, AdvanceCron
    <2>2. UNCHANGED <<World, queue, job, reached>>
      BY <1>2 DEF CronStart, CronSkip
    <2> QED
      BY <2>1, <2>2 DEF IInv, TypeOK, World
  <1>3. ASSUME NEW j \in Jobs, CronEnqueue(j) PROVE IInv'
    <2>1. cronAt \in Alerts
      BY <1>3 DEF CronEnqueue, IInv, TypeOK
    <2>2. cronAt' \in 0..NumAlerts
      BY <1>1, <1>3 DEF CronEnqueue, AdvanceCron
    <2>3. queue' \in Seq(Jobs)
      BY <1>3 DEF CronEnqueue, IInv, TypeOK
    <2>4. Become(j, Fresh(cronAt)) /\ UNCHANGED World /\ reached' = reached
      BY <1>3 DEF CronEnqueue, Become
    <2> QED
      BY <2>1, <2>2, <2>3, <2>4, FreshJobs, Replaced DEF IInv, TypeOK
  <1> QED
    BY <1>2, <1>3 DEF CronStep

\* The first steps of a run, up to its plan.
LEMMA PlanIInv ==
  ASSUME IInv, NEW j \in Jobs, Perform(j) \/ LoadServers(j) \/ LoadAudience(j)
  PROVE  IInv'
  <1>1. Idle \in Job /\ Progress(Idle)
    BY FreshJobs, SizesAssumption DEF Alerts
  <1>2. job[j] \in Job /\ Progress(job[j])
    BY DEF IInv, TypeOK
  <1>3. UNCHANGED World /\ cronAt' \in 0..NumAlerts /\ reached' = reached
    BY DEF Perform, LoadServers, LoadAudience, Outside, IInv, TypeOK
  <1>4. CASE Perform(j)
    <2> DEFINE a == job[j].id
    <2>1. queue' \in Seq(Jobs)
      BY <1>4 DEF Perform, IInv, TypeOK
    <2>2. CASE a \in DOMAIN alert /\ InWindow(hour, alert[a].window)
      <3> DEFINE r == [Fresh(a) EXCEPT !.st = "servers", !.alert = alert[a]]
      <3>1. a \in Alerts /\ alert[a] \in Alert
        BY <2>2 DEF IInv, TypeOK
      <3>2. Fresh(a) \in Job /\ Progress(Fresh(a))
        BY <3>1, FreshJobs
      <3>3. r \in Job
        BY <3>1, <3>2 DEF Job, Running
      <3>4. Progress(r)
        BY DEF Progress, Fresh
      <3>5. Become(j, r)
        BY <1>4, <2>2 DEF Perform
      <3> HIDE DEF r
      <3> QED
        BY <1>3, <2>1, <3>3, <3>4, <3>5, Replaced DEF IInv, TypeOK
    <2>3. CASE ~(a \in DOMAIN alert /\ InWindow(hour, alert[a].window))
      BY <1>1, <1>3, <1>4, <2>1, <2>3, Replaced DEF Perform, IInv, TypeOK
    <2> QED
      BY <2>2, <2>3
  <1>5. CASE LoadServers(j)
    <2> DEFINE due == Crossing(job[j].alert)
               r == [job[j] EXCEPT !.st = "audience", !.due = due]
    <2>1. queue' \in Seq(Jobs)
      BY <1>5 DEF LoadServers, IInv, TypeOK
    <2>2. Become(j, Idle) \/ (due # {} /\ Become(j, r))
      BY <1>5 DEF LoadServers
    <2>3. due \in SUBSET Servers
      BY DEF Crossing, IInv, TypeOK
    <2>4. r \in Job
      BY <1>2, <2>3 DEF Job, Running
    <2>5. due # {} => Progress(r)
      BY <1>2, <1>5 DEF Progress, LoadServers, Job
    <2> HIDE DEF r, due
    <2> QED
      BY <1>1, <1>3, <2>1, <2>2, <2>4, <2>5, Replaced DEF IInv, TypeOK
  <1>6. CASE LoadAudience(j)
    <2> DEFINE plan == job[j].due \X Audience(job[j].alert)
               r == [job[j] EXCEPT !.st = "mail", !.plan = plan, !.alert = Unread, !.due = {}]
    <2>1. queue' \in Seq(Jobs)
      BY <1>6 DEF LoadAudience, IInv, TypeOK
    <2>2. Become(j, Idle) \/ (plan # {} /\ Become(j, r))
      BY <1>6 DEF LoadAudience
    <2>3. plan \in SUBSET (Servers \X Users)
      <3>1. job[j].due \subseteq Servers /\ job[j].alert \in Alert
        BY <1>2 DEF Job
      <3>2. Audience(job[j].alert) \subseteq Users
        <4> DEFINE al == job[j].alert
        <4>1. al.alertable \in {Domain, <<"Team", 1>>} \cup ({"User"} \X Users)
          BY <3>1 DEF Alert
        <4>2. members \subseteq Users /\ Team \subseteq Users
          BY SetsAssumption DEF IInv, TypeOK
        <4>3. CASE al.alertable = Domain
          BY <4>2, <4>3 DEF Audience
        <4>4. CASE al.alertable # Domain /\ al.alertable[1] = "Team"
          BY <4>2, <4>4 DEF Audience
        <4>5. CASE al.alertable # Domain /\ al.alertable[1] # "Team"
          <5>1. al.alertable[2] \in Users /\ al.alertable[1] = "User"
            BY <4>1, <4>5
          <5>2. CASE al.operator = "lt"
            BY <4>5, <5>1, <5>2 DEF Audience
          <5>3. CASE al.operator # "lt"
            BY <4>5, <5>1, <5>3 DEF Audience
          <5> QED
            BY <5>2, <5>3
        <4> QED
          BY <4>3, <4>4, <4>5
      <3> QED
        BY <3>1, <3>2
    <2>4. r \in Job
      BY <1>2, <2>3, AlertExists DEF Job, Running
    <2>5. plan # {} => Progress(r)
      <3>1. r.rowed = {} /\ r.mailed = {} /\ r.plan = plan /\ r.st = "mail"
        BY <1>2, <1>6 DEF Progress, LoadAudience, Job
      <3> HIDE DEF r, plan
      <3> QED
        BY <3>1 DEF Progress
    <2> HIDE DEF r, plan
    <2> QED
      BY <1>1, <1>3, <2>1, <2>2, <2>4, <2>5, Replaced DEF IInv, TypeOK
  <1> QED
    BY <1>4, <1>5, <1>6

\* A run with a plan has a first pair to serve.
LEMMA PlanAhead ==
  ASSUME IInv, NEW j \in Jobs, job[j].st \in {"mail", "row"}
  PROVE  /\ job[j] \in Job /\ Progress(job[j])
         /\ job[j].plan \in SUBSET (Servers \X Users)
         /\ job[j].rowed \in SUBSET job[j].plan
         /\ job[j].plan \ job[j].rowed # {}
         /\ First(job[j].plan \ job[j].rowed) \in job[j].plan \ job[j].rowed
  <1>1. job[j] \in Job /\ Progress(job[j])
    BY DEF IInv, TypeOK
  <1>2. /\ job[j].plan \in SUBSET (Servers \X Users)
        /\ job[j].rowed \in SUBSET job[j].plan
        /\ job[j].plan \ job[j].rowed # {}
    BY <1>1 DEF Job, Progress
  <1> QED
    BY <1>1, <1>2, FirstIsFirst, job[j].plan \ job[j].rowed \in SUBSET (Servers \X Users)

LEMMA MailIInv == ASSUME IInv, NEW j \in Jobs, MailUser(j) PROVE IInv'
  <1> DEFINE p == First(job[j].plan \ job[j].rowed)
             r == [job[j] EXCEPT !.st = "row", !.mailed = @ \cup {p}]
  <1>1. job[j].st = "mail"
    BY DEF MailUser
  <1>2. p \in Servers \X Users /\ job[j] \in Job /\ Progress(job[j])
    BY <1>1, PlanAhead
  <1>3. UNCHANGED World /\ cronAt' \in 0..NumAlerts /\ queue' \in Seq(Jobs)
    BY DEF MailUser, Outside, IInv, TypeOK
  <1>4. Idle \in Job /\ Progress(Idle)
    BY FreshJobs, SizesAssumption DEF Alerts
  <1>5. CASE p \in Failing
    BY <1>3, <1>4, <1>5, Replaced DEF MailUser, IInv, TypeOK
  <1>6. CASE p \notin Failing
    <2>1. reached' \subseteq Alerts \X Servers \X Users
      <3>1. <<job[j].id, p[1], p[2]>> \in Alerts \X Servers \X Users
        BY <1>2 DEF Job
      <3> QED
        BY <1>6, <3>1 DEF MailUser, IInv, TypeOK
    <2>2. r \in Job
      BY <1>2 DEF Job, Running
    <2>3. Progress(r)
      <3>1. /\ r.st = "row" /\ r.mailed = job[j].mailed \cup {p}
            /\ r.plan = job[j].plan /\ r.rowed = job[j].rowed
        BY <1>2 DEF Job
      <3> HIDE DEF r
      <3> QED
        BY <1>1, <1>2, <3>1 DEF Progress
    <2>4. Become(j, r)
      BY <1>6 DEF MailUser
    <2> HIDE DEF r
    <2> QED
      BY <1>3, <2>1, <2>2, <2>3, <2>4, Replaced
  <1> QED
    BY <1>5, <1>6

LEMMA RowIInv == ASSUME IInv, NEW j \in Jobs, CreateRow(j) PROVE IInv'
  <1> DEFINE p == First(job[j].plan \ job[j].rowed)
             r == [job[j] EXCEPT !.st = "mail", !.rowed = @ \cup {p}]
             rest == (job[j].plan \ job[j].rowed) \ {p}
  <1>1. job[j].st = "row"
    BY DEF CreateRow
  <1>2. /\ job[j] \in Job /\ Progress(job[j]) /\ p \in job[j].plan \ job[j].rowed
        /\ job[j].plan \in SUBSET (Servers \X Users)
        /\ job[j].rowed \in SUBSET job[j].plan
    BY <1>1, PlanAhead
  <1>3. /\ UNCHANGED World /\ cronAt' \in 0..NumAlerts /\ queue' \in Seq(Jobs)
        /\ reached' \subseteq Alerts \X Servers \X Users
    BY DEF CreateRow, Outside, IInv, TypeOK
  <1>4. Idle \in Job /\ Progress(Idle)
    BY FreshJobs, SizesAssumption DEF Alerts
  <1>5. CASE rest = {}
    BY <1>3, <1>4, <1>5, Replaced DEF CreateRow
  <1>6. CASE rest # {}
    <2>1. r \in Job
      BY <1>2 DEF Job, Running
    <2>2. Progress(r)
      <3>1. /\ r.st = "mail" /\ r.mailed = job[j].mailed
            /\ r.plan = job[j].plan /\ r.rowed = job[j].rowed \cup {p}
        BY <1>2 DEF Job
      <3>2. \A q \in r.rowed, t \in r.plan \ r.rowed : Before(q, t)
        BY <1>2, <3>1, FirstServed DEF Progress
      <3>3. r.plan \ r.rowed # {} /\ r.rowed \subseteq r.plan /\ r.mailed = r.rowed
        BY <1>1, <1>2, <1>6, <3>1 DEF Progress
      <3> HIDE DEF r
      <3> QED
        BY <3>1, <3>2, <3>3 DEF Progress
    <2>3. Become(j, r)
      BY <1>6 DEF CreateRow
    <2> HIDE DEF r
    <2> QED
      BY <1>3, <2>1, <2>2, <2>3, Replaced
  <1> QED
    BY <1>5, <1>6

----------------------------------------------------------------------------
LEMMA NextIInv == IInv /\ [Next]_vars => IInv'
  <1> SUFFICES ASSUME IInv, [Next]_vars PROVE IInv'
    OBVIOUS
  <1>1. CASE Tick \/ (\E s \in Servers : DestroyServer(s) \/ \E l \in Levels : Post(s, l))
               \/ (\E u \in Users : RemoveUser(u)) \/ AlertStep
    <2>1. Jobless
      BY <1>1 DEF Tick, DestroyServer, Post, RemoveUser, AlertStep, CreateAlert, UpdateAlert,
                  DestroyAlert
    <2> QED
      BY <1>1, <2>1, WorldStep
  <1>2. CASE CronStep
    BY <1>2, CronIInv
  <1>3. ASSUME NEW j \in Jobs, JobStep(j) PROVE IInv'
    BY <1>3, PlanIInv, MailIInv, RowIInv DEF JobStep
  <1>4. CASE UNCHANGED vars
    BY <1>4 DEF vars, IInv, TypeOK
  <1> QED
    BY <1>1, <1>2, <1>3, <1>4 DEF Next

\* The invariant of the runs of AlertWorker.
THEOREM Inductive == Spec => []IInv
  BY InitIInv, NextIInv, PTL DEF Spec

\* Tables, jobs and the queue keep their types.
THEOREM TypeCorrect == Spec => []TypeOK
  <1>1. IInv => TypeOK
    BY DEF IInv
  <1> QED
    BY <1>1, Inductive, PTL

\* A run mails the pairs of its plan in order, and the inbox is behind by the
\* row of its last mail at most (alert_worker.rb, lines 23-32).
THEOREM MailsKeepOrder == Spec => []MailsInOrder
  <1>1. IInv => MailsInOrder
    <2> SUFFICES ASSUME IInv, NEW j \in Jobs
                 PROVE  /\ job[j].rowed \subseteq job[j].mailed
                        /\ job[j].mailed \subseteq job[j].plan
                        /\ \A p \in job[j].mailed, q \in job[j].plan \ job[j].rowed :
                             p = q \/ Before(p, q)
      BY DEF MailsInOrder
    <2>1. Progress(job[j])
      BY DEF IInv
    <2>2. CASE job[j].st \in {"mail", "row"}
      <3> DEFINE p == First(job[j].plan \ job[j].rowed)
      <3>1. p \in job[j].plan \ job[j].rowed
        BY <2>2, PlanAhead
      <3>2. \A q \in job[j].plan \ job[j].rowed : p = q \/ Before(p, q)
        BY <2>2, PlanAhead, FirstIsFirst, job[j].plan \ job[j].rowed \in SUBSET (Servers \X Users)
      <3> HIDE DEF p
      <3>3. job[j].mailed = job[j].rowed \/ job[j].mailed = job[j].rowed \cup {p}
        BY <2>1, <2>2 DEF Progress, p
      <3> QED
        BY <2>1, <3>1, <3>2, <3>3 DEF Progress
    <2>3. CASE job[j].st \notin {"mail", "row"}
      BY <2>1, <2>3 DEF Progress
    <2> QED
      BY <2>2, <2>3
  <1> QED
    BY <1>1, Inductive, PTL

\* A run that no exception ends has served its whole plan (lines 17-93).
THEOREM RunsAreComplete == Spec => RunsComplete
  <1> DEFINE Complete ==
        \A j \in Jobs :
          job[j].st = "row" /\ job'[j].st = "idle" => job[j].mailed = job[j].plan
  <1>1. IInv /\ [Next]_vars => Complete
    <2> SUFFICES ASSUME IInv, [Next]_vars, NEW j \in Jobs,
                        job[j].st = "row", job'[j].st = "idle"
                 PROVE  job[j].mailed = job[j].plan
      OBVIOUS
    <2> DEFINE p == First(job[j].plan \ job[j].rowed)
    <2>1. /\ job[j].mailed = job[j].rowed \cup {p}
          /\ p \in job[j].plan \ job[j].rowed
          /\ job[j].rowed \subseteq job[j].plan
      BY PlanAhead DEF Progress
    <2>2. job[j].plan \ job[j].rowed \subseteq {p}
      <3>1. CreateRow(j)
        <4>0. job \in [Jobs -> Job] /\ job'[j] # job[j]
          BY DEF IInv, TypeOK
        <4>1. ~Jobless /\ ~UNCHANGED vars
          BY <4>0 DEF Jobless, vars
        <4>2. ~CronStep
          <5>1. ASSUME NEW i \in Jobs, CronEnqueue(i) PROVE FALSE
            <6>1. job[i].st = "idle" /\ job' = [job EXCEPT ![i] = Fresh(cronAt)]
              BY <5>1 DEF CronEnqueue
            <6>2. i # j
              BY <6>1
            <6> QED
              BY <4>0, <6>1, <6>2
          <5> QED
            BY <4>0, <5>1 DEF CronStep, CronStart, CronSkip
        <4>3. PICK i \in Jobs : JobStep(i)
          BY <4>1, <4>2 DEF Next, Tick, DestroyServer, Post, RemoveUser, AlertStep, CreateAlert,
                            UpdateAlert, DestroyAlert
        <4>4. i = j
          <5>1. PICK r : job' = [job EXCEPT ![i] = r]
            BY <4>3 DEF JobStep, Perform, LoadServers, LoadAudience, MailUser, CreateRow, Become
          <5> QED
            BY <4>0, <5>1
        <4> QED
          BY <4>3, <4>4 DEF JobStep, Perform, LoadServers, LoadAudience, MailUser
      <3>2. (job[j].plan \ job[j].rowed) \ {p} = {}
        <4> DEFINE rest == (job[j].plan \ job[j].rowed) \ {p}
        <4>1. job' = [job EXCEPT ![j] = IF rest = {} THEN Idle
                                       ELSE [job[j] EXCEPT !.st = "mail", !.rowed = @ \cup {p}]]
          BY <3>1 DEF CreateRow, Become
        <4> HIDE DEF rest, p
        <4>2. job \in [Jobs -> Job]
          BY DEF IInv, TypeOK
        <4>3. rest # {} => job'[j].st = "mail"
          BY <4>1, <4>2 DEF Job
        <4> QED
          BY <4>3 DEF rest
      <3> QED
        BY <3>2
    <2> QED
      BY <2>1, <2>2
  <1>2. Spec => [][Complete]_vars
    BY <1>1, Inductive, PTL DEF Spec
  <1> QED
    BY <1>2 DEF RunsComplete

----------------------------------------------------------------------------
\* The steps of the jobs as steps of module Rounds.
Rounds == [j \in Jobs |-> RoundOf(job[j])]
Beyond == [r \in Alert |-> Crossing(r)]
Addressed == [r \in Alert |-> Audience(r)]

LEMMA RoundChanges ==
  ASSUME TypeOK, NEW j \in Jobs, NEW r, Become(j, r)
  PROVE  Rounds' = [Rounds EXCEPT ![j] = RoundOf(r)]
  BY DEF TypeOK, Become, Rounds

LEMMA WorldStands == ASSUME UNCHANGED World PROVE UNCHANGED <<InForce, Beyond, Addressed>>
  BY DEF World, InForce, Beyond, Addressed, Crossing, Audience

\* A step that leaves its round, and whom the alerts have reached, as they are.
LEMMA SameRound ==
  ASSUME TypeOK, NEW j \in Jobs, NEW r, Become(j, r), RoundOf(r) = RoundOf(job[j]),
         UNCHANGED <<World, reached>>
  PROVE  UNCHANGED R!vars
  <1>1. Rounds' = Rounds
    BY RoundChanges DEF Rounds
  <1> QED
    BY <1>1, WorldStands DEF R!vars, R!world, Rounds, Beyond, Addressed

\* A step of a job as a step of its round.
LEMMA RoundStep ==
  ASSUME TypeOK, NEW j \in Jobs, NEW r, Become(j, r), UNCHANGED World
  PROVE  R!Become(j, RoundOf(r)) /\ UNCHANGED R!world
  <1>1. R!Become(j, RoundOf(r))
    BY RoundChanges DEF R!Become, Rounds
  <1> QED
    BY <1>1, WorldStands DEF R!world, Beyond, Addressed

LEMMA IdleIsClosed == RoundOf(Idle) = R!Closed /\ \A a \in Alerts : RoundOf(Fresh(a)) = R!Closed
  BY DEF RoundOf, Idle, Fresh, R!Closed

LEMMA InitRounds == Init => R!Init
  <1> SUFFICES ASSUME Init PROVE R!Init
    OBVIOUS
  <1>1. Rounds = [j \in Jobs |-> R!Closed]
    BY IdleIsClosed DEF Init, Rounds
  <1> QED
    BY <1>1 DEF Init, R!Init, Rounds

LEMMA WorldRounds ==
  ASSUME Jobless,
         \/ Tick
         \/ \E s \in Servers : DestroyServer(s) \/ \E l \in Levels : Post(s, l)
         \/ \E u \in Users : RemoveUser(u)
         \/ AlertStep
  PROVE  R!Next
  <1>1. UNCHANGED Rounds
    BY DEF Jobless, Rounds
  <1>2. reached' \subseteq reached
    BY DEF Tick, DestroyServer, Post, RemoveUser, AlertStep, CreateAlert, UpdateAlert,
           DestroyAlert
  <1> QED
    BY <1>1, <1>2 DEF R!Next, R!Surroundings, Rounds

LEMMA CronRounds == ASSUME IInv, CronStep PROVE UNCHANGED R!vars
  <1>1. CASE CronStart \/ CronSkip
    <2>1. UNCHANGED <<World, job, reached>>
      BY <1>1 DEF CronStart, CronSkip
    <2> QED
      BY <2>1, WorldStands DEF R!vars, R!world, Rounds, Beyond, Addressed
  <1>2. ASSUME NEW j \in Jobs, CronEnqueue(j) PROVE UNCHANGED R!vars
    <2>1. Become(j, Fresh(cronAt)) /\ UNCHANGED <<World, reached>> /\ cronAt \in Alerts
      BY <1>2 DEF CronEnqueue, Become, IInv, TypeOK
    <2>2. RoundOf(job[j]) = R!Closed
      BY <1>2 DEF CronEnqueue, RoundOf, R!Closed
    <2> QED
      BY <2>1, <2>2, IdleIsClosed, SameRound DEF IInv
  <1> QED
    BY <1>1, <1>2 DEF CronStep

LEMMA PerformRounds == ASSUME IInv, NEW j \in Jobs, Perform(j) PROVE [R!Next]_R!vars
  <1> DEFINE a == job[j].id
             r == [Fresh(a) EXCEPT !.st = "servers", !.alert = alert[a]]
  <1>1. /\ TypeOK /\ job[j] \in Job /\ a \in Alerts
        /\ UNCHANGED <<World, reached>> /\ RoundOf(job[j]) = R!Closed
    BY DEF IInv, TypeOK, Job, Perform, Outside, RoundOf, R!Closed
  <1>2. CASE a \in DOMAIN alert /\ InWindow(hour, alert[a].window)
    <2>1. Become(j, r)
      BY <1>2 DEF Perform
    <2>2. RoundOf(r) = [stage |-> "open", alert |-> a, rule |-> alert[a]]
      BY DEF RoundOf, Fresh
    <2>3. <<a, alert[a]>> \in InForce /\ alert[a] \in Alert
      BY <1>1, <1>2 DEF InForce, TypeOK
    <2> HIDE DEF r
    <2>4. R!Become(j, RoundOf(r)) /\ UNCHANGED R!world
      BY <1>1, <2>1, RoundStep
    <2>5. R!Open(j, a, alert[a])
      BY <1>1, <2>2, <2>3, <2>4 DEF R!Open
    <2> QED
      BY <1>1, <2>3, <2>5 DEF R!Next
  <1>3. CASE ~(a \in DOMAIN alert /\ InWindow(hour, alert[a].window))
    <2>1. Become(j, Idle)
      BY <1>3 DEF Perform
    <2> QED
      BY <1>1, <2>1, IdleIsClosed, SameRound
  <1> QED
    BY <1>2, <1>3

LEMMA ServersRounds == ASSUME IInv, NEW j \in Jobs, LoadServers(j) PROVE R!Next
  <1> DEFINE due == Crossing(job[j].alert)
             r == [job[j] EXCEPT !.st = "audience", !.due = due]
  <1>1. TypeOK /\ job[j] \in Job /\ job[j].alert \in Alert /\ UNCHANGED <<World, reached>>
    BY DEF IInv, TypeOK, Job, LoadServers, Outside
  <1>2. RoundOf(job[j]) = [stage |-> "open", alert |-> job[j].id, rule |-> job[j].alert]
    BY DEF LoadServers, RoundOf
  <1>3. Beyond[job[j].alert] = due
    BY <1>1 DEF Beyond
  <1>4. CASE due = {}
    <2>1. Become(j, Idle)
      BY <1>4 DEF LoadServers
    <2>2. R!Become(j, R!Closed) /\ UNCHANGED R!world
      BY <1>1, <2>1, RoundStep, IdleIsClosed
    <2>3. R!Drop(j)
      BY <1>1, <1>2, <1>3, <1>4, <2>2 DEF R!Drop, Beyond
    <2> QED
      BY <2>3 DEF R!Next
  <1>5. CASE due # {}
    <2>1. Become(j, r)
      BY <1>5 DEF LoadServers
    <2>2. RoundOf(r) = [stage |-> "found", alert |-> job[j].id, rule |-> job[j].alert,
                        due |-> due]
      BY <1>1 DEF RoundOf, Job
    <2> HIDE DEF r, due
    <2>3. R!Become(j, RoundOf(r)) /\ UNCHANGED R!world
      BY <1>1, <2>1, RoundStep
    <2>4. R!Find(j)
      BY <1>1, <1>2, <1>3, <1>5, <2>2, <2>3 DEF R!Find, Beyond
    <2> QED
      BY <2>4 DEF R!Next
  <1> QED
    BY <1>4, <1>5

LEMMA AudienceRounds == ASSUME IInv, NEW j \in Jobs, LoadAudience(j) PROVE R!Next
  <1> DEFINE people == Audience(job[j].alert)
             plan == job[j].due \X people
             r == [job[j] EXCEPT !.st = "mail", !.plan = plan, !.alert = Unread, !.due = {}]
  <1>1. /\ TypeOK /\ job[j] \in Job /\ job[j].alert \in Alert /\ UNCHANGED <<World, reached>>
        /\ job[j].due # {}
    BY DEF IInv, TypeOK, Job, LoadAudience, Outside, Progress
  <1>2. RoundOf(job[j]) = [stage |-> "found", alert |-> job[j].id, rule |-> job[j].alert,
                           due |-> job[j].due]
    BY DEF LoadAudience, RoundOf
  <1>3. Addressed[job[j].alert] = people
    BY <1>1 DEF Addressed
  <1>4. plan = {} <=> people = {}
    <2> HIDE DEF people
    <2>1. PICK s \in job[j].due : TRUE
      BY <1>1
    <2>2. \A u \in people : <<s, u>> \in plan
      BY <2>1
    <2> QED
      BY <2>2
  <1>5. CASE plan = {}
    <2>1. Become(j, Idle)
      BY <1>5 DEF LoadAudience
    <2>2. R!Become(j, R!Closed) /\ UNCHANGED R!world
      BY <1>1, <2>1, RoundStep, IdleIsClosed
    <2>3. R!Drop(j)
      BY <1>1, <1>2, <1>3, <1>4, <1>5, <2>2 DEF R!Drop, Addressed
    <2> QED
      BY <2>3 DEF R!Next
  <1>6. CASE plan # {}
    <2>1. Become(j, r)
      BY <1>6 DEF LoadAudience
    <2>2. RoundOf(r) = [stage |-> "telling", alert |-> job[j].id, plan |-> plan,
                        heard |-> {}, noted |-> {}]
      <3>1. job[j].mailed = {} /\ job[j].rowed = {}
        BY DEF IInv, Progress, LoadAudience
      <3>2. r.st = "mail" /\ r.id = job[j].id /\ r.plan = plan /\ r.mailed = {} /\ r.rowed = {}
        BY <1>1, <3>1 DEF Job
      <3> HIDE DEF r, plan
      <3> QED
        BY <3>2 DEF RoundOf
    <2> HIDE DEF r, people
    <2>3. R!Become(j, RoundOf(r)) /\ UNCHANGED R!world
      BY <1>1, <2>1, RoundStep
    <2>4. Rounds[j] = RoundOf(job[j])
      BY DEF Rounds
    <2>5. RoundOf(r) = [stage |-> "telling", alert |-> Rounds[j].alert,
                        plan |-> Rounds[j].due \X Addressed[Rounds[j].rule],
                        heard |-> {}, noted |-> {}]
      <3>1. /\ Rounds[j].alert = job[j].id /\ Rounds[j].due = job[j].due
            /\ Addressed[Rounds[j].rule] = people
        BY <1>2, <1>3, <2>4
      <3>2. plan = Rounds[j].due \X Addressed[Rounds[j].rule]
        BY <3>1
      <3> QED
        BY <2>2, <3>1, <3>2
    <2>6. Rounds[j].stage = "found" /\ Addressed[Rounds[j].rule] # {}
      BY <1>2, <1>3, <1>4, <1>6, <2>4
    <2>7. R!Become(j, [stage |-> "telling", alert |-> Rounds[j].alert,
                       plan |-> Rounds[j].due \X Addressed[Rounds[j].rule],
                       heard |-> {}, noted |-> {}])
      BY <2>3, <2>5
    <2> HIDE DEF plan
    <2>8. R!Address(j)
      BY <1>1, <2>3, <2>6, <2>7, Zenon DEF R!Address, Rounds, Addressed
    <2> QED
      BY <2>8 DEF R!Next
  <1> QED
    BY <1>5, <1>6

\* The first pair of a plan without a row is the next one of its round.
LEMMA NextInRound ==
  ASSUME IInv, NEW j \in Jobs, job[j].st \in {"mail", "row"}
  PROVE  /\ RoundOf(job[j]) = [stage |-> "telling", alert |-> job[j].id, plan |-> job[j].plan,
                               heard |-> job[j].mailed, noted |-> job[j].rowed]
         /\ First(job[j].plan \ job[j].rowed) \in job[j].plan
         /\ R!IsNext(RoundOf(job[j]), First(job[j].plan \ job[j].rowed))
  <1> DEFINE p == First(job[j].plan \ job[j].rowed)
  <1>1. RoundOf(job[j]) = [stage |-> "telling", alert |-> job[j].id, plan |-> job[j].plan,
                           heard |-> job[j].mailed, noted |-> job[j].rowed]
    BY DEF RoundOf
  <1>2. p \in job[j].plan \ job[j].rowed
    BY PlanAhead
  <1>3. \A q \in job[j].plan \ job[j].rowed : p = q \/ Before(p, q)
    BY PlanAhead, FirstIsFirst, job[j].plan \ job[j].rowed \in SUBSET (Servers \X Users)
  <1> HIDE DEF p
  <1>4. R!IsNext(RoundOf(job[j]), p)
    BY <1>1, <1>2, <1>3 DEF R!IsNext, R!Earlier, Before
  <1> QED
    BY <1>1, <1>2, <1>4 DEF p

LEMMA MailRounds == ASSUME IInv, NEW j \in Jobs, MailUser(j) PROVE R!Next
  <1> DEFINE p == First(job[j].plan \ job[j].rowed)
             c == RoundOf(job[j])
             r == [job[j] EXCEPT !.st = "row", !.mailed = @ \cup {p}]
  <1>1. job[j].st = "mail" /\ TypeOK /\ job[j] \in Job /\ UNCHANGED World
    BY DEF MailUser, IInv, TypeOK, Outside
  <1>2. /\ c = [stage |-> "telling", alert |-> job[j].id, plan |-> job[j].plan,
                heard |-> job[j].mailed, noted |-> job[j].rowed]
        /\ p \in job[j].plan /\ R!IsNext(c, p)
    BY <1>1, NextInRound
  <1>3. job[j].mailed = job[j].rowed
    BY <1>1 DEF IInv, Progress
  <1>4. Rounds[j] = c
    BY DEF Rounds
  <1>5. CASE p \in Failing
    <2>1. Become(j, Idle) /\ reached' = reached
      BY <1>5 DEF MailUser
    <2> HIDE DEF p, c
    <2>2. R!Become(j, R!Closed) /\ UNCHANGED R!world
      BY <1>1, <2>1, RoundStep, IdleIsClosed
    <2>3. R!BreakOff(j, p)
      BY <1>2, <1>3, <1>4, <1>5, <2>1, <2>2 DEF R!BreakOff, Rounds
    <2> QED
      BY <1>2, <1>4, <2>3 DEF R!Next, Rounds
  <1>6. CASE p \notin Failing
    <2>1. Become(j, r) /\ reached' = reached \cup {<<job[j].id, p[1], p[2]>>}
      BY <1>6 DEF MailUser
    <2> HIDE DEF p
    <2>2. RoundOf(r) = [c EXCEPT !.heard = @ \cup {p}]
      <3>1. /\ r.st = "row" /\ r.id = job[j].id /\ r.plan = job[j].plan
            /\ r.mailed = job[j].mailed \cup {p} /\ r.rowed = job[j].rowed
        BY <1>1 DEF Job
      <3> HIDE DEF r, c
      <3> QED
        BY <1>2, <3>1 DEF RoundOf
    <2> HIDE DEF r, c
    <2>3. R!Become(j, RoundOf(r)) /\ UNCHANGED R!world
      BY <1>1, <2>1, RoundStep
    <2>4. R!Tell(j, p)
      BY <1>2, <1>3, <1>4, <1>6, <2>1, <2>2, <2>3 DEF R!Tell, Rounds
    <2> QED
      BY <1>2, <1>4, <2>4 DEF R!Next, Rounds
  <1> QED
    BY <1>5, <1>6

LEMMA RowRounds == ASSUME IInv, NEW j \in Jobs, CreateRow(j) PROVE R!Next
  <1> DEFINE p == First(job[j].plan \ job[j].rowed)
             rest == (job[j].plan \ job[j].rowed) \ {p}
             c == RoundOf(job[j])
             r == [job[j] EXCEPT !.st = "mail", !.rowed = @ \cup {p}]
  <1>1. job[j].st = "row" /\ TypeOK /\ job[j] \in Job /\ UNCHANGED <<World, reached>>
    BY DEF CreateRow, IInv, TypeOK, Outside
  <1>2. /\ c = [stage |-> "telling", alert |-> job[j].id, plan |-> job[j].plan,
                heard |-> job[j].mailed, noted |-> job[j].rowed]
        /\ p \in job[j].plan
    BY <1>1, NextInRound
  <1>3. /\ job[j].mailed = job[j].rowed \cup {p} /\ p \in job[j].plan \ job[j].rowed
        /\ job[j].rowed \subseteq job[j].plan
    BY <1>1, PlanAhead DEF Progress
  <1>4. Rounds[j] = c
    BY DEF Rounds
  <1>5. c.heard # c.noted /\ (rest = {} <=> c.heard = c.plan)
    BY <1>2, <1>3
  <1>6. CASE rest = {}
    <2>1. Become(j, Idle)
      BY <1>6 DEF CreateRow
    <2> HIDE DEF c, rest
    <2>2. R!Become(j, R!Closed) /\ UNCHANGED R!world
      BY <1>1, <2>1, RoundStep, IdleIsClosed
    <2>3. R!Note(j)
      BY <1>1, <1>2, <1>4, <1>5, <1>6, <2>2 DEF R!Note, Rounds
    <2> QED
      BY <2>3 DEF R!Next
  <1>7. CASE rest # {}
    <2>1. Become(j, r)
      BY <1>7 DEF CreateRow
    <2> HIDE DEF p
    <2>2. RoundOf(r) = [c EXCEPT !.noted = c.heard]
      <3>1. /\ r.st = "mail" /\ r.id = job[j].id /\ r.plan = job[j].plan
            /\ r.mailed = job[j].mailed /\ r.rowed = job[j].mailed
        BY <1>1, <1>3 DEF Job
      <3> HIDE DEF r, c
      <3> QED
        BY <1>2, <3>1 DEF RoundOf
    <2> HIDE DEF r, c, rest
    <2>3. R!Become(j, RoundOf(r)) /\ UNCHANGED R!world
      BY <1>1, <2>1, RoundStep
    <2>4. R!Note(j)
      BY <1>1, <1>2, <1>4, <1>5, <1>7, <2>2, <2>3 DEF R!Note, Rounds
    <2> QED
      BY <2>4 DEF R!Next
  <1> QED
    BY <1>6, <1>7

LEMMA NextRounds == IInv /\ [Next]_vars => [R!Next]_R!vars
  <1> SUFFICES ASSUME IInv, [Next]_vars PROVE [R!Next]_R!vars
    OBVIOUS
  <1>1. CASE Tick \/ (\E s \in Servers : DestroyServer(s) \/ \E l \in Levels : Post(s, l))
               \/ (\E u \in Users : RemoveUser(u)) \/ AlertStep
    <2>1. Jobless
      BY <1>1 DEF Tick, DestroyServer, Post, RemoveUser, AlertStep, CreateAlert, UpdateAlert,
                  DestroyAlert
    <2> QED
      BY <1>1, <2>1, WorldRounds
  <1>2. CASE CronStep
    BY <1>2, CronRounds
  <1>3. ASSUME NEW j \in Jobs, JobStep(j) PROVE [R!Next]_R!vars
    BY <1>3, PerformRounds, ServersRounds, AudienceRounds, MailRounds, RowRounds DEF JobStep
  <1>4. CASE UNCHANGED vars
    <2>1. UNCHANGED <<World, job, reached>>
      BY <1>4 DEF vars, World
    <2> QED
      BY <2>1, WorldStands DEF R!vars, R!world, Beyond, Addressed
  <1> QED
    BY <1>1, <1>2, <1>3, <1>4 DEF Next

\* For any servers, users, alerts and jobs, the runs of AlertWorker are the
\* rounds module Rounds promises (alert_worker.rb, lines 5-93).
THEOREM ImplementsRounds == Spec => DeliversRounds
  <1>1. Init => R!Init
    BY InitRounds
  <1>2. IInv /\ [Next]_vars => [R!Next]_R!vars
    BY NextRounds
  <1> QED
    BY <1>1, <1>2, Inductive, PTL DEF Spec, DeliversRounds, R!Spec

----------------------------------------------------------------------------
\* Every run ends: the steps a job has left, at most.
Unserved(r) == r.plan \ r.rowed
StepsLeft(r) ==
  CASE r.st = "idle" -> 0
    [] r.st = "row" -> 2 * Cardinality(Unserved(r)) - 1
    [] r.st = "mail" -> 2 * Cardinality(Unserved(r))
    [] r.st = "audience" -> 2 * NumServers * NumUsers + 1
    [] r.st = "servers" -> 2 * NumServers * NumUsers + 2
    [] OTHER -> 2 * NumServers * NumUsers + 3

RunsAdvance ==
  \A j \in Jobs :
    \/ job'[j] = job[j]
    \/ job[j].st = "idle" /\ job'[j].st = "queued"
    \/ StepsLeft(job'[j]) < StepsLeft(job[j])

LEMMA PlansAreFinite ==
  ASSUME NEW plan \in SUBSET (Servers \X Users)
  PROVE  /\ IsFiniteSet(plan) /\ Cardinality(plan) \in Nat
         /\ Cardinality(plan) <= NumServers * NumUsers
  <1>1. IsFiniteSet(Servers) /\ Cardinality(Servers) = NumServers
    BY FS_Interval, SizesAssumption DEF Servers
  <1>2. IsFiniteSet(Users) /\ Cardinality(Users) = NumUsers
    BY FS_Interval, SizesAssumption DEF Users
  <1>3. /\ IsFiniteSet(Servers \X Users)
        /\ Cardinality(Servers \X Users) = NumServers * NumUsers
    BY <1>1, <1>2, FS_Product
  <1>4. IsFiniteSet(plan) /\ Cardinality(plan) <= NumServers * NumUsers
    BY <1>3, FS_Subset
  <1> QED
    BY <1>4, FS_CardinalityType

\* A job with a plan has somebody unserved, hence a step to take.
LEMMA SomeUnserved ==
  ASSUME IInv, NEW j \in Jobs, job[j].st \in {"mail", "row"}
  PROVE  /\ IsFiniteSet(Unserved(job[j])) /\ Cardinality(Unserved(job[j])) \in Nat \ {0}
         /\ First(job[j].plan \ job[j].rowed) \in Unserved(job[j])
  <1>1. /\ Unserved(job[j]) \in SUBSET (Servers \X Users)
        /\ First(job[j].plan \ job[j].rowed) \in Unserved(job[j])
    BY PlanAhead DEF Unserved
  <1>2. IsFiniteSet(Unserved(job[j])) /\ Cardinality(Unserved(job[j])) \in Nat
    BY <1>1, PlansAreFinite
  <1>3. Cardinality(Unserved(job[j])) # 0
    BY <1>1, <1>2, FS_EmptySet
  <1> QED
    BY <1>1, <1>2, <1>3

LEMMA SizeOfPlans == NumServers * NumUsers \in Nat /\ 2 * NumServers * NumUsers \in Nat
  BY SizesAssumption

LEMMA Advanced ==
  ASSUME IInv, NEW j \in Jobs, NEW r, Become(j, r), StepsLeft(r) < StepsLeft(job[j])
  PROVE  RunsAdvance
  BY DEF IInv, TypeOK, Become, RunsAdvance

\* A run may end wherever it is.
LEMMA Ended ==
  ASSUME IInv, NEW j \in Jobs, job[j].st # "idle", Become(j, Idle)
  PROVE  RunsAdvance
  <1>1. StepsLeft(Idle) = 0
    BY DEF StepsLeft, Idle
  <1>2. StepsLeft(job[j]) > 0
    <2>1. CASE job[j].st \in {"mail", "row"}
      <3> DEFINE n == Cardinality(Unserved(job[j]))
      <3>1. n \in Nat \ {0}
        BY <2>1, SomeUnserved
      <3>2. StepsLeft(job[j]) \in {2 * n, 2 * n - 1}
        BY <2>1 DEF StepsLeft
      <3> QED
        BY <3>1, <3>2
    <2>2. CASE job[j].st \notin {"mail", "row"}
      BY <2>2, SizeOfPlans DEF StepsLeft
    <2> QED
      BY <2>1, <2>2
  <1> QED
    BY <1>1, <1>2, Advanced

LEMMA PlanAdvances ==
  ASSUME IInv, NEW j \in Jobs, Perform(j) \/ LoadServers(j) \/ LoadAudience(j)
  PROVE  RunsAdvance
  <1>1. job[j] \in Job
    BY DEF IInv, TypeOK
  <1>2. CASE Perform(j)
    <2> DEFINE r == [Fresh(job[j].id) EXCEPT !.st = "servers", !.alert = alert[job[j].id]]
    <2>1. job[j].st = "queued" /\ (Become(j, Idle) \/ Become(j, r))
      BY <1>2 DEF Perform
    <2>2. r.st = "servers"
      BY DEF Fresh
    <2>3. StepsLeft(r) < StepsLeft(job[j])
      BY <2>1, <2>2, SizeOfPlans DEF StepsLeft
    <2> QED
      BY <2>1, <2>3, Advanced, Ended
  <1>3. CASE LoadServers(j)
    <2> DEFINE r == [job[j] EXCEPT !.st = "audience", !.due = Crossing(job[j].alert)]
    <2>1. job[j].st = "servers" /\ (Become(j, Idle) \/ Become(j, r))
      BY <1>3 DEF LoadServers
    <2>2. r.st = "audience"
      BY <1>1 DEF Job
    <2>3. StepsLeft(r) < StepsLeft(job[j])
      BY <2>1, <2>2, SizeOfPlans DEF StepsLeft
    <2> QED
      BY <2>1, <2>3, Advanced, Ended
  <1>4. CASE LoadAudience(j)
    <2> DEFINE plan == job[j].due \X Audience(job[j].alert)
               r == [job[j] EXCEPT !.st = "mail", !.plan = plan, !.alert = Unread, !.due = {}]
    <2>1. job[j].st = "audience" /\ (Become(j, Idle) \/ Become(j, r))
      BY <1>4 DEF LoadAudience
    <2>2. CASE Become(j, Idle)
      BY <2>1, <2>2, Ended
    <2>3. CASE Become(j, r)
      <3>1. r.st = "mail"
        BY <1>1 DEF Job
      <3>2. r \in Job
        <4>1. IInv'
          BY <1>4, PlanIInv
        <4>2. job'[j] = r
          BY <2>3 DEF Become, IInv, TypeOK
        <4> QED
          BY <4>1, <4>2 DEF IInv, TypeOK
      <3> HIDE DEF r
      <3>3. Unserved(r) \in SUBSET (Servers \X Users)
        BY <3>2 DEF Unserved, Job
      <3>4. Cardinality(Unserved(r)) \in Nat /\ Cardinality(Unserved(r)) <= NumServers * NumUsers
        BY <3>3, PlansAreFinite
      <3>5. StepsLeft(r) = 2 * Cardinality(Unserved(r))
        BY <3>1 DEF StepsLeft
      <3>6. StepsLeft(job[j]) = 2 * (NumServers * NumUsers) + 1
        BY <2>1, SizesAssumption DEF StepsLeft
      <3>7. StepsLeft(r) < StepsLeft(job[j])
        BY <3>4, <3>5, <3>6, SizeOfPlans
      <3> QED
        BY <2>3, <3>7, Advanced
    <2> QED
      BY <2>1, <2>2, <2>3
  <1> QED
    BY <1>2, <1>3, <1>4

LEMMA ServeAdvances ==
  ASSUME IInv, NEW j \in Jobs, MailUser(j) \/ CreateRow(j)
  PROVE  RunsAdvance
  <1> DEFINE p == First(job[j].plan \ job[j].rowed)
  <1>1. job[j] \in Job
    BY DEF IInv, TypeOK
  <1>2. /\ IsFiniteSet(Unserved(job[j])) /\ Cardinality(Unserved(job[j])) \in Nat \ {0}
        /\ p \in Unserved(job[j])
    BY SomeUnserved DEF MailUser, CreateRow
  <1>3. CASE MailUser(j)
    <2> DEFINE r == [job[j] EXCEPT !.st = "row", !.mailed = @ \cup {p}]
    <2>1. job[j].st = "mail" /\ (Become(j, Idle) \/ Become(j, r))
      BY <1>3 DEF MailUser
    <2>2. r.st = "row" /\ Unserved(r) = Unserved(job[j])
      BY <1>1 DEF Job, Unserved
    <2> HIDE DEF r, p
    <2>3. StepsLeft(r) < StepsLeft(job[j])
      BY <1>2, <2>1, <2>2 DEF StepsLeft
    <2> QED
      BY <2>1, <2>3, Advanced, Ended
  <1>4. CASE CreateRow(j)
    <2> DEFINE r == [job[j] EXCEPT !.st = "mail", !.rowed = @ \cup {p}]
    <2>1. job[j].st = "row" /\ (Become(j, Idle) \/ Become(j, r))
      BY <1>4 DEF CreateRow
    <2> HIDE DEF p
    <2>2. r.st = "mail" /\ Unserved(r) = Unserved(job[j]) \ {p}
      BY <1>1 DEF Job, Unserved
    <2> HIDE DEF r
    <2>3. Cardinality(Unserved(r)) = Cardinality(Unserved(job[j])) - 1
      BY <1>2, <2>2, FS_RemoveElement
    <2>4. StepsLeft(r) < StepsLeft(job[j])
      BY <1>2, <2>1, <2>2, <2>3 DEF StepsLeft
    <2> QED
      BY <2>1, <2>4, Advanced, Ended
  <1> QED
    BY <1>3, <1>4

\* Whatever happens around it, a job that was enqueued only comes nearer to its
\* end, which is 2 NumServers NumUsers + 3 steps away: its plan is drawn up
\* once and nobody is served twice (alert_worker.rb, lines 5-93).  With the
\* fairness of the workers, every run ends.
THEOREM RunsEnd == Spec => [][RunsAdvance]_vars
  <1>1. IInv /\ [Next]_vars => RunsAdvance
    <2> SUFFICES ASSUME IInv, [Next]_vars PROVE RunsAdvance
      OBVIOUS
    <2>1. CASE UNCHANGED job
      BY <2>1 DEF RunsAdvance
    <2>2. ASSUME NEW j \in Jobs, CronEnqueue(j) PROVE RunsAdvance
      <3>1. job[j].st = "idle" /\ Become(j, Fresh(cronAt)) /\ Fresh(cronAt).st = "queued"
        BY <2>2 DEF CronEnqueue, Become, Fresh
      <3> QED
        BY <3>1 DEF RunsAdvance, Become, IInv, TypeOK
    <2>3. ASSUME NEW j \in Jobs, JobStep(j) PROVE RunsAdvance
      BY <2>3, PlanAdvances, ServeAdvances DEF JobStep
    <2> QED
      BY <2>1, <2>2, <2>3
      DEF Next, CronStep, CronStart, CronSkip, Tick, DestroyServer, Post, RemoveUser, AlertStep,
          CreateAlert, UpdateAlert, DestroyAlert, Jobless, vars
  <1> QED
    BY <1>1, Inductive, PTL DEF Spec
=============================================================================
