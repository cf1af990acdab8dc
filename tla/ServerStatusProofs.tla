------------------------- MODULE ServerStatusProofs -------------------------
(***************************************************************************)
(* Theorems about ServerStatus for any number of servers, users, jobs and  *)
(* workers, any bounds and any faults.  The inductive invariant says what  *)
(* a job knows at each of its stages (RecOK) and how the timestamps of a   *)
(* row are ordered (RowsOK).                                               *)
(***************************************************************************)
EXTENDS Queues, FiniteSetTheorems, TLAPS

\* What holds of a job's record r at the stage it has reached.
RecOK(r) ==
  /\ r.inMemory = r.seenAt
  /\ r.st \in Running => r.loadedAt - r.seenAt > StaleAfter
  /\ r.st \in {"mark", "report", "notify", "restore"} => r.convicted
  /\ r.st \in {"notify", "restore"} => r.downtime
  /\ r.st \in {"queued", "probe", "back", "mark", "report"} => r.next = 1
  /\ r.st # "idle" => \A u \in Users : r.notice[u] # "mail"
  /\ r.st # "idle" => \A u \in Users : u >= r.next => r.notice[u] = "none"
  /\ r.st = "notify" => \A u \in r.on \cap Registered : u >= r.next
  /\ \A u \in Users : r.notice[u] = "mail" =>
       /\ r.loadedAt - r.seenAt > StaleAfter /\ r.convicted /\ r.downtime
       /\ u \in r.on \cap Registered
       /\ \A v \in r.on \cap Registered : v >= u
       /\ \A v \in Users : v > u => r.notice[v] = "none"

JobsOK == \A j \in Jobs : RecOK(job[j])

RowsOK ==
  \A s \in Servers : lastBeat[s] <= heardAt[s] /\ heardAt[s] <= now

\* The queue holds queued jobs, each once.
QueueOK ==
  /\ \A i \in 1..Len(queue) : job[queue[i]].st = "queued"
  /\ \A i, k \in 1..Len(queue) : queue[i] = queue[k] => i = k

IInv == TypeOK /\ JobsOK /\ QueueOK /\ RowsOK

\* Everything but the jobs and the queue keeps its type and its order.
Rest ==
  /\ now \in 0..MaxTime /\ exists \subseteq Servers
  /\ heardAt \in [Servers -> 0..MaxTime] /\ count \in [Servers -> Nat]
  /\ lastBeat \in [Servers -> 0..MaxTime]
  /\ answering \subseteq Servers /\ alertsOn \subseteq Users
  /\ cronAt \in 0..NumServers
  /\ mails \in [Servers -> [Users -> 0..MailCap]]
  /\ RowsOK

----------------------------------------------------------------------------
\* A newly enqueued job knows nothing.
LEMMA FreshOK ==
  ASSUME NEW s \in Servers
  PROVE  Fresh(s) \in Job /\ RecOK(Fresh(s))
  <1>1. /\ 0 \in 0..MaxTime /\ 1 \in 1..(NumUsers + 1)
        /\ [u \in Users |-> "none"] \in [Users -> {"none", "mail", "row"}]
    BY SizesAssumption
  <1>2. Fresh(s) \in Job
    BY <1>1 DEF Fresh, Job
  <1>3. RecOK(Fresh(s))
    BY DEF Fresh, RecOK, Running
  <1> QED
    BY <1>2, <1>3

\* A job may stop at any stage and keep what it did.
LEMMA StopOK ==
  ASSUME NEW r \in Job, RecOK(r)
  PROVE  [r EXCEPT !.st = "idle"] \in Job /\ RecOK([r EXCEPT !.st = "idle"])
  BY DEF Job, RecOK, Running

LEMMA InitIInv == Init => IInv
  <1> SUFFICES ASSUME Init PROVE IInv
    OBVIOUS
  <1> USE SizesAssumption, SetsAssumption
  <1> DEFINE r == [Fresh(1) EXCEPT !.st = "idle"]
  <1>1. r \in Job /\ RecOK(r)
    BY FreshOK, StopOK DEF Servers
  <1>2. job \in [Jobs -> Job] /\ JobsOK
    BY <1>1 DEF Init, JobsOK
  <1>3. 0 \in 0..MaxTime /\ 0 \in 0..MailCap /\ 0 \in 0..NumServers
    OBVIOUS
  <1>4. TypeOK
    BY <1>2, <1>3 DEF Init, TypeOK
  <1> QED
    BY <1>2, <1>3, <1>4 DEF Init, IInv, QueueOK, RowsOK

\* A step that gives one job, not in the queue, a good record.
LEMMA BecomeIInv ==
  ASSUME IInv, NEW j \in Jobs, job[j].st # "queued", NEW r \in Job, RecOK(r),
         Become(j, r), UNCHANGED queue, Rest'
  PROVE  IInv'
  <1>1. job' \in [Jobs -> Job] /\ JobsOK'
    BY DEF IInv, TypeOK, JobsOK, Become
  <1>2. QueueOK'
    <2>1. \A i \in 1..Len(queue) : queue[i] \in Jobs /\ queue[i] # j
      BY DEF IInv, TypeOK, QueueOK
    <2>2. \A k \in Jobs : k # j => job'[k] = job[k]
      BY DEF IInv, TypeOK, Become
    <2> QED
      BY <2>1, <2>2 DEF IInv, QueueOK
  <1> QED
    BY <1>1, <1>2 DEF IInv, TypeOK, Rest

\* A step that does not touch the jobs.
LEMMA SurroundingsIInv ==
  ASSUME IInv, UNCHANGED <<queue, job>>, Rest' PROVE IInv'
  BY DEF IInv, TypeOK, JobsOK, QueueOK, Rest


LEMMA RestUnchanged ==
  ASSUME IInv, UNCHANGED <<now, exists, heardAt, count, lastBeat, answering, alertsOn, cronAt, mails>>
  PROVE  Rest'
  BY DEF IInv, TypeOK, Rest, RowsOK

----------------------------------------------------------------------------
\* The surroundings and cron.
LEMMA TickIInv == ASSUME IInv, Tick PROVE IInv'
  <1>1. now' \in 0..MaxTime /\ now' >= now
    BY SizesAssumption DEF Tick, IInv, TypeOK
  <1>2. Rest'
    BY <1>1 DEF Tick, IInv, TypeOK, Rest, RowsOK
  <1> QED
    BY <1>2, SurroundingsIInv DEF Tick

LEMMA ServerStepIInv == ASSUME IInv, NEW s \in Servers, ServerStep(s) PROVE IInv'
  <1>1. CASE Fail(s) \/ Recover(s) \/ DestroyServer(s)
    <2>1. Rest'
      BY <1>1 DEF Fail, Recover, DestroyServer, IInv, TypeOK, Rest, RowsOK
    <2> QED
      BY <1>1, <2>1, SurroundingsIInv DEF Fail, Recover, DestroyServer
  <1>2. CASE Heartbeat(s)
    <2>1. [u \in Users |-> 0] \in [Users -> 0..MailCap]
      BY SizesAssumption
    <2>2. Rest'
      BY <1>2, <2>1 DEF Heartbeat, IInv, TypeOK, Rest, RowsOK
    <2> QED
      BY <1>2, <2>2, SurroundingsIInv DEF Heartbeat
  <1>3. CASE EditServer(s)
    <2>1. Rest'
      BY <1>3 DEF EditServer, IInv, TypeOK, Rest, RowsOK
    <2> QED
      BY <1>3, <2>1, SurroundingsIInv DEF EditServer
  <1> QED
    BY <1>1, <1>2, <1>3 DEF ServerStep

LEMMA ToggleIInv == ASSUME IInv, NEW u \in Users, ToggleAlerts(u) PROVE IInv'
  <1>1. Rest'
    BY DEF ToggleAlerts, IInv, TypeOK, Rest, RowsOK
  <1> QED
    BY <1>1, SurroundingsIInv DEF ToggleAlerts

LEMMA CronIInv == ASSUME IInv, CronStep PROVE IInv'
  <1>1. CASE CronStart \/ CronSkip
    <2>1. Rest'
      BY <1>1, SizesAssumption
      DEF CronStart, CronSkip, AdvanceCron, IInv, TypeOK, Rest, RowsOK
    <2> QED
      BY <1>1, <2>1, SurroundingsIInv DEF CronStart, CronSkip
  <1>2. ASSUME NEW j \in Jobs, CronEnqueue(j) PROVE IInv'
    <2>1. cronAt \in Servers /\ queue' \in Seq(Jobs) /\ cronAt' \in 0..NumServers
      BY <1>2, SizesAssumption DEF CronEnqueue, AdvanceCron, IInv, TypeOK, Servers
    <2>2. Fresh(cronAt) \in Job /\ RecOK(Fresh(cronAt))
      BY <2>1, FreshOK
    <2>3. Rest'
      BY <1>2, <2>1 DEF CronEnqueue, IInv, TypeOK, Rest, RowsOK
    <2>4. job' = [job EXCEPT ![j] = Fresh(cronAt)] /\ queue' = Append(queue, j) /\ job[j].st = "idle"
      BY <1>2 DEF CronEnqueue
    <2>5. job' \in [Jobs -> Job] /\ JobsOK'
      BY <2>2, <2>4 DEF IInv, TypeOK, JobsOK
    <2>6. QueueOK'
      <3>1. \A i \in 1..Len(queue) : queue[i] \in Jobs /\ queue[i] # j
        BY <2>4 DEF IInv, TypeOK, QueueOK
      <3>2. job'[j].st = "queued" /\ \A k \in Jobs : k # j => job'[k] = job[k]
        BY <2>4 DEF IInv, TypeOK, Fresh
      <3>3. /\ Len(queue') = Len(queue) + 1 /\ queue'[Len(queue) + 1] = j
            /\ \A i \in 1..Len(queue) : queue'[i] = queue[i]
            /\ Len(queue) \in Nat
        BY <2>4 DEF IInv, TypeOK
      <3> QED
        BY <3>1, <3>2, <3>3 DEF IInv, QueueOK
    <2> QED
      BY <2>1, <2>3, <2>5, <2>6 DEF IInv, TypeOK, Rest
  <1> QED
    BY <1>1, <1>2 DEF CronStep

----------------------------------------------------------------------------
\* The worker's steps.  Each gives its job a good record.
LEMMA JobGood == ASSUME IInv, NEW j \in Jobs PROVE job[j] \in Job /\ RecOK(job[j])
  BY DEF IInv, TypeOK, JobsOK

LEMMA StopIInv ==
  ASSUME IInv, NEW j \in Jobs, job[j].st # "queued", Become(j, [job[j] EXCEPT !.st = "idle"]),
         UNCHANGED queue, Rest'
  PROVE  IInv'
  BY JobGood, StopOK, BecomeIInv

LEMMA PerformIInv == ASSUME IInv, NEW j \in Jobs, Perform(j) PROVE IInv'
  <1> DEFINE s == job[j].srv
             r == [job[j] EXCEPT !.st = "probe", !.seenAt = heardAt[s], !.inMemory = heardAt[s],
                                 !.seenCount = count[s], !.loadedAt = now]
             q == [job[j] EXCEPT !.st = "idle"]
  <1>1. /\ queue' \in Seq(Jobs) /\ Len(queue') = Len(queue) - 1 /\ Len(queue) \in Nat \ {0}
        /\ \A i \in 1..Len(queue') : queue'[i] = queue[i + 1]
        /\ queue[1] = j
    BY DEF Perform, IInv, TypeOK
  <1>2. Rest'
    BY RestUnchanged DEF Perform, RowUntouched, World
  <1>3. job[j].st = "queued"
    BY <1>1 DEF IInv, QueueOK
  <1>4. r \in Job /\ (Stale(s, now) => RecOK(r))
    <2>1. s \in Servers /\ heardAt[s] \in 0..MaxTime /\ count[s] \in Nat /\ now \in 0..MaxTime
      BY JobGood, SizesAssumption DEF IInv, TypeOK, Job
    <2>2. r \in Job
      BY <2>1, JobGood DEF Job, Running
    <2>4. ASSUME Stale(s, now) PROVE RecOK(r)
      <3>1. now - heardAt[s] > StaleAfter
        BY <2>4 DEF Stale
      <3>2. /\ r.st = "probe" /\ r.seenAt = heardAt[s] /\ r.inMemory = heardAt[s] /\ r.loadedAt = now
            /\ r.convicted = job[j].convicted /\ r.downtime = job[j].downtime /\ r.on = job[j].on
            /\ r.next = job[j].next /\ r.notice = job[j].notice
        BY JobGood DEF Job
      <3>3. job[j].next = 1 /\ \A u \in Users : job[j].notice[u] # "mail"
        BY <1>3, JobGood DEF RecOK
      <3>4. \A u \in Users : u >= job[j].next => job[j].notice[u] = "none"
        BY <1>3, JobGood DEF RecOK
      <3> QED
        BY <3>1, <3>2, <3>3, <3>4 DEF RecOK
    <2> QED
      BY <2>2, <2>4
  <1>5. q \in Job /\ RecOK(q)
    BY JobGood, StopOK
  <1>6. PICK x \in {r, q} : job' = [job EXCEPT ![j] = x] /\ x \in Job /\ RecOK(x)
    BY <1>4, <1>5 DEF Perform, Become
  <1>7. job' \in [Jobs -> Job] /\ JobsOK'
    BY <1>6 DEF IInv, TypeOK, JobsOK
  <1>8. QueueOK'
    <2>1. ASSUME NEW i \in 1..Len(queue') PROVE queue'[i] \in Jobs /\ queue'[i] # j
      <3>1. i + 1 \in 1..Len(queue) /\ 1 \in 1..Len(queue) /\ i + 1 # 1
        BY <1>1
      <3>2. queue[i + 1] \in Jobs /\ queue[i + 1] # queue[1]
        BY <3>1 DEF IInv, TypeOK, QueueOK
      <3> QED
        BY <1>1, <3>2
    <2>2. \A k \in Jobs : k # j => job'[k] = job[k]
      BY <1>6 DEF IInv, TypeOK
    <2>3. \A i \in 1..Len(queue') : job[queue'[i]].st = "queued"
      BY <1>1 DEF IInv, QueueOK
    <2>4. \A i, k \in 1..Len(queue') : queue'[i] = queue'[k] => i = k
      BY <1>1 DEF IInv, QueueOK
    <2> QED
      BY <2>1, <2>2, <2>3, <2>4 DEF QueueOK
  <1> QED
    BY <1>1, <1>2, <1>7, <1>8 DEF IInv, TypeOK, Rest
LEMMA VoteIInv ==
  ASSUME IInv, NEW j \in Jobs, NEW v \in {"up", "down", "raised"}, Vote(j, v)
  PROVE  IInv'
  <1> DEFINE st == CASE v = "up" -> "back" [] v = "down" -> "mark" [] OTHER -> "idle"
             r == [job[j] EXCEPT !.st = st, !.convicted = (v = "down")]
  <1>1. Rest' /\ UNCHANGED queue /\ Become(j, r) /\ job[j].st = "probe"
    BY RestUnchanged DEF Vote, RowUntouched, World
  <1>2. r \in Job
    BY JobGood DEF Job, Running
  <1>3. /\ r.st = st /\ r.convicted = (v = "down") /\ r.seenAt = job[j].seenAt
        /\ r.inMemory = job[j].inMemory /\ r.loadedAt = job[j].loadedAt
        /\ r.downtime = job[j].downtime /\ r.on = job[j].on
        /\ r.next = job[j].next /\ r.notice = job[j].notice
    BY JobGood DEF Job
  <1>4. st \in {"back", "mark", "idle"} /\ (st = "mark" => v = "down")
    OBVIOUS
  <1>5. RecOK(job[j])
    BY JobGood
  <1>6. RecOK(r)
    <2>1. \A u \in Users : r.notice[u] # "mail"
      BY <1>1, <1>3, <1>5 DEF RecOK
    <2>2. /\ r.inMemory = r.seenAt /\ r.next = 1 /\ r.loadedAt - r.seenAt > StaleAfter
          /\ \A u \in Users : u >= r.next => r.notice[u] = "none"
      BY <1>1, <1>3, <1>5 DEF RecOK, Running
    <2> QED
      BY <2>1, <2>2, <1>3, <1>4 DEF RecOK, Running
  <1> QED
    BY <1>1, <1>2, <1>6, BecomeIInv

\* A write of the alert count is dropped by mass assignment.
LEMMA CountProtected ==
  ASSUME NEW j \in Jobs, NEW n, NEW st, WriteCount(j, n, st)
  PROVE  Become(j, [job[j] EXCEPT !.st = st]) /\ RowUntouched
  BY DEF WriteCount, Accessible, RowUntouched

LEMMA BackOnlineIInv == ASSUME IInv, NEW j \in Jobs, BackOnline(j) PROVE IInv'
  <1>1. /\ Become(j, [job[j] EXCEPT !.st = "idle"]) /\ RowUntouched
        /\ UNCHANGED <<World, queue>> /\ job[j].st = "back"
    BY CountProtected DEF BackOnline
  <1>2. mails' \in [Servers -> [Users -> 0..MailCap]]
    <2>1. mails \in [Servers -> [Users -> 0..MailCap]]
      BY DEF IInv, TypeOK
    <2>2. job[j].srv \in Servers
      <3>1. job[j] \in Job
        BY JobGood
      <3> QED
        BY <3>1 DEF Job
    <2>3. 0 \in 0..MailCap
      BY SizesAssumption
    <2> DEFINE s == job[j].srv
               f == [u \in Users |-> IF u \in alertsOn \cap Registered THEN 0 ELSE mails[s][u]]
    <2>4. f \in [Users -> 0..MailCap]
      BY <2>1, <2>2, <2>3
    <2>5. mails' = [mails EXCEPT ![s] = f] \/ mails' = mails
      BY DEF BackOnline
    <2> QED
      BY <2>1, <2>2, <2>4, <2>5
  <1>3. Rest'
    BY <1>1, <1>2 DEF RowUntouched, World, IInv, TypeOK, Rest, RowsOK
  <1> QED
    BY <1>1, <1>3, StopIInv

LEMMA MarkIInv == ASSUME IInv, NEW j \in Jobs, Mark(j) PROVE IInv'
  <1> DEFINE r == [job[j] EXCEPT !.st = "report"]
  <1>1. Become(j, r) /\ RowUntouched /\ UNCHANGED <<World, queue, mails>> /\ job[j].st = "mark"
    BY CountProtected DEF Mark
  <1>2. Rest'
    BY <1>1, RestUnchanged DEF RowUntouched, World
  <1>3. r \in Job /\ RecOK(r)
    BY <1>1, JobGood DEF Job, RecOK, Running
  <1> QED
    BY <1>1, <1>2, <1>3, BecomeIInv

LEMMA ReportIInv == ASSUME IInv, NEW j \in Jobs, Report(j) PROVE IInv'
  <1> DEFINE r == [job[j] EXCEPT !.st = "notify", !.downtime = TRUE, !.on = alertsOn]
  <1>1. Rest' /\ UNCHANGED queue /\ job[j].st = "report"
    BY RestUnchanged DEF Report, RowUntouched, World
  <1>2. CASE Diagnosed
    <2>1. Become(j, r)
      BY <1>2 DEF Report
    <2>2. r \in Job
      BY JobGood DEF Job, Running, IInv, TypeOK
    <2>3. /\ r.st = "notify" /\ r.downtime /\ r.on = alertsOn /\ r.next = job[j].next
          /\ r.notice = job[j].notice /\ r.convicted = job[j].convicted
          /\ r.seenAt = job[j].seenAt /\ r.inMemory = job[j].inMemory
          /\ r.loadedAt = job[j].loadedAt
      BY JobGood DEF Job
    <2>4. /\ job[j].next = 1 /\ \A u \in Users : u >= 1
          /\ alertsOn \subseteq Users
      BY <1>1, JobGood DEF RecOK, Users, IInv, TypeOK
    <2>5. RecOK(r)
      BY <1>1, <2>3, <2>4, JobGood DEF RecOK, Running
    <2> QED
      BY <1>1, <2>1, <2>2, <2>5, BecomeIInv
  <1>3. CASE ~Diagnosed
    BY <1>1, <1>3, StopIInv DEF Report
  <1> QED
    BY <1>2, <1>3

LEMMA MailUserIInv == ASSUME IInv, NEW j \in Jobs, MailUser(j) PROVE IInv'
  <1> DEFINE s == job[j].srv
             u == job[j].next
             r == [job[j] EXCEPT !.st = "idle", !.notice[u] = "mail"]
  <1>1. /\ RowUntouched /\ UNCHANGED <<World, queue>> /\ job[j].st = "notify"
        /\ u \in job[j].on \cap Registered /\ job[j] \in Job /\ RecOK(job[j])
    BY JobGood DEF MailUser
  <1>2. s \in Servers /\ u \in Users /\ u \in Int /\ Users \subseteq Int
    BY <1>1 DEF Job, Users
  <1>3. CASE Become(j, r) /\ mails' = [mails EXCEPT ![s][u] = IF @ < MailCap THEN @ + 1 ELSE @]
    <2>1. mails' \in [Servers -> [Users -> 0..MailCap]]
      <3>1. mails[s] \in [Users -> 0..MailCap] /\ mails \in [Servers -> [Users -> 0..MailCap]]
        BY <1>2 DEF IInv, TypeOK
      <3> DEFINE n == IF mails[s][u] < MailCap THEN mails[s][u] + 1 ELSE mails[s][u]
                 f == [mails[s] EXCEPT ![u] = n]
      <3>2. n \in 0..MailCap
        BY <1>2, <3>1, SizesAssumption
      <3>3. f \in [Users -> 0..MailCap]
        BY <1>2, <3>1, <3>2
      <3>4. mails' = [mails EXCEPT ![s] = f]
        BY <1>3
      <3> QED
        BY <3>1, <3>3, <3>4
    <2>2. Rest'
      BY <1>1, <2>1 DEF RowUntouched, World, IInv, TypeOK, Rest, RowsOK
    <2>3. r \in Job
      BY <1>1, <1>2 DEF Job
    <2>4. /\ r.st = "idle" /\ r.notice = [job[j].notice EXCEPT ![u] = "mail"]
          /\ r.on = job[j].on /\ r.downtime = job[j].downtime /\ r.convicted = job[j].convicted
          /\ r.seenAt = job[j].seenAt /\ r.inMemory = job[j].inMemory
          /\ r.loadedAt = job[j].loadedAt /\ job[j].notice \in [Users -> {"none", "mail", "row"}]
      BY <1>1, <1>2 DEF Job
    <2>5. \A w \in Users : r.notice[w] = "mail" => w = u
      BY <1>1, <1>2, <2>4 DEF RecOK
    <2>6. \A w \in Users : w > u => r.notice[w] = "none"
      BY <1>1, <1>2, <2>4 DEF RecOK
    <2>7. \A w \in job[j].on \cap Registered : w >= u
      BY <1>1 DEF RecOK, Job
    <2>8. job[j].loadedAt - job[j].seenAt > StaleAfter /\ job[j].convicted /\ job[j].downtime
      BY <1>1 DEF RecOK, Running
    <2>9. RecOK(r)
      BY <1>1, <2>4, <2>5, <2>6, <2>7, <2>8 DEF RecOK, Running
    <2> QED
      BY <1>1, <1>3, <2>2, <2>3, <2>9, BecomeIInv
  <1>4. CASE Become(j, [job[j] EXCEPT !.st = "idle"]) /\ UNCHANGED mails
    BY <1>1, <1>4, RestUnchanged, StopIInv DEF RowUntouched, World
  <1> QED
    BY <1>3, <1>4 DEF MailUser

LEMMA PassUserIInv == ASSUME IInv, NEW j \in Jobs, PassUser(j) PROVE IInv'
  <1> DEFINE u == job[j].next
             m == IF u \in Registered THEN "row" ELSE job[j].notice[u]
             r == [job[j] EXCEPT !.next = u + 1, !.notice[u] = m]
  <1>1. /\ Rest' /\ UNCHANGED queue /\ job[j].st = "notify"
        /\ u \in Users \ (job[j].on \cap Registered) /\ job[j] \in Job /\ RecOK(job[j])
    BY JobGood, RestUnchanged DEF PassUser, RowUntouched, World
  <1>2. Become(j, r)
    BY <1>1 DEF PassUser, Become, Job
  <1>3. u \in 1..NumUsers /\ u + 1 \in 1..(NumUsers + 1) /\ m \in {"none", "mail", "row"}
    BY <1>1, SizesAssumption DEF Users, Job
  <1>4. r \in Job
    BY <1>1, <1>3 DEF Job
  <1>5. /\ r.st = "notify" /\ r.next = u + 1 /\ r.notice = [job[j].notice EXCEPT ![u] = m]
        /\ r.on = job[j].on /\ r.downtime = job[j].downtime /\ r.convicted = job[j].convicted
        /\ r.seenAt = job[j].seenAt /\ r.inMemory = job[j].inMemory
        /\ r.loadedAt = job[j].loadedAt /\ job[j].notice \in [Users -> {"none", "mail", "row"}]
    BY <1>1 DEF Job
  <1>6. m # "mail" /\ \A w \in Users : r.notice[w] # "mail"
    BY <1>1, <1>5 DEF RecOK
  <1>7. \A w \in Users : w >= u + 1 => r.notice[w] = "none"
    BY <1>1, <1>3, <1>5 DEF RecOK, Users
  <1>8. \A w \in job[j].on \cap Registered : w >= u + 1
    BY <1>1, <1>3 DEF RecOK, Users, Job
  <1>9. RecOK(r)
    BY <1>1, <1>5, <1>6, <1>7, <1>8 DEF RecOK, Running
  <1> QED
    BY <1>1, <1>2, <1>4, <1>9, BecomeIInv

LEMMA EndOfUsersIInv == ASSUME IInv, NEW j \in Jobs, EndOfUsers(j) PROVE IInv'
  <1> DEFINE r == [job[j] EXCEPT !.st = "restore"]
  <1>1. Rest' /\ UNCHANGED queue /\ Become(j, r) /\ job[j].st = "notify"
    BY RestUnchanged DEF EndOfUsers, RowUntouched, World
  <1>2. r \in Job /\ RecOK(r)
    BY <1>1, JobGood DEF Job, RecOK, Running
  <1> QED
    BY <1>1, <1>2, BecomeIInv

\* The object still holds the timestamp it was loaded with: nothing is saved.
LEMMA RestoreIInv == ASSUME IInv, NEW j \in Jobs, Restore(j) PROVE IInv'
  <1>1. job[j].inMemory = job[j].seenAt
    BY JobGood DEF RecOK
  <1>2. Rest' /\ UNCHANGED queue /\ job[j].st # "queued"
    BY <1>1, RestUnchanged DEF Restore, World
  <1> QED
    BY <1>2, StopIInv DEF Restore

LEMMA CrashIInv == ASSUME IInv, NEW j \in Jobs, Crash(j) PROVE IInv'
  BY RestUnchanged, StopIInv DEF Crash, RowUntouched, World, Running

LEMMA NextIInv == IInv /\ [Next]_vars => IInv'
  <1> SUFFICES ASSUME IInv, [Next]_vars PROVE IInv'
    OBVIOUS
  <1>1. CASE Surroundings
    BY <1>1, TickIInv, ServerStepIInv, ToggleIInv DEF Surroundings
  <1>2. CASE CronStep
    BY <1>2, CronIInv
  <1>3. ASSUME NEW j \in Jobs, JobStep(j) PROVE IInv'
    BY <1>3, PerformIInv, VoteIInv, BackOnlineIInv, MarkIInv, ReportIInv, MailUserIInv,
       PassUserIInv, EndOfUsersIInv, RestoreIInv DEF JobStep, Work
  <1>4. ASSUME NEW j \in Jobs, Crash(j) PROVE IInv'
    BY <1>4, CrashIInv
  <1>5. CASE UNCHANGED vars
    <2>1. Rest' /\ UNCHANGED <<queue, job>>
      BY <1>5, RestUnchanged DEF vars
    <2> QED
      BY <2>1, SurroundingsIInv
  <1> QED
    BY <1>1, <1>2, <1>3, <1>4, <1>5 DEF Next

THEOREM Inductive == Spec => []IInv
  BY InitIInv, NextIInv, PTL DEF Spec

----------------------------------------------------------------------------
\* The alert count never leaves zero, in the rows and in the jobs: the write
\* that should count is dropped by mass assignment.
CountOK ==
  /\ \A s \in Servers : count[s] = 0
  /\ \A j \in Jobs : job[j].seenCount = 0

LEMMA CountBecome ==
  ASSUME IInv, CountOK, NEW j \in Jobs, NEW r, Become(j, r), r.seenCount = 0, UNCHANGED count
  PROVE  CountOK'
  BY DEF CountOK, Become, IInv, TypeOK

LEMMA CountWork == ASSUME IInv, CountOK, NEW j \in Jobs, Work(j) \/ Crash(j) PROVE CountOK'
  <1>1. job[j] \in Job /\ job[j].seenCount = 0
    BY JobGood DEF CountOK
  <1>2. CASE \E v \in {"up", "down", "raised"} : Vote(j, v)
    BY <1>1, <1>2, CountBecome DEF Vote, RowUntouched, Job
  <1>3. CASE BackOnline(j)
    BY <1>1, <1>3, CountProtected, CountBecome DEF BackOnline, RowUntouched, Job
  <1>4. CASE Mark(j)
    BY <1>1, <1>4, CountProtected, CountBecome DEF Mark, RowUntouched, Job
  <1>5. CASE Report(j)
    BY <1>1, <1>5, CountBecome DEF Report, RowUntouched, Job
  <1>6. CASE MailUser(j)
    BY <1>1, <1>6, CountBecome DEF MailUser, RowUntouched, Job
  <1>7. CASE PassUser(j) \/ EndOfUsers(j)
    BY <1>1, <1>7, CountBecome DEF PassUser, EndOfUsers, RowUntouched, Job
  <1>8. CASE Restore(j)
    BY <1>1, <1>8, CountBecome DEF Restore, Job
  <1>9. CASE Crash(j)
    BY <1>1, <1>9, CountBecome DEF Crash, RowUntouched, Job
  <1> QED
    BY <1>2, <1>3, <1>4, <1>5, <1>6, <1>7, <1>8, <1>9 DEF Work

LEMMA NextCount == IInv /\ CountOK /\ [Next]_vars => CountOK'
  <1> SUFFICES ASSUME IInv, CountOK, [Next]_vars PROVE CountOK'
    OBVIOUS
  <1>1. CASE Surroundings
    BY <1>1 DEF Surroundings, Tick, ServerStep, Fail, Recover, Heartbeat, EditServer,
               DestroyServer, ToggleAlerts, CountOK
  <1>2. CASE CronStart \/ CronSkip
    BY <1>2 DEF CronStart, CronSkip, CountOK
  <1>3. ASSUME NEW j \in Jobs, CronEnqueue(j) PROVE CountOK'
    <2>1. Fresh(cronAt).seenCount = 0
      BY DEF Fresh
    <2> QED
      BY <1>3, <2>1, CountBecome DEF CronEnqueue, Become
  <1>4. ASSUME NEW j \in Jobs, Perform(j) PROVE CountOK'
    <2>1. job[j] \in Job /\ job[j].srv \in Servers /\ UNCHANGED count
      BY <1>4, JobGood DEF Perform, RowUntouched, Job
    <2>2. count[job[j].srv] = 0 /\ job[j].seenCount = 0
      BY <2>1 DEF CountOK
    <2> QED
      BY <1>4, <2>1, <2>2, CountBecome DEF Perform, Job
  <1>5. CASE UNCHANGED vars
    BY <1>5 DEF vars, CountOK
  <1> QED
    BY <1>1, <1>2, <1>3, <1>4, <1>5, CountWork DEF Next, CronStep, JobStep

LEMMA CountNeverMoves == Spec => []CountOK
  <1>1. Init => CountOK
    BY DEF Init, CountOK, Fresh
  <1> QED
    BY <1>1, NextCount, Inductive, PTL DEF Spec

----------------------------------------------------------------------------
\* The steps of the detector as steps of module Outage.
Cases == [j \in Jobs |-> CaseOf(job[j])]
Standing == {p \in Servers \X Users : mails[p[1]][p[2]] > 0}

LEMMA CaseChanges ==
  ASSUME TypeOK, NEW j \in Jobs, NEW r, Become(j, r)
  PROVE  Cases' = [Cases EXCEPT ![j] = CaseOf(r)]
  BY DEF TypeOK, Become, Cases

\* A step that does not change its case, nor anything else the promise names.
LEMMA SameCase ==
  ASSUME TypeOK, NEW j \in Jobs, NEW r, Become(j, r), CaseOf(r) = CaseOf(job[j]),
         UNCHANGED <<now, exists, heardAt, alertsOn, mails>>
  PROVE  UNCHANGED O!vars
  <1>1. Cases' = Cases
    BY CaseChanges DEF Cases
  <1> QED
    BY <1>1 DEF O!vars, Cases

LEMMA CaseCloses ==
  ASSUME TypeOK, NEW j \in Jobs, NEW r, Become(j, r), Stage(r) = "closed",
         UNCHANGED <<now, exists, heardAt, alertsOn, mails>>
  PROVE  O!Next
  <1>1. Cases' = [Cases EXCEPT ![j] = O!Closed]
    BY CaseChanges DEF CaseOf, O!Closed
  <1> QED
    BY <1>1 DEF O!Next, O!Close, O!Become, Cases

LEMMA InitOutage == Init => O!Init
  <1> SUFFICES ASSUME Init PROVE O!Init
    OBVIOUS
  <1>1. \A j \in Jobs : job[j].st = "idle"
    BY DEF Init, Fresh
  <1>2. Cases = [j \in Jobs |-> O!Closed]
    BY <1>1 DEF Cases, CaseOf, Stage, O!Closed
  <1>3. Standing = {}
    BY DEF Init, Standing
  <1> QED
    BY <1>2, <1>3 DEF Init, O!Init, Cases, Standing

LEMMA SurroundingsOutage == ASSUME IInv, Surroundings PROVE [O!Next]_O!vars
  <1>1. UNCHANGED job
    BY DEF Surroundings, Tick, ServerStep, Fail, Recover, Heartbeat, EditServer, DestroyServer,
           ToggleAlerts
  <1>2. CASE Tick
    BY <1>1, <1>2 DEF Tick, O!Next, O!Tick
  <1>3. ASSUME NEW s \in Servers, Fail(s) \/ Recover(s) PROVE [O!Next]_O!vars
    BY <1>3 DEF Fail, Recover, O!vars
  <1>4. ASSUME NEW s \in Servers, Heartbeat(s) PROVE [O!Next]_O!vars
    <2>1. Standing' = {p \in Standing : p[1] # s}
      BY <1>4 DEF Heartbeat, IInv, TypeOK, Standing
    <2> QED
      BY <1>4, <2>1 DEF Heartbeat, O!Next, O!Report, Standing
  <1>5. ASSUME NEW s \in Servers, EditServer(s) PROVE [O!Next]_O!vars
    BY <1>5 DEF EditServer, O!Next, O!Edit
  <1>6. ASSUME NEW s \in Servers, DestroyServer(s) PROVE [O!Next]_O!vars
    BY <1>6 DEF DestroyServer, O!Next, O!Forget
  <1>7. ASSUME NEW u \in Users, ToggleAlerts(u) PROVE [O!Next]_O!vars
    <2>1. CASE u \in Registered
      <3>1. (alertsOn \cap Registered)' =
              ((alertsOn \cap Registered) \ {u}) \cup ({u} \ (alertsOn \cap Registered))
        BY <1>7, <2>1 DEF ToggleAlerts
      <3> QED
        BY <1>7, <3>1 DEF ToggleAlerts, O!Next, O!Toggle
    <2>2. CASE u \notin Registered
      <3>1. (alertsOn \cap Registered)' = alertsOn \cap Registered
        BY <1>7, <2>2 DEF ToggleAlerts
      <3> QED
        BY <1>7, <3>1 DEF ToggleAlerts, O!vars
    <2> QED
      BY <2>1, <2>2
  <1> QED
    BY <1>2, <1>3, <1>4, <1>5, <1>6, <1>7 DEF Surroundings, ServerStep

LEMMA CronOutage == ASSUME IInv, CronStep PROVE [O!Next]_O!vars
  <1>1. CASE CronStart \/ CronSkip
    BY <1>1 DEF CronStart, CronSkip, O!vars
  <1>2. ASSUME NEW j \in Jobs, CronEnqueue(j) PROVE [O!Next]_O!vars
    <2>1. Become(j, Fresh(cronAt)) /\ job[j].st = "idle"
      BY <1>2 DEF CronEnqueue, Become
    <2>2. CaseOf(Fresh(cronAt)) = CaseOf(job[j])
      BY <2>1 DEF CaseOf, Stage, Fresh
    <2> QED
      BY <1>2, <2>1, <2>2, SameCase DEF CronEnqueue, IInv
  <1> QED
    BY <1>1, <1>2 DEF CronStep

LEMMA PerformOutage == ASSUME IInv, NEW j \in Jobs, Perform(j) PROVE [O!Next]_O!vars
  <1> DEFINE s == job[j].srv
             r == [job[j] EXCEPT !.st = "probe", !.seenAt = heardAt[s], !.inMemory = heardAt[s],
                                 !.seenCount = count[s], !.loadedAt = now]
             q == [job[j] EXCEPT !.st = "idle"]
  <1>1. job[j] \in Job /\ job[j].st = "queued" /\ TypeOK
    <2>1. queue[1] = j /\ 1 \in 1..Len(queue)
      BY DEF Perform, IInv, TypeOK
    <2> QED
      BY <2>1, JobGood DEF IInv, QueueOK
  <1>2. UNCHANGED <<now, exists, heardAt, alertsOn, mails>>
    BY DEF Perform, RowUntouched, World
  <1>3. CASE Become(j, q)
    <2>1. Stage(q) = "closed"
      BY <1>1 DEF Stage, Job
    <2> QED
      BY <1>1, <1>2, <1>3, <2>1, CaseCloses
  <1>4. CASE s \in exists /\ Stale(s, now) /\ Become(j, r)
    <2>1. Cases[j] = O!Closed
      BY <1>1 DEF Cases, CaseOf, Stage, O!Closed
    <2>2. CaseOf(r) = [stage |-> "suspected", srv |-> s, audience |-> {}]
      BY <1>1 DEF CaseOf, Stage, Job
    <2>3. Cases' = [Cases EXCEPT ![j] = [stage |-> "suspected", srv |-> s, audience |-> {}]]
      BY <1>1, <1>4, <2>2, CaseChanges
    <2>4. s \in Servers
      BY <1>1 DEF Job
    <2>5. O!Suspect(j, s)
      BY <1>2, <1>4, <2>1, <2>3 DEF O!Suspect, O!Become, Cases, Stale
    <2> QED
      BY <2>4, <2>5 DEF O!Next
  <1> QED
    BY <1>3, <1>4 DEF Perform

LEMMA VoteOutage ==
  ASSUME IInv, NEW j \in Jobs, NEW v \in {"up", "down", "raised"}, Vote(j, v)
  PROVE  [O!Next]_O!vars
  <1> DEFINE st == CASE v = "up" -> "back" [] v = "down" -> "mark" [] OTHER -> "idle"
             r == [job[j] EXCEPT !.st = st, !.convicted = (v = "down")]
  <1>1. /\ Become(j, r) /\ job[j].st = "probe" /\ job[j] \in Job /\ TypeOK
        /\ UNCHANGED <<now, exists, heardAt, alertsOn, mails>>
    BY JobGood DEF Vote, RowUntouched, World, IInv
  <1>2. r.st = st /\ r.srv = job[j].srv
    BY <1>1 DEF Job
  <1>3. CASE v = "down"
    <2>1. CaseOf(r) = [CaseOf(job[j]) EXCEPT !.stage = "convicted"] /\ CaseOf(job[j]).stage = "suspected"
      BY <1>1, <1>2, <1>3 DEF CaseOf, Stage
    <2>2. Cases' = [Cases EXCEPT ![j] = [Cases[j] EXCEPT !.stage = "convicted"]]
      BY <1>1, <2>1, CaseChanges DEF Cases
    <2>3. O!Convict(j)
      BY <1>1, <2>1, <2>2 DEF O!Convict, O!Become, Cases
    <2> QED
      BY <2>3 DEF O!Next
  <1>4. CASE v # "down"
    <2>1. Stage(r) = "closed"
      BY <1>2, <1>4 DEF Stage
    <2> QED
      BY <1>1, <2>1, CaseCloses
  <1> QED
    BY <1>3, <1>4

LEMMA ReportOutage == ASSUME IInv, NEW j \in Jobs, Report(j) PROVE [O!Next]_O!vars
  <1> DEFINE r == [job[j] EXCEPT !.st = "notify", !.downtime = TRUE, !.on = alertsOn]
             q == [job[j] EXCEPT !.st = "idle"]
  <1>1. /\ job[j].st = "report" /\ job[j] \in Job /\ RecOK(job[j]) /\ TypeOK
        /\ UNCHANGED <<now, exists, heardAt, alertsOn, mails>>
    BY JobGood DEF Report, RowUntouched, World, IInv
  <1>2. CASE Become(j, r)
    <2>1. r.st = "notify" /\ r.srv = job[j].srv /\ r.on = alertsOn
      BY <1>1 DEF Job
    <2>2. /\ CaseOf(job[j]) = [stage |-> "convicted", srv |-> job[j].srv, audience |-> {}]
          /\ CaseOf(r) = [stage |-> "recorded", srv |-> job[j].srv, audience |-> alertsOn \cap Registered]
      <3>1. alertsOn \subseteq Users /\ r.notice = job[j].notice
        BY <1>1 DEF TypeOK, Job
      <3>2. \A u \in Users : r.notice[u] # "mail"
        BY <1>1, <3>1 DEF RecOK
      <3>3. {u \in alertsOn \cap Registered : r.notice[u] # "mail"} = alertsOn \cap Registered
        BY <3>1, <3>2
      <3> QED
        BY <1>1, <2>1, <3>3 DEF CaseOf, Stage
    <2>3. Cases[j] = CaseOf(job[j])
      BY DEF Cases
    <2>4. Cases[j].stage = "convicted" /\ Cases[j].srv = job[j].srv
      BY <2>2, <2>3
    <2>5. Cases' = [Cases EXCEPT ![j] =
                      [stage |-> "recorded", srv |-> Cases[j].srv, audience |-> alertsOn \cap Registered]]
      <3>1. Cases' = [Cases EXCEPT ![j] = CaseOf(r)]
        BY <1>1, <1>2, CaseChanges
      <3> QED
        BY <2>2, <2>4, <3>1
    <2>6. O!Record(j)
      BY <1>1, <2>4, <2>5 DEF O!Record, O!Become, Cases
    <2> QED
      BY <2>6 DEF O!Next
  <1>3. CASE Become(j, q)
    <2>1. Stage(q) = "closed"
      BY <1>1 DEF Stage, Job
    <2> QED
      BY <1>1, <1>3, <2>1, CaseCloses
  <1> QED
    BY <1>2, <1>3 DEF Report

LEMMA MailUserOutage == ASSUME IInv, NEW j \in Jobs, MailUser(j) PROVE [O!Next]_O!vars
  <1> DEFINE s == job[j].srv
             u == job[j].next
             r == [job[j] EXCEPT !.st = "idle", !.notice[u] = "mail"]
             q == [job[j] EXCEPT !.st = "idle"]
  <1>1. /\ job[j].st = "notify" /\ job[j] \in Job /\ RecOK(job[j]) /\ TypeOK
        /\ u \in job[j].on \cap Registered
        /\ UNCHANGED <<now, exists, heardAt, alertsOn>>
    BY JobGood DEF MailUser, RowUntouched, World, IInv
  <1>2. s \in Servers /\ u \in Users
    BY <1>1 DEF Job
  <1>3. CASE Become(j, r) /\ mails' = [mails EXCEPT ![s][u] = IF @ < MailCap THEN @ + 1 ELSE @]
    <2>1. CaseOf(job[j]) = [stage |-> "recorded", srv |-> s, audience |-> job[j].on \cap Registered]
      <3>1. \A w \in job[j].on \cap Registered : job[j].notice[w] # "mail"
        BY <1>1 DEF RecOK, Job
      <3>2. {w \in job[j].on \cap Registered : job[j].notice[w] # "mail"} = job[j].on \cap Registered
        BY <3>1
      <3> QED
        BY <1>1, <3>2 DEF CaseOf, Stage
    <2>2. r.st = "idle"
      BY <1>1 DEF Job
    <2>3. Cases' = [Cases EXCEPT ![j] = O!Closed]
      BY <1>1, <1>3, <2>2, CaseChanges DEF CaseOf, Stage, O!Closed
    <2>4. Standing' = Standing \cup {<<s, u>>}
      <3>1. mails \in [Servers -> [Users -> 0..MailCap]] /\ MailCap \in Nat \ {0}
        BY <1>1, SizesAssumption DEF TypeOK
      <3>2. mails'[s][u] > 0
        BY <1>2, <1>3, <3>1
      <3>3. \A p \in Servers \X Users : p # <<s, u>> => mails'[p[1]][p[2]] = mails[p[1]][p[2]]
        BY <1>2, <1>3, <3>1
      <3> QED
        BY <1>2, <3>2, <3>3 DEF Standing
    <2>5. PICK w \in Users : w = u
      BY <1>2
    <2>6. O!Alarm(j, w)
      BY <1>1, <2>1, <2>3, <2>4, <2>5 DEF O!Alarm, O!Become, Cases, Standing
    <2> QED
      BY <2>6 DEF O!Next
  <1>4. CASE Become(j, q) /\ UNCHANGED mails
    <2>1. Stage(q) = "closed"
      BY <1>1 DEF Stage, Job
    <2> QED
      BY <1>1, <1>4, <2>1, CaseCloses
  <1> QED
    BY <1>3, <1>4 DEF MailUser

LEMMA WorkOutage ==
  ASSUME IInv, CountOK, NEW j \in Jobs, Work(j) \/ Crash(j) PROVE [O!Next]_O!vars
  <1>1. job[j] \in Job /\ RecOK(job[j]) /\ TypeOK
    BY JobGood DEF IInv
  <1>2. CASE BackOnline(j)
    <2>1. Become(j, [job[j] EXCEPT !.st = "idle"]) /\ RowUntouched
      BY <1>2, CountProtected DEF BackOnline
    <2>2. UNCHANGED <<now, exists, heardAt, alertsOn, mails>>
      BY <1>2, <2>1 DEF BackOnline, CountOK, RowUntouched, World
    <2>3. Stage([job[j] EXCEPT !.st = "idle"]) = "closed"
      BY <1>1 DEF Stage, Job
    <2> QED
      BY <1>1, <2>1, <2>2, <2>3, CaseCloses
  <1>3. CASE Mark(j)
    <2>1. Become(j, [job[j] EXCEPT !.st = "report"]) /\ RowUntouched /\ job[j].st = "mark"
      BY <1>3, CountProtected DEF Mark
    <2>2. CaseOf([job[j] EXCEPT !.st = "report"]) = CaseOf(job[j])
      BY <1>1, <2>1 DEF CaseOf, Stage, Job
    <2> QED
      BY <1>1, <1>3, <2>1, <2>2, SameCase DEF Mark, RowUntouched, World
  <1>4. CASE PassUser(j)
    <2> DEFINE u == job[j].next
               r == [job[j] EXCEPT !.next = u + 1, !.notice[u] = IF u \in Registered THEN "row" ELSE @]
    <2>1. Become(j, r)
      BY <1>4 DEF PassUser
    <2>2. /\ r.st = job[j].st /\ r.srv = job[j].srv /\ r.on = job[j].on
          /\ job[j].on \subseteq Users
          /\ \A w \in Users : r.notice[w] # "mail" <=> job[j].notice[w] # "mail"
      <3>1. job[j].st = "notify" /\ \A w \in Users : job[j].notice[w] # "mail"
        BY <1>1, <1>4 DEF PassUser, RecOK
      <3>2. /\ r.st = job[j].st /\ r.srv = job[j].srv /\ r.on = job[j].on
            /\ job[j].on \subseteq Users
            /\ r.notice = [job[j].notice EXCEPT ![u] = IF u \in Registered THEN "row" ELSE @]
            /\ job[j].notice \in [Users -> {"none", "mail", "row"}]
        BY <1>1 DEF Job
      <3> QED
        BY <3>1, <3>2
    <2>3. CaseOf(r) = CaseOf(job[j])
      <3>1. {w \in r.on \cap Registered : r.notice[w] # "mail"}
              = {w \in job[j].on \cap Registered : job[j].notice[w] # "mail"}
        BY <2>2
      <3> QED
        BY <2>2, <3>1 DEF CaseOf, Stage
    <2> QED
      BY <1>1, <1>4, <2>1, <2>3, SameCase DEF PassUser, RowUntouched, World
  <1>5. CASE EndOfUsers(j)
    <2>1. Stage([job[j] EXCEPT !.st = "restore"]) = "closed"
      BY <1>1 DEF Stage, Job
    <2> QED
      BY <1>1, <1>5, <2>1, CaseCloses DEF EndOfUsers, RowUntouched, World
  <1>6. CASE Restore(j)
    <2>1. Stage([job[j] EXCEPT !.st = "idle"]) = "closed"
      BY <1>1 DEF Stage, Job
    <2>2. UNCHANGED heardAt
      BY <1>1, <1>6 DEF Restore, RecOK
    <2> QED
      BY <1>1, <1>6, <2>1, <2>2, CaseCloses DEF Restore, World
  <1>7. CASE Crash(j)
    <2>1. Stage([job[j] EXCEPT !.st = "idle"]) = "closed"
      BY <1>1 DEF Stage, Job
    <2> QED
      BY <1>1, <1>7, <2>1, CaseCloses DEF Crash, RowUntouched, World
  <1> QED
    BY <1>2, <1>3, <1>4, <1>5, <1>6, <1>7, VoteOutage, ReportOutage, MailUserOutage DEF Work

LEMMA NextOutage == IInv /\ CountOK /\ [Next]_vars => [O!Next]_O!vars
  <1> SUFFICES ASSUME IInv, CountOK, [Next]_vars PROVE [O!Next]_O!vars
    OBVIOUS
  <1>1. CASE UNCHANGED vars
    BY <1>1 DEF vars, O!vars
  <1> QED
    BY <1>1, SurroundingsOutage, CronOutage, PerformOutage, WorkOutage DEF Next, JobStep

\* The detector keeps the promise of module Outage for any number of
\* servers, users, jobs and workers and whatever fails: no overlap of jobs,
\* crash or lost mail moves a server's last sign, alarms without a vote and
\* a record, or alarms anyone outside the audience or twice (the worker).
THEOREM ImplementsOutage == Spec => DetectsOutages
  <1>1. Init => O!Init
    BY InitOutage
  <1>2. IInv /\ CountOK /\ [Next]_vars => [O!Next]_O!vars
    BY NextOutage
  <1> QED
    BY <1>1, <1>2, Inductive, CountNeverMoves, PTL DEF Spec, DetectsOutages, O!Spec

----------------------------------------------------------------------------
\* Rows, queue and jobs keep their types under every interleaving of
\* heartbeats, edits, cron and workers.
THEOREM TypeCorrect == Spec => []TypeOK
  <1>1. IInv => TypeOK
    BY DEF IInv
  <1> QED
    BY <1>1, Inductive, PTL

\* No job ever sets updated_at back behind a heartbeat, however many jobs of
\* the server overlap with it: the only column they write is protected from
\* mass assignment, so the timestamp they restore was never replaced
\* (server_status_worker.rb lines 59-60 and 88-89, server.rb lines 16-17).
THEOREM HeartbeatsKept == Spec => []HeartbeatKept
  <1>1. IInv => HeartbeatKept
    BY DEF IInv, RowsOK, HeartbeatKept, TypeOK
  <1> QED
    BY <1>1, Inductive, PTL

\* Every alarm mail comes from a run that found the row silent, lost the vote
\* and recorded the downtime (lines 15, 58, 64, 70).
THEOREM AlarmsEarned == Spec => []AlarmEarned
  <1>1. IInv => AlarmEarned
    BY DEF IInv, JobsOK, RecOK, AlarmEarned, Mailed
  <1> QED
    BY <1>1, Inductive, PTL

\* One run mails at most the first user with alerts set and leaves everyone
\* behind him without a mail or a triggered alert (lines 65-86): what the code
\* does, against the pages, which offer alerts to every user.
THEOREM FirstListener == Spec => []FirstListenerOnly
  <1>1. IInv => FirstListenerOnly
    BY DEF IInv, JobsOK, RecOK, FirstListenerOnly, Mailed
  <1> QED
    BY <1>1, Inductive, PTL

----------------------------------------------------------------------------
\* Every run ends: the steps a run has left, at most.
StepsLeft(r) ==
  CASE r.st = "idle" -> 0
    [] r.st \in {"back", "restore"} -> 1
    [] r.st = "notify" -> NumUsers + 3 - r.next
    [] r.st = "report" -> NumUsers + 3
    [] r.st = "mark" -> NumUsers + 4
    [] r.st = "probe" -> NumUsers + 5
    [] OTHER -> NumUsers + 6

RunsAdvance ==
  \A j \in Jobs :
    \/ job'[j] = job[j]
    \/ job[j].st = "idle" /\ job'[j].st = "queued"
    \/ StepsLeft(job'[j]) < StepsLeft(job[j])

LEMMA StepsLeftType == ASSUME NEW r \in Job PROVE StepsLeft(r) \in Nat
  <1>1. r.next \in 1..(NumUsers + 1) /\ NumUsers \in Nat
    BY SizesAssumption DEF Job
  <1> QED
    BY <1>1 DEF StepsLeft

\* A step of one job that lowers what it has left.
LEMMA Advanced ==
  ASSUME IInv, NEW j \in Jobs, NEW r, Become(j, r), StepsLeft(r) < StepsLeft(job[j])
  PROVE  RunsAdvance
  BY DEF IInv, TypeOK, Become, RunsAdvance

\* A job may stop wherever it is.
LEMMA Stopped ==
  ASSUME IInv, NEW j \in Jobs, job[j].st # "idle", Become(j, [job[j] EXCEPT !.st = "idle"])
  PROVE  RunsAdvance
  <1>1. job[j] \in Job /\ NumUsers \in Nat /\ job[j].next \in 1..(NumUsers + 1)
    BY JobGood, SizesAssumption DEF Job
  <1>2. [job[j] EXCEPT !.st = "idle"].st = "idle"
    BY <1>1 DEF Job
  <1>3. StepsLeft([job[j] EXCEPT !.st = "idle"]) = 0
    BY <1>2 DEF StepsLeft
  <1>4. StepsLeft(job[j]) > 0
    BY <1>1 DEF StepsLeft
  <1> QED
    BY <1>3, <1>4, Advanced

LEMMA WorkAdvances == ASSUME IInv, NEW j \in Jobs, Work(j) \/ Crash(j) PROVE RunsAdvance
  <1>1. /\ job[j] \in Job /\ RecOK(job[j]) /\ NumUsers \in Nat
        /\ job[j].next \in 1..(NumUsers + 1)
    BY JobGood, SizesAssumption DEF Job
  <1>2. ASSUME NEW v \in {"up", "down", "raised"}, Vote(j, v) PROVE RunsAdvance
    <2> DEFINE st == CASE v = "up" -> "back" [] v = "down" -> "mark" [] OTHER -> "idle"
               r == [job[j] EXCEPT !.st = st, !.convicted = (v = "down")]
    <2>1. Become(j, r) /\ job[j].st = "probe"
      BY <1>2 DEF Vote
    <2>2. r.st \in {"back", "mark", "idle"}
      BY <1>1 DEF Job
    <2>3. StepsLeft(r) < StepsLeft(job[j])
      BY <1>1, <2>1, <2>2 DEF StepsLeft
    <2> QED
      BY <2>1, <2>3, Advanced
  <1>3. CASE BackOnline(j)
    BY <1>3, CountProtected, Stopped DEF BackOnline
  <1>4. CASE Mark(j)
    <2>1. Become(j, [job[j] EXCEPT !.st = "report"]) /\ job[j].st = "mark"
      BY <1>4, CountProtected DEF Mark
    <2>2. [job[j] EXCEPT !.st = "report"].st = "report"
      BY <1>1 DEF Job
    <2>3. StepsLeft([job[j] EXCEPT !.st = "report"]) < StepsLeft(job[j])
      BY <1>1, <2>1, <2>2 DEF StepsLeft
    <2> QED
      BY <2>1, <2>3, Advanced
  <1>5. CASE Report(j)
    <2> DEFINE r == [job[j] EXCEPT !.st = "notify", !.downtime = TRUE, !.on = alertsOn]
    <2>1. job[j].st = "report" /\ (Become(j, r) \/ Become(j, [job[j] EXCEPT !.st = "idle"]))
      BY <1>5 DEF Report
    <2>2. r.st = "notify" /\ r.next = 1
      BY <1>1, <2>1 DEF Job, RecOK
    <2>3. StepsLeft(r) < StepsLeft(job[j])
      BY <1>1, <2>1, <2>2 DEF StepsLeft
    <2> QED
      BY <2>1, <2>3, Advanced, Stopped
  <1>6. CASE MailUser(j)
    <2> DEFINE u == job[j].next
               r == [job[j] EXCEPT !.st = "idle", !.notice[u] = "mail"]
    <2>1. job[j].st = "notify" /\ (Become(j, r) \/ Become(j, [job[j] EXCEPT !.st = "idle"]))
      BY <1>6 DEF MailUser
    <2>2. r.st = "idle"
      BY <1>1 DEF Job
    <2>3. StepsLeft(r) < StepsLeft(job[j])
      BY <1>1, <2>1, <2>2 DEF StepsLeft
    <2> QED
      BY <2>1, <2>3, Advanced, Stopped
  <1>7. CASE PassUser(j)
    <2> DEFINE u == job[j].next
               r == [job[j] EXCEPT !.next = u + 1, !.notice[u] = IF u \in Registered THEN "row" ELSE @]
    <2>1. job[j].st = "notify" /\ Become(j, r)
      BY <1>7 DEF PassUser
    <2>2. r.st = "notify" /\ r.next = job[j].next + 1
      BY <1>1, <2>1 DEF Job
    <2>3. StepsLeft(r) < StepsLeft(job[j])
      BY <1>1, <2>1, <2>2 DEF StepsLeft
    <2> QED
      BY <2>1, <2>3, Advanced
  <1>8. CASE EndOfUsers(j)
    <2>1. job[j].st = "notify" /\ Become(j, [job[j] EXCEPT !.st = "restore"])
      BY <1>8 DEF EndOfUsers
    <2>2. [job[j] EXCEPT !.st = "restore"].st = "restore"
      BY <1>1 DEF Job
    <2>3. StepsLeft([job[j] EXCEPT !.st = "restore"]) < StepsLeft(job[j])
      BY <1>1, <2>1, <2>2 DEF StepsLeft
    <2> QED
      BY <2>1, <2>3, Advanced
  <1>9. CASE Restore(j)
    BY <1>9, Stopped DEF Restore
  <1>10. CASE Crash(j)
    BY <1>10, Stopped DEF Crash, Running
  <1> QED
    BY <1>2, <1>3, <1>4, <1>5, <1>6, <1>7, <1>8, <1>9, <1>10 DEF Work

LEMMA PerformAdvances == ASSUME IInv, NEW j \in Jobs, Perform(j) PROVE RunsAdvance
  <1> DEFINE s == job[j].srv
             r == [job[j] EXCEPT !.st = "probe", !.seenAt = heardAt[s], !.inMemory = heardAt[s],
                                 !.seenCount = count[s], !.loadedAt = now]
  <1>1. job[j] \in Job /\ job[j].st = "queued"
    <2>1. queue[1] = j /\ 1 \in 1..Len(queue)
      BY DEF Perform, IInv, TypeOK
    <2> QED
      BY <2>1, JobGood DEF IInv, QueueOK
  <1>2. Become(j, r) \/ Become(j, [job[j] EXCEPT !.st = "idle"])
    BY DEF Perform
  <1>3. r.st = "probe"
    BY <1>1 DEF Job
  <1>4. StepsLeft(r) < StepsLeft(job[j])
    BY <1>1, <1>3, SizesAssumption DEF StepsLeft
  <1> QED
    BY <1>1, <1>2, <1>4, Advanced, Stopped

\* Whatever happens around it, a job that was enqueued only comes nearer to its
\* end, which is NumUsers + 6 steps away: nobody moves a job back, no user is
\* visited twice, and only cron starts one over (the whole worker).  With the
\* fairness of the workers, every run ends.
THEOREM RunsEnd == Spec => [][RunsAdvance]_vars
  <1>1. IInv /\ [Next]_vars => RunsAdvance
    <2> SUFFICES ASSUME IInv, [Next]_vars PROVE RunsAdvance
      OBVIOUS
    <2>1. CASE UNCHANGED job
      BY <2>1 DEF RunsAdvance
    <2>2. ASSUME NEW j \in Jobs, CronEnqueue(j) PROVE RunsAdvance
      <3>1. job[j].st = "idle" /\ job' = [job EXCEPT ![j] = Fresh(cronAt)]
            /\ Fresh(cronAt).st = "queued"
        BY <2>2 DEF CronEnqueue, Fresh
      <3> QED
        BY <3>1 DEF RunsAdvance, IInv, TypeOK
    <2>3. CronStep /\ (\A j \in Jobs : ~CronEnqueue(j)) => UNCHANGED job
      BY DEF CronStep, CronStart, CronSkip
    <2>4. Surroundings => UNCHANGED job
      BY DEF Surroundings, Tick, ServerStep, Fail, Recover, Heartbeat, EditServer, DestroyServer,
             ToggleAlerts
    <2> QED
      BY <2>1, <2>2, <2>3, <2>4, WorkAdvances, PerformAdvances DEF Next, JobStep, vars
  <1> QED
    BY <1>1, Inductive, PTL DEF Spec

----------------------------------------------------------------------------
\* No enqueued job is forgotten.
QueueComplete ==
  \A j \in Jobs : job[j].st = "queued" => \E i \in 1..Len(queue) : queue[i] = j

\* A worker's step on a job it took leaves the jobs that wait where they are.
LEMMA WorkLeavesQueue ==
  ASSUME IInv, NEW j \in Jobs, Work(j) \/ Crash(j)
  PROVE  /\ job[j].st \in Running /\ job'[j].st # "queued" /\ UNCHANGED queue
         /\ \A k \in Jobs \ {j} : job'[k] = job[k]
  <1>1. job[j] \in Job /\ job \in [Jobs -> Job]
    BY JobGood DEF IInv, TypeOK
  <1>2. job[j].st \in Running /\ UNCHANGED queue
    BY DEF Work, Vote, BackOnline, Mark, Report, MailUser, PassUser, EndOfUsers, Restore, Crash,
           Running
  <1>3. PICK r : job' = [job EXCEPT ![j] = r]
    <2>1. ASSUME NEW n, NEW st, WriteCount(j, n, st) PROVE \E r : job' = [job EXCEPT ![j] = r]
      BY <2>1, CountProtected DEF Become
    <2>2. BackOnline(j) \/ Mark(j) => \E r : job' = [job EXCEPT ![j] = r]
      BY <2>1 DEF BackOnline, Mark
    <2> QED
      BY <2>2 DEF Work, Vote, Report, MailUser, PassUser, EndOfUsers, Restore, Crash, Become
  <1>4. \A k \in Jobs \ {j} : job'[k] = job[k]
    BY <1>1, <1>3
  <1>5. job'[j].st # "queued"
    <2>1. RunsAdvance
      BY WorkAdvances
    <2>2. job'[j] = job[j] \/ StepsLeft(job'[j]) < StepsLeft(job[j])
      BY <1>2, <2>1 DEF RunsAdvance, Running
    <2>3. StepsLeft(job[j]) < NumUsers + 6
      BY <1>1, <1>2, SizesAssumption DEF StepsLeft, Running, Job
    <2>4. CASE job'[j].st = "queued"
      <3>1. StepsLeft(job'[j]) = NumUsers + 6
        BY <2>4 DEF StepsLeft
      <3> QED
        BY <1>1, <1>2, <2>2, <2>3, <2>4, <3>1, StepsLeftType, SizesAssumption DEF Running
    <2> QED
      BY <2>4
  <1> QED
    BY <1>2, <1>4, <1>5

LEMMA QueueCompleteInit == Init => QueueComplete
  BY DEF Init, QueueComplete, Fresh

LEMMA QueueCompleteNext == IInv /\ QueueComplete /\ [Next]_vars => QueueComplete'
  <1> SUFFICES ASSUME IInv, QueueComplete, [Next]_vars PROVE QueueComplete'
    OBVIOUS
  <1>ty. job \in [Jobs -> Job] /\ queue \in Seq(Jobs)
    BY DEF IInv, TypeOK
  <1>1. CASE UNCHANGED <<queue, job>>
    BY <1>1 DEF QueueComplete
  <1>2. ASSUME NEW j \in Jobs, CronEnqueue(j) PROVE QueueComplete'
    <2>1. queue' = Append(queue, j) /\ job' = [job EXCEPT ![j] = Fresh(cronAt)]
      BY <1>2 DEF CronEnqueue
    <2>2. /\ Len(queue') = Len(queue) + 1 /\ queue'[Len(queue) + 1] = j
          /\ \A i \in 1..Len(queue) : queue'[i] = queue[i]
          /\ Len(queue) \in Nat
      BY <1>ty, <2>1
    <2>3. \A k \in Jobs \ {j} : job'[k] = job[k]
      BY <1>ty, <2>1
    <2>4. ASSUME NEW k \in Jobs, job'[k].st = "queued"
          PROVE  \E i \in 1..Len(queue') : queue'[i] = k
      <3>1. CASE k = j
        BY <2>2, <3>1
      <3>2. CASE k # j
        <4>1. PICK i \in 1..Len(queue) : queue[i] = k
          BY <2>3, <2>4, <3>2 DEF QueueComplete
        <4> QED
          BY <2>2, <4>1
      <3> QED
        BY <3>1, <3>2
    <2> QED
      BY <2>4 DEF QueueComplete
  <1>3. ASSUME NEW j \in Jobs, Perform(j) PROVE QueueComplete'
    <2>1. /\ Len(queue') = Len(queue) - 1 /\ Len(queue) \in Nat \ {0}
          /\ \A i \in 1..Len(queue') : queue'[i] = queue[i + 1]
          /\ queue[1] = j
      BY <1>3, <1>ty DEF Perform
    <2>2. /\ job'[j].st # "queued"
          /\ \A k \in Jobs \ {j} : job'[k] = job[k]
      BY <1>3, <1>ty DEF Perform, Become, Job
    <2>3. ASSUME NEW k \in Jobs, job'[k].st = "queued"
          PROVE  \E i \in 1..Len(queue') : queue'[i] = k
      <3>1. k # j /\ job[k].st = "queued"
        BY <2>2, <2>3
      <3>2. PICK i \in 1..Len(queue) : queue[i] = k
        BY <3>1 DEF QueueComplete
      <3>3. i - 1 \in 1..Len(queue') /\ queue'[i - 1] = k
        BY <2>1, <3>1, <3>2
      <3> QED
        BY <3>3
    <2> QED
      BY <2>3 DEF QueueComplete
  <1>4. ASSUME NEW j \in Jobs, Work(j) \/ Crash(j) PROVE QueueComplete'
    BY <1>4, WorkLeavesQueue DEF QueueComplete
  <1>5. CronStep /\ (\A j \in Jobs : ~CronEnqueue(j)) => UNCHANGED <<queue, job>>
    BY DEF CronStep, CronStart, CronSkip
  <1>6. Surroundings => UNCHANGED <<queue, job>>
    BY DEF Surroundings, Tick, ServerStep, Fail, Recover, Heartbeat, EditServer, DestroyServer,
           ToggleAlerts
  <1> QED
    BY <1>1, <1>2, <1>3, <1>4, <1>5, <1>6 DEF Next, JobStep, vars

\* Nothing is lost on the way from cron to a worker: a job is waiting exactly
\* when the queue holds it, and it holds it once (jobs/server_status.rb).
THEOREM JobsWaitInQueue == Spec => [](QueueComplete /\ QueueOK)
  <1>1. IInv => QueueOK
    BY DEF IInv
  <1> QED
    BY <1>1, QueueCompleteInit, QueueCompleteNext, Inductive, PTL DEF Spec

----------------------------------------------------------------------------
\* Module Queues: the detector among the jobs of other queues.

\* No more jobs run than there are workers, whatever queue they come from.
RunningJobs == {k \in Jobs : job[k].st \in Running}

WorkersShared ==
  /\ ahead \in 0..Batch /\ busy \in Nat
  /\ Cardinality(RunningJobs) + busy <= NumWorkers

\* What the shared site does is what the detector does, or leaves it alone.
LEMMA SharedSteps ==
  ASSUME [SharedNext]_sharedVars
  PROVE  [Next]_vars
  <1>1. CASE UNCHANGED sharedVars
    BY <1>1 DEF sharedVars
  <1>2. CASE SharedNext
    <2>1. ASSUME NEW j \in Jobs, Take(j) \/ GoOn(j) PROVE Next
      BY <2>1 DEF Take, GoOn, Next, JobStep
    <2>2. OthersEnqueue \/ OtherTaken \/ OtherDone => UNCHANGED vars
      BY DEF OthersEnqueue, OtherTaken, OtherDone
    <2>3. Enqueue \/ (Surroundings /\ UNCHANGED <<ahead, busy>>) => Next
      BY DEF Enqueue, Next
    <2> QED
      BY <1>2, <2>1, <2>2, <2>3 DEF SharedNext
  <1> QED
    BY <1>1, <1>2

LEMMA SharedInvariant == SharedSpec => [](IInv /\ CountOK)
  <1>1. SharedInit => Init
    BY DEF SharedInit
  <1>2. Init => CountOK
    BY DEF Init, CountOK, Fresh
  <1> QED
    BY <1>1, <1>2, SharedSteps, InitIInv, NextIInv, NextCount, PTL DEF SharedSpec

LEMMA RunningFinite ==
  ASSUME NEW S \in SUBSET Jobs
  PROVE  IsFiniteSet(S) /\ Cardinality(S) \in Nat
  <1>1. IsFiniteSet(Jobs)
    BY SizesAssumption, FS_Interval DEF Jobs
  <1> QED
    BY <1>1, FS_Subset, FS_CardinalityType

\* What is said of workers is kept when no further job runs.
LEMMA NoMoreRunning ==
  ASSUME WorkersShared, UNCHANGED <<ahead, busy>>, RunningJobs' \subseteq RunningJobs
  PROVE  WorkersShared'
  <1>1. IsFiniteSet(RunningJobs) /\ Cardinality(RunningJobs) \in Nat
        /\ Cardinality(RunningJobs') \in Nat
    BY RunningFinite DEF RunningJobs
  <1>2. Cardinality(RunningJobs') <= Cardinality(RunningJobs)
    BY <1>1, FS_Subset
  <1> QED
    BY <1>1, <1>2, SizesAssumption DEF WorkersShared

LEMMA NextWorkers == IInv /\ WorkersShared /\ [SharedNext]_sharedVars => WorkersShared'
  <1> SUFFICES ASSUME IInv, WorkersShared, [SharedNext]_sharedVars PROVE WorkersShared'
    OBVIOUS
  <1>ty. /\ job \in [Jobs -> Job] /\ ahead \in 0..Batch /\ busy \in Nat /\ NumWorkers \in Nat
         /\ Batch \in Nat \ {0} /\ Cardinality(RunningJobs) \in Nat
    BY SizesAssumption, BatchAssumption, RunningFinite DEF IInv, TypeOK, WorkersShared, RunningJobs
  <1>1. ASSUME UNCHANGED job PROVE RunningJobs' = RunningJobs
    BY <1>1 DEF RunningJobs
  <1>2. CASE UNCHANGED sharedVars
    BY <1>1, <1>2, NoMoreRunning DEF sharedVars, vars
  <1>3. CASE OthersEnqueue
    BY <1>1, <1>3, <1>ty DEF OthersEnqueue, WorkersShared, vars
  <1>4. CASE OtherTaken
    <2>1. RunningJobs' = RunningJobs /\ busy' = busy + 1 /\ ahead' = ahead - 1 /\ ahead > 0
      BY <1>1, <1>4 DEF OtherTaken, vars
    <2>2. Cardinality(RunningJobs) + busy < NumWorkers
      BY <1>4 DEF OtherTaken, FreeWorker, RunningJobs
    <2> QED
      BY <2>1, <2>2, <1>ty DEF WorkersShared
  <1>5. CASE OtherDone
    BY <1>1, <1>5, <1>ty DEF OtherDone, WorkersShared, vars
  <1>6. ASSUME NEW j \in Jobs, Take(j) PROVE WorkersShared'
    <2>1. Perform(j) /\ UNCHANGED <<ahead, busy>> /\ Cardinality(RunningJobs) + busy < NumWorkers
      BY <1>6 DEF Take, FreeWorker, RunningJobs
    <2>2. RunningJobs' \subseteq RunningJobs \cup {j}
      BY <1>ty, <2>1 DEF Perform, Become, RunningJobs
    <2>3. IsFiniteSet(RunningJobs) /\ Cardinality(RunningJobs') \in Nat
      BY RunningFinite DEF RunningJobs
    <2>4. /\ IsFiniteSet(RunningJobs \cup {j})
          /\ Cardinality(RunningJobs \cup {j}) <= Cardinality(RunningJobs) + 1
      <3>1. /\ IsFiniteSet(RunningJobs \cup {j})
            /\ \/ Cardinality(RunningJobs \cup {j}) = Cardinality(RunningJobs)
               \/ Cardinality(RunningJobs \cup {j}) = Cardinality(RunningJobs) + 1
        BY <2>3, FS_AddElement
      <3> QED
        BY <1>ty, <3>1
    <2>5. Cardinality(RunningJobs') <= Cardinality(RunningJobs \cup {j})
          /\ Cardinality(RunningJobs \cup {j}) \in Nat
      BY <2>2, <2>4, FS_Subset, FS_CardinalityType
    <2> QED
      BY <1>ty, <2>1, <2>3, <2>4, <2>5 DEF WorkersShared
  <1>7. ASSUME NEW j \in Jobs, GoOn(j) PROVE WorkersShared'
    <2>1. RunningJobs' \subseteq RunningJobs
      BY <1>7, WorkLeavesQueue DEF GoOn, RunningJobs
    <2> QED
      BY <1>7, <2>1, NoMoreRunning DEF GoOn
  <1>8. CASE Enqueue
    <2>1. ASSUME NEW j \in Jobs, CronEnqueue(j) PROVE RunningJobs' \subseteq RunningJobs
      BY <1>ty, <2>1 DEF CronEnqueue, Fresh, RunningJobs, Running
    <2>2. CronStart \/ CronSkip => RunningJobs' \subseteq RunningJobs
      BY <1>1 DEF CronStart, CronSkip
    <2> QED
      BY <1>8, <2>1, <2>2, NoMoreRunning DEF Enqueue, CronStep
  <1>9. CASE Surroundings /\ UNCHANGED <<ahead, busy>>
    <2>1. UNCHANGED job
      BY <1>9 DEF Surroundings, Tick, ServerStep, Fail, Recover, Heartbeat, EditServer,
                  DestroyServer, ToggleAlerts
    <2> QED
      BY <1>1, <1>9, <2>1, NoMoreRunning
  <1> QED
    BY <1>2, <1>3, <1>4, <1>5, <1>6, <1>7, <1>8, <1>9 DEF SharedNext

\* With the jobs of all queues, no more run than there are workers, however
\* many cron enqueues (lib/tasks/resque.rake; config/deploy.rb).
THEOREM WorkersAreShared == SharedSpec => []WorkersShared
  <1>1. SharedInit => WorkersShared
    <2> SUFFICES ASSUME SharedInit PROVE WorkersShared
      OBVIOUS
    <2>1. RunningJobs = {}
      BY DEF SharedInit, Init, Fresh, RunningJobs, Running
    <2> QED
      BY <2>1, FS_EmptySet, SizesAssumption, BatchAssumption DEF SharedInit, WorkersShared
  <1> QED
    BY <1>1, NextWorkers, SharedInvariant, PTL DEF SharedSpec

\* Among the jobs of other queues, which keep its own waiting for as long as
\* they like, the detector still keeps the promise of module Outage (the
\* worker; lib/tasks/resque.rake, line 4).
THEOREM SharedDetector == SharedSpec => DetectsOutages
  <1>1. SharedInit => O!Init
    BY InitOutage DEF SharedInit
  <1>2. IInv /\ CountOK /\ [SharedNext]_sharedVars => [O!Next]_O!vars
    BY SharedSteps, NextOutage
  <1> QED
    BY <1>1, <1>2, SharedInvariant, PTL DEF SharedSpec, DetectsOutages, O!Spec

\* And with the waiting, no heartbeat is hidden and every alarm is earned.
THEOREM SharedAlarms == SharedSpec => [](HeartbeatKept /\ AlarmEarned)
  <1>1. IInv => HeartbeatKept
    BY DEF IInv, RowsOK, HeartbeatKept, TypeOK
  <1>2. IInv => AlarmEarned
    BY DEF IInv, JobsOK, RecOK, AlarmEarned, Mailed
  <1> QED
    BY <1>1, <1>2, SharedInvariant, PTL
=============================================================================
