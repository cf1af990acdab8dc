--------------------------- MODULE ThresholdAlerts ---------------------------
(***************************************************************************)
(* The alerts users set on the statistics of the servers of one domain:    *)
(* cron enqueues an AlertWorker job per alert (jobs/alerts.rb), and the    *)
(* job mails an audience about every server beyond the threshold           *)
(* (workers/alert_worker.rb).                                              *)
(*                                                                         *)
(* A job reads the alert, then the servers, then the audience, and keeps   *)
(* what it has read to its end.  Each user is mailed first and gets his    *)
(* triggered_alerts row after that; a delivery that fails ends the job.    *)
(***************************************************************************)
EXTENDS Integers, Sequences, FiniteSets

CONSTANTS
  NumServers,  \* ids of servers, in the order they are loaded
  NumUsers,    \* ids of users, in the order they are loaded
  NumAlerts,   \* bound: alerts that exist or are held by a job at a time
  NumJobs,     \* bound: jobs queued or running at a time
  NumWorkers,  \* Resque worker processes
  LastHour,    \* the clock counts 0..LastHour and starts over at midnight
  Windows,     \* pairs of start_time and end_time users choose
  Team,        \* users with a team_users row in the team alerts can be for
  Failing      \* pairs of a server and a user: mails that cannot be rendered or delivered

Servers == 1..NumServers
Users == 1..NumUsers
Alerts == 1..NumAlerts
Jobs == 1..NumJobs
Hours == 0..LastHour

ASSUME SizesAssumption ==
  /\ NumServers \in Nat /\ NumUsers \in Nat /\ NumAlerts \in Nat \ {0} /\ NumJobs \in Nat
  /\ NumWorkers \in Nat /\ LastHour \in Nat
ASSUME SetsAssumption ==
  Windows # {} /\ Windows \subseteq Hours \X Hours /\ Team \subseteq Users
  /\ Failing \subseteq Servers \X Users

\* A statistic against the threshold; a NULL column reads 0.0.
Levels == {"below", "equal", "above"}

\* Targets and addressees are pairs of a type and an id.  The column active
\* is left out: nothing reads it.
Domain == <<"Domain", 1>>
Alert == [operator: {"lt", "gt"},
          targetable: {Domain} \cup ({"Server"} \X Servers),
          alertable: {Domain, <<"Team", 1>>} \cup ({"User"} \X Users),
          window: Windows]

VARIABLES
  hour,     \* the hour of the day
  level,    \* the servers table, as a function on the ids in it
  members,  \* the users with a domain_users row
  alert,    \* the alerts table, as a function on the ids in it
  cronAt,   \* the next alert jobs/alerts.rb enqueues, 0 when not running
  queue,    \* the Resque queue alerts
  job,      \* the jobs
  reached   \* <<a, s, u>>: u was mailed by alert a since the last post of server s (history)

vars == <<hour, level, members, alert, cronAt, queue, job, reached>>
World == <<hour, level, members, alert>>

Running == {"servers", "audience", "mail", "row"}

Job == [st: {"idle", "queued"} \cup Running,
        id: Alerts,                        \* the argument of the job
        alert: Alert,                      \* the alert as loaded, while it is needed
        due: SUBSET Servers,               \* the servers found beyond the threshold, until then
        plan: SUBSET (Servers \X Users),   \* whom to mail about which server
        mailed: SUBSET (Servers \X Users), \* the mails of this run
        rowed: SUBSET (Servers \X Users)]  \* the triggered_alerts of this run

Unread == CHOOSE r \in Alert : TRUE

Fresh(a) ==
  [st |-> "queued", id |-> a, alert |-> Unread, due |-> {}, plan |-> {}, mailed |-> {},
   rowed |-> {}]
Idle == [Fresh(1) EXCEPT !.st = "idle"]

\* The pairs of a plan are served server by server and user by user.
Before(p, q) == p[1] < q[1] \/ (p[1] = q[1] /\ p[2] < q[2])
First(plan) == CHOOSE p \in plan : \A q \in plan : p = q \/ Before(p, q)

\* Both ends of the window are put on the same day.
InWindow(h, w) == w[1] <= h /\ h <= w[2]

Crosses(r, l) == l = (IF r.operator = "gt" THEN "above" ELSE "below")

\* The servers of the domain an alert is about that are beyond its threshold.
\* A target that was destroyed is nil: reading its column raises a
\* NoMethodError, which is rescued.
Crossing(r) ==
  {s \in DOMAIN level : r.targetable \in {Domain, <<"Server", s>>} /\ Crosses(r, level[s])}

\* The users an alert is for.  Those of a team, and a single user, need not
\* belong to the domain any more.  `u.alerts`, which the worker tests before
\* it mails u, is the list of the alerts set for u and never false.
\*
\* A single user hears of crossings upwards only: on the way down, the line
\* printed before the mail names a variable of the other branches, and the
\* NameError, which is no NoMethodError, ends the run (line 81).
Audience(r) ==
  CASE r.alertable = Domain -> members
    [] r.alertable[1] = "Team" -> Team
    [] r.alertable[1] = "User" /\ r.operator = "lt" -> {}
    [] OTHER -> {r.alertable[2]}

----------------------------------------------------------------------------
Init ==
  /\ hour = 0
  /\ level = [s \in Servers |-> "equal"]
  /\ members = Users
  /\ alert = [a \in {} |-> "none"]
  /\ cronAt = 0
  /\ queue = <<>>
  /\ job = [j \in Jobs |-> Idle]
  /\ reached = {}

----------------------------------------------------------------------------
\* Agents and users.

Jobless == UNCHANGED <<cronAt, queue, job>>

Tick ==
  /\ hour' = (hour + 1) % (LastHour + 1)
  /\ Jobless /\ UNCHANGED <<level, members, alert, reached>>

\* StatusController#update: the agent of server s posts another figure.
Post(s, l) ==
  /\ s \in DOMAIN level /\ l # level[s]
  /\ level' = [level EXCEPT ![s] = l]
  /\ reached' = {p \in reached : p[2] # s}
  /\ Jobless /\ UNCHANGED <<hour, members, alert>>

\* ServersController#destroy.
DestroyServer(s) ==
  /\ s \in DOMAIN level
  /\ level' = [k \in DOMAIN level \ {s} |-> level[k]]
  /\ Jobless /\ UNCHANGED <<hour, members, alert, reached>>

\* UserManagementController#destroy.
RemoveUser(u) ==
  /\ u \in members
  /\ members' = members \ {u}
  /\ Jobless /\ UNCHANGED <<hour, level, alert, reached>>

\* AlertsController.  A new alert is about a server and for users the domain
\* has; an edit leaves both as they are.  Ids in use by a job are not reused.
CreateAlert(a, r) ==
  /\ a \notin DOMAIN alert /\ \A j \in Jobs : job[j].st # "idle" => job[j].id # a
  /\ r.targetable = Domain \/ r.targetable[2] \in DOMAIN level
  /\ r.alertable[1] = "User" => r.alertable[2] \in members
  /\ alert' = [b \in DOMAIN alert \cup {a} |-> IF b = a THEN r ELSE alert[b]]
  /\ reached' = {p \in reached : p[1] # a}
  /\ Jobless /\ UNCHANGED <<hour, level, members>>

UpdateAlert(a, op, w) ==
  /\ a \in DOMAIN alert
  /\ alert' = [alert EXCEPT ![a].operator = op, ![a].window = w]
  /\ reached' = {p \in reached : p[1] # a}
  /\ Jobless /\ UNCHANGED <<hour, level, members>>

DestroyAlert(a) ==
  /\ a \in DOMAIN alert
  /\ alert' = [b \in DOMAIN alert \ {a} |-> alert[b]]
  /\ Jobless /\ UNCHANGED <<hour, level, members, reached>>

----------------------------------------------------------------------------
\* jobs/alerts.rb, run by cron: one job per alert, in the order of the ids.

CronStart ==
  /\ cronAt = 0
  /\ cronAt' = 1
  /\ UNCHANGED <<World, queue, job, reached>>

AdvanceCron_PastEnd == cronAt' = cronAt + 1
AdvanceCron == cronAt' = IF cronAt < NumAlerts THEN cronAt + 1 ELSE 0

CronSkip ==
  /\ cronAt > 0 /\ cronAt \notin DOMAIN alert
  /\ AdvanceCron
  /\ UNCHANGED <<World, queue, job, reached>>

CronEnqueue(j) ==
  /\ cronAt \in DOMAIN alert
  /\ job[j].st = "idle" /\ \A k \in Jobs : job[k].st = "idle" => j <= k
  /\ AdvanceCron
  /\ queue' = Append(queue, j)
  /\ job' = [job EXCEPT ![j] = Fresh(cronAt)]
  /\ UNCHANGED <<World, reached>>

----------------------------------------------------------------------------
\* AlertWorker.perform.

Become(j, r) == job' = [job EXCEPT ![j] = r]
Outside == UNCHANGED <<World, cronAt>>

\* A worker takes the oldest job and loads the alert.  A destroyed alert is
\* RecordNotFound; outside its window an alert does nothing.
Perform(j) ==
  LET a == job[j].id IN
  /\ queue # <<>> /\ j = Head(queue) /\ job[j].st = "queued"
  /\ Cardinality({k \in Jobs : job[k].st \in Running}) < NumWorkers
  /\ queue' = Tail(queue)
  /\ Become(j, IF a \in DOMAIN alert /\ InWindow(hour, alert[a].window)
               THEN [Fresh(a) EXCEPT !.st = "servers", !.alert = alert[a]]
               ELSE Idle)
  /\ Outside /\ UNCHANGED reached

LoadServers_First(j) ==
  LET all == Crossing(job[j].alert)  due == {s \in all : \A t \in all : s <= t} IN
  /\ job[j].st = "servers"
  /\ Become(j, IF due = {} THEN Idle ELSE [job[j] EXCEPT !.st = "audience", !.due = due])
  /\ Outside /\ UNCHANGED <<queue, reached>>

LoadServers(j) ==
  LET due == Crossing(job[j].alert) IN
  /\ job[j].st = "servers"
  /\ Become(j, IF due = {} THEN Idle ELSE [job[j] EXCEPT !.st = "audience", !.due = due])
  /\ Outside /\ UNCHANGED <<queue, reached>>

\* The audience is loaded at the first server and kept for the others.
LoadAudience(j) ==
  LET plan == job[j].due \X Audience(job[j].alert) IN
  /\ job[j].st = "audience"
  /\ Become(j, IF plan = {} THEN Idle
               ELSE [job[j] EXCEPT !.st = "mail", !.plan = plan, !.alert = Unread, !.due = {}])
  /\ Outside /\ UNCHANGED <<queue, reached>>

\* Mail the user.  Figures the template cannot show, a service that is gone
\* or an address the mail server refuses are not rescued: they end the run.
MailUser_RowFirst(j) ==
  LET p == First(job[j].plan \ job[j].rowed) IN
  /\ job[j].st = "mail"
  /\ IF p \in Failing
     THEN Become(j, Idle) /\ UNCHANGED reached
     ELSE /\ Become(j, [job[j] EXCEPT !.st = "row", !.rowed = @ \cup {p}])
          /\ reached' = reached \cup {<<job[j].id, p[1], p[2]>>}
  /\ Outside /\ UNCHANGED queue

MailUser(j) ==
  LET p == First(job[j].plan \ job[j].rowed) IN
  /\ job[j].st = "mail"
  /\ IF p \in Failing
     THEN Become(j, Idle) /\ UNCHANGED reached
     ELSE /\ Become(j, [job[j] EXCEPT !.st = "row", !.mailed = @ \cup {p}])
          /\ reached' = reached \cup {<<job[j].id, p[1], p[2]>>}
  /\ Outside /\ UNCHANGED queue

\* d.triggered_alerts.create, and on to the next user or server.
CreateRow(j) ==
  LET p == First(job[j].plan \ job[j].rowed)  rest == (job[j].plan \ job[j].rowed) \ {p} IN
  /\ job[j].st = "row"
  /\ Become(j, IF rest = {} THEN Idle ELSE [job[j] EXCEPT !.st = "mail", !.rowed = @ \cup {p}])
  /\ Outside /\ UNCHANGED <<queue, reached>>

JobStep(j) ==
  Perform(j) \/ LoadServers(j) \/ LoadAudience(j) \/ MailUser(j) \/ CreateRow(j)

CronStep == CronStart \/ CronSkip \/ \E j \in Jobs : CronEnqueue(j)

AlertStep ==
  \E a \in Alerts : \/ \E r \in Alert : CreateAlert(a, r)
                    \/ \E op \in {"lt", "gt"}, w \in Windows : UpdateAlert(a, op, w)
                    \/ DestroyAlert(a)

Next ==
  \/ Tick
  \/ \E s \in Servers : DestroyServer(s) \/ \E l \in Levels : Post(s, l)
  \/ \E u \in Users : RemoveUser(u)
  \/ AlertStep
  \/ CronStep
  \/ \E j \in Jobs : JobStep(j)

\* Cron keeps running the script and the Resque workers keep working; nobody
\* else is forced to act.
Fairness == WF_vars(CronStep) /\ \A j \in Jobs : WF_vars(JobStep(j))

Spec == Init /\ [][Next]_vars /\ Fairness

----------------------------------------------------------------------------
TypeOK ==
  /\ hour \in Hours
  /\ DOMAIN level \subseteq Servers /\ level \in [DOMAIN level -> Levels]
  /\ members \subseteq Users
  /\ DOMAIN alert \subseteq Alerts /\ alert \in [DOMAIN alert -> Alert]
  /\ cronAt \in 0..NumAlerts
  /\ queue \in Seq(Jobs)
  /\ job \in [Jobs -> Job]
  /\ reached \subseteq Alerts \X Servers \X Users

\* However a run ends, the inbox lacks at most the row of its last mail, and
\* nobody behind an unserved user of the plan was mailed (lines 23-28).
MailsInOrder ==
  \A j \in Jobs :
    /\ job[j].rowed \subseteq job[j].mailed /\ job[j].mailed \subseteq job[j].plan
    /\ \A p \in job[j].mailed, q \in job[j].plan \ job[j].rowed : p = q \/ Before(p, q)

\* The round a job stands for: it is under way once the alert is loaded.
RoundOf(r) ==
  CASE r.st = "servers" -> [stage |-> "open", alert |-> r.id, rule |-> r.alert]
    [] r.st = "audience" -> [stage |-> "found", alert |-> r.id, rule |-> r.alert, due |-> r.due]
    [] r.st \in {"mail", "row"} -> [stage |-> "telling", alert |-> r.id, plan |-> r.plan,
                                    heard |-> r.mailed, noted |-> r.rowed]
    [] OTHER -> [stage |-> "closed"]

InForce == {<<a, alert[a]>> : a \in {b \in DOMAIN alert : InWindow(hour, alert[b].window)}}

R == INSTANCE Rounds WITH
       Slots <- Jobs,
       Rules <- Alert,
       active <- InForce,
       beyond <- [r \in Alert |-> Crossing(r)],
       audience <- [r \in Alert |-> Audience(r)],
       round <- [j \in Jobs |-> RoundOf(job[j])],
       told <- reached

\* AlertWorker, its queue and cron run the rounds an alert promises: a run
\* reads a rule in force, the servers and the people one after the other,
\* mails in order, writes each row before the next mail, and ends early only
\* with nobody to mail or at a mail that fails (alert_worker.rb, lines 5-93).
DeliversRounds == R!Spec

\* A run that no exception ends has mailed the whole audience about every
\* server it found beyond the threshold (lines 17-93).
RunsComplete ==
  [][\A j \in Jobs :
       job[j].st = "row" /\ job'[j].st = "idle" => job[j].mailed = job[j].plan]_vars

\* User u is to be mailed about server s, and no mail that fails comes first.
ToReach(a, s, u) ==
  /\ a \in DOMAIN alert /\ s \in Crossing(alert[a]) /\ u \in Audience(alert[a])
  /\ InWindow(hour, alert[a].window)
  /\ \A q \in Failing \cap (Crossing(alert[a]) \X Audience(alert[a])) : Before(<<s, u>>, q)

\* A server that stays beyond the threshold within the window is mailed to
\* every user of the audience, up to the first mail of the run that fails.
AudienceReached ==
  \A a \in Alerts, s \in Servers, u \in Users :
    ToReach(a, s, u) ~> (<<a, s, u>> \in reached \/ ~ToReach(a, s, u))
=============================================================================
