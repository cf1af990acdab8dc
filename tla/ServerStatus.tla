---------------------------- MODULE ServerStatus ----------------------------
(***************************************************************************)
(* The outage detector of one domain: agents refresh the updated_at of     *)
(* their servers row, cron enqueues a ServerStatusWorker job per server,   *)
(* and Resque workers run the jobs: a job that finds its row silent for    *)
(* too long takes a reachability vote (module PingVote) and, when it is    *)
(* lost, records a downtime and alarms the users of the domain.            *)
(*                                                                         *)
(* A job is split where the code talks to the database, the network or     *)
(* the mail server, so heartbeats, edits, toggles and other jobs come in   *)
(* between.  Nothing stops cron from enqueueing a server that is still     *)
(* queued or running.                                                      *)
(***************************************************************************)
EXTENDS Integers, Sequences, FiniteSets, Verdicts

CONSTANTS
  NumServers,       \* rows of servers, with ids 1..NumServers
  NumUsers,         \* rows of domain_users, in the order they are loaded
  Registered,       \* the domain_users whose user exists
  NumJobs,          \* bound: jobs queued or running at a time
  NumWorkers,       \* Resque worker processes
  StaleAfter,       \* the five minutes of silence, in ticks
  MaxTime,          \* bound on the clock
  MailCap,          \* bound on the mails counted per server and user
  DelayedJobLoaded, \* is delayed_job, which Server#ping calls, installed?
  Faults            \* the faults that may happen: "probe", "mail", "crash"

Servers == 1..NumServers
Users == 1..NumUsers
Jobs == 1..NumJobs

ASSUME SizesAssumption ==
  /\ NumServers \in Nat \ {0} /\ NumUsers \in Nat /\ NumJobs \in Nat
  /\ NumWorkers \in Nat /\ StaleAfter \in Nat /\ MaxTime \in Nat /\ MailCap \in Nat \ {0}
ASSUME SetsAssumption ==
  /\ Registered \subseteq Users
  /\ DelayedJobLoaded \in BOOLEAN
  /\ Faults \subseteq {"probe", "mail", "crash"}

VARIABLES
  now,       \* the clock
  exists,    \* the servers rows that have not been destroyed
  heardAt,   \* servers.updated_at
  count,     \* servers.down_alert_count
  lastBeat,  \* when the agent last wrote the row (history)
  answering, \* the machines that answer pings
  alertsOn,  \* the domain_users with alerts set
  cronAt,    \* the next server jobs/server_status.rb enqueues, 0 when not running
  queue,     \* the Resque queue server_status
  job,       \* the jobs; an idle one keeps what its last run did
  mails      \* mails[s][u]: alarms sent to u about s since its last heartbeat (history)

vars == <<now, exists, heardAt, count, lastBeat, answering, alertsOn, cronAt,
          queue, job, mails>>

Running == {"probe", "back", "mark", "report", "notify", "restore"}

Job == [st: {"idle", "queued"} \cup Running,
        srv: Servers,                \* the argument of the job
        seenAt: 0..MaxTime,          \* updated_at as loaded; time_at_start later
        inMemory: 0..MaxTime,        \* updated_at of the job's own server object
        seenCount: Nat,              \* down_alert_count as loaded
        loadedAt: 0..MaxTime,        \* when the row was loaded (history)
        convicted: BOOLEAN,          \* the vote was lost (history)
        downtime: BOOLEAN,           \* this run created a server_downtimes row
        on: SUBSET Users,            \* the users with alerts set when they were loaded
        next: 1..(NumUsers + 1),     \* the next user of the loop
        notice: [Users -> {"none", "mail", "row"}]]

Fresh(s) ==
  [st |-> "queued", srv |-> s, seenAt |-> 0, inMemory |-> 0, seenCount |-> 0,
   loadedAt |-> 0, convicted |-> FALSE, downtime |-> FALSE, on |-> {}, next |-> 1,
   notice |-> [u \in Users |-> "none"]]

\* The columns of servers the workers write and that mass assignment lets
\* through (attr_accessible); the others are dropped with a log line.
Accessible_WithCount == {"down_alert_count"}
Accessible == {}

Stale(s, t) == t - heardAt[s] > StaleAfter

----------------------------------------------------------------------------
Init ==
  /\ now = 0
  /\ exists = Servers
  /\ heardAt = [s \in Servers |-> 0]
  /\ count = [s \in Servers |-> 0]
  /\ lastBeat = [s \in Servers |-> 0]
  /\ answering = Servers
  /\ alertsOn = Users
  /\ cronAt = 0
  /\ queue = <<>>
  /\ job = [j \in Jobs |-> [Fresh(1) EXCEPT !.st = "idle"]]
  /\ mails = [s \in Servers |-> [u \in Users |-> 0]]

----------------------------------------------------------------------------
\* The surroundings.

Tick ==
  /\ now < MaxTime
  /\ now' = now + 1
  /\ UNCHANGED <<exists, heardAt, count, lastBeat, answering, alertsOn, cronAt, queue, job, mails>>

Fail(s) ==
  /\ s \in answering
  /\ answering' = answering \ {s}
  /\ UNCHANGED <<now, exists, heardAt, count, lastBeat, alertsOn, cronAt, queue, job, mails>>

Recover(s) ==
  /\ s \in Servers \ answering
  /\ answering' = answering \cup {s}
  /\ UNCHANGED <<now, exists, heardAt, count, lastBeat, alertsOn, cronAt, queue, job, mails>>

\* The agent posts statistics that differ from the stored ones.  A post that
\* changes no column issues no UPDATE, so it leaves updated_at as it is.
Heartbeat(s) ==
  /\ s \in exists
  /\ heardAt' = [heardAt EXCEPT ![s] = now]
  /\ lastBeat' = [lastBeat EXCEPT ![s] = now]
  /\ mails' = [mails EXCEPT ![s] = [u \in Users |-> 0]]
  /\ UNCHANGED <<now, exists, count, answering, alertsOn, cronAt, queue, job>>

\* ServersController#update: an edit refreshes updated_at like a heartbeat.
EditServer(s) ==
  /\ s \in exists
  /\ heardAt' = [heardAt EXCEPT ![s] = now]
  /\ UNCHANGED <<now, exists, count, lastBeat, answering, alertsOn, cronAt, queue, job, mails>>

\* ServersController#destroy; jobs in flight keep their server object.
DestroyServer(s) ==
  /\ s \in exists
  /\ exists' = exists \ {s}
  /\ UNCHANGED <<now, heardAt, count, lastBeat, answering, alertsOn, cronAt, queue, job, mails>>

\* UserManagementController#toggle_alerts.
ToggleAlerts(u) ==
  /\ alertsOn' = IF u \in alertsOn THEN alertsOn \ {u} ELSE alertsOn \cup {u}
  /\ UNCHANGED <<now, exists, heardAt, count, lastBeat, answering, cronAt, queue, job, mails>>

----------------------------------------------------------------------------
\* jobs/server_status.rb, run by cron: one job per server, in id order.

CronStart ==
  /\ cronAt = 0
  /\ cronAt' = 1
  /\ UNCHANGED <<now, exists, heardAt, count, lastBeat, answering, alertsOn, queue, job, mails>>

AdvanceCron_PastEnd == cronAt' = cronAt + 1
AdvanceCron_FirstOnly == cronAt' = 0
AdvanceCron == cronAt' = IF cronAt < NumServers THEN cronAt + 1 ELSE 0

CronSkip ==
  /\ cronAt > 0 /\ cronAt \notin exists
  /\ AdvanceCron
  /\ UNCHANGED <<now, exists, heardAt, count, lastBeat, answering, alertsOn, queue, job, mails>>

CronEnqueue(j) ==
  /\ cronAt > 0 /\ cronAt \in exists
  /\ job[j].st = "idle" /\ \A k \in Jobs : job[k].st = "idle" => j <= k
  /\ AdvanceCron
  /\ queue' = Append(queue, j)
  /\ job' = [job EXCEPT ![j] = Fresh(cronAt)]
  /\ UNCHANGED <<now, exists, heardAt, count, lastBeat, answering, alertsOn, mails>>

----------------------------------------------------------------------------
\* ServerStatusWorker.perform.

Become(j, r) == job' = [job EXCEPT ![j] = r]
RowUntouched == UNCHANGED <<exists, heardAt, count, lastBeat>>
World == <<now, answering, alertsOn, cronAt>>

\* A worker takes the oldest job and loads the row.  A destroyed server is
\* RecordNotFound, which fails the job; a row that is fresh, or whose alert
\* count is used up, ends it.
Perform(j) ==
  LET s == job[j].srv IN
  /\ queue # <<>> /\ j = Head(queue)
  /\ Cardinality({k \in Jobs : job[k].st \in Running}) < NumWorkers
  /\ queue' = Tail(queue)
  /\ IF s \in exists /\ Stale(s, now) /\ count[s] <= 3
     THEN Become(j, [job[j] EXCEPT !.st = "probe", !.seenAt = heardAt[s], !.inMemory = heardAt[s],
                                   !.seenCount = count[s], !.loadedAt = now])
     ELSE Become(j, [job[j] EXCEPT !.st = "idle"])
  /\ RowUntouched /\ UNCHANGED <<World, mails>>

\* What the pings of a vote show of machine s: whether it answers, and with
\* faults that diagnostic hosts time out or fail.
Shown(s) ==
  {IF s \in answering THEN "reply" ELSE "loss"}
    \cup (IF "probe" \in Faults THEN {"trouble"} ELSE {})

\* The vote as one step, with the promise of module Vote that PingVote
\* implements: any verdict the evidence warrants.
Vote(j, verdict) ==
  /\ job[j].st = "probe"
  /\ Founded(verdict, Shown(job[j].srv))
  /\ Become(j, [job[j] EXCEPT
       !.st = CASE verdict = "up" -> "back" [] verdict = "down" -> "mark" [] OTHER -> "idle",
       !.convicted = (verdict = "down")])
  /\ RowUntouched /\ UNCHANGED <<World, queue, mails>>

\* Write the alert count n with update_attributes: a protected column is
\* dropped, leaving nothing to save; otherwise the save also sets updated_at.
WriteCount(j, n, after) ==
  LET s == job[j].srv IN
  /\ IF "down_alert_count" \in Accessible /\ n # job[j].seenCount
     THEN /\ Become(j, [job[j] EXCEPT !.st = after, !.inMemory = now])
          /\ count' = IF s \in exists THEN [count EXCEPT ![s] = n] ELSE count
          /\ heardAt' = IF s \in exists THEN [heardAt EXCEPT ![s] = now] ELSE heardAt
     ELSE /\ Become(j, [job[j] EXCEPT !.st = after])
          /\ UNCHANGED <<count, heardAt>>
  /\ UNCHANGED <<exists, lastBeat>>

\* The vote was won: with a positive count, reset it and tell the users with
\* alerts set that the server is back.
BackOnline(j) ==
  LET s == job[j].srv IN
  /\ job[j].st = "back"
  /\ WriteCount(j, 0, "idle")
  /\ mails' = IF job[j].seenCount > 0
              THEN [mails EXCEPT ![s] = [u \in Users |-> IF u \in alertsOn \cap Registered
                                                         THEN 0 ELSE @[u]]]
              ELSE mails
  /\ UNCHANGED <<World, queue>>

\* The vote was lost: count the alert.
Mark(j) ==
  /\ job[j].st = "mark"
  /\ WriteCount(j, job[j].seenCount + 1, "report")
  /\ UNCHANGED <<World, queue, mails>>

\* Server#ping, #traceroute and #mtr call delay on the log row they create,
\* which is a NoMethodError without delayed_job.
Diagnosed == DelayedJobLoaded

\* Order the diagnostics, whose errors end the job (line 113), create the
\* downtime row and load the users.
Report_AlarmFirst(j) ==
  /\ job[j].st = "report"
  /\ Become(j, [job[j] EXCEPT !.st = "notify", !.on = alertsOn])
  /\ RowUntouched /\ UNCHANGED <<World, queue, mails>>

Report(j) ==
  /\ job[j].st = "report"
  /\ IF Diagnosed
     THEN Become(j, [job[j] EXCEPT !.st = "notify", !.downtime = TRUE, !.on = alertsOn])
     ELSE Become(j, [job[j] EXCEPT !.st = "idle"])
  /\ RowUntouched /\ UNCHANGED <<World, queue, mails>>

\* The user at the cursor has alerts set: mail (and, with a phone, text) him.
\* The log line after it reads `id`, which a class does not have: the job
\* ends there, as it does when the delivery fails.  (The test of the count
\* before the mail repeats the one the row was loaded under.)
MailUser_AlertsIgnored(j) ==
  LET s == job[j].srv  u == job[j].next IN
  /\ job[j].st = "notify" /\ u \in Registered
  /\ \/ /\ Become(j, [job[j] EXCEPT !.st = "idle", !.notice[u] = "mail"])
        /\ mails' = [mails EXCEPT ![s][u] = IF @ < MailCap THEN @ + 1 ELSE @]
     \/ /\ "mail" \in Faults
        /\ Become(j, [job[j] EXCEPT !.st = "idle"])
        /\ UNCHANGED mails
  /\ RowUntouched /\ UNCHANGED <<World, queue>>

MailUser(j) ==
  LET s == job[j].srv  u == job[j].next IN
  /\ job[j].st = "notify" /\ u \in job[j].on \cap Registered
  /\ \/ /\ Become(j, [job[j] EXCEPT !.st = "idle", !.notice[u] = "mail"])
        /\ mails' = [mails EXCEPT ![s][u] = IF @ < MailCap THEN @ + 1 ELSE @]
     \/ /\ "mail" \in Faults
        /\ Become(j, [job[j] EXCEPT !.st = "idle"])
        /\ UNCHANGED mails
  /\ RowUntouched /\ UNCHANGED <<World, queue>>

\* A user without alerts gets a triggered_alerts row; a domain_users row
\* without a user is passed over.
PassUser(j) ==
  LET u == job[j].next IN
  /\ job[j].st = "notify" /\ u \in Users \ (job[j].on \cap Registered)
  /\ Become(j, [job[j] EXCEPT !.next = u + 1,
                              !.notice[u] = IF u \in Registered THEN "row" ELSE @])
  /\ RowUntouched /\ UNCHANGED <<World, queue, mails>>

EndOfUsers(j) ==
  /\ job[j].st = "notify" /\ job[j].next > NumUsers
  /\ Become(j, [job[j] EXCEPT !.st = "restore"])
  /\ RowUntouched /\ UNCHANGED <<World, queue, mails>>

\* server.updated_at = time_at_start; server.save.  Nothing is saved when the
\* object's updated_at is still the one that was loaded.
Restore(j) ==
  LET s == job[j].srv IN
  /\ job[j].st = "restore"
  /\ heardAt' = IF s \in exists /\ job[j].inMemory # job[j].seenAt
                THEN [heardAt EXCEPT ![s] = job[j].seenAt] ELSE heardAt
  /\ Become(j, [job[j] EXCEPT !.st = "idle"])
  /\ UNCHANGED <<World, exists, count, lastBeat, queue, mails>>

\* A worker process dies.  Its job was popped from the queue and is lost.
Crash(j) ==
  /\ "crash" \in Faults /\ job[j].st \in Running
  /\ Become(j, [job[j] EXCEPT !.st = "idle"])
  /\ RowUntouched /\ UNCHANGED <<World, queue, mails>>

\* A worker goes on with the job it took.
Work(j) ==
  \/ \E v \in {"up", "down", "raised"} : Vote(j, v)
  \/ BackOnline(j) \/ Mark(j) \/ Report(j)
  \/ MailUser(j) \/ PassUser(j) \/ EndOfUsers(j) \/ Restore(j)

JobStep(j) == Perform(j) \/ Work(j)

CronStep == CronStart \/ CronSkip \/ \E j \in Jobs : CronEnqueue(j)

ServerStep(s) ==
  Fail(s) \/ Recover(s) \/ Heartbeat(s) \/ EditServer(s) \/ DestroyServer(s)

Surroundings ==
  \/ Tick
  \/ \E s \in Servers : ServerStep(s)
  \/ \E u \in Users : ToggleAlerts(u)

Next ==
  \/ Surroundings
  \/ CronStep
  \/ \E j \in Jobs : JobStep(j) \/ Crash(j)

\* Time passes, cron keeps running the script and the Resque workers keep
\* working; no agent, user or fault is ever forced to act.
Fairness == WF_vars(Tick) /\ WF_vars(CronStep) /\ \A j \in Jobs : WF_vars(JobStep(j))

Spec == Init /\ [][Next]_vars /\ Fairness

----------------------------------------------------------------------------
TypeOK ==
  /\ now \in 0..MaxTime
  /\ exists \subseteq Servers
  /\ heardAt \in [Servers -> 0..MaxTime]
  /\ count \in [Servers -> Nat]
  /\ lastBeat \in [Servers -> 0..MaxTime]
  /\ answering \subseteq Servers
  /\ alertsOn \subseteq Users
  /\ cronAt \in 0..NumServers
  /\ queue \in Seq(Jobs)
  /\ job \in [Jobs -> Job]
  /\ mails \in [Servers -> [Users -> 0..MailCap]]

\* No job ever hides a heartbeat: whatever jobs of the same server overlap
\* with it, updated_at is never older than the agent's last post (line 88
\* writes a timestamp read before the vote and the mails).
HeartbeatKept == \A s \in Servers : heardAt[s] >= lastBeat[s]

Mailed(j) == {u \in Users : job[j].notice[u] = "mail"}

\* A job mails an alarm only after it found the row silent, lost the vote and
\* recorded the downtime the uptime page counts (lines 15, 58, 64, 70).
AlarmEarned ==
  \A j \in Jobs :
    Mailed(j) # {} =>
      /\ job[j].loadedAt - job[j].seenAt > StaleAfter
      /\ job[j].convicted
      /\ job[j].downtime

\* One run mails at most the first user with alerts set, never a user who had
\* them off, and gives no triggered alert to anyone it mailed (lines 65-86).
\* This is what the code does; the pages offer alerts to every user.
FirstListenerOnly ==
  \A j \in Jobs : \A u \in Mailed(j) :
    /\ u \in job[j].on \cap Registered
    /\ \A v \in job[j].on \cap Registered : v >= u
    /\ \A v \in Users : v > u => job[j].notice[v] = "none"

\* The case of module Outage that a job with record r works on.
Stage(r) ==
  CASE r.st = "probe" -> "suspected"
    [] r.st \in {"mark", "report"} -> "convicted"
    [] r.st = "notify" -> "recorded"
    [] OTHER -> "closed"

CaseOf(r) ==
  [stage |-> Stage(r),
   srv |-> IF Stage(r) = "closed" THEN 1 ELSE r.srv,
   audience |-> IF Stage(r) = "recorded"
                THEN {u \in r.on \cap Registered : r.notice[u] # "mail"} ELSE {}]

O == INSTANCE Outage WITH
       Cases <- Jobs, known <- exists, sign <- heardAt, listening <- alertsOn \cap Registered,
       case <- [j \in Jobs |-> CaseOf(job[j])],
       alarmed <- {p \in Servers \X Users : mails[p[1]][p[2]] > 0}

\* Queue, overlapping jobs, faults and the loop over the users implement the
\* promise of module Outage: only agents and edits move updated_at, and each
\* run alarms only users of the audience it recorded, nobody twice (the whole
\* worker, and lines 16-17 of server.rb, which protect the row).
DetectsOutages == O!Spec

Dead(s) == s \in exists /\ Stale(s, now) /\ s \notin answering
Listeners == alertsOn \cap Registered
Alarmed(s) == \E u \in Users : mails[s][u] > 0

\* A server that stays silent and unreachable is eventually alarmed to
\* someone while anyone listens (the whole chain cron, queue, vote, mail).
OutageAlarmed ==
  \A s \in Servers : Dead(s) ~> (Alarmed(s) \/ ~Dead(s) \/ Listeners = {})
=============================================================================
