----------------------------- MODULE UrlMonitors -----------------------------
(***************************************************************************)
(* The URL monitors of one domain: users add, edit and destroy them        *)
(* (UrlMonitorsController), cron enqueues a URLMonitorWorker job for each  *)
(* (jobs/url_monitor.rb), and the job fetches the page, stores the answer, *)
(* logs it and mails the users (workers/url_monitor_worker.rb).            *)
(*                                                                         *)
(* A job keeps the row it loaded.  ActiveRecord writes only the columns    *)
(* that differ from it, so jobs of one monitor that overlap can leave a    *)
(* row that no single answer explains.                                     *)
(***************************************************************************)
EXTENDS Integers, Sequences, FiniteSets

CONSTANTS
  NumMonitors,  \* bound: monitors that exist or are held by a job at a time
  NumUsers,     \* ids of domain_users rows, in the order they are loaded
  NumJobs,      \* bound: jobs queued or running at a time
  NumWorkers,   \* Resque worker processes
  Limit,        \* domains.server_limit; url_monitor_limit is read nowhere
  MaxAdding,    \* bound: requests for new monitors under way at a time
  OkPages,      \* pages a site answers with status 200
  OddPages,     \* pages it answers with another status of success, 201 to 207
  Unmailable    \* domain_users rows whose user is gone, or whose mail is refused

Monitors == 1..NumMonitors
Users == 1..NumUsers
Jobs == 1..NumJobs
Pages == OkPages \cup OddPages

ASSUME SizesAssumption ==
  /\ NumMonitors \in Nat \ {0} /\ NumUsers \in Nat /\ NumJobs \in Nat /\ NumWorkers \in Nat
  /\ Limit \in Nat \ {0} /\ MaxAdding \in Nat \ {0}
ASSUME SetsAssumption ==
  /\ Unmailable \subseteq Users /\ OkPages \cap OddPages = {}
  /\ {"none", "error", "slow"} \cap Pages = {}

\* RestClient raises for every status above 207 and follows the redirections,
\* so a page that is returned is 200 or odd, and 302 is never seen.
StatusOf(page) == IF page \in OkPages THEN "ok" ELSE "odd"
Statuses == {"none", "ok", "odd"}

\* What a user types into the field, and what verify_http, in the transaction
\* of the save, makes of it: "https://x" becomes "http://https://x".
Typed == {"bare", "http", "https"}
VerifyHttp(url) == IF url = "https" THEN "mangled" ELSE "http"

Row == [url: {"http", "mangled"},
        run: Pages \cup {"none"},  \* current_run
        status: Statuses]          \* current_status

\* What fetching a monitor's URL gives: a page, an error (a status that raises,
\* a refused connection, a name nobody knows), or nothing until 4 s are over or
\* nearly over.
Answers == Pages \cup {"error", "slow"}

VARIABLES
  site,     \* the sites the monitors are about
  monitor,  \* the url_monitors table, as a function on the ids in it
  others,   \* how many monitors the domain has whose jobs are not followed here
  adding,   \* how many requests for a new monitor have passed check_limits
  cronAt,   \* the next monitor jobs/url_monitor.rb enqueues, 0 when not running
  queue,    \* the Resque queue url_monitor
  job,      \* the jobs
  raced     \* monitors whose row had changed since the job that saved last loaded it (history)

vars == <<site, monitor, others, adding, cronAt, queue, job, raced>>
Table == <<monitor, raced>>
Count == <<others, adding>>
Work == <<cronAt, queue, job>>

Running == {"get", "save", "log", "mail"}

Job == [st: {"idle", "queued"} \cup Running,
        id: Monitors,                   \* the argument of the job
        loaded: Row,                    \* the row it found, until the answer is saved
        page: Pages \cup {"none"},      \* the answer
        logged: Statuses,               \* the status of its row in url_monitor_logs
        mailed: SUBSET Users]           \* the users it has mailed

NoRow == [url |-> "http", run |-> "none", status |-> "none"]
Fresh(m) == [st |-> "queued", id |-> m, loaded |-> NoRow, page |-> "none",
             logged |-> "none", mailed |-> {}]
Idle == [Fresh(1) EXCEPT !.st = "idle"]

First(S) == CHOOSE u \in S : \A v \in S : u <= v

----------------------------------------------------------------------------
Init ==
  /\ site = [m \in Monitors |-> "error"]
  /\ monitor = [m \in {} |-> NoRow]
  /\ others = 0 /\ adding = 0
  /\ cronAt = 0
  /\ queue = <<>>
  /\ job = [j \in Jobs |-> Idle]
  /\ raced = {}

----------------------------------------------------------------------------
\* The sites and the users.

SiteChanges(m, a) ==
  /\ m \in DOMAIN monitor /\ a # site[m]
  /\ site' = [site EXCEPT ![m] = a]
  /\ UNCHANGED <<Table, Count, Work>>

Total == Cardinality(DOMAIN monitor) + others

\* before_filter check_limits counts the rows; Create inserts one later.
CheckLimits_Full ==
  /\ adding < MaxAdding /\ Total <= Limit
  /\ adding' = adding + 1
  /\ UNCHANGED <<site, Table, others, Work>>

CheckLimits ==
  /\ adding < MaxAdding /\ Total < Limit
  /\ adding' = adding + 1
  /\ UNCHANGED <<site, Table, others, Work>>

\* UrlMonitorsController#create.  An id a job holds is not used again.
Create(m, url) ==
  /\ adding > 0
  /\ m \notin DOMAIN monitor /\ \A j \in Jobs : job[j].st # "idle" => job[j].id # m
  /\ monitor' = [k \in DOMAIN monitor \cup {m} |->
                   IF k = m THEN [NoRow EXCEPT !.url = VerifyHttp(url)] ELSE monitor[k]]
  /\ raced' = raced \ {m}
  /\ site' \in {[site EXCEPT ![m] = a] : a \in Answers}
  /\ adding' = adding - 1
  /\ UNCHANGED <<others, Work>>

CreateOther ==
  /\ adding > 0
  /\ adding' = adding - 1 /\ others' = others + 1
  /\ UNCHANGED <<site, Table, Work>>

\* UrlMonitorsController#update.  The answer stored for the old URL stays.
Update(m, url) ==
  /\ m \in DOMAIN monitor
  /\ monitor' = [monitor EXCEPT ![m].url = VerifyHttp(url)]
  /\ UNCHANGED <<site, raced, Count, Work>>

\* UrlMonitorsController#destroy.  The rows of url_monitor_logs stay.
Destroy(m) ==
  /\ m \in DOMAIN monitor
  /\ monitor' = [k \in DOMAIN monitor \ {m} |-> monitor[k]]
  /\ raced' = raced \ {m}
  /\ UNCHANGED <<site, Count, Work>>

DestroyOther ==
  /\ others > 0
  /\ others' = others - 1
  /\ UNCHANGED <<site, Table, adding, Work>>

----------------------------------------------------------------------------
\* jobs/url_monitor.rb, run by cron: one job per monitor, in the order of ids.

AdvanceCron_PastEnd == cronAt' = cronAt + 1
AdvanceCron == cronAt' = IF cronAt < NumMonitors THEN cronAt + 1 ELSE 0

CronStart ==
  /\ cronAt = 0
  /\ cronAt' = 1
  /\ UNCHANGED <<site, Table, Count, queue, job>>

CronSkip ==
  /\ cronAt > 0 /\ cronAt \notin DOMAIN monitor
  /\ AdvanceCron
  /\ UNCHANGED <<site, Table, Count, queue, job>>

CronEnqueue(j) ==
  /\ cronAt \in DOMAIN monitor
  /\ job[j].st = "idle" /\ \A k \in Jobs : job[k].st = "idle" => j <= k
  /\ AdvanceCron
  /\ queue' = Append(queue, j)
  /\ job' = [job EXCEPT ![j] = Fresh(cronAt)]
  /\ UNCHANGED <<site, Table, Count>>

----------------------------------------------------------------------------
\* URLMonitorWorker.perform.

Become(j, r) == job' = [job EXCEPT ![j] = r]
Outside == UNCHANGED <<site, Count, cronAt>>

\* A worker takes the oldest job and loads the row; a destroyed monitor is
\* RecordNotFound, outside the rescue clause, and the job fails.
Perform(j) ==
  LET m == job[j].id IN
  /\ queue # <<>> /\ j = Head(queue) /\ job[j].st = "queued"
  /\ Cardinality({k \in Jobs : job[k].st \in Running}) < NumWorkers
  /\ queue' = Tail(queue)
  /\ Become(j, IF m \in DOMAIN monitor
               THEN [Fresh(m) EXCEPT !.st = "get", !.loaded = monitor[m]] ELSE Idle)
  /\ Outside /\ UNCHANGED Table

\* RestClient.get.  An exception is rescued: nothing is stored, logged or
\* mailed.  "http://https://x" names a host nobody knows.
Get(j) ==
  LET a == site[job[j].id] IN
  /\ job[j].st = "get"
  /\ IF a = "error" \/ job[j].loaded.url = "mangled" THEN Become(j, Idle)
     ELSE \E page \in Pages :
            /\ a \in {page, "slow"}
            /\ Become(j, [job[j] EXCEPT !.st = "save", !.loaded.url = "http", !.page = page])
  /\ Outside /\ UNCHANGED <<Table, queue>>

\* update_attributes writes the columns that differ from the row as loaded,
\* and no row when the monitor is gone.  verify_http, called after it, finds
\* nothing to do: every URL that was saved has "http://" in it.
Written_RunOnly(m, r, page) == [monitor[m] EXCEPT !.run = page]

Written(m, r, page) ==
  [monitor[m] EXCEPT !.run = IF page # r.run THEN page ELSE @,
                     !.status = IF StatusOf(page) # r.status THEN StatusOf(page) ELSE @]

Save(j) ==
  LET m == job[j].id  r == job[j].loaded  page == job[j].page IN
  /\ job[j].st = "save"
  /\ Become(j, [job[j] EXCEPT !.st = "log", !.loaded = NoRow])
  /\ IF m \in DOMAIN monitor
     THEN /\ monitor' = [monitor EXCEPT ![m] = Written(m, r, page)]
          /\ raced' = IF monitor[m].run = r.run /\ monitor[m].status = r.status
                      THEN raced \ {m} ELSE raced \cup {m}
     ELSE UNCHANGED Table
  /\ Outside /\ UNCHANGED queue

\* UrlMonitorLog.create, and the test of the status.
Log_AfterTest(j) ==
  LET status == StatusOf(job[j].page) IN
  /\ job[j].st = "log"
  /\ Become(j, IF status = "odd" THEN [job[j] EXCEPT !.st = "mail"] ELSE Idle)
  /\ Outside /\ UNCHANGED <<Table, queue>>

Log(j) ==
  LET status == StatusOf(job[j].page) IN
  /\ job[j].st = "log"
  /\ Become(j, IF status = "odd" THEN [job[j] EXCEPT !.st = "mail", !.logged = status] ELSE Idle)
  /\ Outside /\ UNCHANGED <<Table, queue>>

\* s.domain.domain_users, active or not, and whether they want alerts or not:
\* the mail, and the text message if the user has a phone.  A user who is gone
\* or a delivery that fails is rescued outside the loop and ends it.
MailUser_PassOver(j) ==
  LET todo == Users \ (job[j].mailed \cup Unmailable) IN
  /\ job[j].st = "mail"
  /\ Become(j, IF todo = {} THEN Idle ELSE [job[j] EXCEPT !.mailed = @ \cup {First(todo)}])
  /\ Outside /\ UNCHANGED <<Table, queue>>

MailUser(j) ==
  LET u == First(Users \ job[j].mailed)
      rest == Users \ (job[j].mailed \cup {u}) IN
  /\ job[j].st = "mail"
  /\ Become(j, IF u \in Unmailable \/ rest = {} THEN Idle
               ELSE [job[j] EXCEPT !.mailed = @ \cup {u}])
  /\ Outside /\ UNCHANGED <<Table, queue>>

\* Timeout::timeout(4) raises where the job is, when the site or the mails have
\* taken up the time.  `rescue Exception` treats it as an error of the site.
Cut(j) ==
  /\ \/ job[j].st \in {"get", "save", "log"} /\ site[job[j].id] = "slow"
     \/ job[j].st = "mail"
  /\ Become(j, Idle)
  /\ Outside /\ UNCHANGED <<Table, queue>>

JobStep(j) ==
  Perform(j) \/ Get(j) \/ Save(j) \/ Log(j) \/ MailUser(j) \/ Cut(j)

CronStep == CronStart \/ CronSkip \/ \E j \in Jobs : CronEnqueue(j)

UserStep ==
  \/ CheckLimits \/ CreateOther \/ DestroyOther
  \/ \E m \in Monitors :
       Destroy(m) \/ \E url \in Typed : Create(m, url) \/ Update(m, url)

Next ==
  \/ \E m \in Monitors, a \in Answers : SiteChanges(m, a)
  \/ UserStep
  \/ CronStep
  \/ \E j \in Jobs : JobStep(j)

\* Cron keeps running the script and the Resque workers keep working; sites
\* and users are not forced to do anything.
Fairness == WF_vars(CronStep) /\ \A j \in Jobs : WF_vars(JobStep(j))

Spec == Init /\ [][Next]_vars /\ Fairness

----------------------------------------------------------------------------
TypeOK ==
  /\ site \in [Monitors -> Answers]
  /\ DOMAIN monitor \subseteq Monitors /\ monitor \in [DOMAIN monitor -> Row]
  /\ others \in Nat /\ adding \in 0..MaxAdding
  /\ cronAt \in 0..NumMonitors
  /\ queue \in Seq(Jobs)
  /\ job \in [Jobs -> Job]
  /\ raced \subseteq Monitors

\* Requests that pass check_limits together exceed the limit by no more than
\* their number less one (lines 88-93 of the controller).
MonitorsBounded == Total <= Limit - 1 + MaxAdding

\* Only jobs that overlap can leave a row whose page and status belong to two
\* different answers: one of them wrote the page alone, because the status was
\* the one it had loaded (line 24).
RowWhole ==
  \A m \in DOMAIN monitor \ raced :
    monitor[m].status = IF monitor[m].run = "none" THEN "none" ELSE StatusOf(monitor[m].run)

\* The check of module Watch that a job with record r carries out.
CheckOf(r) ==
  CASE r.st = "get" -> [stage |-> "asking", about |-> r.id, saw |-> r.loaded]
    [] r.st = "save" -> [stage |-> "heard", about |-> r.id, saw |-> r.loaded, page |-> r.page]
    [] r.st = "log" -> [stage |-> "kept", about |-> r.id, page |-> r.page]
    [] r.st = "mail" -> [stage |-> "telling", about |-> r.id, page |-> r.page,
                         logged |-> r.logged, told |-> r.mailed]
    [] OTHER -> [stage |-> "closed"]

W == INSTANCE Watch WITH
       Slots <- Jobs, row <- monitor, check <- [j \in Jobs |-> CheckOf(job[j])]

\* Cron, queue, workers, limits and timeouts implement the checks module Watch
\* promises: an answer is kept whole in a row nobody else has written, logged
\* before anybody is told, told only when it is odd, to the users in order, and
\* nothing else touches a row (url_monitor_worker.rb, lines 7-51).
WatchesSites == W!Spec

\* Whoever was mailed was mailed about an odd status that is in the log, and
\* nobody before him in the list was passed over (lines 32-42), wherever the
\* timeout, an error or a destroyed monitor ended the job.
AlarmsInOrder ==
  \A j \in Jobs :
    job[j].mailed # {} =>
      /\ job[j].logged = StatusOf(job[j].page) /\ job[j].page \in OddPages
      /\ \A u \in job[j].mailed, v \in Users \ job[j].mailed : u < v

\* A monitor of a site that answers in time, with pages of one status.
Steady(m, status) ==
  /\ m \in DOMAIN monitor /\ monitor[m].url = "http"
  /\ site[m] \in Pages /\ StatusOf(site[m]) = status

\* In spite of lost updates that status is stored in the end.
StatusSettles ==
  \A m \in Monitors, status \in {"ok", "odd"} :
    Steady(m, status) ~> (~Steady(m, status) \/ monitor[m].status = status)

\* The mail "has responded with status": a site that keeps failing is mailed
\* to somebody in the domain.
Failing(m) ==
  /\ m \in DOMAIN monitor /\ monitor[m].url = "http" /\ site[m] = "error"
  /\ Users \ Unmailable # {}

FailureNoticed ==
  \A m \in Monitors :
    Failing(m) ~> (~Failing(m) \/ \E j \in Jobs : job[j].id = m /\ job[j].mailed # {})
=============================================================================
