# servly: a verification of its monitoring core

servly is a hosted server monitor: a Rails 3 application with Resque workers,
cron scripts and a Python agent.  Agents post statistics of the machines they
run on; cron and the workers notice machines that fall silent or cross a
threshold and alarm people; people read the alarms in an inbox, restricted to
the groups of servers they may see.

This directory holds TLA+ models of that core, TLC configurations that check
them on small instances, and proofs, checked by TLAPS, of the safety properties
for every value of the constants.  All definitions are translated from the
source; `PROJECT.json` maps each of them to the lines it stands for.

## 1. Inventory

### The parts, their state and their operations

| Part | State (tables, columns, queues) | Operations | Module |
|---|---|---|---|
| Reachability vote | the shared Array `retvals`, two threads per diagnostic host | ping, ping over SSH, time out, append, join, decide (`workers/server_status_worker.rb:17-58`) | `PingVote`, implementing `Vote` |
| Outage detection and alarms | `servers.updated_at`, `.down_alert_count`, `server_downtimes`, `domain_users.alerts`, the queue `server_status` | cron enqueues, a worker loads, votes, marks, reports, mails, restores (`jobs/server_status.rb`, `workers/server_status_worker.rb`) | `ServerStatus`, implementing `Outage` |
| Resque | the lists `server_status` and all others, workers that listen to `*` | poll, take, work (`lib/tasks/resque.rake`, `config/deploy.rb`) | `Queues` |
| Agent posts | `servers`, `server_services.status`, `domains.server_limit` | `StatusController#update` | `StatusUpdate` |
| Servers and attached services | the same tables | `ServersController#create`, `#update`, `#destroy`, `ServerServicesController#create`, `#destroy` | `StatusUpdate`, `ServerStatus` |
| Threshold alerts | `alerts`, the queue `alerts`, `triggered_alerts` | `jobs/alerts.rb`, `AlertWorker.perform`, `AlertsController` | `ThresholdAlerts`, implementing `Rounds` |
| Inbox | `triggered_alerts`, `domain_users.triggered_alert_id` | `TriggeredAlertsController#index`, `#new`, `#mark`, the badge `triggered_alert_count` | `Inbox` |
| Groups and permissions | `groups`, `group_servers`, `domain_user_group_permissions` | add and remove a server, list, permit, revoke, destroy a group | `Inbox` (partly) |
| Purge | six tables of logs | `jobs/purge_old_logs.rb` | `Inbox` (`triggered_alerts` only) |
| Users of a domain | `domain_users` | `toggle_activation`, `toggle_alerts`, `destroy`, `verify_domain_user`, `verify_active` | `Accounts`, `ServerStatus` (`toggle_alerts`) |
| URL monitors | `url_monitors`, `url_monitor_logs`, the queue `url_monitor` | `URLMonitorWorker`, `UrlMonitorsController`, `verify_http` | `UrlMonitors`, implementing `Watch` |
| TCP services | `services`, `server_services.status`, the queue `tcp_services` | `TcpServicesWorker`, `ServicesController`, `ServerServicesController` | `TcpServices` |
| Provisioning | `domains`, `users`, `services` | `ApiController#add_user`, `#suspend_domain` | `Accounts` (partly) |
| Dashboard | `collective_stats`, the queue `dashboard` | `DashboardWorker`, `DashboardController#index` | `Dashboard` |
| Statistics and colours | columns of `servers` | `Server#*_color`, `server_uptime`, graphs | `Figures` (the colours) |
| Diagnostics | `diagnostic_logs` | `Server#ping`, `#mtr`, `#traceroute`, `DiagnosticLog#run` | `ServerStatus` (that ordering them raises) |
| Agent | none that matters | `agents/servly.py` posts | as the source of posts |
| Bandwidth estimate; views, mails, scripts; deployment | | | not modelled, see section 7 |

### How they interact

    agent --post--> StatusController --writes--> servers.updated_at, statistics
    cron --enqueue--> Resque queues --pop--> ServerStatusWorker, AlertWorker,
                        URLMonitorWorker, TcpServicesWorker, DashboardWorker
    ServerStatusWorker --reads/restores--> servers.updated_at
                       --vote--> PingVote threads --SSH--> diagnostic hosts
                       --mail or row--> users, triggered_alerts
    AlertWorker --reads--> alerts, servers, audience --mail and row--> users
    URLMonitorWorker --GET--> sites, --writes--> url_monitors --mail--> users
    TcpServicesWorker --connect--> machines, --writes--> server_services.status
    DashboardWorker --reads--> servers --writes--> collective_stats --> dashboard
    users --edit/destroy/toggle--> all of these tables, at any time
    TriggeredAlertsController --reads--> triggered_alerts, permissions
                              --writes--> domain_users.triggered_alert_id

Nothing takes a lock, and only the callbacks of a save share its transaction. 
Everything above interleaves call by call, and that is how the modules split a
handler into actions: at each call to the database, the network or the mail
server after which the code goes on with what it read.

### What is hard about it, and what makes each part correct

* **Vote.**  Threads append to an unsynchronized Array on JRuby (`.rvmrc`,
  `README.md:3` and the `Gemfile` name it): appends get lost or put back an old
  length.  Threads hang, time out and die.  Correct: a lost vote
  is founded on a real failure, a unanimous failure is always a lost vote, no
  verdict rests on part of the threads, and the job ends.
* **Outage detection.**  A job holds a row as it was minutes ago; cron enqueues
  the same server again meanwhile; the agent may report at any moment; workers
  die.  Correct: no heartbeat is ever hidden, every alarm is earned, a lasting
  outage is alarmed.
* **Agent posts.**  Limit and existence are checked before the insert.  Correct:
  the limit and the duplicates exceed what is allowed by no more than the
  requests under way, a registered row gets its statistics, failures can be
  explained.
* **Threshold alerts.**  The run keeps an alert, servers and audience it read
  at three different times, and any mail may end it.  Correct: nobody is passed
  over or mailed out of turn, the inbox lacks at most one row, a lasting
  crossing reaches its audience.
* **Inbox.**  Pages in tabs grow old; alerts arrive; permissions, groups and
  servers go while rows that refer to them stay.  Correct: marking reads
  nothing the user was not shown and clears what he was.

* **URL monitors.**  A timeout is raised inside a rescue of `Exception`, at any
  point of a job; ActiveRecord writes the columns that differ from a row that
  may be stale.  Correct: a row mixes two answers only after jobs overlapped, a
  steady site's status is stored in the end, mails follow the log, the limit is
  passed by at most the racing requests.
* **TCP services.**  Jobs of one service overlap, hold rows as they loaded them
  and connect before they store; agents post statuses of the same rows; servers go
  and leave their rows.  Correct: a stored failure shows until something later
  replaces it, no wrong status lasts.
* **Accounts.**  What is counted or looked up is written later, and an account
  comes into being in three separate writes.  Correct: the package is exceeded
  by at most the toggles under way, nobody takes the owner's access, an
  activation has effect, duplicate rows are no more than the visits that raced.
* **Dashboard.**  Servers without figures break part of the sums, jobs store
  their rows out of order.  Correct: the figures settle, the page recovers.

`PROJECT.json` lists the hazards, each at its line with the properties that
watch it.

## 2. The modules

Each module declares CONSTANTS with named assumptions, one action per step of
a handler, `TypeOK`, its safety invariants and, where the code schedules
something, its liveness properties.  Operators called `X_Something` next to an
operator `X` are plausible mistakes in `X`: each property is known to fail when
one of them takes the place of the original.

### PingVote

One job from `pingecho` to the verdict.  `pc` is the job's own thread,
`phase`, `heard`, `pending` belong to the voting threads, `cells` and `len` are
the Array.  An append is two steps: `Read` picks the cell behind the current
length, `Store` fills it and publishes the new length.  This is what JRuby's
`RubyArray` does without synchronization, with one simplification: a resize
that would drop another thread's cell altogether is not modelled.  A timed
out SSH session votes 0 in its `rescue` clause and then 1 in the code after it
(`VotesOf`).  `pingecho` falls back to a ping whose result the next line throws
away (`logger` is not defined in a worker), so `PingEcho` has only the
TCP connection's outcome.

### Verdicts, Vote: what a vote promises

`Founded(v, evidence)` (module `Verdicts`) says which verdicts a job may reach on
what its pings found: undisturbed, the server is "up" only on an answer and
"down" only on a loss; a timeout, a failed session or the lack of a host can lead
to anything, also to no verdict at all.  `Vote` is the abstract vote:
evidence comes in, then one founded verdict falls.  `PingVote` implements it
(`FoundedVerdict == V!Spec`, `Connected`, `Evidence` and `Verdict` being the
mapping), threads, lost votes and timeouts included; and the action `Vote` of
`ServerStatus` takes its verdict under the same `Founded`, of what a machine in
the given state can show (`Shown`).  So what is shown of the one module is what
the other assumes.

### ServerStatus

Clock, machines, agents, `toggle_alerts`, cron, queue, workers and up to
`NumJobs` jobs at a time, also of the same server.  A job goes through
`Perform` (pop, load, test of silence), `Vote` (module `PingVote` in one step:
any founded verdict), `BackOnline` or `Mark`, `Report`, the loop over the
users (`MailUser`, `PassUser`, `EndOfUsers`) and `Restore`.  `WriteCount` is
`update_attributes(:down_alert_count => n)`: the column is not in
`attr_accessible`, so the assignment is dropped and nothing is saved.
`MailUser` ends the job, because the log line after the delivery evaluates
`id`, which a class does not have; the rescue clause on line 113 hides it.
`Crash` loses the popped job.  An agent's post that changes no column does not
refresh `updated_at`; such posts are no action here.  `Faults` says which of
failing probes, failing mails and crashes an instance has.

Histories: `lastBeat`, `mails`, and in the job `loadedAt`, `convicted`,
`notice`.

### Outage: what outage detection promises

The life of a server as its users see it, without queue, cron, workers or
columns: a machine reports or falls silent, a case against a silent one is opened
(`Suspect`), it is convicted or the case closed, a conviction is recorded with the
listeners of that moment, they are alarmed one by one, the case is closed.  In
particular: nobody is alarmed who did not listen at that moment, about a server
that was not silent when its case was opened, before the downtime is on record, or
twice in one case.  `Outage` lets a case end before all of its audience was alarmed,
and does not ask for it: that the code stops after the first one is no promise but
a disagreement with the pages (section 6).
`ServerStatus` implements it (`DetectsOutages == O!Spec`): each job is a case
(`CaseOf`, `Stage`), everything that goes on in the queue is a stutter.

### Queues

`ServerStatus` composed with the rest of Resque.  Workers poll the queues in
alphabetical order, so a `server_status` job is taken only when there is nothing
in `alerts`, `bandwidth_usage` and `dashboard`.  `ahead` is what waits there, at most
`Batch` jobs, `busy` how many workers those keep.  `Take` starts a job of a server
only when `ahead` is empty and a worker is left.

### Figures

The colours of `Server` as pure operators, used by `StatusUpdate` to say which
posts raise when the health is coloured, and when the page of a server
contradicts itself.  Percentages truncated to whole numbers are compared without
division (`AtLeast`).

### StatusUpdate

`StatusController#update` call by call (`Find`, `Gate`, `Load`, `Write`, `Recheck`,
`Create`, `Services`) next to users who create (check of the limit and insert
apart), edit and destroy servers and attach services.  `Server.update` is two
calls: it loads the row and then writes the columns that differ from what it loaded
(`Written`, what ActiveRecord does by default).  Posts that race may so leave a row
with columns of both.  That takes three different posts, more than the run has:
there a racing post at most loses what it had to say.  The proofs are for any posts.
Statistics are the columns whose colours can raise or contradict each other,
NULL until an agent has reported (`Unreported`); what agents post is a
parameter.  Service reports stand for one service of the domain.  Ids are reused
only when neither a row nor a request holds them: the database never reuses one,
and no property can tell.

### ThresholdAlerts

`jobs/alerts.rb` and `AlertWorker.perform` for the alerts of one domain.  A job
reads the alert and its window (`Perform`), the servers (`LoadServers`), the
audience (`LoadAudience`), and serves its plan pair by pair: mail, then row.
Figures are below, at or above the threshold.  Hours stand for minutes of the
day.  The audience is the domain, a team or one user; a team keeps members who
left the domain, and a single user is mailed although he left, as in the code.
The test `u.alerts` is left out of the model's guard because it is always true:
it is `has_many :alerts` of the user, not the switch on `domain_users`.  The audience
of a falling alert for a single user is empty, because its branch raises a
NameError before the mail (section 6).

### Rounds: what a threshold alert promises

An alert as its users see it, without cron, queue or workers: a round is opened
on a rule in force at that hour (`Open`), finds the servers beyond the threshold
(`Find`), then the people to tell (`Address`), and tells them pair by pair in order
(`Tell`), noting each one in the inbox before the next (`Note`).  It ends early only
with nobody to tell (`Drop`) or at a pair that cannot be told (`BreakOff`).
`ThresholdAlerts` implements it (`DeliversRounds == R!Spec`): each running job is
a round (`RoundOf`), the tables are its surroundings, and cron and the queue are
stutters.  `MailsInOrder` and `RunsComplete` say of the jobs' own state what
follows for it; they are proved.

### Inbox

The pages of `TriggeredAlertsController` in browser tabs.  A request is
`SetServers` (the filters) and then `Show` (action and layout, which renders
the badge); `Mark` follows a link whose id may be old.  `Page` is kaminari's
page of the ids in descending order; `Rows` pages twice for a restricted user,
as lines 37 and 42 do.  `Broken` is the `nil` that a permission for a destroyed
group, or a `group_servers` row for a destroyed server, leads to in
`g.group.id` and `s.id`.

The requests about groups and permissions come from pages that may be out of
date, and the controllers check little: `AddServer` and `Permit` also add rows for
what has been destroyed.  `AccessStep` is `check_server_num`, `PermissionStep` the
filters of the permissions' controller.  `Revoke` needs a link: `ListPermissions`
puts those of the groups that still exist into `links` (the page rescues the
others, and their links with them), where they stay until the page is left
(`LeavePage`).  So a permission for a destroyed group can be removed from a page
loaded before, and from no other; a user with one that no open page can remove
is `Stranded`.

Left out: the restriction is asked again for every row, here once in `Show`;
rows whose `Alert` is gone are listed with no text (layout); a user taken out of
the domain and taken in again gets a fresh `domain_users` row, which this module
does not model; groups exist from the start (one that nothing refers to stands
for one that has not been created); the badge counts on a page that has a page
number are not tracked.

### UrlMonitors

The monitors of one domain; those whose jobs are not followed are a number
(`others`).  `CheckLimits` is the `before_filter` and `Create` the insert that
follows it.  `verify_http` runs in the transaction of the save and puts
"http://" before every URL that has none: "https://x" becomes
"http://https://x" (`VerifyHttp`), which no request reaches.  A job goes
`Perform`, `Get`, `Save`, `Log`, `MailUser`.  `Written` writes a column only if it
differs from the row as loaded (ActiveRecord's partial updates).  `Cut` is the
timeout, raised wherever the job is when the site is slow or mails take their
time, and swallowed by `rescue Exception`.  RestClient raises for statuses above
207 and follows redirections, so the pages a job gets are "ok" (200) or "odd"
(201 to 207).  Response times are left out.

### Watch: what the monitoring of a site promises

The checks of sites as their owners see them, without cron, queue, workers, limits
and requests: a check is opened on a site's row (`Open`), hears the answer (`Hear`),
keeps it (`Keep`), logs it when it is odd (`Log`) and tells the users in order
(`Tell`); it is over, or broken off by a site that is slow or fails, an address that
is none, or while the users are told (`Close`).  `Kept` is its core: a row still as the
check found it takes the whole answer; of one that another check has written
meanwhile any column may keep what it has.  Nothing but a check writes an answer, and
what is edited is only the address.  `UrlMonitors` implements it (`WatchesSites ==
W!Spec`): `CheckOf` maps each job to a check, and cron, the queue and the racing
creators are stutters.  `AlarmsInOrder` says of the jobs' own state what follows for
the mails; it is proved.

### Accounts

One customer: `CreateUser`, `CreateDomain`, `CreateMember` are `add_user`, which
may stop between them; `Suspend`; `Visit` and `Pend` are the look up and the
insert of `verify_domain_user`; `CancelRegistration` is Devise's.  A request to
change a row passes its `Filters` (`verify_active`, `verify_not_owner`) first and
then goes on with `ToggleLoad`, `ToggleCount`, `ToggleSave` (`toggle_activation`) or
`Remove` (`destroy`): the domain may be suspended, the user gone or the row removed
meanwhile, and nothing asks again.  The page of the
users links only to the first row of a user who is still registered (`IsFirst`),
and `verify_not_owner` raises for a user who is gone (`NotOwner`).  The undo
branch of `add_user` is never entered, since no validation of the rows it creates
can fail.  A user's mail address and password, and what `DomainUser` rows say
besides `active`, are left out.

### TcpServices

One service and the `server_services` rows of it.  The queue is a number, as its
jobs are all alike.  `Perform` loads the rows, `Connect` tries the first one left,
and `Store` writes the answer, which may be after that of a later connection.
`Writes` is the dirty check: `false` is not the 0 of
the row, so "down" is always written, and "up" only if the row as loaded was not
up.  A destroyed server leaves its rows; the `NoMethodError` on its address
counts as refused.  Errors that are not listed end the job.  The port is
abstracted to what it answers at the moment.

Agents write the rows, too (`Post`): `StatusController#update` finds a service by
the variable the agent reports, whatever its type, so a "tcp" service whose variable
an agent posts takes the posted status.

`verdict` is history: which worker's connection to a row was the last one, if it
failed, and that the failure has been stored since.

### Dashboard

`Perform` loads all servers of the domain, `Store` writes `StatOf` of them.  Sums are
the figures they are made of.  `Complete` and `Networked` say which servers get
into which lists: the first addition of a NULL raises in the loop, after
`net_out` and `net_in` of the server are already in their lists, so a single
server that has not reported yet zeroes both.  `Page` is what
`DashboardController#index` and its view do with the last row: percentages of
nothing raise.  Purged rows are older than a month and never the last one while
cron runs.

## 3. The runs

| Run | Instance | States | Shows |
|---|---|---|---|
| `PingVote` | 2 hosts | 418 000 | the vote implements `Vote`, needs every thread, ends |
| `ServerStatus` | 1 server, 2 users, 2 jobs, 2 workers, clock to 3, every fault | 1.34 M | heartbeats kept, alarms earned, `Outage` implemented |
| `Queues` | 2 servers, 1 job slot, 1 worker, batches of 1 in the queues ahead, no faults | 458 000 | a lasting outage is alarmed again and again |
| `StatusUpdate` | 1 address, 2 posts and 1 user create at a time, limit 1, 5 rows | 2.40 M | limit, duplicates, filled rows, inherited failures, colours agree |
| `ThresholdAlerts` | 2 servers, 2 users, 1 alert, 1 failing mail | 222 000 | `Rounds` implemented, the audience is reached |
| `Inbox` | 1 tab, 2 servers, 1 group next to others, pages of 2, 3 alerts, 2 copies of a row | 3.64 M | marks, badge, later pages, lockout |
| `UrlMonitors` | 1 monitor, 2 jobs, 2 workers, 3 users, 3 pages, limit 1 and 2 requests | 385 000 | `Watch` implemented, limit, torn rows, the status settles |
| `Accounts` | owner and 3 users, 2 visits, 2 changes, limit 2, 4 rows | 1.04 M | package, owner's access, effect of activation, duplicates |
| `TcpServices` | 1 server attached twice, 2 workers | 170 000 | stored failures show, no wrong status lasts |
| `Dashboard` | 2 servers, 2 workers | 120 000 | figures settle, the page recovers |
| `ServerStatusNoDelayedJob` | 1 server, 1 user, without delayed_job | | no outage is ever alarmed |
| `UrlMonitorsFailure` | 1 monitor, 1 user | | nobody hears of a failing site |

**Bounds, and why they are enough to be interesting.**

* Two hosts give four threads and up to six votes: two appends collide while a
  third publishes a length, and the mean crosses a third both ways.  With one
  host a lost append cannot be masked by another thread's.
* Two jobs of one server overlap in every order with heartbeats; a clock to 3
  with `StaleAfter = 1` lets a job load at 2, a heartbeat come at 2 or 3 and
  the job restore after it.  `Queues` has `StaleAfter = 0` and two ticks
  because its question is the fate of the queue, not of time; two servers
  share the one slot so that one can starve the other, and the first
  `domain_users` row has no user.
* With `Limit = 1`, two posts and one user create race past both checks, the
  bound `Limit + 2 + 1` is reached, and `MaxRows = 5` leaves room for a row that
  is destroyed while a request holds its id.  The two posts are a machine at its
  limits, whose memory is 10 % free, where truncated shares are at a threshold, and
  one whose disk could not be read.
* One failing mail in the middle of four pairs separates those before from those
  behind it.  The window is half of the day, so that a run finds it both open
  and shut.
* Three alerts on pages of two make a second page with one row; two copies of a
  row tell "one removed" from "all removed".  Interplay of two tabs, with
  marks that go back, is covered by the proofs for any number of tabs.
  `MoreGroups` keeps the permissions' page open after the one group that is
  followed has been destroyed: without a group it leads elsewhere.

* Two jobs on one monitor with two "ok" pages and an "odd" one: the page can
  change without the status, which is how a row gets torn.  The second of three
  users cannot be mailed, so there is somebody before and behind him.
* A package for two with two requests that toggle and three users besides the owner reaches
  the bound; four rows leave one for a duplicate of each kind.
* Two rows and two workers give every order of two overlapping checks of the
  same row, with a row before it that is checked first and may end the job.  Both
  rows are of one server: nothing forbids to attach a service twice, the server may
  change its answer between the two connections, and a second server only
  multiplies the states.  The proof of `DownShows` is for any servers and rows.

**Symmetry.**  `StatusUpdate` (addresses, requests), `Inbox` (servers, groups,
tabs) and `Accounts` (users other than the owner, visits, changes) use symmetry
sets; no definition distinguishes the members, and none of these runs checks
liveness.

**Deadlock** is checked everywhere but in `PingVote`, where the job ends, and in
`Inbox`, `Accounts` and `TcpServices`, where everything may have been destroyed
and every bound used up.

## 4. Fairness

* `PingVote`: weak fairness of the job's thread and of each voting thread.  JRuby
  threads are native and scheduled; a local `ping -W 2 -c 2` ends by itself; a
  remote one that hangs is cut by `Timeout::timeout(3)`.  `Hang` is not fair.
* `ServerStatus`: the clock ticks, cron runs, and a Resque worker goes on with
  its job.  That somebody runs `jobs/*.rb` periodically is an assumption about
  the deployment, nothing in the repository installs it; the workers are those
  of `config/deploy.rb`.  Nobody is
  forced to post, edit, toggle, recover or fail.  `OutageAlarmed` allows for
  servers that answer again and for a domain in which nobody listens.
* `Queues`: on top of that, the jobs ahead are worked off, and strong fairness of
  taking a `server_status` job: when the queues ahead run empty again and again, a
  poll finds them so at some time.  Workers poll every five seconds and cron
  fills the queues at most once a minute.  Weak fairness would not do: cron keeps
  disabling the step.  The guard of `OthersEnqueue` is an assumption about the load:
  the jobs ahead are done when cron brings the next ones.  A site whose `alerts` jobs
  take longer than the time between two runs does starve the outages
  (`OthersEnqueue_Overload` is that site, and `AlarmsGoOn` fails for it).
  `AlarmsGoOn` says that a server dead for good while somebody listens is alarmed
  infinitely often.
* `ThresholdAlerts`: cron and the workers.  The clock has no fairness and needs
  none: the leads-to holds as long as the window stays open.
* `UrlMonitors`, `TcpServices`, `Dashboard`: cron and the workers.  Sites, machines,
  agents and users are not forced to do anything; each leads-to allows for their change
  of mind, and `FiguresSettle` speaks of servers that change no more.
* `StatusUpdate`, `Inbox`, `Accounts`: safety only.

## 5. What is proved

8061 obligations, all proved; no property of these modules is taken on trust.
In every module `Inductive` is `Spec => []IInv`, and the others follow from it.

**PingVote** (any number of hosts).  The Array is racy, so the number
of votes in it says little; the invariant says instead that the published length never passes the
filled cells, that every cell holds a vote of some thread (`CellsOK`), what each
thread still has to append given what it heard (`ThreadOK`), that threads before
`joined` are done (`MainOK`), and that a thread that finished left the length
positive (`VerdictOK`).  From it: `TypeCorrect`, `DownWitnessed`,
`LossConvicts`, `FullVote`, and `KeepsPromise`: every step of the threads maps to a
step of `Vote` or to a stutter.  `TimeoutsAcquitServer` (when all diagnostic
hosts time out and no append is lost, the server passes for up) does need
that count after all: `TallyOK` says that the length never passes the number of appends
done, and that as long as it equals it, the ones in the Array are the ones cast.
`FullTally` carries the count to the end of the vote and counts the threads by what
they heard, which gives the exact bar: without a lost append the verdict is "down" if
and only if `67 * replies + 34 * timeouts <= 33 * losses` (`BarIsExact`), hence only if
the losses are at least twice the replies plus the timeouts (`TwoThirdsConvict`).
About the end of a vote, what can be said without fairness is proved:
`VotesAreBounded` (every step lowers what is left, at most `16 NumHosts + 3` steps)
and `NeverStuck` (until it has ended somebody has a step: the job waits
only for threads that can go on, and only a session the timeout cuts can hang).

**ServerStatus** (any servers, users, jobs, workers, faults).  `RecOK` says per
stage what a job knows: it loaded a stale row, it lost its vote, it has its
downtime, nobody before the cursor was mailed.  `QueueOK`: queued jobs are the
ones in the queue.  `RowsOK`: `lastBeat <= heardAt <= now`, and what a job would
restore is what it loaded, so `Restore` writes nothing: that is why heartbeats
are kept, although line 88 reads as if they were not.  With the count
accessible, `Mark` would change `inMemory` and `HeartbeatKept` would fail; the
mutant `Accessible_WithCount` shows it.  `ImplementsOutage` proves the refinement
`DetectsOutages` action by action; it needs, besides the invariant, that the
count never moves (`CountNeverMoves`), as otherwise a server that answers
would lead to a "back online" mail, which `Outage` does not have.
`RunsEnd`: whatever happens around it, a job only comes nearer to its end, at most
`NumUsers + 6` steps away.

**Queues** (any servers, users, jobs, workers, batches), in `ServerStatusProofs`.
A step of the composition is a step of `ServerStatus` or leaves all of its
variables alone (`SharedSteps`), so the invariant and the refinement carry over:
`SharedDetector`, `SharedAlarms`.  Its own are `WorkersAreShared` (running jobs and
those of the queues ahead never exceed the workers, by counting the running ones)
and `JobsWaitInQueue` (`QueueComplete`: a job waits exactly when the queue
holds it, and once), which no run states.

**StatusUpdate** (any limit, addresses, requests).  `RegistrationBounded` is not
inductive: a request past the check will add a row later.  `LimitInv` bounds
rows plus requests that may still insert, and `AddressInv` does the same for
each address.  `Flow` ties `server`, `s` and `seen` to the stage of a request.
`RegisteredRowsFilled` needs `LoadedInv`: whoever is about to write a row that is
still NULL has loaded it so, hence writes all of its columns.
`ApartPostsKeepWhole` says when rows are whole: as long as no two posts hold one row
at a time, each row shows what one post said, since nothing but posts writes
statistics and what the request loaded is still there when it writes (`WholeInv`).
The proofs rest on the cardinality theorems of the library.

About `Figures`, for all figures: `ZeroSumsRaise` (which reports raise),
`ReportsAgree` and from it `PagesAgree` (`ColoursAgree` for any posts),
`FullDisksOnlyWarn`, `BusyLooksHealthy`, `UnknownProcessorsLookDead`; see section
6.

**ThresholdAlerts** (any servers, users, alerts, jobs).  `Progress` says where a
run stands: what is served is closed under `Before`, a plan has somebody unserved, and
servers were found before the audience is loaded.  That the next pair exists
and is the least one (`FirstIsFirst`) needs that the lexicographic order on
`Servers \X Users` is well founded.  `ImplementsRounds` proves the refinement
`DeliversRounds` action by action; `RoundStep` turns a replaced job into a replaced
round, `NextInRound` the job's first pair into the round's next one.  `RunsEnd`:
a job only comes nearer to its end, at most `2 NumServers NumUsers + 3` steps away.

**Inbox** (any servers, groups, users, tabs and page size).  `TabOK` says of the
page in a tab that the alerts between the id in its link and the highest id at
the time it was read were none of the user's, and that a later page of a
restricted user is empty.  The substance is in two lemmas about pages:
`FirstPageClosed` (ids newer than one on page 1 are on page 1, also of a subset)
and `PagedTwice` (a part of page p > 1, paged by p again, is empty: an id on it
would have a full page of that part before it on top of all pages before p).
From it: `NewAlertsStayUnread`, `LaterPagesAreEmpty`, `MarkClears`;
`LockedOut`: a group that is gone stays gone, no list offers its permissions
again, and so a permission for it that no open page can remove stays.

**UrlMonitors** (any monitors, users, jobs, workers, limit, pages).  `LimitInv`
counts the requests past the check as if their rows were there; `JobOK` says per
stage what a job holds.  From it: `LimitKept`, `RowsWhole`, `AlarmsOrdered`.
`RunsEnd`: a job is at most `NumUsers + 5` steps from its end.
`ImplementsWatch` proves the refinement `WatchesSites` action by action from the same
invariant (`JobOK` gives a telling check its log entry and the users it has told);
`CheckStep` turns a replaced job into a replaced check, and `WrittenIsKept` says that
what ActiveRecord's dirty check leaves of a write is one of the rows `Kept` allows.

**Accounts** (any users, visits, changes, limit).  A toggle past its count will add
an active row; the invariant bounds active rows plus such toggles, and in the
same way rows of a user plus visits that will add one.  `ActiveIsFirst` needs that
rows get ascending ids and that only first rows pass the filters, which has to
survive the removal of a row while a toggle of it is under way.  From it: `PackageKept`,
`OwnerKeepsAccess`, `ActiveRowsCount`, `RowsKeptFew`.

**TcpServices** (any servers, rows, workers).  The invariant adds that ids outside
the table have a fresh history.  `DownIsShown`: a stored failure of the last
connection shows until a later connection, the late store of an older answer or an
agent's post replaces it.

**Dashboard** (any servers, figures, workers, length of the queue), in
`TableJobsProofs` next to `TcpServices`: both have jobs that load a whole table.  The
module takes `Dashboard` as an instance `D` with its state renamed, so what
`Dashboard` assumes of its constants is a hypothesis there (`DashboardConstants`).
`DInv` is the type invariant (what a worker holds is a snapshot of the servers),
that an idle worker holds nothing, and that a row shows the traffic of all the
servers in its sums or of none.  The safety
halves of the two liveness properties are action properties: `SettledRowsStay`
(while servers do not change and no job holds older figures, no job takes up older
ones, each one that ends settles the row, and it stays settled) and
`ShownPagesStay` (while one server keeps reporting file systems and the jobs under
way have found it so, each row they store shows the page).

`MailsKeepOrder`, `RunsAreComplete`, `AlarmsOrdered`, `ApartPostsKeepWhole`,
`DownWitnessed`, `LossConvicts`, `TimeoutsAcquitServer`, `FirstListener`,
`CountNeverMoves`, `JobsWaitInQueue`, `WorkersAreShared`, `BarIsExact` and the bounds
on the steps state properties that no run repeats.  `TimeoutsAcquitServer` and
`FirstListener` say what the code does where a comment or a page says otherwise
(section 6).

Assumptions are those named in the modules: sizes are natural numbers, subsets
are subsets, the two kinds of requests are finite and disjoint.

**Only model-checked.**  The liveness properties (`VoteEnds`, `AlarmsGoOn`,
`AudienceReached`, `StatusSettles`, `WrongStatusEnds`, `FiguresSettle`,
`DashboardRecovers`), because the prover does not deal with fairness.  Of the
safety in them, what a step may never undo and how many steps a run has is proved as
said above; that the steps are taken is what the runs check.  The violation runs
are counterexamples and need no proof.

## 6. Where code and documents disagree

Shown by a run:

1. *No delayed_job.*  `Server#ping` calls `x.delay`; the bundle has no
   delayed_job.  The job that lost its vote ends with a NoMethodError before
   the downtime and the mails (`ServerStatusNoDelayedJob`).  The other runs
   assume `DelayedJobLoaded`, the system as its authors ran it.
2. *Failing sites.*  The mail "has responded with status" is for statuses other
   than 200 and 302, but the client raises for nearly all of them, and the error
   is swallowed (`UrlMonitorsFailure`).

Read in the code while translating it, and translated as it is:

3. *A third of the votes.*  Line 58 of the status worker says "1/3 or more
   reported server as unpingable"; `mean <= 0.33` needs two thirds failures
   (`BarIsExact`, `TwoThirdsConvict`).  Diagnostic hosts that all time out acquit a
   server although every local ping was lost and two thirds of the votes are zeros
   (`TimeoutsAcquitServer`), as each timeout votes 0 and 1.
4. *No throttle.*  "Email & SMS skipped" never happens: the count is protected
   from mass assignment and stays 0.  The "back online" mail does not happen
   either.
5. *First listener only.*  The loop over users ends after the first mail
   (theorem `FirstListener`), although the user list promises
   alerts to all who have them set.
6. *Refused posts.*  A domain over its limit refuses posts of servers it has;
   one may get there by registering alone, since a full domain passes the
   check.
7. *"Server updated."*  The loser of a registration race stores nothing and
   answers so.
8. *The switch.*  Threshold alerts ignore "Receiving Alerts".
9. *https.*  `verify_http` turns "https://x" into "http://https://x"; such a
   monitor never gets a status.  `url_monitor_limit` is never read: the limit of
   the servers is applied to monitors.
10. *Colours of the processor.*  `cpu_color` grades the share that is free (90 and
   more is healthy); the page, the mails and the status controller give it
   `cpu_usage`, which the agent fills with the share in use and the page itself
   labels "CPU Used".  A machine at its limit is healthy twice, an idle one
   "dieng" twice (`BusyLooksHealthy`).
11. *Colours of the disk.*  `disk_color` repeats the sum of `mem_color`, but its
   first argument is the whole disk: a full disk is 50 % used and only warns
   (`FullDisksOnlyWarn`), and one that is two thirds free is not healthy.
12. *Uptime.*  `Domain#uptime` divides the minutes of downtime of all servers by
   the minutes of one, so a domain with many dead servers falls below zero.
13. *Falling below, for one user.*  The branch of `AlertWorker` for a crossing
    downwards and a single user prints `u.email` (`alert_worker.rb:81`), but `u` is
    the variable of the other branches' blocks: a NameError, which `rescue
    NoMethodError` does not catch, ends the run before the mail.  Such an alert never
    reaches its user.
14. *A first dashboard.*  The root page of a domain with a server raises until
    a `DashboardWorker` has run after the first post.

Properties that hold but may surprise: `LaterPagesEmpty` (restricted users never
get anything beyond page one), `LockedOutForGood` (destroying a group breaks the
pages of its users until their membership is renewed, unless a list of
permissions loaded before is still open), `FailureIsInherited` (a post is
judged on its predecessor's figures), the exception in `OwnerHasAccess` (an owner who visits
his domain before his own row exists never gets in).

## 7. What is not modelled, and why

* The columns of statistics that nothing modelled reads, and the logs.  Uptime,
  percentages, the threshold of changes and the graphs are formulas that no other
  code depends on.
* `jobs/*.rb` read their table in batches of 1000 rows; the models read it row
  by row, which allows everything the batches do as far as rows created or
  destroyed meanwhile are concerned.
* `bandwidth_usage_worker.rb`: nothing enqueues it any more
  (`status_controller.rb:130` is commented out).
* Scripts under `public/javascripts` and `bootstrap/js`: jQuery, its plugins, flot
  and Bootstrap, as their authors ship them.  The program's own JavaScript is
  `application.js`, 34 lines that hide, show and post; the request that its
  `delete_server_service` sends is `Detach` in `TcpServices` and `DetachService` in
  `StatusUpdate`.
* `groups_controller.rb`, `teams_controller.rb` beyond what `Inbox` and
  `ThresholdAlerts` have of them: single writes of names and members, checked
  against nothing.
* `DiagnosticLog#run`: one SSH command and one write, which nothing runs without
  delayed_job (section 6).
* Views, mails and styles; reading of the machine's figures in the agent;
  deployment.  Pure presentation or input and output.
* Authentication, except as the user of a tab or a request.

## 8. Plan

Done, in this order: `PingVote`, `ServerStatus`, `StatusUpdate`,
`ThresholdAlerts`, `Inbox`, `UrlMonitors`, `Accounts`, `TcpServices`, `Dashboard`,
`Queues` and `Figures`, each with its proofs; and the abstract specifications
`Vote`, `Outage`, `Rounds` and `Watch` with the proofs that they are implemented.
Next:

1. `Groups`: teams, groups and permissions with their own pages, over the part of
   them that `Inbox` has.
2. Windows over midnight (`alert_worker.rb:18`), once it is known what they are
   to mean.
