------------------------------ MODULE Dashboard ------------------------------
(***************************************************************************)
(* The figures of a whole domain: cron enqueues a DashboardWorker job      *)
(* (jobs/dashboard_graphs.rb), the job sums up the columns of all servers  *)
(* into a new row of collective_stats (workers/dashboard_worker.rb), and   *)
(* the dashboard shows the last row (DashboardController#index), which is  *)
(* not the row of the latest figures when jobs overlap.                    *)
(*                                                                         *)
(* A sum is abstracted to the figures it is made of.  A server has no      *)
(* figures, all columns NULL, from its creation to its first post.         *)
(***************************************************************************)
EXTENDS Integers

CONSTANTS
  NumServers,  \* ids of servers rows; one that is gone may be used again
  Figures,     \* what an agent can post
  Bare,        \* those of a machine none of whose file systems can be read
  MaxQueue,    \* bound: jobs of the domain in the queue at a time
  Workers      \* Resque worker processes

Servers == 1..NumServers

ASSUME FiguresAssumption == Bare \subseteq Figures /\ {"none", "gone"} \cap Figures = {}
ASSUME BoundsAssumption == NumServers \in Nat /\ MaxQueue \in Nat

VARIABLES
  server,  \* the columns of each server, "none" for NULL, or "gone"
  stat,    \* the last row of collective_stats
  queue,   \* how many jobs of the domain are in the Resque queue dashboard
  busy,    \* the workers that have a job of the domain
  loaded   \* per worker, the servers its job has loaded

vars == <<server, stat, queue, busy, loaded>>
Work == <<queue, busy, loaded>>

\* Servers as a job finds them.
Snapshots == UNION {[S -> Figures \cup {"none"}] : S \in SUBSET Servers}
Existing == {s \in Servers : server[s] # "gone"}
Now == [s \in Existing |-> server[s]]

----------------------------------------------------------------------------
\* The loop over the servers puts net_out and net_in of each into their lists,
\* and the first addition raises for one that has no figures: the rescue clause
\* goes on with the next server.
Complete_All(l) == DOMAIN l
Complete_UpToNone(l) == {s \in DOMAIN l : \A k \in DOMAIN l : k <= s => l[k] # "none"}
Complete(l) == {s \in DOMAIN l : l[s] # "none"}

\* So the lists of net_out and net_in, and no others, contain the NULLs.  A sum
\* over a NULL is rescued to zero.
Networked(l) == IF Complete(l) = DOMAIN l THEN DOMAIN l ELSE {}

\* A row of collective_stats: the figures in its sums, the servers in net_in
\* and net_out.
StatOf(l) == [sums |-> [s \in Complete(l) |-> l[s]], net |-> Networked(l)]
NoStat == [sums |-> [s \in {} |-> "none"], net |-> {}]

\* The page: redirected for a domain without servers; otherwise the widths of
\* its bars are percentages of the memory and of the disks of the last row,
\* which raise on 0/0, as they do when there is no row yet.
Page ==
  IF Existing = {} THEN "redirected"
  ELSE IF \A s \in DOMAIN stat.sums : stat.sums[s] \in Bare THEN "failed"
  ELSE "shown"

----------------------------------------------------------------------------
Init ==
  /\ server = [s \in Servers |-> "gone"]
  /\ stat = NoStat
  /\ queue = 0
  /\ busy = {}
  /\ loaded = [w \in Workers |-> NoStat.sums]

\* ServersController#create, or the first half of an agent's registration.
AddServer(s) ==
  /\ server[s] = "gone"
  /\ server' = [server EXCEPT ![s] = "none"]
  /\ UNCHANGED <<stat, Work>>

\* StatusController#update writes the columns that changed in one statement.
\* What two racing posts mix in a row is one more set of figures.
Post(s, f) ==
  /\ server[s] # "gone"
  /\ server' = [server EXCEPT ![s] = f]
  /\ UNCHANGED <<stat, Work>>

\* ServersController#destroy
DestroyServer(s) ==
  /\ server[s] # "gone"
  /\ server' = [server EXCEPT ![s] = "gone"]
  /\ UNCHANGED <<stat, Work>>

\* jobs/dashboard_graphs.rb
CronEnqueue ==
  /\ queue < MaxQueue
  /\ queue' = queue + 1
  /\ UNCHANGED <<server, stat, busy, loaded>>

\* DashboardWorker.perform loads all servers at once, ...
Perform(w) ==
  /\ queue > 0 /\ w \notin busy
  /\ queue' = queue - 1
  /\ busy' = busy \cup {w}
  /\ loaded' = [loaded EXCEPT ![w] = Now]
  /\ UNCHANGED <<server, stat>>

\* ... and adds their figures up in a new row.
Store(w) ==
  /\ w \in busy
  /\ stat' = StatOf(loaded[w])
  /\ busy' = busy \ {w}
  /\ loaded' = [loaded EXCEPT ![w] = NoStat.sums]
  /\ UNCHANGED <<server, queue>>

----------------------------------------------------------------------------
JobStep(w) == Perform(w) \/ Store(w)

Next ==
  \/ \E s \in Servers : AddServer(s) \/ DestroyServer(s) \/ \E f \in Figures : Post(s, f)
  \/ CronEnqueue
  \/ \E w \in Workers : JobStep(w)

\* Cron keeps running the script and the Resque workers keep working.
Fairness == WF_vars(CronEnqueue) /\ \A w \in Workers : WF_vars(JobStep(w))

Spec == Init /\ [][Next]_vars /\ Fairness

----------------------------------------------------------------------------
TypeOK ==
  /\ server \in [Servers -> Figures \cup {"none", "gone"}]
  /\ stat.sums \in UNION {[S -> Figures] : S \in SUBSET Servers}
  /\ stat.net \subseteq Servers
  /\ queue \in 0..MaxQueue
  /\ busy \subseteq Workers
  /\ loaded \in [Workers -> Snapshots]

\* Although rows may be stored out of order, the dashboard comes to show for
\* good the figures of all servers that have any, and of no others, once these
\* change no more; servers that have not reported yet are passed over.  The
\* traffic is that of all servers, or nothing while one has not reported.
Reported == {s \in Existing : server[s] # "none"}

Settled ==
  /\ stat.sums = [s \in Reported |-> server[s]]
  /\ stat.net = IF Reported = Existing THEN Existing ELSE {}

FiguresSettle == <>[][FALSE]_server => <>[]Settled

\* A domain's dashboard works in the end, whatever was stored before, if one
\* server keeps reporting file systems.
DashboardRecovers ==
  \A s \in Servers :
    server[s] \in Figures \ Bare ~> (server[s] \notin Figures \ Bare \/ Page = "shown")
=============================================================================
