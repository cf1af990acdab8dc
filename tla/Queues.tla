------------------------------- MODULE Queues -------------------------------
(***************************************************************************)
(* The outage detector among the other jobs of the site.  All Resque       *)
(* workers listen to "*" (lib/tasks/resque.rake, line 4): Resque looks for *)
(* work in the queues' alphabetical order, so a worker takes a job from    *)
(* server_status only while alerts, bandwidth_usage and dashboard are      *)
(* empty.  The rows those jobs touch are not the detector's.               *)
(***************************************************************************)
EXTENDS ServerStatus

CONSTANT Batch  \* jobs of the queues ahead that one run of cron enqueues

ASSUME BatchAssumption == Batch \in Nat \ {0}

VARIABLES
  ahead,  \* the jobs waiting in the queues ahead of server_status
  busy    \* the workers that run such jobs

sharedVars == <<vars, ahead, busy>>

FreeWorker == Cardinality({k \in Jobs : job[k].st \in Running}) + busy < NumWorkers

SharedInit == Init /\ ahead = 0 /\ busy = 0

\* jobs/alerts.rb and jobs/dashboard_graphs.rb, run by cron.  The load is
\* assumed to be one the workers can bear: when cron runs these scripts
\* again, the jobs of the last time are done.
OthersEnqueue_Overload ==
  /\ ahead < Batch
  /\ ahead' = Batch
  /\ UNCHANGED <<vars, busy>>

OthersEnqueue ==
  /\ ahead = 0 /\ busy = 0
  /\ ahead' = Batch
  /\ UNCHANGED <<vars, busy>>

OtherTaken ==
  /\ ahead > 0 /\ FreeWorker
  /\ ahead' = ahead - 1 /\ busy' = busy + 1
  /\ UNCHANGED vars

OtherDone ==
  /\ busy > 0
  /\ busy' = busy - 1
  /\ UNCHANGED <<vars, ahead>>

\* A worker looks through the queues and finds the first job in server_status.
Take(j) ==
  /\ ahead = 0 /\ FreeWorker
  /\ Perform(j)
  /\ UNCHANGED <<ahead, busy>>

GoOn(j) == Work(j) /\ UNCHANGED <<ahead, busy>>

Enqueue == CronStep /\ UNCHANGED <<ahead, busy>>

PassTime == Tick /\ UNCHANGED <<ahead, busy>>

SharedNext ==
  \/ OthersEnqueue \/ OtherTaken \/ OtherDone
  \/ \E j \in Jobs : Take(j) \/ GoOn(j)
  \/ Enqueue
  \/ Surroundings /\ UNCHANGED <<ahead, busy>>

\* Jobs that were taken end.  A free worker looks for work every five
\* seconds, cron runs a minute apart or more: a worker does look between two
\* batches, again and again, and finds the job (strong fairness of Take).
SharedFairness ==
  /\ WF_sharedVars(PassTime) /\ WF_sharedVars(Enqueue)
  /\ WF_sharedVars(OtherTaken) /\ WF_sharedVars(OtherDone)
  /\ \A j \in Jobs : SF_sharedVars(Take(j)) /\ WF_sharedVars(GoOn(j))

SharedSpec == SharedInit /\ [][SharedNext]_sharedVars /\ SharedFairness

----------------------------------------------------------------------------
Alarming(s) == \E j \in Jobs : job[j].srv = s /\ MailUser(j)

\* While an outage lasts and somebody listens, alarms go out again and again:
\* neither the jobs of other queues nor those of other servers keep the
\* server's next job from a worker (resque.rake line 4; jobs/server_status.rb;
\* server_status_worker.rb).
AlarmsGoOn ==
  \A s \in Servers :
    <>[](Dead(s) /\ Listeners # {}) => []<><<Alarming(s)>>_sharedVars
=============================================================================
