----------------------------- MODULE TcpServices -----------------------------
(***************************************************************************)
(* The checks of one TCP service: cron enqueues a TcpServicesWorker job    *)
(* (jobs/tcp_services.rb), and the job tries the port on every server the  *)
(* service is attached to and stores who answered                          *)
(* (workers/tcp_services_worker.rb), while users edit and destroy the      *)
(* service, attach it and detach it (ServicesController and                *)
(* ServerServicesController).                                              *)
(*                                                                         *)
(* A job loads all its rows before the first check, and connects before it *)
(* stores: its answer may be stored after that of a later connection.  One *)
(* that says "up" is stored only if the loaded row says otherwise, one     *)
(* that says "down" always: ActiveRecord compares false with no zero.      *)
(*                                                                         *)
(* Agents write the rows, too: StatusController#update finds the service   *)
(* by the variable the agent posts and does not look at its type.          *)
(*                                                                         *)
(* The port number is left out: what it answers may change at any time,    *)
(* and a job that still tries the port it loaded before an edit is not     *)
(* told apart from one that tries the new one.  Of the numbers an agent    *)
(* can post as a status 1 stands for all but 0, as they do on the page.    *)
(***************************************************************************)
EXTENDS Integers

CONSTANTS
  Servers,   \* the servers of the domain
  NumRows,   \* bound: server_services rows that exist or are held by a job at a time
  MaxQueue,  \* bound: jobs of the service in the queue at a time
  Workers    \* Resque worker processes

Ids == 1..NumRows

ASSUME SizesAssumption == NumRows \in Nat /\ MaxQueue \in Nat
ASSUME NamesAssumption == {"open", "failed"} \cap Workers = {}

\* What a connection to the service's port on a server comes to: it is
\* accepted; it is refused, has no route or takes more than a second; or it
\* fails in another way.  "gone" is a server that has been destroyed.
Answers == {"up", "down", "error"}

Row == [server: Servers, status: {0, 1}]

VARIABLES
  machine,  \* what the port answers on each server
  service,  \* services.service_type, or "gone"
  row,      \* the server_services table, as a function on the ids in it
  queue,    \* how many jobs of the service are in the Resque queue tcp_services
  loaded,   \* per worker, the rows its job has still to check, as it loaded them
  answer,   \* per worker, what its connection said that is not stored yet
  verdict   \* per row, the worker whose connection was the last one and failed,
            \* "failed" once it has stored that, "open" otherwise (history)

vars == <<machine, service, row, queue, loaded, answer, verdict>>
Table == <<row, verdict>>
Work == <<queue, loaded, answer>>

None == [i \in {} |-> 0]
Todo(w) == DOMAIN loaded[w]

----------------------------------------------------------------------------
\* ServicesController#create: nothing is attached yet.
Init ==
  /\ machine \in [Servers -> Answers]
  /\ service \in {"tcp", "server"}
  /\ row = None
  /\ queue = 0
  /\ loaded = [w \in Workers |-> None]
  /\ answer = [w \in Workers |-> "none"]
  /\ verdict = [i \in Ids |-> "open"]

----------------------------------------------------------------------------
MachineChanges(s, a) ==
  /\ machine[s] # "gone" /\ a # machine[s]
  /\ machine' = [machine EXCEPT ![s] = a]
  /\ UNCHANGED <<service, Table, Work>>

\* ServersController#destroy leaves the rows.
DestroyServer(s) ==
  /\ machine[s] # "gone"
  /\ machine' = [machine EXCEPT ![s] = "gone"]
  /\ UNCHANGED <<service, Table, Work>>

\* ServicesController#update
UpdateService(type) ==
  /\ service \notin {"gone", type}
  /\ service' = type
  /\ UNCHANGED <<machine, Table, Work>>

\* ServicesController#destroy, which destroys the rows first.
DestroyService ==
  /\ service # "gone"
  /\ service' = "gone"
  /\ row' = None /\ verdict' = [i \in Ids |-> "open"]
  /\ UNCHANGED <<machine, Work>>

\* Attach, were there no default for server_services.status.
Attach_NoDefault(i, s) ==
  /\ machine[s] # "gone"
  /\ i \in Ids \ DOMAIN row /\ \A w \in Workers : i \notin Todo(w)
  /\ row' = [k \in DOMAIN row \cup {i} |->
               IF k = i THEN [server |-> s, status |-> -1] ELSE row[k]]
  /\ UNCHANGED <<machine, service, verdict, Work>>

\* ServerServicesController#create.  A service chosen before it was destroyed
\* is attached all the same.
Attach(i, s) ==
  /\ machine[s] # "gone"
  /\ i \in Ids \ DOMAIN row /\ \A w \in Workers : i \notin Todo(w)
  /\ row' = [k \in DOMAIN row \cup {i} |->
               IF k = i THEN [server |-> s, status |-> 0] ELSE row[k]]
  /\ UNCHANGED <<machine, service, verdict, Work>>

\* ServerServicesController#destroy, for servers that exist.
Detach(i) ==
  /\ i \in DOMAIN row /\ machine[row[i].server] # "gone"
  /\ row' = [k \in DOMAIN row \ {i} |-> row[k]]
  /\ verdict' = [verdict EXCEPT ![i] = "open"]
  /\ UNCHANGED <<machine, service, Work>>

----------------------------------------------------------------------------
\* jobs/tcp_services.rb
CronEnqueue ==
  /\ service = "tcp"
  /\ queue < MaxQueue
  /\ queue' = queue + 1
  /\ UNCHANGED <<machine, service, Table, loaded, answer>>

\* TcpServicesWorker.perform loads the service and its rows; a destroyed
\* service is RecordNotFound.  It does not look at the type.
Perform(w) ==
  /\ queue > 0 /\ Todo(w) = {}
  /\ queue' = queue - 1
  /\ loaded' = [loaded EXCEPT ![w] = IF service = "gone" THEN None ELSE row]
  /\ UNCHANGED <<machine, service, Table, answer>>

\* What the connection to server s comes to.  ss.server is loaded only now: it
\* is nil for a server that is gone, and the NoMethodError counts as a refusal.
\* Any error that is not listed ends the job, and with it the checks of the
\* rows that are left.
Outcome_GoneEnds(s) == IF machine[s] = "gone" THEN "error" ELSE machine[s]
Outcome(s) == IF machine[s] = "gone" THEN "down" ELSE machine[s]

\* Whether ss.update_attributes writes: is the status the row was loaded with
\* not the new one, in the eyes of ActiveRecord?
Writes_IfChanged(up, status) == status # (IF up THEN 1 ELSE 0)
Writes(up, status) == ~up \/ status # 1

\* The row a job is at.
Current(w, i) == i \in Todo(w) /\ \A k \in Todo(w) : i <= k

\* The connection, which may take a second.
Connect(w, i) ==
  /\ Current(w, i) /\ answer[w] = "none"
  /\ LET outcome == Outcome(loaded[w][i].server) IN
     IF outcome = "error"
     THEN /\ loaded' = [loaded EXCEPT ![w] = None]
          /\ UNCHANGED <<answer, verdict>>
     ELSE /\ answer' = [answer EXCEPT ![w] = outcome]
          /\ verdict' = IF i \notin DOMAIN row THEN verdict
                        ELSE [verdict EXCEPT ![i] = IF outcome = "up" THEN "open" ELSE w]
          /\ UNCHANGED loaded
  /\ UNCHANGED <<machine, service, row, queue>>

\* An older answer that is stored late, or an agent, puts row i online after its
\* failure was stored.
Overruled(i) == IF verdict[i] = "failed" THEN "open" ELSE verdict[i]

\* The write of what the connection said, if ActiveRecord finds it to be news.
Store(w, i) ==
  /\ Current(w, i) /\ answer[w] # "none"
  /\ LET up == answer[w] = "up"
         writes == Writes(up, loaded[w][i].status)
     IN IF i \in DOMAIN row
        THEN /\ row' = IF writes THEN [row EXCEPT ![i].status = IF up THEN 1 ELSE 0] ELSE row
             /\ verdict' = [verdict EXCEPT ![i] = IF ~up /\ @ = w THEN "failed"
                                                  ELSE IF up /\ writes THEN Overruled(i) ELSE @]
        ELSE UNCHANGED Table
  /\ answer' = [answer EXCEPT ![w] = "none"]
  /\ loaded' = [loaded EXCEPT ![w] = [k \in Todo(w) \ {i} |-> loaded[w][k]]]
  /\ UNCHANGED <<machine, service, queue>>

----------------------------------------------------------------------------
\* StatusController#update, for one of the services an agent reports: it finds
\* the service, the row of its server, and in ServerService.update the row once
\* more, which it writes if the status is another one.  Whatever happens between
\* these, the write sets the status of a row that is there, or comes to nothing;
\* server and service may have been destroyed since the request found them.
Post(i, status) ==
  /\ i \in DOMAIN row
  /\ row' = [row EXCEPT ![i].status = status]
  /\ verdict' = [verdict EXCEPT ![i] = IF status = 1 THEN Overruled(i) ELSE @]
  /\ UNCHANGED <<machine, service, Work>>

----------------------------------------------------------------------------
JobStep(w) == Perform(w) \/ \E i \in Ids : Connect(w, i) \/ Store(w, i)

UserStep ==
  \/ \E type \in {"tcp", "server"} : UpdateService(type)
  \/ DestroyService
  \/ \E i \in Ids : Detach(i) \/ \E s \in Servers : Attach(i, s)
  \/ \E s \in Servers : DestroyServer(s)

Next ==
  \/ \E s \in Servers, a \in Answers : MachineChanges(s, a)
  \/ UserStep
  \/ CronEnqueue
  \/ \E w \in Workers : JobStep(w)
  \/ \E i \in Ids, status \in {0, 1} : Post(i, status)

\* Cron keeps running the script and the Resque workers keep working; machines,
\* agents and users are not forced to do anything.
Fairness == WF_vars(CronEnqueue) /\ \A w \in Workers : WF_vars(JobStep(w))

Spec == Init /\ [][Next]_vars /\ Fairness

----------------------------------------------------------------------------
TypeOK ==
  /\ machine \in [Servers -> Answers \cup {"gone"}]
  /\ service \in {"tcp", "server", "gone"}
  /\ DOMAIN row \subseteq Ids /\ row \in [DOMAIN row -> Row]
  /\ queue \in 0..MaxQueue
  /\ loaded \in [Workers -> UNION {[S -> Row] : S \in SUBSET Ids}]
  /\ answer \in [Workers -> {"none", "up", "down"}]
  /\ verdict \in [Ids -> {"open", "failed"} \cup Workers]

\* However jobs overlap and whatever they loaded, a failure is never lost: once
\* the job that was the last to connect has stored it, the service is offline
\* until a later connection, an older answer that is stored late or an agent's
\* post says otherwise (lines 11 to 27).
DownShows == \A i \in DOMAIN row : verdict[i] = "failed" => row[i].status = 0

\* No row shows something else than what its port answers for ever, although
\* checks are lost and servers are destroyed (line 19), unless an unlisted error
\* of the row, or of one before it, ends the jobs.
Undisturbed(i) ==
  /\ \A k \in DOMAIN row : k <= i => machine[row[k].server] # "error"
  /\ \A w \in Workers : \A k \in Todo(w) : k <= i => machine[loaded[w][k].server] # "error"

Wrong(i) ==
  /\ service = "tcp" /\ i \in DOMAIN row /\ Undisturbed(i)
  /\ (row[i].status = 1) # (machine[row[i].server] = "up")

WrongStatusEnds == \A i \in Ids : Wrong(i) ~> ~Wrong(i)
=============================================================================
