---------------------------- MODULE StatusUpdate ----------------------------
(***************************************************************************)
(* The requests by which the agents of one domain register and report      *)
(* (StatusController#update), next to the users' own work on the rows      *)
(* (ServersController create, update and destroy, ServerServicesController *)
(* create and destroy).  Nothing locks the servers table: every request    *)
(* reads and writes it call by call, and the limit of the package and the  *)
(* search for an existing row are checked before the row they decide about *)
(* is written.                                                             *)
(***************************************************************************)
EXTENDS Figures, FiniteSets

CONSTANTS
  Ips,      \* the addresses agents report from
  Posted,   \* the statistics agents post
  Reports,  \* the service reports agents post, a subset of {"none", "down", "up"}
  Reqs,     \* requests of agents handled at a time
  Admins,   \* requests of users to create a server handled at a time
  Limit,    \* domains.server_limit
  MaxRows   \* bound: rows that are live or held by a request at a time

ASSUME LimitAssumption == Limit \in Nat
ASSUME RowsAssumption == MaxRows \in Nat
ASSUME RequestsAssumption ==
  IsFiniteSet(Reqs) /\ IsFiniteSet(Admins) /\ Reqs \cap Admins = {}
ASSUME PayloadAssumption ==
  Posted \subseteq Reported /\ Posted # {} /\ Reports \subseteq {"none", "down", "up"}

Ids == 1..MaxRows

\* The statistics of a row: NULL columns until an agent has reported.
Stats == Reported \cup {Unreported}

\* What the record of an idle request holds in the place of a post.
NoPost == CHOOSE f \in Posted : TRUE

Row == [ip: Ips, stats: Stats,
        by: {"agent", "user"},             \* who created it or last edited it (history)
        service: {"absent", "down", "up"}] \* its server_services row and status

Req == [pc: {"idle", "gate", "update", "recheck", "create", "first", "write", "services"},
        ip: Ips, stats: Posted, report: {"none", "down", "up"},
        server: 0..MaxRows,   \* @server, 0 for nil
        seen: Stats,          \* the statistics of @server as it was loaded
        s: 0..MaxRows,        \* @s, 0 for nil
        loaded: Stats,        \* the statistics of @s as Server.update loaded it
        answer: {"none", "updated", "refused", "404", "500"}]

VARIABLES
  row,   \* the servers table, a function on the ids in it
  req,   \* the agents' requests; an idle one keeps what its last run did
  admin  \* admin[a]: the address a checked request is about to create, or "idle"

vars == <<row, req, admin>>

Live == DOMAIN row
RowsAt_Healthy(ip) == {i \in Live : row[i].ip = ip /\ ~HealthRaises(row[i].stats)}
RowsAt(ip) == {i \in Live : row[i].ip = ip}

\* subdomain.servers.size <= subdomain.server_limit: a full domain passes.
HasRoom == Cardinality(Live) <= Limit

----------------------------------------------------------------------------
Init ==
  /\ row = [i \in {} |-> "none"]
  /\ \E ip \in Ips :
       req = [r \in Reqs |-> [pc |-> "idle", ip |-> ip, stats |-> NoPost, report |-> "none",
                             server |-> 0, seen |-> Unreported,
                             s |-> 0, loaded |-> Unreported, answer |-> "none"]]
  /\ admin = [a \in Admins |-> "idle"]

\* The database gives every row a new id.  Any id will do that is neither in
\* the table nor held by a request.
Held == {i \in Ids : \E r \in Reqs : req[r].pc # "idle" /\ i \in {req[r].server, req[r].s}}
Unused == Ids \ (Live \cup Held)
NewId == CHOOSE i \in Unused : TRUE

Insert(ip, by) ==
  /\ Unused # {}
  /\ row' = [i \in Live \cup {NewId} |->
               IF i = NewId THEN [ip |-> ip, stats |-> Unreported, by |-> by, service |-> "absent"]
                            ELSE row[i]]

----------------------------------------------------------------------------
\* StatusController#update.

Become(r, v) == req' = [req EXCEPT ![r] = v]
Answer(r, text) ==
  Become(r, [req[r] EXCEPT !.pc = "idle", !.stats = NoPost, !.report = "none",
               !.loaded = Unreported, !.answer = text])

\* A post that has just been received, with row i as its @server.
Received(ip, stats, report, i) ==
  [pc |-> "gate", ip |-> ip, stats |-> stats, report |-> report, server |-> i,
   seen |-> IF i = 0 THEN Unreported ELSE row[i].stats,
   s |-> 0, loaded |-> Unreported, answer |-> "none"]

\* Find the row: by address (any one of several, the query has no order; nil
\* for none), or by the server_id set in the agent, which need not be the row
\* at its address and may be no row at all.
Find(r, ip, stats, report) ==
  /\ req[r].pc = "idle"
  /\ \/ RowsAt(ip) = {} /\ Become(r, Received(ip, stats, report, 0))
     \/ \E i \in Live : Become(r, Received(ip, stats, report, i))
     \/ Become(r, [Received(ip, NoPost, "none", 0) EXCEPT !.pc = "idle", !.answer = "404"])
  /\ UNCHANGED <<row, admin>>

\* A domain over its limit refuses the request, also for a row it has.
Gate(r) ==
  /\ req[r].pc = "gate"
  /\ IF HasRoom
     THEN Become(r, [req[r] EXCEPT !.pc = IF req[r].server # 0 THEN "update" ELSE "recheck"])
     ELSE Answer(r, "refused")
  /\ UNCHANGED <<row, admin>>

\* Server.update, of @server or of a row this request has created: it loads
\* the row, ...
Load(r) ==
  LET i == IF req[r].pc = "first" THEN req[r].s ELSE req[r].server IN
  /\ req[r].pc \in {"update", "first"}
  /\ IF i \notin Live
     THEN Answer(r, "404")
     ELSE Become(r, [req[r] EXCEPT !.pc = "write", !.s = i, !.loaded = row[i].stats])
  /\ UNCHANGED <<row, admin>>

\* ... and writes the columns that differ from the row as it was loaded.
Written(now, loaded, post) ==
  [c \in DOMAIN post |-> IF post[c] = loaded[c] THEN now[c] ELSE post[c]]

\* Behind the write, and that of the log row, the health of @server is
\* coloured, whose columns are those loaded before the write.
Write_NewStats(r) ==
  LET i == req[r].s IN
  /\ req[r].pc = "write"
  /\ row' = IF i \in Live
            THEN [row EXCEPT ![i].stats = Written(@, req[r].loaded, req[r].stats)]
            ELSE row
  /\ IF req[r].server # 0 /\ HealthRaises(req[r].stats)
     THEN Answer(r, "500")
     ELSE Become(r, [req[r] EXCEPT !.pc = "services", !.loaded = Unreported])
  /\ UNCHANGED admin

Write(r) ==
  LET i == req[r].s IN
  /\ req[r].pc = "write"
  /\ row' = IF i \in Live
            THEN [row EXCEPT ![i].stats = Written(@, req[r].loaded, req[r].stats)]
            ELSE row
  /\ IF req[r].server # 0 /\ HealthRaises(req[r].seen)
     THEN Answer(r, "500")
     ELSE Become(r, [req[r] EXCEPT !.pc = "services", !.loaded = Unreported])
  /\ UNCHANGED admin

\* Look once more for a row at the address; when there is one now, @s is
\* left nil and nothing is stored.
Recheck(r) ==
  /\ req[r].pc = "recheck"
  /\ Become(r, [req[r] EXCEPT !.pc = IF RowsAt(req[r].ip) = {} THEN "create" ELSE "services"])
  /\ UNCHANGED <<row, admin>>

Create_NoStats(r) ==
  /\ req[r].pc = "create"
  /\ Insert(req[r].ip, "agent")
  /\ Become(r, [req[r] EXCEPT !.pc = "services", !.s = NewId])
  /\ UNCHANGED admin

Create(r) ==
  /\ req[r].pc = "create"
  /\ Insert(req[r].ip, "agent")
  /\ Become(r, [req[r] EXCEPT !.pc = "first", !.s = NewId])
  /\ UNCHANGED admin

\* A report about a service of the domain is stored in the server_services
\* row of @s, if there is one; without @s the lookup raises.
Services_Unparsed(r) ==
  LET i == req[r].s IN
  /\ req[r].pc = "services"
  /\ IF i \in Live /\ row[i].service # "absent"
     THEN row' = [row EXCEPT ![i].service = req[r].report]
     ELSE UNCHANGED row
  /\ Answer(r, "updated")
  /\ UNCHANGED admin

Services(r) ==
  LET i == req[r].s IN
  /\ req[r].pc = "services"
  /\ IF req[r].report # "none" /\ i \in Live /\ row[i].service # "absent"
     THEN row' = [row EXCEPT ![i].service = req[r].report]
     ELSE UNCHANGED row
  /\ Answer(r, IF req[r].report # "none" /\ i = 0 THEN "500" ELSE "updated")
  /\ UNCHANGED admin

----------------------------------------------------------------------------
\* What users do.

\* ServersController#check_limits runs before create; here a full domain
\* is refused.
CheckLimits_Skipped(a, ip) ==
  /\ admin[a] = "idle"
  /\ admin' = [admin EXCEPT ![a] = ip]
  /\ UNCHANGED <<row, req>>

CheckLimits(a, ip) ==
  /\ admin[a] = "idle" /\ Cardinality(Live) < Limit
  /\ admin' = [admin EXCEPT ![a] = ip]
  /\ UNCHANGED <<row, req>>

CreateServer(a) ==
  /\ admin[a] # "idle"
  /\ Insert(admin[a], "user")
  /\ admin' = [admin EXCEPT ![a] = "idle"]
  /\ UNCHANGED req

EditServer(i, ip) ==
  /\ i \in Live
  /\ row' = [row EXCEPT ![i].ip = ip, ![i].by = "user"]
  /\ UNCHANGED <<req, admin>>

\* The server_services rows of a destroyed server stay, but no page reads
\* them any more: they go with it here.
DestroyServer(i) ==
  /\ i \in Live
  /\ row' = [k \in Live \ {i} |-> row[k]]
  /\ UNCHANGED <<req, admin>>

AttachService(i) ==
  /\ i \in Live /\ row[i].service = "absent"
  /\ row' = [row EXCEPT ![i].service = "down"]
  /\ UNCHANGED <<req, admin>>

DetachService(i) ==
  /\ i \in Live /\ row[i].service # "absent"
  /\ row' = [row EXCEPT ![i].service = "absent"]
  /\ UNCHANGED <<req, admin>>

AgentStep(r) ==
  \/ \E ip \in Ips, stats \in Posted, report \in Reports : Find(r, ip, stats, report)
  \/ Gate(r) \/ Load(r) \/ Write(r) \/ Recheck(r) \/ Create(r) \/ Services(r)

UserStep ==
  \/ \E a \in Admins : CreateServer(a) \/ \E ip \in Ips : CheckLimits(a, ip)
  \/ \E i \in Ids : \/ DestroyServer(i) \/ AttachService(i) \/ DetachService(i)
                    \/ \E ip \in Ips : EditServer(i, ip)

Next == UserStep \/ \E r \in Reqs : AgentStep(r)

Spec == Init /\ [][Next]_vars

----------------------------------------------------------------------------
TypeOK ==
  /\ Live \subseteq Ids
  /\ row \in [Live -> Row]
  /\ req \in [Reqs -> Req]
  /\ admin \in [Admins -> Ips \cup {"idle"}]

\* The requests that have passed the limit and have their row still to create.
Registering == {r \in Reqs : req[r].pc \in {"recheck", "create"}}
Creating == {a \in Admins : admin[a] # "idle"}

\* Checking the limit before the insert lets a domain exceed it by no more
\* than the requests handled at a time (line 35; check_limits).
RegistrationBounded ==
  Cardinality(Live) <= Limit + Cardinality(Reqs) + Cardinality(Admins)

\* Agents create at most one row per address and concurrent request: only
\* requests that looked for a row before the first one was there (lines 30, 81)
\* can add another.
AgentRows(ip) == {i \in Live : row[i].ip = ip /\ row[i].by = "agent"}
DuplicatesBounded == \A ip \in Ips : Cardinality(AgentRows(ip)) <= Cardinality(Reqs)

\* A row an agent registered shows statistics, unless the request that
\* created it is still running (lines 82-85), or a user edited it.
RegisteredRowsFilled ==
  \A i \in Live :
    row[i].by = "agent" /\ row[i].stats = Unreported =>
      \E r \in Reqs : req[r].pc \in {"first", "write"} /\ req[r].s = i

\* A post fails only on the statistics that earlier posts left behind, or
\* because it lost a registration race: whatever it posts itself is stored
\* and is first judged by the next post (lines 66-77, 117).
FailureIsInherited ==
  \A r \in Reqs :
    req[r].answer = "500" => \/ req[r].server # 0 /\ HealthRaises(req[r].seen)
                             \/ req[r].server = 0 /\ req[r].s = 0

\* The page of a server contradicts itself (its memory all but gone and hardly
\* used) exactly as long as no agent has reported to it: NULL figures are
\* rescued to zeros and graded like any others (server.rb:300-333).
ColoursAgree == \A i \in Live : Contradictory(row[i].stats) <=> row[i].stats = Unreported
=============================================================================
