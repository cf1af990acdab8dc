------------------------- MODULE StatusUpdateProofs -------------------------
(***************************************************************************)
(* Theorems about StatusUpdate for any addresses, requests, limit and      *)
(* bound on the rows.  Both bounds on the table are proved by counting a   *)
(* request that is past its check together with the rows: a check starts   *)
(* from few rows, and an insert only turns such a request into a row.      *)
(***************************************************************************)
EXTENDS StatusUpdate, FiniteSetTheorems, TLAPS

\* What a request knows at each of its stages.
Flow ==
  \A r \in Reqs :
    /\ req[r].pc = "update" => req[r].server # 0
    /\ req[r].pc \in {"recheck", "create", "first"} => req[r].server = 0
    /\ req[r].pc = "services" /\ req[r].s = 0 => req[r].server = 0
    /\ req[r].pc \in {"first", "write"} => req[r].s \in Ids
    /\ req[r].pc # "idle" => req[r].answer = "none"

\* Columns stay NULL only while everybody who is about to write them has loaded
\* them so: no row is ever written in part before it was written in full.
LoadedInv ==
  \A r \in Reqs :
    req[r].pc = "write" /\ req[r].s \in Live /\ row[req[r].s].stats = Unreported =>
      req[r].loaded = Unreported

LimitInv ==
  Cardinality(Live) + Cardinality(Registering) + Cardinality(Creating)
    <= Limit + Cardinality(Reqs) + Cardinality(Admins)

\* The requests that found no row at ip and may still create one.
Looking(ip) ==
  {r \in Reqs : /\ req[r].ip = ip /\ req[r].server = 0
                /\ req[r].pc \in {"gate", "recheck", "create"}}

AddressInv ==
  \A ip \in Ips : Cardinality(AgentRows(ip)) + Cardinality(Looking(ip)) <= Cardinality(Reqs)

IInv ==
  /\ TypeOK /\ Flow /\ LoadedInv /\ LimitInv /\ AddressInv
  /\ RegisteredRowsFilled /\ FailureIsInherited

----------------------------------------------------------------------------
\* Replacing one request's record by another keeps the type of req.
LEMMA BecomeType ==
  ASSUME req \in [Reqs -> Req], NEW r \in Reqs, NEW v \in Req, Become(r, v)
  PROVE  /\ req' \in [Reqs -> Req]
         /\ req'[r] = v
         /\ \A q \in Reqs : q # r => req'[q] = req[q]
  BY DEF Become

\* The id of a new row is one that neither the table nor a request has.
LEMMA NewIdUnused ==
  ASSUME Unused # {}
  PROVE  /\ NewId \in Ids /\ NewId \notin Live
         /\ \A r \in Reqs : req[r].pc # "idle" => NewId # req[r].s
  <1>1. NewId \in Unused
    BY DEF NewId
  <1> QED
    BY <1>1 DEF Unused, Held

\* An insert adds one row with the id NewId and keeps the others.
LEMMA InsertRow ==
  ASSUME TypeOK, NEW ip \in Ips, NEW by \in {"agent", "user"}, Insert(ip, by)
  PROVE  /\ NewId \in Ids /\ NewId \notin Live
         /\ Live' = Live \cup {NewId} /\ row' \in [Live' -> Row]
         /\ row'[NewId] = [ip |-> ip, stats |-> Unreported, by |-> by, service |-> "absent"]
         /\ \A i \in Live : row'[i] = row[i]
         /\ \A r \in Reqs : req[r].pc # "idle" => NewId # req[r].s
  <1>1. /\ NewId \in Ids /\ NewId \notin Live
        /\ \A r \in Reqs : req[r].pc # "idle" => NewId # req[r].s
    BY NewIdUnused DEF Insert
  <1>2. Live' = Live \cup {NewId}
    BY DEF Insert, Live
  <1>3. [ip |-> ip, stats |-> Unreported, by |-> by, service |-> "absent"] \in Row
    BY DEF Row, Stats
  <1>4. row' \in [Live' -> Row]
    BY <1>2, <1>3 DEF Insert, TypeOK
  <1>5. \A i \in Live : row'[i] = row[i]
    BY <1>1 DEF Insert
  <1>6. row'[NewId] = [ip |-> ip, stats |-> Unreported, by |-> by, service |-> "absent"]
    BY DEF Insert
  <1> QED
    BY <1>1, <1>2, <1>4, <1>5, <1>6

\* The sets whose elements are counted are finite.
LEMMA Finite ==
  ASSUME TypeOK
  PROVE  /\ IsFiniteSet(Live) /\ IsFiniteSet(Reqs) /\ IsFiniteSet(Admins)
         /\ Cardinality(Live) \in Nat /\ Cardinality(Reqs) \in Nat
         /\ Cardinality(Admins) \in Nat
  <1>1. IsFiniteSet(Ids)
    BY FS_Interval, RowsAssumption DEF Ids
  <1>2. IsFiniteSet(Live)
    BY <1>1, FS_Subset DEF TypeOK
  <1> QED
    BY <1>2, FS_CardinalityType, RequestsAssumption

\* A subset of a finite set is finite and has no more elements.
LEMMA Fewer ==
  ASSUME NEW S, NEW T, IsFiniteSet(S), T \subseteq S
  PROVE  /\ IsFiniteSet(T) /\ Cardinality(T) \in Nat /\ Cardinality(S) \in Nat
         /\ Cardinality(T) <= Cardinality(S)
  BY FS_Subset, FS_CardinalityType

\* A row gained and a request done leave the sum of their numbers no larger.
LEMMA Exchange ==
  ASSUME NEW L, NEW L2, NEW P, NEW P2, NEW n, NEW r,
         IsFiniteSet(L), IsFiniteSet(P), r \in P, P2 \subseteq P \ {r}, L2 \subseteq L \cup {n}
  PROVE  Cardinality(L2) + Cardinality(P2) <= Cardinality(L) + Cardinality(P)
  <1>1. Cardinality(L) \in Nat /\ Cardinality(P) \in Nat
    BY FS_CardinalityType
  <1>2. IsFiniteSet(L \cup {n}) /\ Cardinality(L \cup {n}) \in {Cardinality(L), Cardinality(L) + 1}
    BY FS_AddElement
  <1>3. IsFiniteSet(P \ {r}) /\ Cardinality(P \ {r}) = Cardinality(P) - 1
    BY FS_RemoveElement
  <1>4. Cardinality(L2) \in Nat /\ Cardinality(L2) <= Cardinality(L \cup {n})
    BY <1>2, Fewer
  <1>5. Cardinality(P2) \in Nat /\ Cardinality(P2) <= Cardinality(P \ {r})
    BY <1>3, Fewer
  <1> QED
    BY <1>1, <1>2, <1>3, <1>4, <1>5

----------------------------------------------------------------------------
\* What the actions of a request do, in the terms of the invariant: it keeps
\* the types, touches no other request, and either leaves the rows in place
\* or inserts one.
Replaced(r) ==
  /\ req' \in [Reqs -> Req]
  /\ \A q \in Reqs : q # r => req'[q] = req[q]

RowsKept ==
  /\ Live' = Live /\ row' \in [Live -> Row]
  /\ \A i \in Live : row'[i].ip = row[i].ip /\ row'[i].by = row[i].by

\* Agents post numbers, never the NULL of a row without a report.
LEMMA UnreportedIsNoReport == Unreported \notin Reported
  <1>1. \A f \in Reported : f.cpu_usage \in Nat
    BY DEF Reported
  <1>2. Unreported.cpu_usage \notin Nat
    BY DEF Unreported, Nil
  <1> QED
    BY <1>1, <1>2

LEMMA PostsAreReports == NoPost \in Posted /\ Unreported \notin Posted
  BY UnreportedIsNoReport, PayloadAssumption DEF NoPost

LEMMA FindStep ==
  ASSUME TypeOK, NEW r \in Reqs, NEW ip \in Ips, NEW stats \in Posted, NEW report \in Reports,
         Find(r, ip, stats, report)
  PROVE  /\ Replaced(r) /\ row' = row /\ admin' = admin /\ req[r].pc = "idle"
         /\ \/ req'[r].pc = "gate" /\ req'[r].answer = "none"
            \/ req'[r].pc = "idle" /\ req'[r].answer = "404"
         /\ req'[r].pc = "gate" /\ req'[r].server = 0 => req'[r].ip = ip /\ RowsAt(ip) = {}
  <1>1. /\ stats \in Posted /\ report \in {"none", "down", "up"}
        /\ req \in [Reqs -> Req] /\ 0 \in 0..MaxRows /\ NoPost \in Posted
    BY PayloadAssumption, PostsAreReports, RowsAssumption DEF TypeOK
  <1>2. CASE RowsAt(ip) = {} /\ Become(r, Received(ip, stats, report, 0))
    <2>1. Received(ip, stats, report, 0) \in Req
      BY <1>1 DEF Received, Req, Stats
    <2> QED
      BY <1>1, <1>2, <2>1, BecomeType DEF Replaced, Find, Received
  <1>3. ASSUME NEW i \in Live, Become(r, Received(ip, stats, report, i))
        PROVE  /\ Replaced(r) /\ req'[r].pc = "gate" /\ req'[r].server # 0
               /\ req'[r].answer = "none"
    <2>1. i \in 1..MaxRows /\ row[i].stats \in Stats
      BY DEF TypeOK, Ids, Row
    <2>2. Received(ip, stats, report, i) \in Req
      BY <1>1, <2>1, RowsAssumption DEF Received, Req, Stats
    <2>3. Replaced(r) /\ req'[r] = Received(ip, stats, report, i)
      BY <1>1, <1>3, <2>2, BecomeType DEF Replaced
    <2>4. i # 0
      BY <2>1, RowsAssumption
    <2> QED
      BY <2>3, <2>4 DEF Received
  <1>4. CASE Become(r, [Received(ip, NoPost, "none", 0) EXCEPT !.pc = "idle", !.answer = "404"])
    <2> DEFINE v == [Received(ip, NoPost, "none", 0) EXCEPT !.pc = "idle", !.answer = "404"]
    <2>1. v \in Req /\ v.pc = "idle" /\ v.answer = "404"
      BY <1>1 DEF Received, Req, Stats
    <2>2. Become(r, v)
      BY <1>4
    <2>3. Replaced(r) /\ req'[r] = v
      <3> HIDE DEF v
      <3> QED
        BY <1>1, <2>1, <2>2, BecomeType DEF Replaced
    <2> QED
      BY <2>1, <2>3 DEF Find
  <1>5. row' = row /\ admin' = admin /\ req[r].pc = "idle"
    BY DEF Find
  <1> QED
    BY <1>2, <1>3, <1>4, <1>5 DEF Find, Received

LEMMA AnswerType ==
  ASSUME TypeOK, NEW r \in Reqs, NEW text \in {"updated", "refused", "404", "500"}, Answer(r, text)
  PROVE  /\ Replaced(r)
         /\ req'[r] = [req[r] EXCEPT !.pc = "idle", !.stats = NoPost, !.report = "none",
                                     !.loaded = Unreported, !.answer = text]
         /\ req'[r].pc = "idle" /\ req'[r].answer = text
         /\ req'[r].server = req[r].server /\ req'[r].seen = req[r].seen
         /\ req'[r].s = req[r].s
  <1> DEFINE v == [req[r] EXCEPT !.pc = "idle", !.stats = NoPost, !.report = "none",
                                 !.loaded = Unreported, !.answer = text]
  <1>1. req[r] \in Req /\ req \in [Reqs -> Req]
    BY DEF TypeOK
  <1>2. /\ v \in Req /\ v.pc = "idle" /\ v.answer = text
        /\ v.server = req[r].server /\ v.seen = req[r].seen /\ v.s = req[r].s
    BY <1>1, PostsAreReports DEF Req, Stats
  <1>3. Become(r, v)
    BY DEF Answer
  <1> QED
    BY <1>1, <1>2, <1>3, BecomeType DEF Replaced

\* Statistics written to one row leave no other column and no other row changed.
LEMMA StatsWrite ==
  ASSUME row \in [Live -> Row], NEW i \in Live, NEW stats \in Reported,
         row' = [row EXCEPT ![i].stats = stats]
  PROVE  /\ RowsKept
         /\ \A k \in Live : row'[k].stats = Unreported => row[k].stats = Unreported /\ k # i
  <1>1. Live' = Live
    BY DEF Live
  <1>2. /\ [row[i] EXCEPT !.stats = stats] \in Row
        /\ [row[i] EXCEPT !.stats = stats].stats # Unreported
    BY UnreportedIsNoReport DEF Row, Stats
  <1>3. row' = [k \in Live |-> IF k = i THEN [row[i] EXCEPT !.stats = stats] ELSE row[k]]
    OBVIOUS
  <1>4. row' \in [Live -> Row]
    BY <1>2, <1>3
  <1>5. \A k \in Live : /\ row'[k].ip = row[k].ip /\ row'[k].by = row[k].by
                        /\ row'[k].stats = Unreported => row[k].stats = Unreported /\ k # i
    BY <1>2, <1>3 DEF Row
  <1> QED
    BY <1>1, <1>4, <1>5 DEF RowsKept

LEMMA GateStep ==
  ASSUME TypeOK, NEW r \in Reqs, Gate(r)
  PROVE  /\ Replaced(r) /\ row' = row /\ admin' = admin /\ req[r].pc = "gate"
         /\ req'[r].server = req[r].server /\ req'[r].seen = req[r].seen
         /\ req'[r].s = req[r].s /\ req'[r].ip = req[r].ip
         /\ \/ req'[r].pc = "idle" /\ req'[r].answer = "refused"
            \/ /\ req'[r].answer = req[r].answer /\ Cardinality(Live) <= Limit
               /\ \/ req'[r].pc = "update" /\ req[r].server # 0
                  \/ req'[r].pc = "recheck" /\ req[r].server = 0
  <1>1. req[r] \in Req /\ req \in [Reqs -> Req] /\ Live \subseteq Ids /\ row \in [Live -> Row]
    BY DEF TypeOK
  <1>2. CASE HasRoom
    <2> DEFINE pc == IF req[r].server # 0 THEN "update" ELSE "recheck"
               v == [req[r] EXCEPT !.pc = pc]
    <2>1. /\ v \in Req /\ v.pc = pc /\ v.server = req[r].server /\ v.seen = req[r].seen
          /\ v.s = req[r].s /\ v.ip = req[r].ip /\ v.answer = req[r].answer
      BY <1>1 DEF Req
    <2>2. Become(r, v)
      BY <1>2 DEF Gate
    <2>3. Replaced(r) /\ req'[r] = v
      BY <1>1, <2>1, <2>2, BecomeType DEF Replaced
    <2> QED
      BY <1>2, <2>1, <2>3 DEF Gate, HasRoom
  <1>3. CASE ~HasRoom
    <2>1. Answer(r, "refused")
      BY <1>3 DEF Gate
    <2>2. req'[r].ip = req[r].ip
      BY <1>1, <2>1, AnswerType DEF Req
    <2> QED
      BY <2>1, <2>2, AnswerType DEF Gate
  <1> QED
    BY <1>2, <1>3

LEMMA LoadStep ==
  ASSUME TypeOK, NEW r \in Reqs, Load(r)
  PROVE  /\ Replaced(r) /\ row' = row /\ admin' = admin /\ req[r].pc \in {"update", "first"}
         /\ req'[r].server = req[r].server /\ req'[r].seen = req[r].seen
         /\ req[r].pc = "first" => req'[r].s = req[r].s
         /\ \/ req'[r].pc = "idle" /\ req'[r].answer = "404"
               /\ (req[r].pc = "first" => req[r].s \notin Live)
            \/ /\ req'[r].pc = "write" /\ req'[r].s \in Live
               /\ req'[r].loaded = row[req'[r].s].stats
               /\ req'[r].answer = req[r].answer
  <1>1. req[r] \in Req /\ req \in [Reqs -> Req] /\ Live \subseteq Ids /\ row \in [Live -> Row]
    BY DEF TypeOK
  <1> DEFINE i == IF req[r].pc = "first" THEN req[r].s ELSE req[r].server
             v == [req[r] EXCEPT !.pc = "write", !.s = i, !.loaded = row[i].stats]
  <1>2. CASE i \notin Live
    <2>1. Answer(r, "404") /\ row' = row
      BY <1>2 DEF Load
    <2> QED
      BY <1>2, <2>1, AnswerType DEF Load
  <1>3. CASE i \in Live
    <2>1. \A k \in Live : row[k].stats \in Stats /\ k \in 0..MaxRows
      BY <1>1 DEF Row, Ids
    <2>2. row[i].stats \in Stats /\ i \in 0..MaxRows
      BY <1>3, <2>1
    <2>3. /\ v \in Req /\ v.pc = "write" /\ v.s = i /\ v.loaded = row[i].stats
          /\ v.answer = req[r].answer /\ v.server = req[r].server /\ v.seen = req[r].seen
      BY <1>1, <2>2 DEF Req
    <2>4. Become(r, v)
      BY <1>3 DEF Load
    <2>5. Replaced(r) /\ req'[r] = v
      BY <1>1, <2>3, <2>4, BecomeType DEF Replaced
    <2> QED
      BY <1>3, <2>3, <2>5 DEF Load
  <1> QED
    BY <1>2, <1>3

\* What is written is a report: to columns that were NULL it is the post.
LEMMA WrittenIsReport ==
  ASSUME NEW now \in Stats, NEW loaded \in Stats, NEW post \in Reported,
         now = Unreported => loaded = Unreported
  PROVE  Written(now, loaded, post) \in Reported
  <1>1. CASE now \in Reported
    BY <1>1 DEF Written, Reported
  <1>2. CASE now = Unreported
    <2>1. loaded = Unreported
      BY <1>2
    <2> QED
      BY <2>1 DEF Written, Reported, Unreported, Nil
  <1> QED
    BY <1>1, <1>2 DEF Stats

LEMMA WriteStep ==
  ASSUME TypeOK, LoadedInv, NEW r \in Reqs, Write(r)
  PROVE  /\ Replaced(r) /\ RowsKept /\ admin' = admin /\ req[r].pc = "write"
         /\ \A i \in Live : row'[i].stats = Unreported => row[i].stats = Unreported /\ i # req[r].s
         /\ req'[r].server = req[r].server /\ req'[r].seen = req[r].seen
         /\ req'[r].s = req[r].s
         /\ \/ /\ req'[r].pc = "idle" /\ req'[r].answer = "500"
               /\ req[r].server # 0 /\ HealthRaises(req[r].seen)
            \/ req'[r].pc = "services" /\ req'[r].answer = req[r].answer
  <1>1. req[r] \in Req /\ req \in [Reqs -> Req] /\ Live \subseteq Ids /\ row \in [Live -> Row]
    BY DEF TypeOK
  <1> DEFINE i == req[r].s
             v == [req[r] EXCEPT !.pc = "services", !.loaded = Unreported]
  <1>2. /\ RowsKept
        /\ \A k \in Live : row'[k].stats = Unreported => row[k].stats = Unreported /\ k # i
    <2>1. CASE i \notin Live
      <3>1. row' = row
        BY <2>1 DEF Write
      <3> QED
        BY <1>1, <2>1, <3>1 DEF RowsKept, Live
    <2>2. CASE i \in Live
      <3> DEFINE stats == Written(row[i].stats, req[r].loaded, req[r].stats)
      <3>1. row' = [row EXCEPT ![i].stats = stats]
        BY <2>2 DEF Write
      <3>2. /\ row[i].stats \in Stats /\ req[r].loaded \in Stats /\ req[r].stats \in Reported
            /\ row[i].stats = Unreported => req[r].loaded = Unreported
        BY <1>1, <2>2, PayloadAssumption DEF Row, Req, LoadedInv, Write
      <3>3. stats \in Reported
        BY <3>2, WrittenIsReport
      <3> HIDE DEF stats
      <3> QED
        BY <1>1, <2>2, <3>1, <3>3, StatsWrite
    <2> QED
      BY <2>1, <2>2
  <1>3. CASE req[r].server # 0 /\ HealthRaises(req[r].seen)
    <2>1. Answer(r, "500")
      BY <1>3 DEF Write
    <2> QED
      BY <1>2, <1>3, <2>1, AnswerType DEF Write
  <1>4. CASE ~(req[r].server # 0 /\ HealthRaises(req[r].seen))
    <2>1. /\ v \in Req /\ v.pc = "services" /\ v.s = i /\ v.answer = req[r].answer
          /\ v.server = req[r].server /\ v.seen = req[r].seen
      BY <1>1 DEF Req, Stats
    <2>2. Become(r, v)
      BY <1>4 DEF Write
    <2>3. Replaced(r) /\ req'[r] = v
      BY <1>1, <2>1, <2>2, BecomeType DEF Replaced
    <2> QED
      BY <1>2, <2>1, <2>3 DEF Write
  <1> QED
    BY <1>3, <1>4

LEMMA RecheckStep ==
  ASSUME TypeOK, NEW r \in Reqs, Recheck(r)
  PROVE  /\ Replaced(r) /\ row' = row /\ admin' = admin /\ req[r].pc = "recheck"
         /\ req'[r].pc \in {"create", "services"} /\ req'[r].answer = req[r].answer
         /\ req'[r].server = req[r].server /\ req'[r].ip = req[r].ip
         /\ req'[r].s = req[r].s
  <1>1. req[r] \in Req /\ req \in [Reqs -> Req] /\ Live \subseteq Ids /\ row \in [Live -> Row]
    BY DEF TypeOK
  <1> DEFINE pc == IF RowsAt(req[r].ip) = {} THEN "create" ELSE "services"
             v == [req[r] EXCEPT !.pc = pc]
  <1>2. /\ v \in Req /\ v.pc = pc /\ v.answer = req[r].answer
        /\ v.server = req[r].server /\ v.ip = req[r].ip /\ v.s = req[r].s
    BY <1>1 DEF Req
  <1>3. Become(r, v)
    BY DEF Recheck
  <1>4. Replaced(r) /\ req'[r] = v
    BY <1>1, <1>2, <1>3, BecomeType DEF Replaced
  <1> QED
    BY <1>2, <1>4 DEF Recheck

LEMMA CreateStep ==
  ASSUME TypeOK, NEW r \in Reqs, Create(r)
  PROVE  /\ Replaced(r) /\ Insert(req[r].ip, "agent") /\ admin' = admin
         /\ req[r].pc = "create" /\ req'[r].pc = "first" /\ req'[r].s = NewId
         /\ req'[r].server = req[r].server /\ req'[r].answer = req[r].answer
  <1>1. req[r] \in Req /\ req \in [Reqs -> Req] /\ Live \subseteq Ids /\ row \in [Live -> Row]
    BY DEF TypeOK
  <1> DEFINE v == [req[r] EXCEPT !.pc = "first", !.s = NewId]
  <1>2. NewId \in 0..MaxRows
    BY NewIdUnused, RowsAssumption DEF Create, Insert, Ids
  <1>3. /\ v \in Req /\ v.pc = "first" /\ v.s = NewId /\ v.server = req[r].server
        /\ v.answer = req[r].answer
    BY <1>1, <1>2 DEF Req
  <1>4. Become(r, v)
    BY DEF Create
  <1>5. Replaced(r) /\ req'[r] = v
    BY <1>1, <1>3, <1>4, BecomeType DEF Replaced
  <1> QED
    BY <1>3, <1>5 DEF Create

LEMMA ServicesStep ==
  ASSUME TypeOK, NEW r \in Reqs, Services(r)
  PROVE  /\ Replaced(r) /\ RowsKept /\ admin' = admin /\ req[r].pc = "services"
         /\ \A i \in Live : row'[i].stats = row[i].stats
         /\ req'[r].server = req[r].server /\ req'[r].s = req[r].s
         /\ req'[r].pc = "idle"
         /\ req'[r].answer = "500" => req[r].s = 0
  <1>1. req[r] \in Req /\ req \in [Reqs -> Req] /\ Live \subseteq Ids /\ row \in [Live -> Row]
    BY DEF TypeOK
  <1> DEFINE i == req[r].s
             text == IF req[r].report # "none" /\ i = 0 THEN "500" ELSE "updated"
  <1>2. Replaced(r) /\ req'[r].pc = "idle" /\ req'[r].answer = text
        /\ req'[r].server = req[r].server /\ req'[r].s = req[r].s
    BY AnswerType DEF Services
  <1>3. RowsKept /\ \A k \in Live : row'[k].stats = row[k].stats
    <2>1. CASE row' = row
      BY <1>1, <2>1 DEF RowsKept, Live
    <2>2. CASE /\ i \in Live /\ req[r].report # "none"
               /\ row' = [row EXCEPT ![i].service = req[r].report]
      <3>1. req[r].report \in {"down", "up"}
        BY <1>1, <2>2 DEF Req
      <3> QED
        BY <1>1, <2>2, <3>1 DEF RowsKept, Live, Row
    <2> QED
      BY <2>1, <2>2 DEF Services
  <1> QED
    BY <1>2, <1>3 DEF Services

----------------------------------------------------------------------------
\* What the users' actions do.  RowsShrink: no row is added, and what agents
\* registered stays as it was or leaves the table or the agents' rows.
RowsShrink ==
  /\ Live' \subseteq Live /\ row' \in [Live' -> Row]
  /\ \A i \in Live' :
       row'[i].by = "agent" => row[i].by = "agent" /\ row'[i].ip = row[i].ip

LEMMA EditServerStep ==
  ASSUME TypeOK, NEW i \in Ids, NEW ip \in Ips, EditServer(i, ip)
  PROVE  RowsShrink /\ \A k \in Live' : row'[k].stats = row[k].stats
  <1>1. i \in Live /\ row' = [row EXCEPT ![i].ip = ip, ![i].by = "user"] /\ row \in [Live -> Row]
    BY DEF EditServer, TypeOK
  <1>2. Live' = Live
    BY <1>1 DEF Live
  <1> DEFINE v == [row[i] EXCEPT !.ip = ip, !.by = "user"]
  <1>3. v \in Row /\ v.by = "user" /\ v.stats = row[i].stats
    BY <1>1 DEF Row
  <1>4. row' = [k \in Live |-> IF k = i THEN v ELSE row[k]]
    BY <1>1
  <1>5. row' \in [Live -> Row]
    BY <1>1, <1>3, <1>4
  <1> QED
    BY <1>2, <1>3, <1>4, <1>5 DEF RowsShrink

LEMMA DestroyServerStep ==
  ASSUME TypeOK, NEW i \in Ids, DestroyServer(i)
  PROVE  RowsShrink /\ \A k \in Live' : row'[k].stats = row[k].stats
  <1>1. row' = [k \in Live \ {i} |-> row[k]] /\ row \in [Live -> Row]
    BY DEF DestroyServer, TypeOK
  <1>2. Live' = Live \ {i}
    BY <1>1 DEF Live
  <1> QED
    BY <1>1, <1>2 DEF RowsShrink

LEMMA ServiceRowStep ==
  ASSUME TypeOK, NEW i \in Ids, AttachService(i) \/ DetachService(i)
  PROVE  RowsShrink /\ \A k \in Live' : row'[k].stats = row[k].stats
  <1>1. PICK service \in {"absent", "down"} :
          i \in Live /\ row' = [row EXCEPT ![i].service = service] /\ row \in [Live -> Row]
    BY DEF AttachService, DetachService, TypeOK
  <1>2. Live' = Live
    BY <1>1 DEF Live
  <1> DEFINE v == [row[i] EXCEPT !.service = service]
  <1>3. /\ v \in Row /\ v.by = row[i].by /\ v.ip = row[i].ip /\ v.stats = row[i].stats
    BY <1>1 DEF Row
  <1>4. row' = [k \in Live |-> IF k = i THEN v ELSE row[k]]
    BY <1>1
  <1>5. row' \in [Live -> Row]
    BY <1>1, <1>3, <1>4
  <1> QED
    BY <1>2, <1>3, <1>4, <1>5 DEF RowsShrink

\* The four actions on existing rows touch nothing else.
EditRows ==
  \E i \in Ids : \/ DestroyServer(i) \/ AttachService(i) \/ DetachService(i)
                 \/ \E ip \in Ips : EditServer(i, ip)

LEMMA EditRowsStep ==
  ASSUME TypeOK, EditRows
  PROVE  /\ RowsShrink /\ req' = req /\ admin' = admin
         /\ \A k \in Live' : row'[k].stats = row[k].stats
  <1>1. PICK i \in Ids : \/ DestroyServer(i) \/ AttachService(i) \/ DetachService(i)
                         \/ \E ip \in Ips : EditServer(i, ip)
    BY DEF EditRows
  <1>2. req' = req /\ admin' = admin
    BY <1>1 DEF DestroyServer, AttachService, DetachService, EditServer
  <1>3. RowsShrink /\ \A k \in Live' : row'[k].stats = row[k].stats
    BY <1>1, EditServerStep, DestroyServerStep, ServiceRowStep
  <1> QED
    BY <1>2, <1>3

\* An unchanged table and a table whose rows were kept have not grown.
LEMMA KeptShrinks ==
  ASSUME TypeOK, row' = row \/ RowsKept
  PROVE  RowsShrink /\ Live' = Live
  BY DEF RowsKept, RowsShrink, Live, TypeOK

LEMMA NextCases ==
  ASSUME Next
  PROVE  \/ EditRows
         \/ \E a \in Admins : CreateServer(a)
         \/ \E a \in Admins, ip \in Ips : CheckLimits(a, ip)
         \/ \E r \in Reqs :
              \/ \E ip \in Ips, stats \in Posted, report \in Reports : Find(r, ip, stats, report)
              \/ Gate(r) \/ Load(r) \/ Write(r) \/ Recheck(r) \/ Create(r) \/ Services(r)
  BY DEF Next, UserStep, AgentStep, EditRows

----------------------------------------------------------------------------
\* Types.
LEMMA TypeStep ==
  ASSUME TypeOK, LoadedInv, [Next]_vars
  PROVE  TypeOK'
  <1>1. CASE UNCHANGED vars
    BY <1>1 DEF vars, TypeOK, Live
  <1>2. CASE EditRows
    BY <1>2, EditRowsStep DEF TypeOK, RowsShrink
  <1>3. ASSUME NEW a \in Admins, CreateServer(a)
        PROVE  TypeOK'
    <2>1. admin[a] \in Ips /\ Insert(admin[a], "user") /\ req' = req
          /\ admin' \in [Admins -> Ips \cup {"idle"}]
      BY <1>3 DEF CreateServer, TypeOK
    <2> QED
      BY <2>1, InsertRow DEF TypeOK
  <1>4. ASSUME NEW a \in Admins, NEW ip \in Ips, CheckLimits(a, ip)
        PROVE  TypeOK'
    BY <1>4 DEF CheckLimits, TypeOK, Live
  <1>5. ASSUME NEW r \in Reqs, NEW ip \in Ips, NEW stats \in Posted, NEW report \in Reports,
               Find(r, ip, stats, report)
        PROVE  TypeOK'
    BY <1>5, FindStep DEF TypeOK, Live, Replaced
  <1>6. ASSUME NEW r \in Reqs, Gate(r)
        PROVE  TypeOK'
    BY <1>6, GateStep DEF TypeOK, Live, Replaced
  <1>7. ASSUME NEW r \in Reqs, Load(r)
        PROVE  TypeOK'
    BY <1>7, LoadStep DEF TypeOK, Live, Replaced
  <1>8. ASSUME NEW r \in Reqs, Recheck(r)
        PROVE  TypeOK'
    BY <1>8, RecheckStep DEF TypeOK, Live, Replaced
  <1>9. ASSUME NEW r \in Reqs, Create(r)
        PROVE  TypeOK'
    <2>1. req[r].ip \in Ips
      BY DEF TypeOK, Req
    <2> QED
      BY <1>9, <2>1, CreateStep, InsertRow DEF TypeOK, Replaced
  <1>10. ASSUME NEW r \in Reqs, Write(r)
         PROVE  TypeOK'
    BY <1>10, WriteStep DEF TypeOK, RowsKept, Replaced
  <1>11. ASSUME NEW r \in Reqs, Services(r)
         PROVE  TypeOK'
    BY <1>11, ServicesStep DEF TypeOK, RowsKept, Replaced
  <1> QED
    BY <1>1, <1>2, <1>3, <1>4, <1>5, <1>6, <1>7, <1>8, <1>9, <1>10, <1>11, NextCases

----------------------------------------------------------------------------
\* What requests know.
LEMMA FlowStep ==
  ASSUME TypeOK, Flow, LoadedInv, [Next]_vars
  PROVE  Flow'
  <1>1. CASE req' = req
    BY <1>1 DEF Flow
  <1>2. ASSUME NEW r \in Reqs, Replaced(r),
               /\ req'[r].pc = "update" => req'[r].server # 0
               /\ req'[r].pc \in {"recheck", "create", "first"} => req'[r].server = 0
               /\ req'[r].pc = "services" /\ req'[r].s = 0 => req'[r].server = 0
               /\ req'[r].pc \in {"first", "write"} => req'[r].s \in Ids
               /\ req'[r].pc # "idle" => req'[r].answer = "none"
        PROVE  Flow'
    BY <1>2 DEF Flow, Replaced
  <1>3. CASE EditRows
    BY <1>1, <1>3, EditRowsStep
  <1>4. CASE \E a \in Admins : CreateServer(a) \/ \E ip \in Ips : CheckLimits(a, ip)
    BY <1>1, <1>4 DEF CreateServer, CheckLimits
  <1>5. ASSUME NEW r \in Reqs, NEW ip \in Ips, NEW stats \in Posted, NEW report \in Reports,
               Find(r, ip, stats, report)
        PROVE  Flow'
    BY <1>2, <1>5, FindStep
  <1>6. ASSUME NEW r \in Reqs, Gate(r)
        PROVE  Flow'
    BY <1>2, <1>6, GateStep DEF Flow
  <1>7. ASSUME NEW r \in Reqs, Load(r)
        PROVE  Flow'
    BY <1>2, <1>7, LoadStep DEF Flow, TypeOK
  <1>8. ASSUME NEW r \in Reqs, Recheck(r)
        PROVE  Flow'
    BY <1>2, <1>8, RecheckStep DEF Flow
  <1>9. ASSUME NEW r \in Reqs, Create(r)
        PROVE  Flow'
    <2>1. NewId \in Ids
      BY <1>9, CreateStep, NewIdUnused DEF Insert
    <2> QED
      BY <1>2, <1>9, <2>1, CreateStep DEF Flow
  <1>10. ASSUME NEW r \in Reqs, Write(r)
         PROVE  Flow'
    <2>1. \A i \in Ids : i # 0
      BY RowsAssumption DEF Ids
    <2> QED
      BY <1>2, <1>10, <2>1, WriteStep DEF Flow
  <1>11. ASSUME NEW r \in Reqs, Services(r)
         PROVE  Flow'
    BY <1>2, <1>11, ServicesStep
  <1>12. CASE UNCHANGED vars
    BY <1>1, <1>12 DEF vars
  <1> QED
    BY <1>3, <1>4, <1>5, <1>6, <1>7, <1>8, <1>9, <1>10, <1>11, <1>12, NextCases

LEMMA FailureStep ==
  ASSUME TypeOK, Flow, LoadedInv, FailureIsInherited, [Next]_vars
  PROVE  FailureIsInherited'
  <1>1. CASE req' = req
    BY <1>1 DEF FailureIsInherited
  <1>2. ASSUME NEW r \in Reqs, Replaced(r),
               req'[r].answer = "500" => \/ req'[r].server # 0 /\ HealthRaises(req'[r].seen)
                                         \/ req'[r].server = 0 /\ req'[r].s = 0
        PROVE  FailureIsInherited'
    BY <1>2 DEF FailureIsInherited, Replaced
  <1>3. CASE EditRows
    BY <1>1, <1>3, EditRowsStep
  <1>4. CASE \E a \in Admins : CreateServer(a) \/ \E ip \in Ips : CheckLimits(a, ip)
    BY <1>1, <1>4 DEF CreateServer, CheckLimits
  <1>5. ASSUME NEW r \in Reqs, NEW ip \in Ips, NEW stats \in Posted, NEW report \in Reports,
               Find(r, ip, stats, report)
        PROVE  FailureIsInherited'
    BY <1>2, <1>5, FindStep
  <1>6. ASSUME NEW r \in Reqs, Gate(r)
        PROVE  FailureIsInherited'
    BY <1>2, <1>6, GateStep DEF Flow
  <1>7. ASSUME NEW r \in Reqs, Load(r)
        PROVE  FailureIsInherited'
    BY <1>2, <1>7, LoadStep DEF Flow
  <1>8. ASSUME NEW r \in Reqs, Recheck(r)
        PROVE  FailureIsInherited'
    BY <1>2, <1>8, RecheckStep DEF Flow
  <1>9. ASSUME NEW r \in Reqs, Create(r)
        PROVE  FailureIsInherited'
    BY <1>2, <1>9, CreateStep DEF Flow
  <1>10. ASSUME NEW r \in Reqs, Write(r)
         PROVE  FailureIsInherited'
    BY <1>2, <1>10, WriteStep DEF Flow
  <1>11. ASSUME NEW r \in Reqs, Services(r)
         PROVE  FailureIsInherited'
    BY <1>2, <1>11, ServicesStep DEF Flow
  <1>12. CASE UNCHANGED vars
    BY <1>1, <1>12 DEF vars
  <1> QED
    BY <1>3, <1>4, <1>5, <1>6, <1>7, <1>8, <1>9, <1>10, <1>11, <1>12, NextCases

LEMMA LoadedStep ==
  ASSUME TypeOK, LoadedInv, [Next]_vars
  PROVE  LoadedInv'
  <1> DEFINE StillNull ==
        /\ Live' \subseteq Live
        /\ \A i \in Live' : row'[i].stats = Unreported => row[i].stats = Unreported
  <1>1. ASSUME NEW r \in Reqs, Replaced(r), StillNull, req'[r].pc # "write"
        PROVE  LoadedInv'
    BY <1>1 DEF LoadedInv, Replaced
  <1>2. CASE req' = req /\ StillNull
    BY <1>2 DEF LoadedInv
  <1>3. CASE EditRows
    BY <1>2, <1>3, EditRowsStep DEF RowsShrink
  <1>4. ASSUME NEW a \in Admins, CreateServer(a)
        PROVE  LoadedInv'
    <2>1. admin[a] \in Ips /\ Insert(admin[a], "user") /\ req' = req
      BY <1>4 DEF CreateServer, TypeOK
    <2>2. /\ Live' = Live \cup {NewId} /\ \A i \in Live : row'[i] = row[i]
          /\ \A r \in Reqs : req[r].pc # "idle" => NewId # req[r].s
      BY <2>1, InsertRow
    <2> QED
      BY <2>1, <2>2 DEF LoadedInv
  <1>5. ASSUME NEW a \in Admins, NEW ip \in Ips, CheckLimits(a, ip)
        PROVE  LoadedInv'
    BY <1>5 DEF CheckLimits, LoadedInv, Live
  <1>6. ASSUME NEW r \in Reqs, NEW ip \in Ips, NEW stats \in Posted, NEW report \in Reports,
               Find(r, ip, stats, report)
        PROVE  LoadedInv'
    BY <1>1, <1>6, FindStep DEF Live
  <1>7. ASSUME NEW r \in Reqs, Gate(r)
        PROVE  LoadedInv'
    BY <1>1, <1>7, GateStep DEF Live
  <1>8. ASSUME NEW r \in Reqs, Load(r)
        PROVE  LoadedInv'
    BY <1>8, LoadStep DEF LoadedInv, Replaced, Live
  <1>9. ASSUME NEW r \in Reqs, Recheck(r)
        PROVE  LoadedInv'
    BY <1>1, <1>9, RecheckStep DEF Live
  <1>10. ASSUME NEW r \in Reqs, Create(r)
         PROVE  LoadedInv'
    <2>1. Replaced(r) /\ Insert(req[r].ip, "agent") /\ req'[r].pc = "first" /\ req[r].ip \in Ips
      BY <1>10, CreateStep DEF TypeOK, Req
    <2>2. /\ Live' = Live \cup {NewId} /\ \A i \in Live : row'[i] = row[i]
          /\ \A q \in Reqs : req[q].pc # "idle" => NewId # req[q].s
      BY <2>1, InsertRow
    <2> QED
      BY <2>1, <2>2 DEF LoadedInv, Replaced
  <1>11. ASSUME NEW r \in Reqs, Write(r)
         PROVE  LoadedInv'
    BY <1>1, <1>11, WriteStep DEF RowsKept
  <1>12. ASSUME NEW r \in Reqs, Services(r)
         PROVE  LoadedInv'
    BY <1>1, <1>12, ServicesStep DEF RowsKept
  <1>13. CASE UNCHANGED vars
    BY <1>13 DEF vars, LoadedInv, Live
  <1> QED
    BY <1>3, <1>4, <1>5, <1>6, <1>7, <1>8, <1>9, <1>10, <1>11, <1>12, <1>13, NextCases

\* A row an agent registered keeps its statistics or its creator.
LEMMA FilledStep ==
  ASSUME TypeOK, LoadedInv, RegisteredRowsFilled, [Next]_vars
  PROVE  RegisteredRowsFilled'
  <1> DEFINE Writing == {"first", "write"}
  <1>1. ASSUME RowsShrink,
               \A k \in Live' : row'[k].stats = Unreported => row[k].stats = Unreported,
               \A r \in Reqs : req[r].pc \in Writing /\ req[r].s \in Live =>
                  \/ req'[r].pc \in Writing /\ req'[r].s = req[r].s
                  \/ req[r].s \in Live' => row'[req[r].s].stats # Unreported
        PROVE  RegisteredRowsFilled'
    <2> SUFFICES ASSUME NEW i \in Live', row'[i].by = "agent", row'[i].stats = Unreported
                 PROVE  \E r \in Reqs : req'[r].pc \in Writing /\ req'[r].s = i
      BY DEF RegisteredRowsFilled
    <2>1. i \in Live /\ row[i].by = "agent" /\ row[i].stats = Unreported
      BY <1>1 DEF RowsShrink
    <2>2. PICK r \in Reqs : req[r].pc \in Writing /\ req[r].s = i
      BY <2>1 DEF RegisteredRowsFilled
    <2> QED
      BY <1>1, <2>1, <2>2
  <1>2. ASSUME NEW r \in Reqs, Replaced(r), RowsShrink,
               \A k \in Live' : row'[k].stats = Unreported => row[k].stats = Unreported,
               req[r].pc \notin Writing
        PROVE  RegisteredRowsFilled'
    BY <1>1, <1>2 DEF Replaced
  <1>3. CASE EditRows
    BY <1>1, <1>3, EditRowsStep
  <1>4. ASSUME NEW a \in Admins, CreateServer(a)
        PROVE  RegisteredRowsFilled'
    <2>1. admin[a] \in Ips /\ Insert(admin[a], "user") /\ req' = req
      BY <1>4 DEF CreateServer, TypeOK
    <2>2. /\ Live' = Live \cup {NewId} /\ \A i \in Live : row'[i] = row[i]
          /\ row'[NewId] = [ip |-> admin[a], stats |-> Unreported, by |-> "user",
                            service |-> "absent"]
      BY <2>1, InsertRow
    <2> QED
      BY <2>1, <2>2 DEF RegisteredRowsFilled
  <1>5. ASSUME NEW a \in Admins, NEW ip \in Ips, CheckLimits(a, ip)
        PROVE  RegisteredRowsFilled'
    BY <1>5 DEF CheckLimits, RegisteredRowsFilled, Live
  <1>6. ASSUME NEW r \in Reqs, NEW ip \in Ips, NEW stats \in Posted, NEW report \in Reports,
               Find(r, ip, stats, report)
        PROVE  RegisteredRowsFilled'
    BY <1>2, <1>6, FindStep, KeptShrinks
  <1>7. ASSUME NEW r \in Reqs, Gate(r)
        PROVE  RegisteredRowsFilled'
    BY <1>2, <1>7, GateStep, KeptShrinks
  <1>8. ASSUME NEW r \in Reqs, Load(r)
        PROVE  RegisteredRowsFilled'
    <2>1. /\ Replaced(r) /\ RowsShrink /\ row' = row /\ Live' = Live
      BY <1>8, LoadStep, KeptShrinks
    <2>2. CASE req[r].pc = "update"
      BY <1>2, <2>1, <2>2
    <2>3. CASE req[r].pc = "first"
      <3>1. req[r].s \in Live => req'[r].pc \in Writing /\ req'[r].s = req[r].s
        BY <1>8, <2>3, LoadStep
      <3>2. \A q \in Reqs : req[q].pc \in Writing /\ req[q].s \in Live =>
                              req'[q].pc \in Writing /\ req'[q].s = req[q].s
        BY <2>1, <3>1 DEF Replaced
      <3> QED
        BY <2>1, <3>2 DEF RegisteredRowsFilled
    <2> QED
      BY <1>8, <2>2, <2>3, LoadStep
  <1>9. ASSUME NEW r \in Reqs, Recheck(r)
        PROVE  RegisteredRowsFilled'
    BY <1>2, <1>9, RecheckStep, KeptShrinks
  <1>10. ASSUME NEW r \in Reqs, Create(r)
         PROVE  RegisteredRowsFilled'
    <2>1. /\ Replaced(r) /\ Insert(req[r].ip, "agent") /\ req[r].pc = "create"
          /\ req'[r].pc \in Writing /\ req'[r].s = NewId /\ req[r].ip \in Ips
      BY <1>10, CreateStep DEF TypeOK, Req
    <2>2. /\ Live' = Live \cup {NewId} /\ \A i \in Live : row'[i] = row[i]
      BY <2>1, InsertRow
    <2>3. ASSUME NEW i \in Live, row[i].by = "agent", row[i].stats = Unreported
          PROVE  \E q \in Reqs : req'[q].pc \in Writing /\ req'[q].s = i
      <3>1. PICK q \in Reqs : req[q].pc \in Writing /\ req[q].s = i
        BY <2>3 DEF RegisteredRowsFilled
      <3> QED
        BY <2>1, <3>1 DEF Replaced
    <2> QED
      BY <2>1, <2>2, <2>3 DEF RegisteredRowsFilled
  <1>11. ASSUME NEW r \in Reqs, Write(r)
         PROVE  RegisteredRowsFilled'
    <2>1. RowsShrink /\ Live' = Live
      BY <1>11, WriteStep, KeptShrinks
    <2>2. Replaced(r)
          /\ \A i \in Live : row'[i].stats = Unreported => row[i].stats = Unreported /\ i # req[r].s
      BY <1>11, WriteStep
    <2>3. \A q \in Reqs : req[q].pc \in Writing /\ req[q].s \in Live =>
            \/ req'[q].pc \in Writing /\ req'[q].s = req[q].s
            \/ req[q].s \in Live' => row'[req[q].s].stats # Unreported
      <3>1. TAKE q \in Reqs
      <3>2. CASE q = r
        BY <2>2, <3>2
      <3>3. CASE q # r
        BY <2>2, <3>3 DEF Replaced
      <3> QED
        BY <3>2, <3>3
    <2> QED
      BY <1>1, <2>1, <2>2, <2>3
  <1>12. ASSUME NEW r \in Reqs, Services(r)
         PROVE  RegisteredRowsFilled'
    BY <1>2, <1>12, ServicesStep, KeptShrinks
  <1>13. CASE UNCHANGED vars
    BY <1>13 DEF vars, RegisteredRowsFilled, Live
  <1> QED
    BY <1>3, <1>4, <1>5, <1>6, <1>7, <1>8, <1>9, <1>10, <1>11, <1>12, <1>13, NextCases

----------------------------------------------------------------------------
\* Counting rows with the requests that may still add one.
LEMMA LimitFewer ==
  ASSUME TypeOK, LimitInv, Live' \subseteq Live, Registering' \subseteq Registering,
         Creating' \subseteq Creating
  PROVE  LimitInv'
  <1>1. IsFiniteSet(Live) /\ IsFiniteSet(Registering) /\ IsFiniteSet(Creating)
    BY Finite, Fewer DEF Registering, Creating
  <1>2. /\ Cardinality(Live') \in Nat /\ Cardinality(Live') <= Cardinality(Live)
        /\ Cardinality(Live) \in Nat
    BY <1>1, Fewer
  <1>3. /\ Cardinality(Registering') \in Nat /\ Cardinality(Registering) \in Nat
        /\ Cardinality(Registering') <= Cardinality(Registering)
    BY <1>1, Fewer
  <1>4. /\ Cardinality(Creating') \in Nat /\ Cardinality(Creating) \in Nat
        /\ Cardinality(Creating') <= Cardinality(Creating)
    BY <1>1, Fewer
  <1>5. Cardinality(Reqs) \in Nat /\ Cardinality(Admins) \in Nat
    BY Finite
  <1> QED
    BY <1>2, <1>3, <1>4, <1>5, LimitAssumption DEF LimitInv

LEMMA LimitChecked ==
  ASSUME TypeOK, row' = row, Cardinality(Live) <= Limit
  PROVE  LimitInv'
  <1>1. Live' = Live
    BY DEF Live
  <1>2. /\ Cardinality(Registering') \in Nat /\ Cardinality(Reqs) \in Nat
        /\ Cardinality(Registering') <= Cardinality(Reqs)
    BY Finite, Fewer DEF Registering
  <1>3. /\ Cardinality(Creating') \in Nat /\ Cardinality(Admins) \in Nat
        /\ Cardinality(Creating') <= Cardinality(Admins)
    BY Finite, Fewer DEF Creating
  <1>4. Cardinality(Live) \in Nat
    BY Finite
  <1> QED
    BY <1>1, <1>2, <1>3, <1>4, LimitAssumption DEF LimitInv

LEMMA LimitStep ==
  ASSUME TypeOK, LoadedInv, LimitInv, [Next]_vars
  PROVE  LimitInv'
  <1>0. /\ IsFiniteSet(Live) /\ IsFiniteSet(Registering) /\ IsFiniteSet(Creating)
        /\ Cardinality(Live) \in Nat /\ Cardinality(Registering) \in Nat
        /\ Cardinality(Creating) \in Nat
        /\ Cardinality(Reqs) \in Nat /\ Cardinality(Admins) \in Nat
    BY Finite, Fewer DEF Registering, Creating
  <1>1. ASSUME NEW r \in Reqs, Replaced(r), RowsShrink, admin' = admin,
               req'[r].pc \in {"recheck", "create"} => req[r].pc \in {"recheck", "create"}
        PROVE  LimitInv'
    <2>1. Live' \subseteq Live /\ Registering' \subseteq Registering /\ Creating' \subseteq Creating
      BY <1>1 DEF RowsShrink, Registering, Creating, Replaced
    <2> QED
      BY <2>1, LimitFewer
  <1>2. CASE EditRows
    <2>1. Live' \subseteq Live /\ Registering' = Registering /\ Creating' = Creating
      BY <1>2, EditRowsStep DEF RowsShrink, Registering, Creating
    <2> QED
      BY <2>1, LimitFewer
  <1>3. ASSUME NEW a \in Admins, CreateServer(a)
        PROVE  LimitInv'
    <2>1. /\ admin[a] \in Ips /\ Insert(admin[a], "user") /\ req' = req /\ a \in Creating
          /\ Creating' \subseteq Creating \ {a}
      BY <1>3 DEF CreateServer, Creating, TypeOK
    <2>2. Live' = Live \cup {NewId}
      BY <2>1, InsertRow
    <2>3. Cardinality(Live') + Cardinality(Creating') <= Cardinality(Live) + Cardinality(Creating)
      BY <1>0, <2>1, <2>2, Exchange
    <2>4. Registering' = Registering
      BY <2>1 DEF Registering
    <2>5. Cardinality(Live') \in Nat /\ Cardinality(Creating') \in Nat
      BY <1>0, <2>1, <2>2, FS_AddElement, FS_CardinalityType, Fewer
    <2> QED
      BY <1>0, <2>3, <2>4, <2>5, LimitAssumption DEF LimitInv
  <1>4. ASSUME NEW a \in Admins, NEW ip \in Ips, CheckLimits(a, ip)
        PROVE  LimitInv'
    <2>1. row' = row /\ Cardinality(Live) < Limit
      BY <1>4 DEF CheckLimits
    <2> QED
      BY <1>0, <2>1, LimitChecked, LimitAssumption
  <1>5. ASSUME NEW r \in Reqs, NEW ip \in Ips, NEW stats \in Posted, NEW report \in Reports,
               Find(r, ip, stats, report)
        PROVE  LimitInv'
    BY <1>1, <1>5, FindStep, KeptShrinks
  <1>6. ASSUME NEW r \in Reqs, Gate(r)
        PROVE  LimitInv'
    <2>1. CASE req'[r].pc = "idle"
      BY <1>1, <1>6, <2>1, GateStep, KeptShrinks
    <2>2. CASE Cardinality(Live) <= Limit
      BY <1>6, <2>2, GateStep, LimitChecked
    <2> QED
      BY <1>6, <2>1, <2>2, GateStep
  <1>7. ASSUME NEW r \in Reqs, Load(r)
        PROVE  LimitInv'
    BY <1>1, <1>7, LoadStep, KeptShrinks
  <1>8. ASSUME NEW r \in Reqs, Recheck(r)
        PROVE  LimitInv'
    BY <1>1, <1>8, RecheckStep, KeptShrinks
  <1>9. ASSUME NEW r \in Reqs, Create(r)
        PROVE  LimitInv'
    <2>1. /\ Replaced(r) /\ Insert(req[r].ip, "agent") /\ admin' = admin
          /\ req[r].pc = "create" /\ req'[r].pc = "first" /\ req[r].ip \in Ips
      BY <1>9, CreateStep DEF TypeOK, Req
    <2>2. Live' = Live \cup {NewId}
      BY <2>1, InsertRow
    <2>3. r \in Registering /\ Registering' \subseteq Registering \ {r}
      BY <2>1 DEF Registering, Replaced
    <2>4. Cardinality(Live') + Cardinality(Registering')
            <= Cardinality(Live) + Cardinality(Registering)
      BY <1>0, <2>2, <2>3, Exchange
    <2>5. Creating' = Creating
      BY <2>1 DEF Creating
    <2>6. Cardinality(Live') \in Nat /\ Cardinality(Registering') \in Nat
      BY <1>0, <2>2, <2>3, FS_AddElement, FS_CardinalityType, Fewer
    <2> QED
      BY <1>0, <2>4, <2>5, <2>6, LimitAssumption DEF LimitInv
  <1>10. ASSUME NEW r \in Reqs, Write(r)
         PROVE  LimitInv'
    BY <1>1, <1>10, WriteStep, KeptShrinks
  <1>11. ASSUME NEW r \in Reqs, Services(r)
         PROVE  LimitInv'
    BY <1>1, <1>11, ServicesStep, KeptShrinks
  <1>12. CASE UNCHANGED vars
    <2>1. Live' = Live /\ Registering' = Registering /\ Creating' = Creating
      BY <1>12 DEF vars, Live, Registering, Creating
    <2> QED
      BY <2>1, LimitFewer
  <1> QED
    BY <1>2, <1>3, <1>4, <1>5, <1>6, <1>7, <1>8, <1>9, <1>10, <1>11, <1>12, NextCases

LEMMA AddressFewer ==
  ASSUME TypeOK, NEW ip \in Ips,
         Cardinality(AgentRows(ip)) + Cardinality(Looking(ip)) <= Cardinality(Reqs),
         AgentRows(ip)' \subseteq AgentRows(ip), Looking(ip)' \subseteq Looking(ip)
  PROVE  Cardinality(AgentRows(ip)') + Cardinality(Looking(ip)') <= Cardinality(Reqs)
  <1>1. IsFiniteSet(AgentRows(ip)) /\ IsFiniteSet(Looking(ip)) /\ Cardinality(Reqs) \in Nat
    BY Finite, Fewer DEF AgentRows, Looking
  <1>2. /\ Cardinality(AgentRows(ip)') \in Nat /\ Cardinality(AgentRows(ip)) \in Nat
        /\ Cardinality(AgentRows(ip)') <= Cardinality(AgentRows(ip))
    BY <1>1, Fewer
  <1>3. /\ Cardinality(Looking(ip)') \in Nat /\ Cardinality(Looking(ip)) \in Nat
        /\ Cardinality(Looking(ip)') <= Cardinality(Looking(ip))
    BY <1>1, Fewer
  <1> QED
    BY <1>1, <1>2, <1>3

LEMMA AddressEmpty ==
  ASSUME TypeOK, NEW ip \in Ips, AgentRows(ip)' = {}
  PROVE  Cardinality(AgentRows(ip)') + Cardinality(Looking(ip)') <= Cardinality(Reqs)
  <1>1. Cardinality(AgentRows(ip)') = 0
    BY FS_EmptySet
  <1>2. /\ Cardinality(Looking(ip)') \in Nat /\ Cardinality(Reqs) \in Nat
        /\ Cardinality(Looking(ip)') <= Cardinality(Reqs)
    BY Finite, Fewer DEF Looking
  <1> QED
    BY <1>1, <1>2

LEMMA AddressStep ==
  ASSUME TypeOK, Flow, LoadedInv, AddressInv, [Next]_vars
  PROVE  AddressInv'
  <1> SUFFICES ASSUME NEW ip \in Ips
               PROVE  Cardinality(AgentRows(ip)') + Cardinality(Looking(ip)') <= Cardinality(Reqs)
    BY DEF AddressInv
  <1>0. Cardinality(AgentRows(ip)) + Cardinality(Looking(ip)) <= Cardinality(Reqs)
    BY DEF AddressInv
  <1>1. ASSUME RowsShrink
        PROVE  AgentRows(ip)' \subseteq AgentRows(ip)
    BY <1>1 DEF RowsShrink, AgentRows
  <1>2. ASSUME NEW r \in Reqs, Replaced(r), RowsShrink,
               req'[r].pc \in {"gate", "recheck", "create"} =>
                 /\ req[r].pc \in {"gate", "recheck", "create"}
                 /\ req'[r].ip = req[r].ip /\ req'[r].server = req[r].server
        PROVE  Cardinality(AgentRows(ip)') + Cardinality(Looking(ip)') <= Cardinality(Reqs)
    <2>1. Looking(ip)' \subseteq Looking(ip)
      BY <1>2 DEF Looking, Replaced
    <2> QED
      BY <1>0, <1>1, <1>2, <2>1, AddressFewer
  <1>3. CASE EditRows
    <2>1. Looking(ip)' = Looking(ip) /\ RowsShrink
      BY <1>3, EditRowsStep DEF Looking
    <2> QED
      BY <1>0, <1>1, <2>1, AddressFewer
  <1>4. ASSUME NEW a \in Admins, CreateServer(a)
        PROVE  Cardinality(AgentRows(ip)') + Cardinality(Looking(ip)') <= Cardinality(Reqs)
    <2>1. admin[a] \in Ips /\ Insert(admin[a], "user") /\ req' = req
      BY <1>4 DEF CreateServer, TypeOK
    <2>2. /\ Live' = Live \cup {NewId} /\ \A i \in Live : row'[i] = row[i]
          /\ row'[NewId] = [ip |-> admin[a], stats |-> Unreported, by |-> "user",
                            service |-> "absent"]
      BY <2>1, InsertRow
    <2>3. AgentRows(ip)' \subseteq AgentRows(ip) /\ Looking(ip)' = Looking(ip)
      BY <2>1, <2>2 DEF AgentRows, Looking
    <2> QED
      BY <1>0, <2>3, AddressFewer
  <1>5. ASSUME NEW a \in Admins, NEW ip2 \in Ips, CheckLimits(a, ip2)
        PROVE  Cardinality(AgentRows(ip)') + Cardinality(Looking(ip)') <= Cardinality(Reqs)
    <2>1. AgentRows(ip)' = AgentRows(ip) /\ Looking(ip)' = Looking(ip)
      BY <1>5 DEF CheckLimits, AgentRows, Looking, Live
    <2> QED
      BY <1>0, <2>1, AddressFewer
  <1>6. ASSUME NEW r \in Reqs, NEW ip2 \in Ips, NEW stats \in Posted, NEW report \in Reports,
               Find(r, ip2, stats, report)
        PROVE  Cardinality(AgentRows(ip)') + Cardinality(Looking(ip)') <= Cardinality(Reqs)
    <2>1. /\ Replaced(r) /\ row' = row
          /\ req'[r].pc = "gate" /\ req'[r].server = 0 => req'[r].ip = ip2 /\ RowsAt(ip2) = {}
          /\ req'[r].pc \in {"gate", "idle"}
      BY <1>6, FindStep
    <2>2. CASE req'[r].pc = "gate" /\ req'[r].server = 0 /\ ip2 = ip
      <3>1. AgentRows(ip)' = {}
        BY <2>1, <2>2 DEF AgentRows, RowsAt, Live
      <3> QED
        BY <3>1, AddressEmpty
    <2>3. CASE ~(req'[r].pc = "gate" /\ req'[r].server = 0 /\ ip2 = ip)
      <3>1. AgentRows(ip)' = AgentRows(ip)
        BY <2>1 DEF AgentRows, Live
      <3>2. r \notin Looking(ip)'
        BY <2>1, <2>3 DEF Looking
      <3>3. Looking(ip)' \subseteq Looking(ip)
        BY <2>1, <3>2 DEF Looking, Replaced
      <3> QED
        BY <1>0, <3>1, <3>3, AddressFewer
    <2> QED
      BY <2>2, <2>3
  <1>7. ASSUME NEW r \in Reqs, Gate(r)
        PROVE  Cardinality(AgentRows(ip)') + Cardinality(Looking(ip)') <= Cardinality(Reqs)
    BY <1>2, <1>7, GateStep, KeptShrinks
  <1>8. ASSUME NEW r \in Reqs, Load(r)
        PROVE  Cardinality(AgentRows(ip)') + Cardinality(Looking(ip)') <= Cardinality(Reqs)
    BY <1>2, <1>8, LoadStep, KeptShrinks
  <1>9. ASSUME NEW r \in Reqs, Recheck(r)
        PROVE  Cardinality(AgentRows(ip)') + Cardinality(Looking(ip)') <= Cardinality(Reqs)
    BY <1>2, <1>9, RecheckStep, KeptShrinks
  <1>10. ASSUME NEW r \in Reqs, Create(r)
         PROVE  Cardinality(AgentRows(ip)') + Cardinality(Looking(ip)') <= Cardinality(Reqs)
    <2>1. /\ Replaced(r) /\ Insert(req[r].ip, "agent")
          /\ req[r].pc = "create" /\ req'[r].pc = "first" /\ req[r].ip \in Ips
          /\ req[r].server = 0
      BY <1>10, CreateStep DEF TypeOK, Req, Flow
    <2>2. /\ Live' = Live \cup {NewId} /\ \A i \in Live : row'[i] = row[i]
          /\ row'[NewId] = [ip |-> req[r].ip, stats |-> Unreported, by |-> "agent",
                            service |-> "absent"]
      BY <2>1, InsertRow
    <2>3. Looking(ip)' \subseteq Looking(ip) \ {r}
      BY <2>1 DEF Looking, Replaced
    <2>4. CASE req[r].ip = ip
      <3>1. r \in Looking(ip) /\ AgentRows(ip)' \subseteq AgentRows(ip) \cup {NewId}
        BY <2>1, <2>2, <2>4 DEF Looking, AgentRows
      <3>2. IsFiniteSet(AgentRows(ip)) /\ IsFiniteSet(Looking(ip)) /\ Cardinality(Reqs) \in Nat
        BY Finite, Fewer DEF AgentRows, Looking
      <3>3. Cardinality(AgentRows(ip)') + Cardinality(Looking(ip)')
              <= Cardinality(AgentRows(ip)) + Cardinality(Looking(ip))
        BY <2>3, <3>1, <3>2, Exchange
      <3>4. /\ Cardinality(AgentRows(ip)) \in Nat /\ Cardinality(Looking(ip)) \in Nat
            /\ Cardinality(AgentRows(ip)') \in Nat /\ Cardinality(Looking(ip)') \in Nat
        BY <2>3, <3>1, <3>2, FS_AddElement, FS_CardinalityType, Fewer
      <3> QED
        BY <1>0, <3>2, <3>3, <3>4
    <2>5. CASE req[r].ip # ip
      <3>1. AgentRows(ip)' \subseteq AgentRows(ip)
        BY <2>2, <2>5 DEF AgentRows
      <3> QED
        BY <1>0, <2>3, <3>1, AddressFewer
    <2> QED
      BY <2>4, <2>5
  <1>11. ASSUME NEW r \in Reqs, Write(r)
         PROVE  Cardinality(AgentRows(ip)') + Cardinality(Looking(ip)') <= Cardinality(Reqs)
    BY <1>2, <1>11, WriteStep, KeptShrinks
  <1>12. ASSUME NEW r \in Reqs, Services(r)
         PROVE  Cardinality(AgentRows(ip)') + Cardinality(Looking(ip)') <= Cardinality(Reqs)
    BY <1>2, <1>12, ServicesStep, KeptShrinks
  <1>13. CASE UNCHANGED vars
    <2>1. AgentRows(ip)' = AgentRows(ip) /\ Looking(ip)' = Looking(ip)
      BY <1>13 DEF vars, AgentRows, Looking, Live
    <2> QED
      BY <1>0, <2>1, AddressFewer
  <1> QED
    BY <1>3, <1>4, <1>5, <1>6, <1>7, <1>8, <1>9, <1>10, <1>11, <1>12, <1>13, NextCases

----------------------------------------------------------------------------
\* The inductive invariant: the table starts empty and no request is running.
LEMMA InitInv == Init => IInv
  <1> SUFFICES ASSUME Init PROVE IInv
    OBVIOUS
  <1>1. Live = {} /\ admin = [a \in Admins |-> "idle"]
    BY DEF Init, Live
  <1>2. PICK ip \in Ips :
          req = [r \in Reqs |-> [pc |-> "idle", ip |-> ip, stats |-> NoPost, report |-> "none",
                                server |-> 0, seen |-> Unreported,
                                s |-> 0, loaded |-> Unreported, answer |-> "none"]]
    BY DEF Init
  <1>3. TypeOK
    <2>1. 0 \in 0..MaxRows
      BY RowsAssumption
    <2>2. req \in [Reqs -> Req]
      BY <1>2, <2>1, PostsAreReports DEF Req, Stats
    <2>3. row \in [Live -> Row]
      BY <1>1 DEF Init, Live
    <2> QED
      BY <1>1, <2>2, <2>3 DEF TypeOK
  <1>4. Flow /\ LoadedInv /\ FailureIsInherited /\ RegisteredRowsFilled
    BY <1>1, <1>2 DEF Flow, LoadedInv, FailureIsInherited, RegisteredRowsFilled
  <1>5. Cardinality({}) = 0 /\ Cardinality(Reqs) \in Nat /\ Cardinality(Admins) \in Nat
    BY <1>3, Finite, FS_EmptySet
  <1>6. LimitInv
    <2>1. Registering = {} /\ Creating = {}
      BY <1>1, <1>2 DEF Registering, Creating
    <2> QED
      BY <1>1, <1>5, <2>1, LimitAssumption DEF LimitInv
  <1>7. AddressInv
    <2>1. \A a \in Ips : AgentRows(a) = {} /\ Looking(a) = {}
      BY <1>1, <1>2 DEF AgentRows, Looking
    <2> QED
      BY <1>5, <2>1 DEF AddressInv
  <1> QED
    BY <1>3, <1>4, <1>6, <1>7 DEF IInv

LEMMA StepInv == IInv /\ [Next]_vars => IInv'
  BY TypeStep, FlowStep, LoadedStep, LimitStep, AddressStep, FilledStep, FailureStep DEF IInv

\* Every reachable state satisfies the inductive invariant.
THEOREM Inductive == Spec => []IInv
  BY InitInv, StepInv, PTL DEF Spec

\* The tables and the requests keep their types.
THEOREM TypeCorrect == Spec => []TypeOK
  <1>1. IInv => TypeOK
    BY DEF IInv
  <1> QED
    BY <1>1, Inductive, PTL

\* A domain never has more servers than its limit and one for each request
\* handled at a time.
THEOREM RegistrationIsBounded == Spec => []RegistrationBounded
  <1>1. IInv => RegistrationBounded
    <2> SUFFICES ASSUME IInv PROVE RegistrationBounded
      OBVIOUS
    <2>1. /\ Cardinality(Live) \in Nat /\ Cardinality(Registering) \in Nat
          /\ Cardinality(Creating) \in Nat
          /\ Cardinality(Reqs) \in Nat /\ Cardinality(Admins) \in Nat
      BY Finite, Fewer DEF IInv, Registering, Creating
    <2> QED
      BY <2>1, LimitAssumption DEF IInv, LimitInv, RegistrationBounded
  <1> QED
    BY <1>1, Inductive, PTL

\* Agents never create more rows for an address than there are requests
\* handled at a time.
THEOREM DuplicatesAreBounded == Spec => []DuplicatesBounded
  <1>1. IInv => DuplicatesBounded
    <2> SUFFICES ASSUME IInv, NEW ip \in Ips
                 PROVE  Cardinality(AgentRows(ip)) <= Cardinality(Reqs)
      BY DEF DuplicatesBounded
    <2>1. /\ Cardinality(AgentRows(ip)) \in Nat /\ Cardinality(Looking(ip)) \in Nat
          /\ Cardinality(Reqs) \in Nat
      BY Finite, Fewer DEF IInv, AgentRows, Looking
    <2> QED
      BY <2>1 DEF IInv, AddressInv
  <1> QED
    BY <1>1, Inductive, PTL

\* A row registered by an agent has statistics or its creator is still at work.
THEOREM RegisteredAreFilled == Spec => []RegisteredRowsFilled
  <1>1. IInv => RegisteredRowsFilled
    BY DEF IInv
  <1> QED
    BY <1>1, Inductive, PTL

\* A post fails only on statistics stored before it, or after a lost race.
THEOREM FailuresAreInherited == Spec => []FailureIsInherited
  <1>1. IInv => FailureIsInherited
    BY DEF IInv
  <1> QED
    BY <1>1, Inductive, PTL

----------------------------------------------------------------------------
\* Posts that hold no row together are stored whole: what a request loaded is
\* still in the row when it writes, so every column becomes its own.
Apart ==
  \A r, q \in Reqs :
    r # q /\ req[r].pc = "write" /\ req[q].pc = "write" => req[r].s # req[q].s

Kept(r) == req[r].pc = "write" /\ req[r].s \in Live => req[r].loaded = row[req[r].s].stats
WholeInv ==
  /\ \A r \in Reqs : Kept(r)
  /\ \A i \in Live : row[i].stats \in Posted \cup {Unreported}

LEMMA UnchangedIsWhole ==
  ASSUME NEW now \in Stats, NEW post \in Reported
  PROVE  Written(now, now, post) = post
  <1>1. post = [c \in DOMAIN post |-> post[c]]
    BY DEF Reported
  <1>2. \A c \in DOMAIN post : (IF post[c] = now[c] THEN now[c] ELSE post[c]) = post[c]
    OBVIOUS
  <1> QED
    BY <1>1, <1>2 DEF Written

LEMMA WriteKeepsWhole ==
  ASSUME TypeOK, WholeInv, NEW r \in Reqs, Write(r)
  PROVE  /\ Live' = Live
         /\ \A k \in Live : row'[k].stats \in Posted \cup {Unreported}
         /\ \A k \in Live \ {req[r].s} : row'[k].stats = row[k].stats
  <1>1. req[r] \in Req /\ row \in [Live -> Row]
    BY DEF TypeOK
  <1> DEFINE i == req[r].s
  <1>2. CASE i \notin Live
    <2>1. row' = row
      BY <1>2 DEF Write
    <2> QED
      BY <2>1 DEF WholeInv, Live
  <1>3. CASE i \in Live
    <2> DEFINE w == Written(row[i].stats, req[r].loaded, req[r].stats)
    <2>1. row' = [row EXCEPT ![i].stats = w]
      BY <1>3 DEF Write
    <2>2. req[r].loaded = row[i].stats
      BY <1>3 DEF WholeInv, Kept, Write
    <2>3. \A k \in Live : row[k].stats \in Stats
      BY <1>1 DEF Row
    <2>4. req[r].stats \in Posted /\ req[r].stats \in Reported
      BY <1>1, PayloadAssumption DEF Req
    <2>5. w = req[r].stats
      BY <1>3, <2>2, <2>3, <2>4, UnchangedIsWhole
    <2>6. Live' = Live
      BY <1>1, <2>1 DEF Live
    <2>7. \A k \in Live : row'[k].stats = IF k = i THEN w ELSE row[k].stats
      <3> HIDE DEF w
      <3>1. TAKE k \in Live
      <3>2. row' = [j \in Live |-> IF j = i THEN [row[i] EXCEPT !.stats = w] ELSE row[j]]
        BY <1>1, <2>1
      <3>3. [row[i] EXCEPT !.stats = w].stats = w
        BY <1>1, <1>3 DEF Row
      <3> QED
        BY <3>2, <3>3
    <2> QED
      BY <2>4, <2>5, <2>6, <2>7 DEF WholeInv
  <1> QED
    BY <1>2, <1>3

LEMMA WholeStep ==
  ASSUME Apart, TypeOK, LoadedInv, WholeInv, [Next]_vars
  PROVE  WholeInv'
  <1> DEFINE Whole == \A i \in Live : row[i].stats \in Posted \cup {Unreported}
             Same == Live' \subseteq Live /\ \A i \in Live' : row'[i].stats = row[i].stats
  <1>1. Same => Whole'
    BY DEF WholeInv
  <1>2. ASSUME req' = req, Same
        PROVE  WholeInv'
    BY <1>1, <1>2 DEF WholeInv, Kept
  \* The other requests keep what they loaded.
  <1>3. ASSUME NEW r \in Reqs, Replaced(r), Kept(r)', Whole',
               \A q \in Reqs \ {r} : req[q].pc = "write" /\ req[q].s \in Live' =>
                 req[q].s \in Live /\ row'[req[q].s].stats = row[req[q].s].stats
        PROVE  WholeInv'
    <2>1. \A q \in Reqs \ {r} : Kept(q)'
      BY <1>3 DEF Kept, Replaced, WholeInv
    <2> QED
      BY <1>3, <2>1 DEF WholeInv
  <1>15. ASSUME NEW r \in Reqs, Replaced(r), req'[r].pc # "write", Same
         PROVE  WholeInv'
    BY <1>1, <1>3, <1>15 DEF Kept
  <1>4. CASE EditRows
    BY <1>2, <1>4, EditRowsStep DEF RowsShrink
  <1>5. ASSUME NEW a \in Admins, CreateServer(a)
        PROVE  WholeInv'
    <2>1. admin[a] \in Ips /\ Insert(admin[a], "user") /\ req' = req
      BY <1>5 DEF CreateServer, TypeOK
    <2>2. /\ Live' = Live \cup {NewId} /\ \A i \in Live : row'[i] = row[i]
          /\ row'[NewId] = [ip |-> admin[a], stats |-> Unreported, by |-> "user",
                            service |-> "absent"]
          /\ \A r \in Reqs : req[r].pc # "idle" => NewId # req[r].s
      BY <2>1, InsertRow
    <2>3. \A r \in Reqs : Kept(r)'
      BY <2>1, <2>2 DEF WholeInv, Kept
    <2>4. Whole'
      BY <2>2 DEF WholeInv
    <2> QED
      BY <2>3, <2>4 DEF WholeInv
  <1>6. ASSUME NEW a \in Admins, NEW ip \in Ips, CheckLimits(a, ip)
        PROVE  WholeInv'
    BY <1>2, <1>6 DEF CheckLimits, Live
  <1>7. ASSUME NEW r \in Reqs, NEW ip \in Ips, NEW stats \in Posted, NEW report \in Reports,
               Find(r, ip, stats, report)
        PROVE  WholeInv'
    BY <1>15, <1>7, FindStep DEF Live
  <1>8. ASSUME NEW r \in Reqs, Gate(r)
        PROVE  WholeInv'
    BY <1>15, <1>8, GateStep DEF Live
  <1>9. ASSUME NEW r \in Reqs, Load(r)
        PROVE  WholeInv'
    <2>1. row' = row /\ Whole'
      BY <1>1, <1>9, LoadStep DEF Live
    <2>2. Kept(r)'
      BY <1>9, <2>1, LoadStep DEF Kept, Live
    <2>3. Replaced(r) /\ Live' = Live
      BY <1>9, <2>1, LoadStep DEF Live
    <2> QED
      BY <1>3, <2>1, <2>2, <2>3
  <1>10. ASSUME NEW r \in Reqs, Recheck(r)
         PROVE  WholeInv'
    BY <1>15, <1>10, RecheckStep DEF Live
  <1>11. ASSUME NEW r \in Reqs, Create(r)
         PROVE  WholeInv'
    <2>1. Replaced(r) /\ Insert(req[r].ip, "agent") /\ req'[r].pc = "first" /\ req[r].ip \in Ips
      BY <1>11, CreateStep DEF TypeOK, Req
    <2>2. /\ Live' = Live \cup {NewId} /\ \A i \in Live : row'[i] = row[i]
          /\ row'[NewId] = [ip |-> req[r].ip, stats |-> Unreported, by |-> "agent",
                            service |-> "absent"]
          /\ \A q \in Reqs : req[q].pc # "idle" => NewId # req[q].s
      BY <2>1, InsertRow
    <2>3. \A i \in Live : row'[i].stats \in Posted \cup {Unreported}
      BY <2>2 DEF WholeInv
    <2>4. Whole'
      BY <2>2, <2>3
    <2>5. Kept(r)'
      BY <2>1 DEF Kept
    <2>6. \A q \in Reqs \ {r} : req[q].pc = "write" /\ req[q].s \in Live' =>
            req[q].s \in Live /\ row'[req[q].s].stats = row[req[q].s].stats
      BY <2>2
    <2> QED
      BY <1>3, <2>1, <2>4, <2>5, <2>6
  <1>12. ASSUME NEW r \in Reqs, Write(r)
         PROVE  WholeInv'
    <2>1. Replaced(r) /\ req[r].pc = "write" /\ req'[r].pc # "write"
      BY <1>12, WriteStep
    <2>2. Kept(r)'
      BY <2>1 DEF Kept
    <2>3. /\ Live' = Live /\ Whole'
          /\ \A k \in Live \ {req[r].s} : row'[k].stats = row[k].stats
      BY <1>12, WriteKeepsWhole
    <2>4. \A q \in Reqs \ {r} : req[q].pc = "write" => req[q].s # req[r].s
      BY <2>1 DEF Apart
    <2> QED
      BY <1>3, <2>1, <2>2, <2>3, <2>4
  <1>13. ASSUME NEW r \in Reqs, Services(r)
         PROVE  WholeInv'
    <2>1. Replaced(r) /\ Same /\ req'[r].pc # "write"
      BY <1>13, ServicesStep DEF RowsKept
    <2> QED
      BY <1>15, <2>1
  <1>14. CASE UNCHANGED vars
    BY <1>2, <1>14 DEF vars, Live
  <1> QED
    BY <1>4, <1>5, <1>6, <1>7, <1>8, <1>9, <1>10, <1>11, <1>12, <1>13, <1>14, NextCases

\* As long as no two posts hold one row at a time, whatever users and posts
\* about other rows do meanwhile, every row shows exactly what one post said,
\* or nothing yet (lines 38 and 84).  Two that do may leave the columns each of
\* them changed in one row: figures that no machine ever had together.
THEOREM ApartPostsKeepWhole ==
  Spec /\ []Apart => [](\A i \in Live : row[i].stats \in Posted \cup {Unreported})
  <1>1. Init => WholeInv
    BY DEF Init, WholeInv, Kept, Live
  <1>2. IInv /\ Apart /\ WholeInv /\ [Next]_vars => WholeInv'
    BY WholeStep DEF IInv
  <1>3. WholeInv => \A i \in Live : row[i].stats \in Posted \cup {Unreported}
    BY DEF WholeInv
  <1> QED
    BY <1>1, <1>2, <1>3, Inductive, PTL DEF Spec

----------------------------------------------------------------------------
\* The colours of figures, for all figures.

\* What is reported is never graded at its best and at its worst: at least
\* half free is at most half used, however the shares are rounded.
LEMMA ReportsAgree == ASSUME NEW f \in Reported PROVE ~Contradictory(f)
  <1>1. /\ f.cpu_usage \in Nat /\ f.mem_free \in Nat /\ f.mem_used \in Nat
        /\ f.disk_size \in Nat /\ f.disk_used \in Nat
    BY DEF Reported
  <1>2. {CpuColor(f.cpu_usage), CpuUsedColor(f.cpu_usage)} # {"healthy", "dieng"}
    <2>1. ~ /\ CpuColor(f.cpu_usage) = "healthy"
            /\ CpuUsedColor(f.cpu_usage) = "dieng"
      BY <1>1 DEF CpuColor, CpuUsedColor, Grade, ToF, Nil
    <2>2. ~ /\ CpuColor(f.cpu_usage) = "dieng"
            /\ CpuUsedColor(f.cpu_usage) = "healthy"
      BY <1>1 DEF CpuColor, CpuUsedColor, Grade, ToF, Nil
    <2> QED
      BY <2>1, <2>2
  <1>3. ASSUME NEW a \in Nat, NEW b \in Nat
        PROVE  {MemColor(a, b, "free"), MemColor(a, b, "used")} # {"healthy", "dieng"}
    <2>1. ~ (MemColor(a, b, "free") = "healthy" /\ MemColor(a, b, "used") = "dieng")
      BY DEF MemColor, Grade, Total, Part, AtLeast, Nil
    <2>2. ~ (MemColor(a, b, "free") = "dieng" /\ MemColor(a, b, "used") = "healthy")
      BY DEF MemColor, Grade, Total, Part, AtLeast, Nil
    <2> QED
      BY <2>1, <2>2
  <1>4. ASSUME NEW a \in Nat, NEW b \in Nat
        PROVE  {DiskColor(a, b, "free"), DiskColor(a, b, "used")} # {"healthy", "dieng"}
    <2>1. ~ (DiskColor(a, b, "free") = "healthy" /\ DiskColor(a, b, "used") = "dieng")
      BY DEF DiskColor, Grade, Total, Part, AtLeast, Nil
    <2>2. ~ (DiskColor(a, b, "free") = "dieng" /\ DiskColor(a, b, "used") = "healthy")
      BY DEF DiskColor, Grade, Total, Part, AtLeast, Nil
    <2> QED
      BY <2>1, <2>2
  <1> QED
    BY <1>1, <1>2, <1>3, <1>4 DEF Contradictory, Pairs

\* NULL figures are: no memory is free and none is used.
LEMMA NullsDisagree == Contradictory(Unreported)
  <1>1. MemColor(Nil, Nil, "free") = "dieng" /\ MemColor(Nil, Nil, "used") = "healthy"
    BY DEF MemColor, Grade, Total, Part, AtLeast, Nil
  <1> DEFINE p == <<MemColor(Nil, Nil, "free"), MemColor(Nil, Nil, "used")>>
  <1>2. p \in Pairs(Unreported)
    BY DEF Pairs, Unreported
  <1>3. {p[1], p[2]} = {"healthy", "dieng"}
    BY <1>1
  <1> QED
    BY <1>2, <1>3 DEF Contradictory

\* For any posts, a page contradicts itself exactly while nothing was reported.
THEOREM PagesAgree == Spec => []ColoursAgree
  <1>1. TypeOK => ColoursAgree
    <2> SUFFICES ASSUME TypeOK, NEW i \in Live
                 PROVE  Contradictory(row[i].stats) <=> row[i].stats = Unreported
      BY DEF ColoursAgree
    <2>1. row[i].stats \in Reported \cup {Unreported}
      BY DEF TypeOK, Row, Stats
    <2>2. CASE row[i].stats = Unreported
      BY <2>2, NullsDisagree
    <2>3. CASE row[i].stats \in Reported
      BY <2>3, UnreportedIsNoReport, ReportsAgree
    <2> QED
      BY <2>1, <2>2, <2>3
  <1> QED
    BY <1>1, TypeCorrect, PTL

\* The colouring of the health after a post raises exactly when the memory or
\* the disk the row had before adds up to nothing.
THEOREM ZeroSumsRaise ==
  ASSUME NEW f \in Reported
  PROVE  HealthRaises(f) <=> f.mem_free + f.mem_used = 0 \/ f.disk_size + f.disk_used = 0
  <1>1. /\ f.cpu_usage \in Nat /\ f.mem_free \in Nat /\ f.mem_used \in Nat
        /\ f.disk_size \in Nat /\ f.disk_used \in Nat
    BY DEF Reported
  <1>2. CpuColor(f.cpu_usage) # "raises" /\ CpuUsedColor(f.cpu_usage) # "raises"
    BY <1>1 DEF CpuColor, CpuUsedColor, Grade, ToF, Nil
  <1>3. \A a, b \in Nat, type \in {"free", "used"} :
          MemColor(a, b, type) = "raises" <=> a + b = 0
    BY DEF MemColor, Grade, Total, Part, AtLeast, Nil
  <1>4. \A a, b \in Nat, type \in {"free", "used"} :
          DiskColor(a, b, type) = "raises" <=> a + b = 0
    BY DEF DiskColor, Grade, Total, Part, AtLeast, Nil
  <1> QED
    BY <1>1, <1>2, <1>3, <1>4 DEF HealthRaises, Pairs

\* No disk is ever shown as all but used up: its use is graded as a share of
\* size and use together, which is at most a half.
THEOREM FullDisksOnlyWarn ==
  ASSUME NEW size \in Nat, NEW used \in 0..size
  PROVE  DiskColor(size, used, "used") # "dieng"
  BY DEF DiskColor, Grade, Total, Part, AtLeast, Nil

\* The colours of the processor are upside down on every page that shows
\* them: they are given the share in use and grade it as the share that is
\* free (and 100 less it as the share in use).
THEOREM BusyLooksHealthy ==
  ASSUME NEW cpu_usage \in 0..100
  PROVE  /\ cpu_usage >= 90 => /\ CpuColor(cpu_usage) = "healthy"
                                /\ CpuUsedColor(cpu_usage) = "healthy"
         /\ cpu_usage <= 10 => /\ CpuColor(cpu_usage) = "dieng"
                                /\ CpuUsedColor(cpu_usage) = "dieng"
  BY DEF CpuColor, CpuUsedColor, Grade, ToF, Nil

\* Without a number of processors every load looks deadly, even none.
THEOREM UnknownProcessorsLookDead ==
  ASSUME NEW load \in Column, NEW ncpus \in {Nil, 0}
  PROVE  LoadColor(load, ncpus) = "dieng"
  BY DEF LoadColor, Grade, ToF, Nil, Column
=============================================================================
