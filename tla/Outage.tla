------------------------------- MODULE Outage -------------------------------
(***************************************************************************)
(* What the outage detector promises, without queue, votes or mail loop:   *)
(* a case is opened on a server that gave no sign for too long, is         *)
(* convicted, recorded with the audience of that moment, and alarms users  *)
(* of that audience, nobody twice.  It may be closed before everyone was   *)
(* alarmed.  Nobody but the server's agent and its editors moves a         *)
(* server's last sign.                                                     *)
(***************************************************************************)
EXTENDS Integers

CONSTANTS Servers, Users, Cases, StaleAfter, MaxTime

VARIABLES
  now,        \* the clock
  known,      \* the servers that are watched
  sign,       \* sign[s]: when s last gave a sign of life
  listening,  \* the users who want alarms
  case,       \* case[c]: the case handler c works on
  alarmed     \* pairs <<s, u>>: u was alarmed since the last report of s

vars == <<now, known, sign, listening, case, alarmed>>

Closed == [stage |-> "closed", srv |-> 1, audience |-> {}]
Become(c, r) == case' = [case EXCEPT ![c] = r]

Init ==
  /\ now = 0
  /\ known = Servers
  /\ sign = [s \in Servers |-> 0]
  /\ listening \subseteq Users
  /\ case = [c \in Cases |-> Closed]
  /\ alarmed = {}

Tick ==
  /\ now < MaxTime
  /\ now' = now + 1
  /\ UNCHANGED <<known, sign, listening, case, alarmed>>

\* The agent reports: what was alarmed about s before is settled.
Report(s) ==
  /\ s \in known
  /\ sign' = [sign EXCEPT ![s] = now]
  /\ alarmed' = {p \in alarmed : p[1] # s}
  /\ UNCHANGED <<now, known, listening, case>>

Edit(s) ==
  /\ s \in known
  /\ sign' = [sign EXCEPT ![s] = now]
  /\ UNCHANGED <<now, known, listening, case, alarmed>>

Forget(s) ==
  /\ known' = known \ {s}
  /\ UNCHANGED <<now, sign, listening, case, alarmed>>

Toggle(u) ==
  /\ listening' = (listening \ {u}) \cup ({u} \ listening)
  /\ UNCHANGED <<now, known, sign, case, alarmed>>

\* A server that is silent now becomes suspected.
Suspect(c, s) ==
  /\ case[c] = Closed
  /\ s \in known /\ now - sign[s] > StaleAfter
  /\ Become(c, [stage |-> "suspected", srv |-> s, audience |-> {}])
  /\ UNCHANGED <<now, known, sign, listening, alarmed>>

Convict(c) ==
  /\ case[c].stage = "suspected"
  /\ Become(c, [case[c] EXCEPT !.stage = "convicted"])
  /\ UNCHANGED <<now, known, sign, listening, alarmed>>

\* The downtime is on record and the audience fixed.
Record(c) ==
  /\ case[c].stage = "convicted"
  /\ Become(c, [stage |-> "recorded", srv |-> case[c].srv, audience |-> listening])
  /\ UNCHANGED <<now, known, sign, listening, alarmed>>

\* One of the audience is alarmed; the others still may be, or the case ends
\* with him.
Alarm(c, u) ==
  /\ case[c].stage = "recorded" /\ u \in case[c].audience
  /\ alarmed' = alarmed \cup {<<case[c].srv, u>>}
  /\ \E r \in {Closed, [case[c] EXCEPT !.audience = @ \ {u}]} : Become(c, r)
  /\ UNCHANGED <<now, known, sign, listening>>

Close(c) ==
  /\ Become(c, Closed)
  /\ UNCHANGED <<now, known, sign, listening, alarmed>>

Next ==
  \/ Tick
  \/ \E s \in Servers : Report(s) \/ Edit(s) \/ Forget(s)
  \/ \E u \in Users : Toggle(u)
  \/ \E c \in Cases :
       \/ \E s \in Servers : Suspect(c, s)
       \/ Convict(c) \/ Record(c) \/ Close(c)
       \/ \E u \in Users : Alarm(c, u)

Spec == Init /\ [][Next]_vars
=============================================================================
