------------------------------- MODULE Rounds -------------------------------
(***************************************************************************)
(* What the threshold alerts promise, without cron, queue and workers: a   *)
(* round is opened on a rule that is in force, finds the servers beyond    *)
(* the threshold, then the people to tell, and tells them about each       *)
(* server in order, noting everyone it told before it goes on.  A round is *)
(* over only when there is nobody to tell, when all are told and noted, or *)
(* when the next one to be told cannot be reached.                         *)
(***************************************************************************)
EXTENDS Integers

CONSTANTS
  Slots,    \* rounds that can be under way at a time
  Alerts,   \* the ids of alerts
  Rules,    \* what an alert can say
  Failing   \* pairs of a server and a user: who cannot be told about what

VARIABLES
  active,    \* pairs <<a, r>>: alert a says r, and it is its time of the day
  beyond,    \* beyond[r]: the servers beyond the threshold of r
  audience,  \* audience[r]: the users r is for
  round,     \* round[c]: the round in slot c
  told       \* triples <<a, s, u>>: u was told about s by a, and that still stands

world == <<active, beyond, audience>>
vars == <<world, round, told>>

Closed == [stage |-> "closed"]
Become(c, r) == round' = [round EXCEPT ![c] = r]

Earlier(p, q) == p[1] < q[1] \/ (p[1] = q[1] /\ p[2] < q[2])

\* The pair that is next in the plan of round r.
IsNext(r, p) == p \in r.plan \ r.noted /\ \A q \in r.plan \ r.noted : p = q \/ Earlier(p, q)

Init ==
  /\ round = [c \in Slots |-> Closed]
  /\ told = {}

\* Figures, rules, people and the hour change; what was told may be overtaken.
Surroundings ==
  /\ told' \subseteq told
  /\ UNCHANGED round

Open(c, a, r) ==
  /\ round[c] = Closed /\ <<a, r>> \in active
  /\ Become(c, [stage |-> "open", alert |-> a, rule |-> r])
  /\ UNCHANGED <<world, told>>

Find(c) ==
  /\ round[c].stage = "open" /\ beyond[round[c].rule] # {}
  /\ Become(c, [stage |-> "found", alert |-> round[c].alert, rule |-> round[c].rule,
                due |-> beyond[round[c].rule]])
  /\ UNCHANGED <<world, told>>

Address(c) ==
  /\ round[c].stage = "found" /\ audience[round[c].rule] # {}
  /\ Become(c, [stage |-> "telling", alert |-> round[c].alert,
                plan |-> round[c].due \X audience[round[c].rule], heard |-> {}, noted |-> {}])
  /\ UNCHANGED <<world, told>>

Tell(c, p) ==
  /\ round[c].stage = "telling" /\ round[c].heard = round[c].noted
  /\ IsNext(round[c], p) /\ p \notin Failing
  /\ Become(c, [round[c] EXCEPT !.heard = @ \cup {p}])
  /\ told' = told \cup {<<round[c].alert, p[1], p[2]>>}
  /\ UNCHANGED world

Note(c) ==
  /\ round[c].stage = "telling" /\ round[c].heard # round[c].noted
  /\ Become(c, IF round[c].heard = round[c].plan THEN Closed
               ELSE [round[c] EXCEPT !.noted = round[c].heard])
  /\ UNCHANGED <<world, told>>

\* Nothing to do, or nobody to do it for.
Drop(c) ==
  /\ \/ round[c].stage = "open" /\ beyond[round[c].rule] = {}
     \/ round[c].stage = "found" /\ audience[round[c].rule] = {}
  /\ Become(c, Closed)
  /\ UNCHANGED <<world, told>>

BreakOff(c, p) ==
  /\ round[c].stage = "telling" /\ round[c].heard = round[c].noted
  /\ IsNext(round[c], p) /\ p \in Failing
  /\ Become(c, Closed)
  /\ UNCHANGED <<world, told>>

Next ==
  \/ Surroundings
  \/ \E c \in Slots :
       \/ \E a \in Alerts, r \in Rules : Open(c, a, r)
       \/ Find(c) \/ Address(c) \/ Note(c) \/ Drop(c)
       \/ round[c].stage = "telling" /\ \E p \in round[c].plan : Tell(c, p) \/ BreakOff(c, p)

Spec == Init /\ [][Next]_vars
=============================================================================
