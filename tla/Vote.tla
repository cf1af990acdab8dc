-------------------------------- MODULE Vote --------------------------------
(***************************************************************************)
(* The promise of a reachability vote: evidence comes in, also after the   *)
(* verdict, and one verdict is given, which the evidence warrants.         *)
(* PingVote implements it with racing threads and a mean.                  *)
(***************************************************************************)
EXTENDS Verdicts

VARIABLES
  evidence,  \* what the pings have shown so far
  verdict    \* "none" until the vote ends

vars == <<evidence, verdict>>

\* Without diagnostic hosts the vote is in trouble before it starts.
Init == evidence \in {{}, {"trouble"}} /\ verdict = "none"

Learn(e) == evidence' = evidence \cup {e} /\ UNCHANGED verdict

Judge(v) ==
  /\ verdict = "none"
  /\ Founded(v, evidence)
  /\ verdict' = v
  /\ UNCHANGED evidence

Next ==
  \/ \E e \in {"reply", "loss", "trouble"} : Learn(e)
  \/ \E v \in {"up", "down", "raised"} : Judge(v)

Spec == Init /\ [][Next]_vars
=============================================================================
