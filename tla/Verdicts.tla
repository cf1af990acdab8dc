------------------------------ MODULE Verdicts ------------------------------
(***************************************************************************)
(* What a verdict of the reachability vote may rest on, without the        *)
(* mechanism that reaches it (workers/server_status_worker.rb, 17-58).     *)
(* Evidence is "reply" (the server answered someone), "loss" (a ping to it *)
(* lost every packet) and "trouble" (the vote itself was disturbed: no     *)
(* diagnostic host, or one that timed out or failed).                      *)
(***************************************************************************)

\* Verdict v is warranted by the set of evidence.
Founded(v, evidence) ==
  \/ "trouble" \in evidence
  \/ v = "up" /\ "reply" \in evidence
  \/ v = "down" /\ "loss" \in evidence
=============================================================================
