--------------------------- MODULE MCStatusUpdate ---------------------------
(***************************************************************************)
(* StatusUpdate for TLC.  Addresses and requests are interchangeable: no   *)
(* definition of StatusUpdate compares them with anything but each other.  *)
(***************************************************************************)
EXTENDS StatusUpdate, TLC

\* A machine at its limits, and one whose disk the agent could not read.
MCPosted ==
  {[cpu_usage |-> 95, mem_free |-> 1, mem_used |-> 9, disk_size |-> 10, disk_used |-> 8],
   [cpu_usage |-> 5, mem_free |-> 6, mem_used |-> 4, disk_size |-> 0, disk_used |-> 0]}

Symmetry == Permutations(Ips) \cup Permutations(Reqs)
=============================================================================
