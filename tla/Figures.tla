------------------------------ MODULE Figures ------------------------------
(***************************************************************************)
(* The colours that Server gives to the figures of a machine: on its page, *)
(* in the mails about it, and after every post of its agent.  A figure is  *)
(* a column of the servers table, NULL until the agent has reported.  The  *)
(* figures are whole numbers here: processor use in percent, memory and    *)
(* disk in any unit, load in hundredths.                                   *)
(***************************************************************************)
EXTENDS Integers

Nil == -1
Column == Nat \cup {Nil}
ToF(column) == IF column = Nil THEN 0 ELSE column

\* disk_size is the whole disk, not what is left of it (the agent's disk()).
Reported == [cpu_usage: Nat, mem_free: Nat, mem_used: Nat, disk_size: Nat, disk_used: Nat]
Unreported == [cpu_usage |-> Nil, mem_free |-> Nil, mem_used |-> Nil,
               disk_size |-> Nil, disk_used |-> Nil]

\* A colour is "healthy", "warn", "dieng" (as the code spells it), "nil" where
\* a rescue modifier gave up, or "raises" where none is left to catch.
Grade(healthy, warn) == IF healthy THEN "healthy" ELSE IF warn THEN "warn" ELSE "dieng"

\* (part / total * 100).to_i >= k.  Where part / total is k percent, the
\* floating point quotient times 100 is k, for each k used here.
AtLeast(k, part, total) == 100 * part >= k * total

----------------------------------------------------------------------------
\* Division by an unknown number of processors is NaN or infinite, and no
\* comparison holds but the last.
LoadColor(load, ncpus) ==
  LET n == ToF(ncpus) IN
  Grade(n > 0 /\ ToF(load) <= 150 * n, n > 0 /\ ToF(load) < 250 * n)

CpuColor(cpu) == IF cpu = Nil THEN "nil" ELSE Grade(cpu >= 90, cpu > 40)

CpuUsedColor(cpu_used) ==
  LET cpu == 100 - ToF(cpu_used) IN Grade(cpu <= 40, cpu < 90)

ProcsColor(procs) == IF procs = Nil THEN "nil" ELSE Grade(procs <= 1200, procs < 1900)

\* The sum of a NULL raises and is rescued: 0 of 1 is free and 0 of 1 used.
\* A sum of zero makes 0/0, which has no integer: for the memory that is
\* rescued to a nil which the comparison behind it cannot take.
Total(a, b) == IF a = Nil \/ b = Nil THEN 1 ELSE a + b
Part(a, b) == IF a = Nil \/ b = Nil THEN 0 ELSE a

MemColor_FreeOfUsed(free, used, type) ==
  LET total == Total(free, used)
      used_per(k) == AtLeast(k, Part(used, free), total)
  IN IF total = 0 THEN "raises"
     ELSE IF type = "free" THEN Grade(used_per(50), used_per(11))
     ELSE Grade(~used_per(61), ~used_per(90))

MemColor(free, used, type) ==
  LET total == Total(free, used)
      free_per(k) == AtLeast(k, Part(free, used), total)
      used_per(k) == AtLeast(k, Part(used, free), total)
  IN IF total = 0 THEN "raises"
     ELSE IF type = "free" THEN Grade(free_per(50), free_per(11))
     ELSE Grade(~used_per(61), ~used_per(90))

\* The same for a disk, whose total is again the sum of the two: the size and
\* what is used of it.
DiskColor(size, used, type) ==
  LET total == Total(size, used)
      free_per(k) == AtLeast(k, Part(size, used) - Part(used, size), total)
      used_per(k) == AtLeast(k, Part(used, size), total)
  IN IF total = 0 THEN "raises"
     ELSE IF type = "free" THEN Grade(free_per(50), free_per(11))
     ELSE Grade(~used_per(41), ~used_per(90))

----------------------------------------------------------------------------
\* The pairs of rows on the page of a server: what is free and what is used.
Pairs(f) ==
  {<<CpuColor(f.cpu_usage), CpuUsedColor(f.cpu_usage)>>,
   <<MemColor(f.mem_free, f.mem_used, "free"), MemColor(f.mem_free, f.mem_used, "used")>>,
   <<DiskColor(f.disk_size, f.disk_used, "free"), DiskColor(f.disk_size, f.disk_used, "used")>>}

\* The health that StatusController colours after a post raises.  Load and
\* processes, which it colours as well, rescue whatever they are given.
HealthRaises(f) == \E p \in Pairs(f) : "raises" \in {p[1], p[2]}

\* One resource is at its best and at its worst on the same page.
Contradictory(f) == \E p \in Pairs(f) : {p[1], p[2]} = {"healthy", "dieng"}
=============================================================================
