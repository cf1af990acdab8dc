------------------------------ MODULE PingVote ------------------------------
(***************************************************************************)
(* The reachability vote inside one ServerStatusWorker job                 *)
(* (workers/server_status_worker.rb, lines 17-58).                         *)
(*                                                                         *)
(* The job first tries pingecho.  When that fails it starts two threads    *)
(* per diagnostic host: one pings the server from this machine, the other  *)
(* from the diagnostic host over SSH.  All threads append a 0 (unreachable)*)
(* or a 1 (reachable) to one shared Array, `retvals`; the job joins the    *)
(* threads in order and judges the server down when the mean of the Array  *)
(* is at most 0.33.                                                        *)
(*                                                                         *)
(* The Array is not synchronized and the workers run on JRuby, whose       *)
(* append reads the length, writes the cell behind it and stores the new   *)
(* length: two appends may pick the same cell, and an append may put back  *)
(* an old length.  An append is therefore two steps here, Read and Store.  *)
(***************************************************************************)
EXTENDS Integers, Sequences, FiniteSets

CONSTANT NumHosts  \* rows of diagnostic_workers when the job reads them

ASSUME NumHostsAssumption == NumHosts \in Nat

\* Threads in the order they are created: for host h, thread 2h-1 pings from
\* this machine and thread 2h from the host.
Threads == 1..(2 * NumHosts)
IsRemote(t) == t % 2 = 0

VARIABLES
  pc,       \* the job's own thread: "echo", "join", "decide" and the outcomes
  joined,   \* how many threads `threads.each { |t| t.join }` is past
  phase,    \* phase[t]: where thread t is
  heard,    \* heard[t]: how thread t's ping ended
  pending,  \* pending[t]: the votes thread t has still to append
  slot,     \* slot[t]: the cell thread t picked for the append under way
  cells,    \* the backing store of `retvals`
  len       \* the length `retvals` reports

vars == <<pc, joined, phase, heard, pending, slot, cells, len>>

Verdicts == {"up", "down"}
Phases == {"off", "pinging", "hung", "read", "store", "done", "raised"}
Outcomes == {"none", "lost", "reply", "timeout", "error"}

----------------------------------------------------------------------------
\* What a ping that ended with outcome o appends.  Any output without the
\* loss marker counts as reachable.  A timed out SSH ping appends a 0 in its
\* rescue clause and then, its output now being '', a 1 as well.
VotesOf_LossIgnored(o) ==
  CASE o = "timeout" -> <<0, 1>> [] OTHER -> <<1>>

VotesOf_Percent(o) ==
  CASE o = "lost" -> <<0>> [] o = "timeout" -> <<0, 100>> [] OTHER -> <<100>>

VotesOf(o) ==
  CASE o = "lost" -> <<0>> [] o = "timeout" -> <<0, 1>> [] OTHER -> <<1>>

\* What a thread may have left to append.
Ballots == {<<>>, <<0>>, <<1>>, <<0, 1>>}

Ones == Cardinality({i \in 1..len : cells[i] = 1})
Zeros == Cardinality({i \in 1..len : cells[i] = 0})

\* retvals.mean <= 0.33 in hundredths.  The mean of an empty Array is NaN,
\* and every comparison with NaN is false.
MeanIsLow_EmptyIsZero == 100 * Ones <= 33 * len
MeanIsLow == len > 0 /\ 100 * Ones <= 33 * len

----------------------------------------------------------------------------
Init ==
  /\ pc = "echo"
  /\ joined = 0
  /\ phase = [t \in Threads |-> "off"]
  /\ heard = [t \in Threads |-> "none"]
  /\ pending = [t \in Threads |-> <<>>]
  /\ slot = [t \in Threads |-> 1]
  /\ cells = <<>>
  /\ len = 0

\* pingecho(ip, 1)[0].  When the TCP connection fails pingecho runs a ping
\* too, but its next line calls `logger`, which a Resque worker class does
\* not have: the rescue clause returns false whatever the ping said.
PingEcho(connected) ==
  /\ pc = "echo"
  /\ IF connected
     THEN pc' = "decide" /\ UNCHANGED phase
     ELSE pc' = "join" /\ phase' = [t \in Threads |-> "pinging"]
  /\ UNCHANGED <<joined, heard, pending, slot, cells, len>>

\* The ping of thread t ends with outcome o: the thread goes on to append its
\* votes, or ends with an exception (SSH refused, no output, no ping binary).
PingEnds(t, o) ==
  /\ heard' = [heard EXCEPT ![t] = o]
  /\ IF o = "error"
     THEN phase' = [phase EXCEPT ![t] = "raised"] /\ UNCHANGED pending
     ELSE /\ phase' = [phase EXCEPT ![t] = "read"]
          /\ pending' = [pending EXCEPT ![t] = VotesOf(o)]
  /\ UNCHANGED <<pc, joined, slot, cells, len>>

Answer(t, o) ==
  /\ phase[t] = "pinging"
  /\ PingEnds(t, o)

\* The diagnostic host stops answering on the SSH connection.
Hang(t) ==
  /\ IsRemote(t) /\ phase[t] = "pinging"
  /\ phase' = [phase EXCEPT ![t] = "hung"]
  /\ UNCHANGED <<pc, joined, heard, pending, slot, cells, len>>

\* Timeout::timeout(3) around the SSH session only.
SshTimeout_OnlyIfTalking(t) ==
  /\ IsRemote(t) /\ phase[t] = "pinging"
  /\ PingEnds(t, "timeout")

SshTimeout(t) ==
  /\ IsRemote(t) /\ phase[t] \in {"pinging", "hung"}
  /\ PingEnds(t, "timeout")

\* retvals << v, first half: pick the cell behind the current length.
Read(t) ==
  /\ phase[t] = "read"
  /\ slot' = [slot EXCEPT ![t] = len + 1]
  /\ phase' = [phase EXCEPT ![t] = "store"]
  /\ UNCHANGED <<pc, joined, heard, pending, cells, len>>

\* retvals << v, second half: fill the cell and publish the new length.
Store(t) ==
  /\ phase[t] = "store"
  /\ cells' = [i \in 1..(IF slot[t] > Len(cells) THEN slot[t] ELSE Len(cells)) |->
                 IF i = slot[t] THEN Head(pending[t]) ELSE cells[i]]
  /\ len' = slot[t]
  /\ pending' = [pending EXCEPT ![t] = Tail(@)]
  /\ phase' = [phase EXCEPT ![t] = IF Len(pending[t]) = 1 THEN "done" ELSE "read"]
  /\ UNCHANGED <<pc, joined, heard, slot>>

\* threads.each { |t| t.join }: the next thread has ended, or its exception
\* is raised here and the rest of the job is skipped (rescue on line 113).
Join_DeadThreadsPass ==
  /\ pc = "join" /\ joined < 2 * NumHosts
  /\ phase[joined + 1] \in {"done", "raised"}
  /\ joined' = joined + 1
  /\ UNCHANGED <<pc, phase, heard, pending, slot, cells, len>>

Join ==
  /\ pc = "join" /\ joined < 2 * NumHosts
  /\ \/ phase[joined + 1] = "done" /\ joined' = joined + 1 /\ UNCHANGED pc
     \/ phase[joined + 1] = "raised" /\ pc' = "aborted" /\ UNCHANGED joined
  /\ UNCHANGED <<phase, heard, pending, slot, cells, len>>

AllJoined ==
  /\ pc = "join" /\ joined = 2 * NumHosts
  /\ pc' = "decide"
  /\ UNCHANGED <<joined, phase, heard, pending, slot, cells, len>>

Decide ==
  /\ pc = "decide"
  /\ pc' = IF MeanIsLow THEN "down" ELSE "up"
  /\ UNCHANGED <<joined, phase, heard, pending, slot, cells, len>>

ThreadStep(t) ==
  \/ \E o \in {"lost", "reply", "error"} : Answer(t, o)
  \/ SshTimeout(t)
  \/ Read(t)
  \/ Store(t)

MainStep == (\E b \in BOOLEAN : PingEcho(b)) \/ Join \/ AllJoined \/ Decide

Next == MainStep \/ \E t \in Threads : ThreadStep(t) \/ Hang(t)

\* Every thread is scheduled.  A local ping ends by itself (-W 2 -c 2) and
\* an SSH session that hangs is cut by the timeout; nothing makes it answer.
Fairness == WF_vars(MainStep) /\ \A t \in Threads : WF_vars(ThreadStep(t))

Spec == Init /\ [][Next]_vars /\ Fairness

----------------------------------------------------------------------------
\* Voting: threads were started and all of them were joined.
Voted == pc \in Verdicts /\ joined = 2 * NumHosts /\ \E t \in Threads : phase[t] # "off"

TypeOK ==
  /\ pc \in {"echo", "join", "decide", "aborted"} \cup Verdicts
  /\ joined \in 0..(2 * NumHosts)
  /\ phase \in [Threads -> Phases]
  /\ heard \in [Threads -> Outcomes]
  /\ pending \in [Threads -> Ballots]
  /\ cells \in Seq({0, 1})
  /\ len \in 0..Len(cells)
  /\ slot \in [Threads -> 1..(Len(cells) + 1)]

\* What the pings of this vote have shown, as the evidence of module Vote.  A
\* TCP connection is a reply; without diagnostic hosts nobody can be asked.
Connected == pc \in {"decide"} \cup Verdicts /\ \A t \in Threads : phase[t] = "off"
Evidence ==
  (IF Connected \/ (\E t \in Threads : heard[t] = "reply") THEN {"reply"} ELSE {})
    \cup (IF \E t \in Threads : heard[t] = "lost" THEN {"loss"} ELSE {})
    \cup (IF Threads = {} \/ (\E t \in Threads : heard[t] \in {"timeout", "error"})
          THEN {"trouble"} ELSE {})

Verdict == CASE pc \in Verdicts -> pc [] pc = "aborted" -> "raised" [] OTHER -> "none"

V == INSTANCE Vote WITH evidence <- Evidence, verdict <- Verdict

\* The vote keeps its promise whatever the threads overwrite of each other's
\* votes: a server whose pings were all answered is never judged down, one
\* whose pings were all lost never up, the job fails only when a host is in
\* trouble, and no verdict is taken back (lines 17-58).
FoundedVerdict == V!Spec

\* A server is judged down only when some ping of this vote really ended
\* without an answer, whatever the racing appends lose (lines 19-58).
DownIsWitnessed ==
  pc = "down" => \E t \in Threads : heard[t] \in {"lost", "timeout"}

\* When every thread saw all packets lost, the job never judges the server
\* up, although appends may overwrite each other (lines 24-26, 45-47, 58).
UnanimousLossIsDown ==
  pc = "up" /\ Voted => \E t \in Threads : heard[t] # "lost"

\* No verdict rests on part of a vote: it is given only after every started
\* thread appended all its votes; a thread that died takes the job with it.
VerdictNeedsEveryThread ==
  pc \in Verdicts =>
    \/ \A t \in Threads : phase[t] = "off"
    \/ \A t \in Threads : phase[t] = "done" /\ pending[t] = <<>>

\* The appends of the threads that ended, each by its thread and number.
Appended == {v \in Threads \X {1, 2} : v[2] <= Len(VotesOf(heard[v[1]]))}

\* Diagnostic hosts that all time out acquit the server even when every local
\* ping failed, provided no append was lost: each timeout votes 0 and 1, so
\* the mean is a third, above 0.33 (lines 41-50, 58).  The comment at line 58
\* says otherwise: here two thirds of the votes are zeros.
TimeoutsAcquit ==
  (/\ Voted
   /\ len = Cardinality(Appended)
   /\ \A t \in Threads : IsRemote(t) => heard[t] = "timeout")
    => pc = "up"

\* The vote always ends, with a verdict or by an exception, even when a
\* diagnostic host hangs (line 36).
VoteEnds == <>(pc \in Verdicts \cup {"aborted"})
=============================================================================
