--------------------------- MODULE PingVoteProofs ---------------------------
(***************************************************************************)
(* Theorems about PingVote for any number of diagnostic hosts.  The        *)
(* inductive invariant ties what is in the Array, and what is still to be  *)
(* appended to it, to how the pings ended.                                 *)
(***************************************************************************)
EXTENDS PingVote, FiniteSetTheorems, TLAPS

Unanswered == \E t \in Threads : heard[t] \in {"lost", "timeout"}
Answered == \E t \in Threads : heard[t] \in {"reply", "timeout"}

\* The progress of a thread against its outcome and its pending votes.
ThreadOK(t) ==
  /\ phase[t] \in {"off", "pinging", "hung"} => heard[t] = "none"
  /\ phase[t] \in {"read", "store"} => pending[t] # <<>>
  /\ phase[t] = "done" => pending[t] = <<>> /\ len > 0
  /\ phase[t] = "raised" => heard[t] = "error"
  /\ pending[t] \in {<<0>>, <<0, 1>>} => heard[t] \in {"lost", "timeout"}
  /\ pending[t] \in {<<1>>, <<0, 1>>} => heard[t] \in {"reply", "timeout"}

\* Every vote in the Array was cast by a thread that heard what it says.
CellsOK ==
  \A i \in 1..Len(cells) :
    /\ cells[i] = 0 => Unanswered
    /\ cells[i] = 1 => Answered

\* How far the job's own thread is against the threads it started.
MainOK ==
  /\ pc = "echo" => \A t \in Threads : phase[t] = "off"
  /\ pc = "join" => \A t \in Threads : phase[t] # "off"
  /\ \A t \in Threads : t <= joined => phase[t] = "done"
  /\ pc \in {"decide"} \cup Verdicts =>
       (\A t \in Threads : phase[t] = "off") \/ joined = 2 * NumHosts

VerdictOK ==
  /\ pc = "down" => Unanswered
  /\ pc = "up" /\ (\E t \in Threads : phase[t] # "off") => Answered

IInv == TypeOK /\ (\A t \in Threads : ThreadOK(t)) /\ CellsOK /\ MainOK /\ VerdictOK

----------------------------------------------------------------------------
\* What the three vote sequences consist of.
LEMMA VoteSequences ==
  ASSUME NEW p \in Ballots, p # <<>>
  PROVE  /\ Head(p) \in {0, 1}
         /\ Tail(p) \in {<<>>, <<1>>}
         /\ (Len(p) = 1) <=> (Tail(p) = <<>>)
         /\ Head(p) = 0 => p \in {<<0>>, <<0, 1>>}
         /\ Head(p) = 1 => p \in {<<1>>, <<0, 1>>}
         /\ Tail(p) = <<1>> => p = <<0, 1>>
  <1>1. CASE p = <<0>>
    BY <1>1
  <1>2. CASE p = <<1>>
    BY <1>2
  <1>3. CASE p = <<0, 1>>
    BY <1>3
  <1>4. QED
    BY <1>1, <1>2, <1>3 DEF Ballots

\* A mean of at most 0.33 over a nonempty Array leaves room for a 0; a larger
\* one needs a 1.
LEMMA MeanWitness ==
  ASSUME TypeOK
  PROVE  /\ MeanIsLow => \E i \in 1..len : cells[i] = 0
         /\ len > 0 /\ ~MeanIsLow => \E i \in 1..len : cells[i] = 1
  <1> DEFINE S == {i \in 1..len : cells[i] = 1}
  <1>1. len \in Nat /\ IsFiniteSet(1..len) /\ Cardinality(1..len) = len
    <2>1. len \in Nat
      BY DEF TypeOK
    <2>2. QED
      BY <2>1, FS_Interval
  <1>2. IsFiniteSet(S) /\ Cardinality(S) \in Nat
    BY <1>1, FS_Subset, FS_CardinalityType
  <1>3. \A i \in 1..len : cells[i] \in {0, 1}
    BY DEF TypeOK
  <1>4. ASSUME MeanIsLow PROVE \E i \in 1..len : cells[i] = 0
    <2>1. SUFFICES ASSUME \A i \in 1..len : cells[i] # 0 PROVE FALSE
      OBVIOUS
    <2>2. S = 1..len
      BY <2>1, <1>3
    <2>3. Ones = len
      BY <2>2, <1>1 DEF Ones
    <2>4. QED
      BY <2>3, <1>1, <1>4 DEF MeanIsLow
  <1>5. ASSUME len > 0, ~MeanIsLow PROVE \E i \in 1..len : cells[i] = 1
    <2>1. SUFFICES ASSUME \A i \in 1..len : cells[i] # 1 PROVE FALSE
      OBVIOUS
    <2>2. S = {}
      BY <2>1
    <2>3. Ones = 0
      BY <2>2, FS_EmptySet DEF Ones
    <2>4. QED
      BY <2>3, <1>1, <1>5 DEF MeanIsLow
  <1>6. QED
    BY <1>4, <1>5

----------------------------------------------------------------------------
LEMMA InitIInv == Init => IInv
  BY NumHostsAssumption
  DEF Init, IInv, TypeOK, ThreadOK, CellsOK, MainOK, VerdictOK, Threads, Phases,
      Outcomes, Verdicts, Ballots

LEMMA EchoIInv == ASSUME IInv, NEW b \in BOOLEAN, PingEcho(b) PROVE IInv'
  <1> USE NumHostsAssumption DEF IInv, PingEcho
  <1>1. TypeOK'
    BY DEF TypeOK, Phases, Verdicts
  <1>2. (\A t \in Threads : ThreadOK(t))'
    BY DEF ThreadOK, TypeOK, MainOK
  <1>3. CellsOK'
    BY DEF CellsOK, Unanswered, Answered
  <1>4. MainOK'
    BY DEF MainOK, TypeOK, Verdicts
  <1>5. VerdictOK'
    BY DEF VerdictOK, Verdicts
  <1> QED
    BY <1>1, <1>2, <1>3, <1>4, <1>5

LEMMA PingEndsIInv ==
  ASSUME IInv, NEW t \in Threads, phase[t] \in {"pinging", "hung"},
         NEW o \in {"lost", "reply", "timeout", "error"}, PingEnds(t, o)
  PROVE  IInv'
  <1> USE DEF IInv, PingEnds
  <1>1. heard[t] = "none" /\ heard' = [heard EXCEPT ![t] = o]
    BY DEF ThreadOK
  <1>2. TypeOK'
    BY DEF TypeOK, Phases, Outcomes, Verdicts, VotesOf, Ballots
  <1>3. (\A u \in Threads : ThreadOK(u))'
    <2>1. ASSUME NEW u \in Threads PROVE ThreadOK(u)'
      <3>1. CASE u = t
        <4>1. ThreadOK(t)
          OBVIOUS
        <4>2. CASE o = "error"
          BY <3>1, <4>1, <4>2, <1>1 DEF ThreadOK, TypeOK
        <4>3. CASE o # "error"
          <5>1. phase'[t] = "read" /\ heard'[t] = o /\ pending'[t] = VotesOf(o)
            BY <4>3 DEF TypeOK
          <5>2. QED
            BY <3>1, <4>3, <5>1 DEF ThreadOK, VotesOf
        <4> QED
          BY <4>2, <4>3
      <3>2. CASE u # t
        <4>1. phase'[u] = phase[u] /\ pending'[u] = pending[u] /\ heard'[u] = heard[u]
          BY <3>2 DEF TypeOK
        <4>2. QED
          BY <4>1 DEF ThreadOK
      <3> QED
        BY <3>1, <3>2
    <2> QED
      BY <2>1
  <1>4. (Unanswered => Unanswered') /\ (Answered => Answered')
    BY <1>1 DEF Unanswered, Answered, TypeOK
  <1>5. CellsOK'
    BY <1>4 DEF CellsOK
  <1>6. MainOK'
    BY DEF MainOK, TypeOK, Verdicts
  <1>7. VerdictOK'
    BY <1>4 DEF VerdictOK, MainOK, TypeOK, Verdicts
  <1> QED
    BY <1>2, <1>3, <1>5, <1>6, <1>7

LEMMA HangIInv == ASSUME IInv, NEW t \in Threads, Hang(t) PROVE IInv'
  <1> USE DEF IInv, Hang
  <1>1. TypeOK'
    BY DEF TypeOK, Phases, Verdicts
  <1>2. (\A u \in Threads : ThreadOK(u))'
    BY DEF ThreadOK, TypeOK
  <1>3. CellsOK'
    BY DEF CellsOK, Unanswered, Answered
  <1>4. MainOK'
    BY DEF MainOK, TypeOK
  <1>5. VerdictOK'
    BY DEF VerdictOK, TypeOK, Unanswered, Answered
  <1> QED
    BY <1>1, <1>2, <1>3, <1>4, <1>5

LEMMA ReadIInv == ASSUME IInv, NEW t \in Threads, Read(t) PROVE IInv'
  <1> USE DEF IInv, Read
  <1>1. TypeOK'
    BY DEF TypeOK, Phases, Verdicts
  <1>2. (\A u \in Threads : ThreadOK(u))'
    BY DEF ThreadOK, TypeOK
  <1>3. CellsOK'
    BY DEF CellsOK, Unanswered, Answered
  <1>4. MainOK'
    BY DEF MainOK, TypeOK
  <1>5. VerdictOK'
    BY DEF VerdictOK, TypeOK, Unanswered, Answered
  <1> QED
    BY <1>1, <1>2, <1>3, <1>4, <1>5

LEMMA StoreIInv == ASSUME IInv, NEW t \in Threads, Store(t) PROVE IInv'
  <1> DEFINE v == Head(pending[t])
             n == IF slot[t] > Len(cells) THEN slot[t] ELSE Len(cells)
  <1>1. /\ pending[t] \in {<<0>>, <<1>>, <<0, 1>>}
        /\ v \in {0, 1} /\ Tail(pending[t]) \in {<<>>, <<1>>}
        /\ (Len(pending[t]) = 1) <=> (Tail(pending[t]) = <<>>)
        /\ Tail(pending[t]) = <<1>> => pending[t] = <<0, 1>>
    BY VoteSequences DEF IInv, TypeOK, ThreadOK, Store
  <1>2. (v = 0 => Unanswered) /\ (v = 1 => Answered)
    BY <1>1, VoteSequences DEF IInv, ThreadOK, Unanswered, Answered
  <1>3. /\ slot[t] \in 1..(Len(cells) + 1) /\ Len(cells) \in Nat /\ n \in Nat
        /\ n >= slot[t] /\ n >= Len(cells)
        /\ \A i \in 1..n : i # slot[t] => i \in 1..Len(cells)
    BY DEF IInv, TypeOK
  <1>4. /\ cells' = [i \in 1..n |-> IF i = slot[t] THEN v ELSE cells[i]]
        /\ len' = slot[t]
    BY DEF Store
  <1>5. cells' \in Seq({0, 1}) /\ Len(cells') = n
    <2>1. \A i \in 1..n : (IF i = slot[t] THEN v ELSE cells[i]) \in {0, 1}
      BY <1>1, <1>3 DEF IInv, TypeOK
    <2>2. cells' \in [1..n -> {0, 1}]
      BY <1>4, <2>1
    <2>3. QED
      BY <2>2, <1>3
  <1>6. /\ phase' = [phase EXCEPT ![t] = IF Len(pending[t]) = 1 THEN "done" ELSE "read"]
        /\ pending' = [pending EXCEPT ![t] = Tail(pending[t])]
        /\ phase[t] = "store"
        /\ UNCHANGED <<pc, joined, heard, slot>>
    BY DEF Store
  <1>7. TypeOK'
    <2>1. phase' \in [Threads -> Phases] /\ pending' \in [Threads -> Ballots]
      BY <1>1, <1>6 DEF IInv, TypeOK, Phases, Ballots
    <2>2. len' \in 0..Len(cells')
      BY <1>3, <1>4, <1>5
    <2>3. slot' \in [Threads -> 1..(Len(cells') + 1)]
      BY <1>3, <1>5, <1>6 DEF IInv, TypeOK
    <2> QED
      BY <2>1, <2>2, <2>3, <1>5, <1>6 DEF IInv, TypeOK
  <1>8. (\A u \in Threads : ThreadOK(u))'
    <2>1. ASSUME NEW u \in Threads PROVE ThreadOK(u)'
      <3>0. len' > 0
        BY <1>3, <1>4
      <3>1. CASE u = t
        <4>1. phase'[t] \in {"done", "read"} /\ pending'[t] = Tail(pending[t])
          BY <1>6 DEF IInv, TypeOK
        <4>2. phase'[t] = "done" <=> Tail(pending[t]) = <<>>
          BY <1>1, <1>6 DEF IInv, TypeOK
        <4>3. <<>> # <<1>> /\ <<>> # <<0>> /\ <<>> # <<0, 1>>
          OBVIOUS
        <4>4. Tail(pending[t]) = <<1>> => heard[t] \in {"reply", "timeout"} /\ heard[t] \in {"lost", "timeout"}
          BY <1>1 DEF IInv, ThreadOK
        <4>5. <<1>> # <<0, 1>> /\ <<1>> # <<0>>
          OBVIOUS
        <4> QED
          BY <3>0, <3>1, <4>1, <4>2, <4>3, <4>4, <4>5, <1>1, <1>6 DEF ThreadOK
      <3>2. CASE u # t
        <4>1. phase'[u] = phase[u] /\ pending'[u] = pending[u] /\ heard'[u] = heard[u]
          BY <3>2, <1>6 DEF IInv, TypeOK
        <4>2. QED
          BY <4>1, <3>0 DEF IInv, ThreadOK
      <3> QED
        BY <3>1, <3>2
    <2> QED
      BY <2>1
  <1>9. Unanswered' = Unanswered /\ Answered' = Answered
    BY <1>6 DEF Unanswered, Answered
  <1>10. CellsOK'
    <2>1. ASSUME NEW i \in 1..n
          PROVE  (cells'[i] = 0 => Unanswered) /\ (cells'[i] = 1 => Answered)
      <3>1. CASE i = slot[t]
        BY <3>1, <1>2, <1>4
      <3>2. CASE i # slot[t]
        BY <3>2, <1>3, <1>4 DEF IInv, CellsOK
      <3> QED
        BY <3>1, <3>2
    <2> QED
      BY <2>1, <1>5, <1>9 DEF CellsOK
  <1>11. MainOK'
    BY <1>6 DEF IInv, MainOK, TypeOK
  <1>12. VerdictOK'
    BY <1>6, <1>9 DEF IInv, VerdictOK, TypeOK
  <1> QED
    BY <1>7, <1>8, <1>10, <1>11, <1>12 DEF IInv

LEMMA JoinIInv == ASSUME IInv, Join \/ AllJoined PROVE IInv'
  <1> USE NumHostsAssumption DEF IInv, Join, AllJoined
  <1>1. TypeOK'
    BY DEF TypeOK, Verdicts
  <1>2. (\A u \in Threads : ThreadOK(u))'
    BY DEF ThreadOK
  <1>3. CellsOK'
    BY DEF CellsOK, Unanswered, Answered
  <1>4. MainOK'
    <2>1. \A t \in Threads : t <= joined' => phase[t] = "done"
      <3>1. \A t \in Threads : t <= joined' => t <= joined \/ t = joined + 1
        BY DEF TypeOK, Threads
      <3> QED
        BY <3>1 DEF MainOK
    <2> QED
      BY <2>1 DEF MainOK, Verdicts
  <1>5. VerdictOK'
    BY DEF VerdictOK
  <1> QED
    BY <1>1, <1>2, <1>3, <1>4, <1>5

LEMMA DecideIInv == ASSUME IInv, Decide PROVE IInv'
  <1> USE NumHostsAssumption DEF IInv, Decide
  <1>1. TypeOK'
    BY DEF TypeOK, Verdicts
  <1>2. (\A u \in Threads : ThreadOK(u))'
    BY DEF ThreadOK
  <1>3. CellsOK'
    BY DEF CellsOK, Unanswered, Answered
  <1>4. MainOK'
    BY DEF MainOK, Verdicts
  <1>5. VerdictOK'
    <2>1. 1..len \subseteq 1..Len(cells)
      BY DEF TypeOK
    <2>2. CASE MeanIsLow
      BY <2>1, <2>2, MeanWitness DEF CellsOK, VerdictOK, Unanswered
    <2>3. CASE ~MeanIsLow
      <3>1. SUFFICES ASSUME \E t \in Threads : phase[t] # "off" PROVE Answered
        BY <2>3 DEF VerdictOK, Answered
      <3>2. \A t \in Threads : phase[t] = "done"
        <4>1. joined = 2 * NumHosts
          BY <3>1 DEF MainOK
        <4>2. \A t \in Threads : t <= joined
          BY <4>1 DEF Threads
        <4> QED
          BY <4>2 DEF MainOK
      <3>3. len > 0
        BY <3>1, <3>2 DEF ThreadOK
      <3> QED
        BY <2>1, <2>3, <3>3, MeanWitness DEF CellsOK
    <2> QED
      BY <2>2, <2>3
  <1> QED
    BY <1>1, <1>2, <1>3, <1>4, <1>5

LEMMA NextIInv == IInv /\ [Next]_vars => IInv'
  <1> SUFFICES ASSUME IInv, [Next]_vars PROVE IInv'
    OBVIOUS
  <1>1. CASE MainStep
    BY <1>1, EchoIInv, JoinIInv, DecideIInv DEF MainStep
  <1>2. ASSUME NEW t \in Threads, ThreadStep(t) PROVE IInv'
    <2>1. CASE \E o \in {"lost", "reply", "error"} : Answer(t, o)
      BY <2>1, PingEndsIInv DEF Answer
    <2>2. CASE SshTimeout(t)
      BY <2>2, PingEndsIInv DEF SshTimeout
    <2>3. CASE Read(t) \/ Store(t)
      BY <2>3, ReadIInv, StoreIInv
    <2> QED
      BY <1>2, <2>1, <2>2, <2>3 DEF ThreadStep
  <1>3. ASSUME NEW t \in Threads, Hang(t) PROVE IInv'
    BY <1>3, HangIInv
  <1>4. CASE UNCHANGED vars
    BY <1>4 DEF IInv, vars, TypeOK, ThreadOK, CellsOK, MainOK, VerdictOK, Unanswered, Answered
  <1> QED
    BY <1>1, <1>2, <1>3, <1>4 DEF Next

THEOREM Inductive == Spec => []IInv
  BY InitIInv, NextIInv, PTL DEF Spec

----------------------------------------------------------------------------
\* The steps of the vote as steps of module Vote.

\* A step that changes neither what was heard nor where the job stands.
LEMMA QuietStep ==
  ASSUME UNCHANGED <<pc, heard>>,
         (\A t \in Threads : phase[t] = "off") <=> (\A t \in Threads : phase'[t] = "off")
  PROVE  UNCHANGED V!vars
  BY DEF V!vars, Evidence, Verdict, Connected

LEMMA InitVote == Init => V!Init
  BY DEF Init, V!Init, Evidence, Verdict, Connected, Verdicts

LEMMA EchoVote == ASSUME IInv, NEW b \in BOOLEAN, PingEcho(b) PROVE [V!Next]_V!vars
  <1>1. pc = "echo" /\ pc' \in {"decide", "join"} /\ UNCHANGED heard
    BY DEF PingEcho
  <1>2. Verdict = "none" /\ Verdict' = "none" /\ ~Connected
    BY <1>1 DEF Verdict, Verdicts, Connected
  <1>3. Evidence' = Evidence \/ Evidence' = Evidence \cup {"reply"}
    BY <1>1, <1>2 DEF Evidence
  <1> QED
    BY <1>2, <1>3 DEF V!Next, V!Learn, V!vars

LEMMA PingEndsVote ==
  ASSUME IInv, NEW t \in Threads, phase[t] \in {"pinging", "hung"},
         NEW o \in {"lost", "reply", "timeout", "error"}, PingEnds(t, o)
  PROVE  [V!Next]_V!vars
  <1> DEFINE e == IF o = "reply" THEN "reply" ELSE IF o = "lost" THEN "loss" ELSE "trouble"
  <1>1. heard[t] = "none" /\ heard' = [heard EXCEPT ![t] = o] /\ UNCHANGED pc
    BY DEF IInv, ThreadOK, PingEnds
  <1>2. phase'[t] \in {"raised", "read"}
    BY DEF PingEnds, IInv, TypeOK
  <1>3. ~Connected /\ ~Connected' /\ Verdict' = Verdict
    BY <1>1, <1>2 DEF Connected, Verdict
  <1>4. \A x \in {"reply", "lost", "timeout", "error"} :
          (\E u \in Threads : heard'[u] = x) <=> (x = o \/ \E u \in Threads : heard[u] = x)
    BY <1>1 DEF IInv, TypeOK
  <1>5. Evidence' = Evidence \cup {e}
    <2>1. (\E u \in Threads : heard[u] \in {"timeout", "error"}) <=>
            (\E u \in Threads : heard[u] = "timeout") \/ (\E u \in Threads : heard[u] = "error")
      OBVIOUS
    <2>2. (\E u \in Threads : heard'[u] \in {"timeout", "error"}) <=>
            (\E u \in Threads : heard'[u] = "timeout") \/ (\E u \in Threads : heard'[u] = "error")
      OBVIOUS
    <2>3. CASE o = "reply"
      BY <2>1, <2>2, <2>3, <1>3, <1>4 DEF Evidence
    <2>4. CASE o = "lost"
      BY <2>1, <2>2, <2>4, <1>3, <1>4 DEF Evidence
    <2>5. CASE o \in {"timeout", "error"}
      BY <2>1, <2>2, <2>5, <1>3, <1>4 DEF Evidence
    <2> QED
      BY <2>3, <2>4, <2>5
  <1> QED
    BY <1>3, <1>5 DEF V!Next, V!Learn

LEMMA JoinVote == ASSUME IInv, Join \/ AllJoined PROVE [V!Next]_V!vars
  <1>1. pc = "join" /\ UNCHANGED <<heard, phase>>
    BY DEF Join, AllJoined
  <1>2. Verdict = "none" /\ ~Connected
    BY <1>1 DEF Verdict, Verdicts, Connected
  <1>3. CASE Join /\ pc' = "join"
    BY <1>1, <1>3, QuietStep
  <1>4. CASE Join /\ pc' = "aborted"
    <2>1. joined + 1 \in Threads /\ phase[joined + 1] = "raised"
      BY <1>1, <1>4, NumHostsAssumption DEF Join, IInv, TypeOK, Threads
    <2>2. "trouble" \in Evidence
      BY <2>1 DEF IInv, ThreadOK, Evidence
    <2>3. Evidence' = Evidence /\ Verdict' = "raised"
      BY <1>1, <1>2, <1>4 DEF Evidence, Connected, Verdict, Verdicts
    <2> QED
      BY <1>2, <2>2, <2>3 DEF V!Next, V!Judge, V!Founded
  <1>5. CASE AllJoined
    <2>1. Verdict' = "none"
      BY <1>5 DEF AllJoined, Verdict, Verdicts
    <2>2. Evidence' = Evidence \/ Evidence' = Evidence \cup {"reply"}
      BY <1>1, <1>2 DEF Evidence
    <2> QED
      BY <1>2, <2>1, <2>2 DEF V!Next, V!Learn, V!vars
  <1> QED
    BY <1>1, <1>3, <1>4, <1>5 DEF Join

LEMMA DecideVote == ASSUME IInv, Decide PROVE [V!Next]_V!vars
  <1>1. /\ pc = "decide" /\ pc' \in {"up", "down"} /\ UNCHANGED <<heard, phase>>
        /\ VerdictOK'
    BY DecideIInv DEF Decide, IInv
  <1>2. Verdict = "none" /\ Verdict' = pc' /\ Evidence' = Evidence
    BY <1>1 DEF Verdict, Verdicts, Evidence, Connected
  <1>3. CASE pc' = "down"
    <2>1. \E t \in Threads : heard[t] \in {"lost", "timeout"}
      BY <1>1, <1>3 DEF VerdictOK, Unanswered
    <2>2. "loss" \in Evidence \/ "trouble" \in Evidence
      BY <2>1 DEF Evidence
    <2> QED
      BY <1>2, <1>3, <2>2 DEF V!Next, V!Judge, V!Founded
  <1>4. CASE pc' = "up"
    <2>1. "reply" \in Evidence \/ "trouble" \in Evidence
      <3>1. CASE \A t \in Threads : phase[t] = "off"
        BY <1>1, <3>1 DEF Evidence, Connected
      <3>2. CASE \E t \in Threads : phase[t] # "off"
        <4>1. \E t \in Threads : heard[t] \in {"reply", "timeout"}
          BY <1>1, <1>4, <3>2 DEF VerdictOK, Answered
        <4> QED
          BY <4>1 DEF Evidence
      <3> QED
        BY <3>1, <3>2
    <2> QED
      BY <1>2, <1>4, <2>1 DEF V!Next, V!Judge, V!Founded
  <1> QED
    BY <1>1, <1>3, <1>4

LEMMA NextVote == IInv /\ [Next]_vars => [V!Next]_V!vars
  <1> SUFFICES ASSUME IInv, [Next]_vars PROVE [V!Next]_V!vars
    OBVIOUS
  <1>1. CASE MainStep
    BY <1>1, EchoVote, JoinVote, DecideVote DEF MainStep
  <1>2. ASSUME NEW t \in Threads, ThreadStep(t) \/ Hang(t) PROVE [V!Next]_V!vars
    <2>1. CASE \E o \in {"lost", "reply", "error"} : Answer(t, o)
      BY <2>1, PingEndsVote DEF Answer
    <2>2. CASE SshTimeout(t)
      BY <2>2, PingEndsVote DEF SshTimeout
    <2>3. CASE Read(t) \/ Store(t) \/ Hang(t)
      <3>1. /\ UNCHANGED <<pc, heard>> /\ phase[t] # "off" /\ phase'[t] # "off"
        BY <2>3 DEF Read, Store, Hang, IInv, TypeOK
      <3> QED
        BY <3>1, QuietStep
    <2> QED
      BY <1>2, <2>1, <2>2, <2>3 DEF ThreadStep
  <1>3. CASE UNCHANGED vars
    BY <1>3, QuietStep DEF vars
  <1> QED
    BY <1>1, <1>2, <1>3 DEF Next

----------------------------------------------------------------------------
\* The vote implements its promise for any number of hosts and any
\* interleaving of the appends (lines 17-58).
THEOREM KeepsPromise == Spec => FoundedVerdict
  <1>1. Init => V!Init
    BY InitVote
  <1>2. IInv /\ [Next]_vars => [V!Next]_V!vars
    BY NextVote
  <1> QED
    BY <1>1, <1>2, Inductive, PTL DEF Spec, FoundedVerdict, V!Spec

\* The Array, the threads and the job keep their types whatever the racing
\* appends overwrite (lines 17-58).
THEOREM TypeCorrect == Spec => []TypeOK
  <1>1. IInv => TypeOK
    BY DEF IInv
  <1> QED
    BY <1>1, Inductive, PTL

\* No server is judged down unless a ping of that vote went unanswered, for
\* any number of hosts and any interleaving of the appends (lines 19-58).
THEOREM DownWitnessed == Spec => []DownIsWitnessed
  <1>1. IInv => DownIsWitnessed
    BY DEF IInv, VerdictOK, Unanswered, DownIsWitnessed
  <1> QED
    BY <1>1, Inductive, PTL

\* When all pings lost every packet the server is not judged up, for any
\* number of hosts and any interleaving of the appends (lines 24-58).
THEOREM LossConvicts == Spec => []UnanimousLossIsDown
  <1>1. IInv => UnanimousLossIsDown
    BY DEF IInv, VerdictOK, Answered, UnanimousLossIsDown, Voted
  <1> QED
    BY <1>1, Inductive, PTL

\* A verdict on a started vote is given only when every thread has appended
\* all of its votes (line 54).
THEOREM FullVote == Spec => []VerdictNeedsEveryThread
  <1>1. IInv => VerdictNeedsEveryThread
    BY NumHostsAssumption DEF IInv, MainOK, ThreadOK, Threads, Verdicts, VerdictNeedsEveryThread
  <1> QED
    BY <1>1, Inductive, PTL

----------------------------------------------------------------------------
\* Counting votes.  A length as large as the number of appends done says
\* that none of them was overwritten; then the ones in the Array are those
\* that were cast.

\* How many votes thread t has appended.
Cast(t) ==
  IF phase[t] \notin {"read", "store", "done"} THEN 0
  ELSE IF pending[t] = <<>> THEN IF heard[t] = "timeout" THEN 2 ELSE 1
  ELSE IF heard[t] = "timeout" /\ pending[t] = <<1>> THEN 1 ELSE 0

\* The appends done, each by its thread and number, and those of a 1.
Stored == {v \in Threads \X {1, 2} : v[2] <= Cast(v[1])}
StoredOnes == {v \in Stored : heard[v[1]] = "reply" \/ v[2] = 2}

\* The pending votes are what is left of those of the outcome.
ThreadVotes(t) ==
  /\ phase[t] \in {"read", "store", "done"} =>
       \/ heard[t] = "lost" /\ pending[t] \in {<<0>>, <<>>}
       \/ heard[t] = "reply" /\ pending[t] \in {<<1>>, <<>>}
       \/ heard[t] = "timeout" /\ pending[t] \in {<<0, 1>>, <<1>>, <<>>}
  /\ heard[t] = "timeout" => IsRemote(t)

\* A cell picked before another append was published lies behind the count.
SlotOK(t) ==
  phase[t] = "store" =>
    /\ slot[t] <= Cardinality(Stored) + 1
    /\ slot[t] = Cardinality(Stored) + 1 => len = Cardinality(Stored)

TallyOK ==
  /\ len <= Cardinality(Stored)
  /\ len = Cardinality(Stored) => Ones = Cardinality(StoredOnes)
  /\ \A t \in Threads : SlotOK(t)

MeanDecides == pc \in Verdicts => pc = IF MeanIsLow THEN "down" ELSE "up"

TInv == (\A t \in Threads : ThreadVotes(t)) /\ TallyOK /\ MeanDecides

\* The four shapes of pending votes differ.
LEMMA Shapes ==
  /\ <<0>> # <<>> /\ <<1>> # <<>> /\ <<0, 1>> # <<>>
  /\ <<0, 1>> # <<1>> /\ <<0, 1>> # <<0>> /\ <<0>> # <<1>>
  /\ Tail(<<0>>) = <<>> /\ Tail(<<1>>) = <<>> /\ Tail(<<0, 1>>) = <<1>>
  /\ Head(<<0>>) = 0 /\ Head(<<1>>) = 1 /\ Head(<<0, 1>>) = 0
  /\ Len(<<0>>) = 1 /\ Len(<<1>>) = 1 /\ Len(<<0, 1>>) = 2
  OBVIOUS

LEMMA StoredFinite ==
  /\ IsFiniteSet(Threads \X {1, 2})
  /\ IsFiniteSet(Stored) /\ Cardinality(Stored) \in Nat
  /\ IsFiniteSet(StoredOnes) /\ Cardinality(StoredOnes) \in Nat
  <1>1. IsFiniteSet(Threads)
    BY NumHostsAssumption, FS_Interval DEF Threads
  <1>2. IsFiniteSet({1, 2})
    <2>1. IsFiniteSet({1}) /\ {1, 2} = {1} \cup {2}
      BY FS_Singleton
    <2>2. IsFiniteSet({1} \cup {2})
      BY <2>1, FS_AddElement
    <2> QED
      BY <2>1, <2>2
  <1>3. IsFiniteSet(Threads \X {1, 2})
    BY <1>1, <1>2, FS_Product
  <1>4. Stored \subseteq Threads \X {1, 2} /\ StoredOnes \subseteq Threads \X {1, 2}
    BY DEF Stored, StoredOnes
  <1> QED
    BY <1>3, <1>4, FS_Subset, FS_CardinalityType

\* A step that appends nothing leaves the tally as it is.
LEMMA NothingCast ==
  ASSUME TallyOK, UNCHANGED <<len, cells, slot>>,
         \A t \in Threads : Cast(t)' = Cast(t),
         \A t \in Threads : heard'[t] = heard[t] \/ Cast(t) = 0,
         \A t \in Threads : phase'[t] = "store" => phase[t] = "store"
  PROVE  TallyOK'
  <1>1. Stored' = Stored
    BY DEF Stored
  <1>2. StoredOnes' = StoredOnes
    <2>1. \A v \in Stored : Cast(v[1]) # 0 /\ v[1] \in Threads
      BY DEF Stored
    <2> QED
      BY <1>1, <2>1 DEF StoredOnes
  <1>3. Ones' = Ones
    BY DEF Ones
  <1> QED
    BY <1>1, <1>2, <1>3 DEF TallyOK, SlotOK

\* A step of the job's own thread.
LEMMA MainTally == ASSUME IInv, TInv, MainStep PROVE TInv'
  <1>1. /\ UNCHANGED <<heard, pending, slot, cells, len>>
        /\ \A t \in Threads : phase'[t] = phase[t] \/ (phase[t] = "off" /\ phase'[t] = "pinging")
    BY DEF MainStep, PingEcho, Join, AllJoined, Decide, IInv, MainOK
  <1>2. (\A t \in Threads : ThreadVotes(t))'
    BY <1>1 DEF TInv, ThreadVotes
  <1>3. \A t \in Threads : Cast(t)' = Cast(t)
    BY <1>1 DEF Cast
  <1>4. TallyOK'
    BY <1>1, <1>3, NothingCast DEF TInv
  <1>5. MeanDecides'
    <2>1. MeanIsLow' = MeanIsLow
      BY <1>1 DEF MeanIsLow, Ones
    <2>2. CASE Decide
      BY <2>1, <2>2 DEF Decide, MeanDecides
    <2>3. CASE ~Decide
      BY <2>3 DEF MainStep, PingEcho, Join, AllJoined, MeanDecides, Verdicts
    <2> QED
      BY <2>2, <2>3
  <1> QED
    BY <1>2, <1>4, <1>5 DEF TInv

\* While a thread still runs there is no verdict.
LEMMA NoVerdictYet ==
  ASSUME IInv, NEW t \in Threads, phase[t] \notin {"off", "done"}, UNCHANGED pc
  PROVE  MeanDecides'
  <1>1. pc \notin Verdicts
    <2>1. SUFFICES ASSUME pc \in Verdicts PROVE FALSE
      OBVIOUS
    <2>2. joined = 2 * NumHosts
      BY <2>1 DEF IInv, MainOK
    <2>3. t <= joined
      BY <2>2 DEF Threads
    <2> QED
      BY <2>3 DEF IInv, MainOK
  <1> QED
    BY <1>1 DEF MeanDecides

LEMMA PingEndsTally ==
  ASSUME IInv, TInv, NEW t \in Threads, phase[t] \in {"pinging", "hung"},
         NEW o \in {"lost", "reply", "timeout", "error"}, o = "timeout" => IsRemote(t),
         PingEnds(t, o)
  PROVE  TInv'
  <1>1. heard' = [heard EXCEPT ![t] = o] /\ UNCHANGED <<pc, slot, cells, len>>
    BY DEF PingEnds
  <1>2. \A u \in Threads : u # t =>
          phase'[u] = phase[u] /\ pending'[u] = pending[u] /\ heard'[u] = heard[u]
    BY <1>1 DEF PingEnds, IInv, TypeOK
  <1>3. heard'[t] = o /\ phase'[t] \in {"raised", "read"}
    BY <1>1 DEF PingEnds, IInv, TypeOK
  <1>4. phase'[t] = "read" =>
          \/ o = "lost" /\ pending'[t] = <<0>>
          \/ o = "reply" /\ pending'[t] = <<1>>
          \/ o = "timeout" /\ pending'[t] = <<0, 1>>
    <2>1. phase'[t] = "read" => o # "error" /\ pending'[t] = VotesOf(o)
      BY DEF PingEnds, IInv, TypeOK
    <2>2. VotesOf("lost") = <<0>> /\ VotesOf("reply") = <<1>> /\ VotesOf("timeout") = <<0, 1>>
      BY DEF VotesOf
    <2> QED
      BY <2>1, <2>2
  <1>5. (\A u \in Threads : ThreadVotes(u))'
    <2>1. ASSUME NEW u \in Threads PROVE ThreadVotes(u)'
      <3>1. CASE u = t
        BY <3>1, <1>3, <1>4 DEF ThreadVotes
      <3>2. CASE u # t
        BY <3>2, <1>2 DEF TInv, ThreadVotes
      <3> QED
        BY <3>1, <3>2
    <2> QED
      BY <2>1
  <1>6. \A u \in Threads : Cast(u)' = Cast(u)
    <2>1. ASSUME NEW u \in Threads PROVE Cast(u)' = Cast(u)
      <3>1. CASE u = t
        BY <3>1, <1>3, <1>4, Shapes DEF Cast
      <3>2. CASE u # t
        BY <3>2, <1>2 DEF Cast
      <3> QED
        BY <3>1, <3>2
    <2> QED
      BY <2>1
  <1>7. TallyOK'
    <2>1. Cast(t) = 0
      BY DEF Cast
    <2> QED
      BY <1>1, <1>2, <1>3, <1>6, <2>1, NothingCast DEF TInv
  <1> QED
    BY <1>1, <1>5, <1>7, NoVerdictYet DEF TInv

LEMMA HangTally == ASSUME IInv, TInv, NEW t \in Threads, Hang(t) PROVE TInv'
  <1>1. /\ UNCHANGED <<pc, heard, pending, slot, cells, len>>
        /\ phase[t] = "pinging" /\ phase'[t] = "hung"
        /\ \A u \in Threads : u # t => phase'[u] = phase[u]
    BY DEF Hang, IInv, TypeOK
  <1>2. (\A u \in Threads : ThreadVotes(u))'
    BY <1>1 DEF TInv, ThreadVotes
  <1>3. \A u \in Threads : Cast(u)' = Cast(u)
    BY <1>1 DEF Cast
  <1>4. TallyOK'
    BY <1>1, <1>3, NothingCast DEF TInv
  <1> QED
    BY <1>1, <1>2, <1>4, NoVerdictYet DEF TInv

LEMMA ReadTally == ASSUME IInv, TInv, NEW t \in Threads, Read(t) PROVE TInv'
  <1>1. /\ UNCHANGED <<pc, heard, pending, cells, len>>
        /\ phase[t] = "read" /\ phase'[t] = "store" /\ slot'[t] = len + 1
        /\ \A u \in Threads : u # t => phase'[u] = phase[u] /\ slot'[u] = slot[u]
    BY DEF Read, IInv, TypeOK
  <1>2. (\A u \in Threads : ThreadVotes(u))'
    BY <1>1 DEF TInv, ThreadVotes
  <1>3. \A u \in Threads : Cast(u)' = Cast(u)
    BY <1>1 DEF Cast
  <1>4. Stored' = Stored /\ StoredOnes' = StoredOnes
    BY <1>1, <1>3 DEF Stored, StoredOnes
  <1>5. len <= Cardinality(Stored) /\ len \in Nat /\ Cardinality(Stored) \in Nat
    BY StoredFinite DEF TInv, TallyOK, IInv, TypeOK
  <1>6. ASSUME NEW u \in Threads PROVE SlotOK(u)'
    <2>1. CASE u = t
      BY <2>1, <1>1, <1>4, <1>5 DEF SlotOK
    <2>2. CASE u # t
      BY <2>2, <1>1, <1>4 DEF SlotOK, TInv, TallyOK
    <2> QED
      BY <2>1, <2>2
  <1>7. TallyOK'
    <2>1. Ones' = Ones
      BY <1>1 DEF Ones
    <2> QED
      BY <1>1, <1>4, <1>6, <2>1 DEF TInv, TallyOK
  <1> QED
    BY <1>1, <1>2, <1>7, NoVerdictYet DEF TInv

LEMMA StoreTally == ASSUME IInv, TInv, NEW t \in Threads, Store(t) PROVE TInv'
  <1> DEFINE n == Cast(t) + 1
             x == Head(pending[t])
             m == IF slot[t] > Len(cells) THEN slot[t] ELSE Len(cells)
             C == Cardinality(Stored)
  <1>1. /\ phase[t] = "store" /\ UNCHANGED <<pc, heard, slot>> /\ len' = slot[t]
        /\ pending'[t] = Tail(pending[t])
        /\ phase'[t] = IF Len(pending[t]) = 1 THEN "done" ELSE "read"
        /\ cells' = [i \in 1..m |-> IF i = slot[t] THEN x ELSE cells[i]]
        /\ \A u \in Threads : u # t => phase'[u] = phase[u] /\ pending'[u] = pending[u]
    BY DEF Store, IInv, TypeOK
  <1>2. pending[t] # <<>>
    BY <1>1 DEF IInv, ThreadOK
  <1>3. \/ heard[t] = "lost" /\ pending[t] = <<0>>
        \/ heard[t] = "reply" /\ pending[t] = <<1>>
        \/ heard[t] = "timeout" /\ pending[t] \in {<<0, 1>>, <<1>>}
    BY <1>1, <1>2 DEF TInv, ThreadVotes
  <1>4. /\ n \in {1, 2} /\ Cast(t)' = n /\ Cast(t) = n - 1
        /\ x = (IF heard[t] = "reply" \/ n = 2 THEN 1 ELSE 0)
    <2>1. CASE heard[t] = "lost" /\ pending[t] = <<0>>
      BY <2>1, <1>1, Shapes DEF Cast
    <2>2. CASE heard[t] = "reply" /\ pending[t] = <<1>>
      BY <2>2, <1>1, Shapes DEF Cast
    <2>3. CASE heard[t] = "timeout" /\ pending[t] = <<0, 1>>
      BY <2>3, <1>1, Shapes DEF Cast
    <2>4. CASE heard[t] = "timeout" /\ pending[t] = <<1>>
      BY <2>4, <1>1, Shapes DEF Cast
    <2> QED
      BY <1>3, <2>1, <2>2, <2>3, <2>4
  <1>5. (\A u \in Threads : ThreadVotes(u))'
    <2>1. ASSUME NEW u \in Threads PROVE ThreadVotes(u)'
      <3>1. CASE u = t
        BY <3>1, <1>1, <1>3, Shapes DEF TInv, ThreadVotes
      <3>2. CASE u # t
        BY <3>2, <1>1 DEF TInv, ThreadVotes
      <3> QED
        BY <3>1, <3>2
    <2> QED
      BY <2>1
  <1>6. Stored' = Stored \cup {<<t, n>>} /\ <<t, n>> \notin Stored
    <2>1. \A u \in Threads : u # t => Cast(u)' = Cast(u)
      BY <1>1 DEF Cast
    <2>2. \A k \in {1, 2} : k <= n <=> k <= n - 1 \/ k = n
      BY <1>4
    <2>3. \A v \in Threads \X {1, 2} :
            v[2] <= Cast(v[1])' <=> (v[2] <= Cast(v[1]) \/ v = <<t, n>>)
      BY <1>4, <2>1, <2>2
    <2>4. <<t, n>> \in Threads \X {1, 2} /\ ~(n <= Cast(t))
      BY <1>4
    <2> QED
      BY <2>3, <2>4 DEF Stored
  <1>7. StoredOnes' = (IF x = 1 THEN StoredOnes \cup {<<t, n>>} ELSE StoredOnes)
        /\ <<t, n>> \notin StoredOnes
    BY <1>1, <1>4, <1>6 DEF StoredOnes
  <1>8. /\ C \in Nat /\ Cardinality(Stored') = C + 1
        /\ Cardinality(StoredOnes) \in Nat
        /\ Cardinality(StoredOnes') = Cardinality(StoredOnes) + x
    <2>1. C \in Nat /\ Cardinality(Stored') = C + 1
      BY <1>6, StoredFinite, FS_AddElement
    <2>2. CASE x = 1
      <3>1. Cardinality(StoredOnes') = Cardinality(StoredOnes) + 1
        BY <1>7, <2>2, StoredFinite, FS_AddElement
      <3> QED
        BY <2>1, <2>2, <3>1, StoredFinite
    <2>3. CASE x = 0
      <3>1. StoredOnes' = StoredOnes
        BY <1>7, <2>3
      <3> QED
        BY <2>1, <2>3, <3>1, StoredFinite
    <2> QED
      BY <1>4, <2>2, <2>3
  <1>9. /\ slot[t] <= C + 1 /\ (slot[t] = C + 1 => len = C)
        /\ slot[t] \in Nat \ {0} /\ len \in Nat
    BY <1>1, <1>8 DEF TInv, TallyOK, SlotOK, IInv, TypeOK
  <1>10. ASSUME slot[t] = C + 1 PROVE Ones' = Cardinality(StoredOnes')
    <2> DEFINE A == {i \in 1..len : cells[i] = 1}
               B == {i \in 1..len' : cells'[i] = 1}
    <2>1. len = C /\ len' = len + 1 /\ slot[t] = len + 1 /\ len <= Len(cells) /\ Len(cells) \in Nat
          /\ len \in Nat
      BY <1>1, <1>9, <1>10 DEF IInv, TypeOK
    <2>2. Ones = Cardinality(StoredOnes) /\ Ones = Cardinality(A) /\ Ones' = Cardinality(B)
      BY <2>1 DEF TInv, TallyOK, Ones
    <2>3. m >= len + 1 /\ m \in Nat
      BY <2>1
    <2>4. /\ \A i \in 1..len : cells'[i] = cells[i]
          /\ cells'[len + 1] = x
      <3>1. (\A i \in 1..len : i \in 1..m /\ i # slot[t]) /\ slot[t] \in 1..m
        BY <2>1, <2>3
      <3>2. \A i \in 1..m : cells'[i] = IF i = slot[t] THEN x ELSE cells[i]
        BY <1>1
      <3> QED
        BY <2>1, <3>1, <3>2
    <2>5. B = (IF x = 1 THEN A \cup {len + 1} ELSE A) /\ (len + 1) \notin A
      <3>1. \A i \in 1..len' : i \in 1..len \/ i = len + 1
        BY <2>1
      <3>2. \A i \in 1..len : i # len + 1 /\ i \in 1..len'
        BY <2>1
      <3>3. len + 1 \in 1..len'
        BY <2>1
      <3>4. x \in {0, 1}
        BY <1>4
      <3> QED
        BY <2>4, <3>1, <3>2, <3>3, <3>4
    <2>6. IsFiniteSet(A) /\ Cardinality(A) \in Nat
      <3>1. IsFiniteSet(1..len)
        BY <1>9, FS_Interval
      <3> QED
        BY <3>1, FS_Subset, FS_CardinalityType
    <2>7. Cardinality(B) = Cardinality(A) + x
      <3>1. CASE x = 1
        <4>1. B = A \cup {len + 1}
          BY <2>5, <3>1
        <4> QED
          BY <2>5, <2>6, <3>1, <4>1, FS_AddElement
      <3>2. CASE x = 0
        <4>1. B = A
          BY <2>5, <3>2
        <4>2. Cardinality(A) = Cardinality(A) + 0
          BY <2>6
        <4> QED
          BY <3>2, <4>1, <4>2
      <3> QED
        BY <1>4, <3>1, <3>2
    <2> QED
      BY <1>8, <2>2, <2>7
  <1>11. ASSUME NEW u \in Threads PROVE SlotOK(u)'
    <2>1. CASE u = t
      BY <2>1, <1>1 DEF SlotOK
    <2>2. CASE u # t
      <3>1. phase'[u] = "store" => slot'[u] <= C + 1 /\ slot'[u] \in Nat
        BY <2>2, <1>1 DEF TInv, TallyOK, SlotOK, IInv, TypeOK
      <3> QED
        BY <1>8, <3>1 DEF SlotOK
    <2> QED
      BY <2>1, <2>2
  <1>12. TallyOK'
    BY <1>1, <1>8, <1>9, <1>10, <1>11 DEF TallyOK
  <1> QED
    BY <1>1, <1>5, <1>12, NoVerdictYet DEF TInv

LEMMA InitTally == Init => TInv
  <1> SUFFICES ASSUME Init PROVE TInv
    OBVIOUS
  <1>1. \A t \in Threads : ThreadVotes(t)
    BY DEF Init, ThreadVotes
  <1>2. Stored = {} /\ StoredOnes = {}
    <2>1. \A t \in Threads : Cast(t) = 0
      BY DEF Init, Cast
    <2> QED
      BY <2>1 DEF Stored, StoredOnes
  <1>3. Ones = 0
    <2>1. {i \in 1..len : cells[i] = 1} = {}
      BY DEF Init
    <2> QED
      BY <2>1, FS_EmptySet DEF Ones
  <1>4. TallyOK
    BY <1>2, <1>3, FS_EmptySet DEF Init, TallyOK, SlotOK
  <1>5. MeanDecides
    BY DEF Init, MeanDecides, Verdicts
  <1> QED
    BY <1>1, <1>4, <1>5 DEF TInv

LEMMA NextTally == IInv /\ TInv /\ [Next]_vars => TInv'
  <1> SUFFICES ASSUME IInv, TInv, [Next]_vars PROVE TInv'
    OBVIOUS
  <1>1. CASE MainStep
    BY <1>1, MainTally
  <1>2. ASSUME NEW t \in Threads, ThreadStep(t) \/ Hang(t) PROVE TInv'
    <2>1. CASE \E o \in {"lost", "reply", "error"} : Answer(t, o)
      BY <2>1, PingEndsTally DEF Answer
    <2>2. CASE SshTimeout(t)
      BY <2>2, PingEndsTally DEF SshTimeout
    <2>3. CASE Read(t) \/ Store(t) \/ Hang(t)
      BY <2>3, ReadTally, StoreTally, HangTally
    <2> QED
      BY <1>2, <2>1, <2>2, <2>3 DEF ThreadStep
  <1>3. CASE UNCHANGED vars
    BY <1>3 DEF vars, TInv, ThreadVotes, TallyOK, SlotOK, MeanDecides, MeanIsLow, Ones, Stored,
                StoredOnes, Cast
  <1> QED
    BY <1>1, <1>2, <1>3 DEF Next

\* The appends of the hosts' timeouts, and how many appends there can be.
Seconds == {v \in Threads \X {2} : IsRemote(v[1])}

LEMMA SecondsCounted ==
  /\ IsFiniteSet(Seconds) /\ Cardinality(Seconds) = NumHosts
  /\ IsFiniteSet(Threads \X {1}) /\ Cardinality(Threads \X {1}) = 2 * NumHosts
  <1> USE NumHostsAssumption
  <1>1. IsFiniteSet(1..NumHosts) /\ Cardinality(1..NumHosts) = NumHosts
    BY FS_Interval
  <1> DEFINE f == [h \in 1..NumHosts |-> <<2 * h, 2>>]
  <1>2. f \in [1..NumHosts -> Seconds]
    BY DEF Seconds, Threads, IsRemote
  <1>3. \A v \in Seconds : \E h \in 1..NumHosts : f[h] = v
    <2>1. ASSUME NEW v \in Seconds PROVE \E h \in 1..NumHosts : f[h] = v
      <3>1. v[1] \in 1..(2 * NumHosts) /\ v[1] % 2 = 0 /\ v = <<v[1], 2>>
        BY DEF Seconds, Threads, IsRemote
      <3>2. PICK h \in Int : v[1] = 2 * h
        <4>1. \A n \in Int : n % 2 = 0 => \E h \in Int : n = 2 * h
          OBVIOUS
        <4>2. v[1] \in Int
          BY <3>1
        <4> QED
          BY <3>1, <4>1, <4>2
      <3>3. h \in 1..NumHosts
        BY <3>1, <3>2
      <3> QED
        BY <3>1, <3>2, <3>3
    <2> QED
      BY <2>1
  <1>4. IsInjective(f)
    BY DEF IsInjective
  <1>5. ExistsBijection(1..NumHosts, Seconds)
    BY <1>2, <1>3, <1>4 DEF ExistsBijection, Bijection, Injection, Surjection
  <1>6. IsFiniteSet(Threads) /\ Cardinality(Threads) = 2 * NumHosts
    BY FS_Interval DEF Threads
  <1>7. IsFiniteSet({1}) /\ Cardinality({1}) = 1
    BY FS_Singleton
  <1>8. IsFiniteSet(Threads \X {1}) /\ Cardinality(Threads \X {1}) = Cardinality(Threads) * Cardinality({1})
    BY <1>6, <1>7, FS_Product
  <1> QED
    BY <1>1, <1>5, <1>6, <1>7, <1>8, FS_Bijection

LEMMA TallyAcquits == IInv /\ TInv => TimeoutsAcquit
  <1> SUFFICES ASSUME IInv, TInv, Voted, len = Cardinality(Appended),
                      \A t \in Threads : IsRemote(t) => heard[t] = "timeout"
               PROVE  pc = "up"
    BY DEF TimeoutsAcquit
  <1> USE NumHostsAssumption
  <1>1. NumHosts > 0 /\ \A t \in Threads : phase[t] = "done"
    BY DEF Voted, IInv, MainOK, Threads
  <1>2. ASSUME NEW t \in Threads PROVE Cast(t) = Len(VotesOf(heard[t]))
    <2>1. pending[t] = <<>> /\ heard[t] \in {"lost", "reply", "timeout"}
      BY <1>1 DEF IInv, ThreadOK, TInv, ThreadVotes
    <2>2. VotesOf("lost") = <<0>> /\ VotesOf("reply") = <<1>> /\ VotesOf("timeout") = <<0, 1>>
      BY DEF VotesOf
    <2>3. Len(VotesOf(heard[t])) = IF heard[t] = "timeout" THEN 2 ELSE 1
      BY <2>1, <2>2, Shapes
    <2> QED
      BY <1>1, <2>1, <2>3 DEF Cast
  <1>3. Appended = Stored
    BY <1>2 DEF Appended, Stored
  <1>4. Ones = Cardinality(StoredOnes)
    BY <1>3 DEF TInv, TallyOK
  <1>5. Seconds \subseteq StoredOnes
    <2>1. ASSUME NEW v \in Seconds PROVE v \in StoredOnes
      <3>1. v[1] \in Threads /\ v[2] = 2 /\ v \in Threads \X {1, 2} /\ heard[v[1]] = "timeout"
        BY DEF Seconds
      <3>2. pending[v[1]] = <<>> /\ phase[v[1]] = "done"
        BY <1>1, <3>1 DEF IInv, ThreadOK
      <3>3. Cast(v[1]) = 2
        BY <3>1, <3>2 DEF Cast
      <3> QED
        BY <3>1, <3>3 DEF Stored, StoredOnes
    <2> QED
      BY <2>1
  <1>6. Stored \subseteq (Threads \X {1}) \cup Seconds
    <2>1. ASSUME NEW v \in Stored PROVE v \in (Threads \X {1}) \cup Seconds
      <3>1. v[1] \in Threads /\ v[2] \in {1, 2} /\ v = <<v[1], v[2]>> /\ v[2] <= Cast(v[1])
        BY DEF Stored
      <3>2. CASE v[2] = 1
        BY <3>1, <3>2
      <3>3. CASE v[2] = 2
        <4>1. phase[v[1]] = "done" /\ pending[v[1]] = <<>>
          BY <1>1, <3>1 DEF IInv, ThreadOK
        <4>2. heard[v[1]] = "timeout"
          BY <3>1, <3>3, <4>1 DEF Cast
        <4>3. IsRemote(v[1])
          BY <3>1, <4>2 DEF TInv, ThreadVotes
        <4> QED
          BY <3>1, <3>3, <4>3 DEF Seconds
      <3> QED
        BY <3>1, <3>2, <3>3
    <2> QED
      BY <2>1
  <1>7. Cardinality(StoredOnes) >= NumHosts
    BY <1>5, StoredFinite, SecondsCounted, FS_Subset
  <1>8. Cardinality(Stored) <= 3 * NumHosts
    <2> DEFINE S == Threads \X {1}
               I == S \cap Seconds
    <2>1. IsFiniteSet(I) /\ Cardinality(I) \in Nat
      BY SecondsCounted, FS_Subset, FS_CardinalityType
    <2>2. IsFiniteSet(S \cup Seconds) /\ Cardinality(S \cup Seconds) = 2 * NumHosts + NumHosts - Cardinality(I)
      BY SecondsCounted, FS_Union
    <2>3. Cardinality(Stored) <= Cardinality(S \cup Seconds)
      BY <1>6, <2>2, FS_Subset
    <2> QED
      BY <2>1, <2>2, <2>3, StoredFinite
  <1>9. ~MeanIsLow
    <2>1. len \in Nat /\ len <= 3 * NumHosts /\ Ones \in Nat /\ Ones >= NumHosts
      BY <1>3, <1>4, <1>7, <1>8, StoredFinite
    <2> QED
      BY <1>1, <2>1 DEF MeanIsLow
  <1> QED
    BY <1>9 DEF TInv, MeanDecides, Voted

\* Diagnostic hosts that all time out acquit a server even when every local
\* ping failed, for any number of hosts, provided no append was lost: each
\* timeout votes 0 and 1 (lines 41-50, 58).  The comment at line 58, "1/3 or
\* more reported server as unpingable", would convict it.
THEOREM TimeoutsAcquitServer == Spec => []TimeoutsAcquit
  BY InitTally, NextTally, Inductive, TallyAcquits, PTL DEF Spec

----------------------------------------------------------------------------
\* The threads whose ping ended with outcome o.
Heard(o) == {t \in Threads : heard[t] = o}

Counted(o) == Cardinality(Heard(o))

\* The bar a vote has to pass, in the threads that lost their packets, timed
\* out and were answered.
ExactBar ==
  Voted /\ len = Cardinality(Appended) =>
    (pc = "down" <=> 67 * Counted("reply") + 34 * Counted("timeout") <= 33 * Counted("lost"))

LEMMA HeardFinite ==
  ASSUME NEW o, NEW k
  PROVE  /\ IsFiniteSet(Heard(o)) /\ Counted(o) \in Nat
         /\ IsFiniteSet(Heard(o) \X {k}) /\ Cardinality(Heard(o) \X {k}) = Counted(o)
  <1>1. IsFiniteSet(Threads)
    BY NumHostsAssumption, FS_Interval DEF Threads
  <1>2. IsFiniteSet(Heard(o)) /\ Counted(o) \in Nat
    BY <1>1, FS_Subset, FS_CardinalityType DEF Heard, Counted
  <1>3. IsFiniteSet({k}) /\ Cardinality({k}) = 1
    BY FS_Singleton
  <1>4. IsFiniteSet(Heard(o) \X {k}) /\ Cardinality(Heard(o) \X {k}) = Cardinality(Heard(o)) * 1
    BY <1>2, <1>3, FS_Product
  <1> QED
    BY <1>2, <1>4 DEF Counted

LEMMA DisjointUnion ==
  ASSUME NEW S, NEW T, IsFiniteSet(S), IsFiniteSet(T), S \cap T = {}
  PROVE  IsFiniteSet(S \cup T) /\ Cardinality(S \cup T) = Cardinality(S) + Cardinality(T)
  <1>1. Cardinality(S) \in Nat /\ Cardinality(T) \in Nat /\ Cardinality(S \cap T) = 0
    BY FS_CardinalityType, FS_EmptySet
  <1>2. IsFiniteSet(S \cup T)
        /\ Cardinality(S \cup T) = Cardinality(S) + Cardinality(T) - Cardinality(S \cap T)
    BY FS_Union
  <1> QED
    BY <1>1, <1>2

\* When all have been joined and no append was lost, the Array holds a vote of
\* every thread, and a second one of those that timed out.
LEMMA FullTally ==
  ASSUME IInv, TInv, Voted, len = Cardinality(Appended)
  PROVE  /\ Ones = Counted("reply") + Counted("timeout")
         /\ len = Counted("lost") + Counted("reply") + 2 * Counted("timeout")
  <1> USE NumHostsAssumption
  <1> DEFINE L == Heard("lost") \X {1}
             R == Heard("reply") \X {1}
             T == Heard("timeout") \X {1}
             S == Heard("timeout") \X {2}
  <1>1. \A t \in Threads : phase[t] = "done"
    BY DEF Voted, IInv, MainOK, Threads
  <1>2. \A t \in Threads : pending[t] = <<>> /\ heard[t] \in {"lost", "reply", "timeout"}
    BY <1>1 DEF IInv, ThreadOK, TInv, ThreadVotes
  <1>3. \A t \in Threads : Cast(t) = IF heard[t] = "timeout" THEN 2 ELSE 1
    BY <1>1, <1>2 DEF Cast
  <1>4. Appended = Stored
    <2>1. VotesOf("lost") = <<0>> /\ VotesOf("reply") = <<1>> /\ VotesOf("timeout") = <<0, 1>>
      BY DEF VotesOf
    <2>2. \A t \in Threads : Len(VotesOf(heard[t])) = IF heard[t] = "timeout" THEN 2 ELSE 1
      BY <1>2, <2>1, Shapes
    <2> QED
      BY <1>3, <2>2 DEF Appended, Stored
  <1>st. \A v \in Threads \X {1, 2} :
           v \in Stored <=> v[2] = 1 \/ heard[v[1]] = "timeout"
    BY <1>3 DEF Stored
  <1>5. StoredOnes = R \cup S
    <2>1. \A v \in Threads \X {1, 2} :
            v \in StoredOnes <=>
              \/ v[2] = 1 /\ heard[v[1]] = "reply"
              \/ v[2] = 2 /\ heard[v[1]] = "timeout"
      BY <1>2, <1>st DEF StoredOnes
    <2>2. StoredOnes \subseteq Threads \X {1, 2}
      BY DEF StoredOnes, Stored
    <2>3. R \cup S \subseteq Threads \X {1, 2}
      BY DEF Heard
    <2>4. \A v \in Threads \X {1, 2} :
            v \in R \cup S <=>
              \/ v[2] = 1 /\ heard[v[1]] = "reply"
              \/ v[2] = 2 /\ heard[v[1]] = "timeout"
      BY DEF Heard
    <2> HIDE DEF R, S
    <2> QED
      BY <2>1, <2>2, <2>3, <2>4
  <1>6. Stored = (L \cup R) \cup (T \cup S)
    <2>1. Stored \subseteq Threads \X {1, 2}
      BY DEF Stored
    <2>2. (L \cup R) \cup (T \cup S) \subseteq Threads \X {1, 2}
      BY DEF Heard
    <2>3. \A v \in Threads \X {1, 2} :
            v \in (L \cup R) \cup (T \cup S) <=> v[2] = 1 \/ heard[v[1]] = "timeout"
      BY <1>2 DEF Heard
    <2> HIDE DEF L, R, T, S
    <2> QED
      BY <1>st, <2>1, <2>2, <2>3
  <1>7. R \cap S = {} /\ L \cap R = {} /\ T \cap S = {} /\ (L \cup R) \cap (T \cup S) = {}
    BY DEF Heard
  <1>8. /\ IsFiniteSet(L) /\ Cardinality(L) = Counted("lost") /\ Counted("lost") \in Nat
        /\ IsFiniteSet(R) /\ Cardinality(R) = Counted("reply") /\ Counted("reply") \in Nat
        /\ IsFiniteSet(T) /\ Cardinality(T) = Counted("timeout") /\ Counted("timeout") \in Nat
        /\ IsFiniteSet(S) /\ Cardinality(S) = Counted("timeout")
    BY HeardFinite
  <1> HIDE DEF L, R, T, S
  <1>9. Cardinality(StoredOnes) = Counted("reply") + Counted("timeout")
    <2>1. Cardinality(R \cup S) = Cardinality(R) + Cardinality(S)
      BY <1>7, <1>8, DisjointUnion
    <2> QED
      BY <1>5, <1>8, <2>1
  <1>10. /\ IsFiniteSet(L \cup R) /\ Cardinality(L \cup R) = Counted("lost") + Counted("reply")
         /\ IsFiniteSet(T \cup S) /\ Cardinality(T \cup S) = Counted("timeout") + Counted("timeout")
    <2>1. IsFiniteSet(L \cup R) /\ Cardinality(L \cup R) = Cardinality(L) + Cardinality(R)
      BY <1>7, <1>8, DisjointUnion
    <2>2. IsFiniteSet(T \cup S) /\ Cardinality(T \cup S) = Cardinality(T) + Cardinality(S)
      BY <1>7, <1>8, DisjointUnion
    <2> QED
      BY <1>8, <2>1, <2>2
  <1>11. Cardinality(Stored) = Counted("lost") + Counted("reply") + 2 * Counted("timeout")
    <2>1. Cardinality(Stored) = Cardinality(L \cup R) + Cardinality(T \cup S)
      BY <1>6, <1>7, <1>10, DisjointUnion
    <2> QED
      BY <1>8, <1>10, <2>1
  <1>12. Ones = Cardinality(StoredOnes)
    BY <1>4 DEF TInv, TallyOK
  <1> QED
    BY <1>4, <1>9, <1>11, <1>12

\* The exact bar of a vote in which no append was lost: it convicts when the
\* threads that lost their packets outweigh twice those that were answered,
\* and once those that timed out, by a little more (lines 26-28, 41-50, 58).
THEOREM BarIsExact == Spec => []ExactBar
  <1>1. IInv /\ TInv => ExactBar
    <2> SUFFICES ASSUME IInv, TInv, Voted, len = Cardinality(Appended)
                 PROVE  pc = "down" <=>
                          67 * Counted("reply") + 34 * Counted("timeout") <= 33 * Counted("lost")
      BY DEF ExactBar
    <2>1. /\ Ones = Counted("reply") + Counted("timeout")
          /\ len = Counted("lost") + Counted("reply") + 2 * Counted("timeout")
      BY FullTally
    <2>2. Counted("reply") \in Nat /\ Counted("timeout") \in Nat /\ Counted("lost") \in Nat
      BY HeardFinite
    <2>3. len > 0
      <3>1. PICK t \in Threads : phase[t] = "done"
        BY DEF Voted, IInv, MainOK, Threads
      <3> QED
        BY <3>1 DEF IInv, ThreadOK
    <2>4. pc = "down" <=> MeanIsLow
      BY DEF TInv, MeanDecides, Voted, Verdicts
    <2> HIDE DEF Counted
    <2> QED
      BY <2>1, <2>2, <2>3, <2>4 DEF MeanIsLow
  <1> QED
    BY <1>1, InitTally, NextTally, Inductive, PTL DEF Spec

\* Not a third but two thirds of the pings that were lost or answered must
\* have been lost before a server is judged down (line 58 and its comment).
THEOREM TwoThirdsConvict ==
  Spec => [](Voted /\ len = Cardinality(Appended) /\ pc = "down"
             => Counted("lost") >= 2 * Counted("reply") + Counted("timeout"))
  <1>1. ExactBar /\ Voted /\ len = Cardinality(Appended) /\ pc = "down"
          => Counted("lost") >= 2 * Counted("reply") + Counted("timeout")
    <2>1. Counted("reply") \in Nat /\ Counted("timeout") \in Nat /\ Counted("lost") \in Nat
      BY HeardFinite
    <2> QED
      BY <2>1 DEF ExactBar
  <1> QED
    BY <1>1, BarIsExact, PTL

----------------------------------------------------------------------------
\* The vote ends.  Every step brings the job's thread or a voting thread nearer
\* to its end, and until the job has ended there is such a step to take; the
\* rest is the fairness of the threads.

MainLeft ==
  CASE pc = "echo" -> 2 * NumHosts + 3
    [] pc = "join" -> 2 * NumHosts + 2 - joined
    [] pc = "decide" -> 1
    [] OTHER -> 0

ThreadLeft(t) ==
  CASE phase[t] = "off" -> 7
    [] phase[t] = "pinging" -> 6
    [] phase[t] = "hung" -> 5
    [] phase[t] = "read" -> 2 * Len(pending[t])
    [] phase[t] = "store" -> 2 * Len(pending[t]) - 1
    [] OTHER -> 0

VoteAdvances ==
  /\ MainLeft' <= MainLeft /\ \A t \in Threads : ThreadLeft(t)' <= ThreadLeft(t)
  /\ MainLeft' < MainLeft \/ \E t \in Threads : ThreadLeft(t)' < ThreadLeft(t)

LEMMA LeftTypes ==
  ASSUME TypeOK
  PROVE  MainLeft \in Nat /\ \A t \in Threads : ThreadLeft(t) \in Int
  <1>1. NumHosts \in Nat /\ joined \in 0..(2 * NumHosts)
    BY NumHostsAssumption DEF TypeOK
  <1>2. MainLeft \in Nat
    BY <1>1 DEF MainLeft
  <1>3. ASSUME NEW t \in Threads PROVE ThreadLeft(t) \in Int
    <2>1. Len(pending[t]) \in Nat
      BY DEF TypeOK, Ballots
    <2> QED
      BY <2>1 DEF ThreadLeft
  <1> QED
    BY <1>2, <1>3

LEMMA MainAdvances == ASSUME IInv, MainStep PROVE VoteAdvances
  <1>1. /\ NumHosts \in Nat /\ joined \in 0..(2 * NumHosts) /\ MainLeft \in Nat
        /\ \A t \in Threads : ThreadLeft(t) \in Int
    BY NumHostsAssumption, LeftTypes DEF IInv, TypeOK
  <1>2. MainLeft' \in Int /\ MainLeft' < MainLeft
    <2>1. CASE \E b \in BOOLEAN : PingEcho(b)
      BY <1>1, <2>1 DEF PingEcho, MainLeft
    <2>2. CASE Join
      BY <1>1, <2>2 DEF Join, MainLeft
    <2>3. CASE AllJoined
      BY <1>1, <2>3 DEF AllJoined, MainLeft
    <2>4. CASE Decide
      BY <1>1, <2>4 DEF Decide, MainLeft
    <2> QED
      BY <2>1, <2>2, <2>3, <2>4 DEF MainStep
  <1>3. ASSUME NEW t \in Threads PROVE ThreadLeft(t)' <= ThreadLeft(t)
    <2>1. phase'[t] = phase[t] \/ (phase[t] = "off" /\ phase'[t] = "pinging")
      BY DEF MainStep, PingEcho, Join, AllJoined, Decide, IInv, MainOK
    <2>2. pending' = pending
      BY DEF MainStep, PingEcho, Join, AllJoined, Decide
    <2>3. CASE phase'[t] = phase[t]
      <3>1. ThreadLeft(t)' = ThreadLeft(t)
        BY <2>2, <2>3 DEF ThreadLeft
      <3> QED
        BY <1>1, <3>1
    <2>4. CASE phase[t] = "off" /\ phase'[t] = "pinging"
      BY <2>4 DEF ThreadLeft
    <2> QED
      BY <2>1, <2>3, <2>4
  <1> QED
    BY <1>1, <1>2, <1>3 DEF VoteAdvances

\* A step of one voting thread.
LEMMA ThreadAdvances ==
  ASSUME IInv, NEW t \in Threads, ThreadStep(t) \/ Hang(t)
  PROVE  VoteAdvances
  <1>ty. /\ phase \in [Threads -> Phases] /\ pending \in [Threads -> Ballots]
         /\ MainLeft \in Nat /\ \A u \in Threads : ThreadLeft(u) \in Int
    BY LeftTypes DEF IInv, TypeOK
  <1>1. UNCHANGED <<pc, joined>>
    BY DEF ThreadStep, Hang, Answer, SshTimeout, PingEnds, Read, Store
  <1>2. MainLeft' = MainLeft
    BY <1>1 DEF MainLeft
  <1>3. ASSUME NEW u \in Threads \ {t} PROVE ThreadLeft(u)' = ThreadLeft(u)
    <2>1. phase'[u] = phase[u] /\ pending'[u] = pending[u]
      BY <1>ty DEF ThreadStep, Hang, Answer, SshTimeout, PingEnds, Read, Store
    <2> QED
      BY <2>1 DEF ThreadLeft
  <1>4. ThreadLeft(t)' \in Int /\ ThreadLeft(t)' < ThreadLeft(t)
    <2>1. ASSUME NEW o \in {"lost", "reply", "timeout", "error"}, PingEnds(t, o),
                 phase[t] \in {"pinging", "hung"}
          PROVE  ThreadLeft(t)' \in Int /\ ThreadLeft(t)' < ThreadLeft(t)
      <3>1. phase'[t] = "raised" \/ (phase'[t] = "read" /\ pending'[t] = VotesOf(o))
        BY <1>ty, <2>1 DEF PingEnds
      <3>2. Len(VotesOf(o)) \in 0..2
        BY DEF VotesOf
      <3>3. ThreadLeft(t) \in {5, 6}
        BY <2>1 DEF ThreadLeft
      <3>4. CASE phase'[t] = "raised"
        <4>1. ThreadLeft(t)' = 0
          BY <3>4 DEF ThreadLeft
        <4> QED
          BY <3>3, <4>1
      <3>5. CASE phase'[t] = "read" /\ pending'[t] = VotesOf(o)
        <4>1. ThreadLeft(t)' = 2 * Len(VotesOf(o))
          BY <3>5 DEF ThreadLeft
        <4>2. \A n \in 0..2 : 2 * n \in Int /\ 2 * n < 5 /\ 2 * n < 6
          OBVIOUS
        <4> HIDE DEF ThreadLeft
        <4> QED
          BY <3>2, <3>3, <4>1, <4>2
      <3> QED
        BY <3>1, <3>4, <3>5
    <2>2. CASE Read(t)
      <3>1. phase[t] = "read" /\ phase'[t] = "store" /\ pending'[t] = pending[t]
        BY <1>ty, <2>2 DEF Read
      <3>2. Len(pending[t]) \in Nat
        BY <1>ty DEF Ballots
      <3> QED
        BY <3>1, <3>2 DEF ThreadLeft
    <2>3. CASE Store(t)
      <3>1. /\ phase[t] = "store" /\ pending'[t] = Tail(pending[t])
            /\ phase'[t] = IF Len(pending[t]) = 1 THEN "done" ELSE "read"
        BY <1>ty, <2>3 DEF Store
      <3>2. pending[t] \in Ballots \ {<<>>}
        BY <1>ty, <3>1 DEF IInv, ThreadOK
      <3>3. Len(pending[t]) \in Nat \ {0} /\ Len(Tail(pending[t])) = Len(pending[t]) - 1
        BY <3>2 DEF Ballots
      <3> QED
        BY <3>1, <3>3 DEF ThreadLeft
    <2>4. CASE Hang(t)
      <3>1. phase[t] = "pinging" /\ phase'[t] = "hung"
        BY <1>ty, <2>4 DEF Hang
      <3> QED
        BY <3>1 DEF ThreadLeft
    <2> QED
      BY <2>1, <2>2, <2>3, <2>4 DEF ThreadStep, Answer, SshTimeout
  <1> QED
    BY <1>ty, <1>2, <1>3, <1>4 DEF VoteAdvances

\* A vote takes at most 16 NumHosts + 3 steps: no step of a thread undoes or
\* repeats what another did, and none is without effect (lines 17-58).
THEOREM VotesAreBounded == Spec => [][VoteAdvances]_vars
  <1>1. IInv /\ [Next]_vars => VoteAdvances \/ UNCHANGED vars
    BY MainAdvances, ThreadAdvances DEF Next
  <1> QED
    BY <1>1, Inductive, PTL DEF Spec

\* Only a session over SSH hangs.
HungRemote == \A t \in Threads : phase[t] = "hung" => IsRemote(t)

\* The job's thread or a voting thread has a step to take.
CanMove ==
  \/ pc \in {"echo", "decide"}
  \/ pc = "join" /\ joined = 2 * NumHosts
  \/ pc = "join" /\ joined < 2 * NumHosts /\ phase[joined + 1] \in {"done", "raised"}
  \/ \E t \in Threads : \/ phase[t] \in {"pinging", "read", "store"}
                        \/ phase[t] = "hung" /\ IsRemote(t)

\* The job waits only for threads that can go on: one that hangs is a session
\* the timeout cuts, and one that died is joined like the others (lines 36, 54).
THEOREM NeverStuck == Spec => [](pc \in Verdicts \cup {"aborted"} \/ CanMove)
  <1>1. Init => HungRemote
    BY DEF Init, HungRemote
  <1>2. IInv /\ HungRemote /\ [Next]_vars => HungRemote'
    <2> SUFFICES ASSUME IInv, HungRemote, [Next]_vars, NEW t \in Threads, phase'[t] = "hung"
                 PROVE  IsRemote(t)
      BY DEF HungRemote
    <2>1. phase[t] = "hung" \/ IsRemote(t)
      BY DEF Next, MainStep, PingEcho, Join, AllJoined, Decide, ThreadStep, Answer, SshTimeout,
             PingEnds, Read, Store, Hang, IInv, TypeOK, vars
    <2> QED
      BY <2>1 DEF HungRemote
  <1>3. IInv /\ HungRemote => pc \in Verdicts \cup {"aborted"} \/ CanMove
    <2> SUFFICES ASSUME IInv, HungRemote, pc = "join", joined # 2 * NumHosts PROVE CanMove
      BY DEF CanMove, IInv, TypeOK
    <2>1. joined < 2 * NumHosts /\ joined + 1 \in Threads
      BY NumHostsAssumption DEF IInv, TypeOK, Threads
    <2>2. phase[joined + 1] \in Phases \ {"off"}
      BY <2>1 DEF IInv, TypeOK, MainOK
    <2>3. phase[joined + 1] = "hung" => IsRemote(joined + 1)
      BY <2>1 DEF HungRemote
    <2> QED
      BY <2>1, <2>2, <2>3 DEF CanMove, Phases
  <1> QED
    BY <1>1, <1>2, <1>3, Inductive, PTL DEF Spec
=============================================================================
