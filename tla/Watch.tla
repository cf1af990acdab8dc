------------------------------- MODULE Watch -------------------------------
(***************************************************************************)
(* What the monitoring of sites promises, without cron, queue, limits and  *)
(* the words of a mail.  A check is opened on a site, hears its answer,    *)
(* keeps it in the site's row and, when the answer is odd, logs it and     *)
(* tells the users in order.  A row that is still as the check found it    *)
(* takes the whole answer; one that another check has written meanwhile    *)
(* takes some of it.  A check is broken off only by a site that fails or   *)
(* is slow, by an address that is none, or while the users are told.       *)
(***************************************************************************)
EXTENDS Integers

CONSTANTS
  Slots,      \* checks that can be under way at a time
  Monitors,   \* ids of sites
  Users,      \* the users, in the order they are told
  OkPages,    \* answers that are as they should be
  OddPages,   \* answers the users are told about
  Unmailable  \* users who cannot be told

VARIABLES
  site,   \* what the sites answer
  row,    \* what is on record about the sites that are watched
  check   \* the check in each slot

vars == <<site, row, check>>

Pages == OkPages \cup OddPages
Answers == Pages \cup {"error", "slow"}
StatusOf(page) == IF page \in OkPages THEN "ok" ELSE "odd"
Blank(url) == [url |-> url, run |-> "none", status |-> "none"]
Urls == {"http", "mangled"}

Closed == [stage |-> "closed"]
Become(c, r) == check' = [check EXCEPT ![c] = r]
Turned(m) == {[site EXCEPT ![m] = a] : a \in Answers}

Init ==
  /\ site \in [Monitors -> Answers]
  /\ row = [m \in {} |-> Blank("http")]
  /\ check = [c \in Slots |-> Closed]

----------------------------------------------------------------------------
\* The sites and the users.

Turn(m) ==
  /\ m \in DOMAIN row
  /\ site' \in Turned(m)
  /\ UNCHANGED <<row, check>>

\* A site is watched that is not, and that no check is about.
Adopt(m, url) ==
  /\ m \notin DOMAIN row /\ \A c \in Slots : check[c] # Closed => check[c].about # m
  /\ row' = [k \in DOMAIN row \cup {m} |-> IF k = m THEN Blank(url) ELSE row[k]]
  /\ site' \in Turned(m)
  /\ UNCHANGED check

Edit(m, url) ==
  /\ m \in DOMAIN row
  /\ row' = [row EXCEPT ![m].url = url]
  /\ UNCHANGED <<site, check>>

Abandon(m) ==
  /\ m \in DOMAIN row
  /\ row' = [k \in DOMAIN row \ {m} |-> row[k]]
  /\ UNCHANGED <<site, check>>

----------------------------------------------------------------------------
\* The check c.

Open(c, m) ==
  /\ check[c] = Closed /\ m \in DOMAIN row
  /\ Become(c, [stage |-> "asking", about |-> m, saw |-> row[m]])
  /\ UNCHANGED <<site, row>>

Hear(c, page) ==
  /\ check[c].stage = "asking" /\ check[c].saw.url = "http"
  /\ site[check[c].about] \in {page, "slow"}
  /\ Become(c, [stage |-> "heard", about |-> check[c].about, saw |-> check[c].saw, page |-> page])
  /\ UNCHANGED <<site, row>>

\* What row r may become when an answer is kept by a check that saw it as s.
Kept(r, s, page) ==
  IF r.run = s.run /\ r.status = s.status
  THEN {[url |-> r.url, run |-> page, status |-> StatusOf(page)]}
  ELSE [url: {r.url}, run: {r.run, page}, status: {r.status, StatusOf(page)}]

Keep(c) ==
  LET m == check[c].about IN
  /\ check[c].stage = "heard"
  /\ IF m \in DOMAIN row
     THEN \E r \in Kept(row[m], check[c].saw, check[c].page) : row' = [row EXCEPT ![m] = r]
     ELSE UNCHANGED row
  /\ Become(c, [stage |-> "kept", about |-> m, page |-> check[c].page])
  /\ UNCHANGED site

Log(c) ==
  /\ check[c].stage = "kept" /\ check[c].page \in OddPages
  /\ Become(c, [stage |-> "telling", about |-> check[c].about, page |-> check[c].page,
                logged |-> StatusOf(check[c].page), told |-> {}])
  /\ UNCHANGED <<site, row>>

Tell(c, u) ==
  /\ check[c].stage = "telling"
  /\ u \in Users \ (check[c].told \cup Unmailable)
  /\ \A v \in Users \ check[c].told : u <= v
  /\ Become(c, IF check[c].told \cup {u} = Users THEN Closed
               ELSE [check[c] EXCEPT !.told = @ \cup {u}])
  /\ UNCHANGED <<site, row>>

\* The check is over, or broken off.
Close(c) ==
  /\ check[c] # Closed
  /\ \/ check[c].stage = "asking" /\ (check[c].saw.url = "mangled" \/ site[check[c].about] = "error")
     \/ check[c].stage = "kept" /\ check[c].page \in OkPages
     \/ check[c].stage = "telling"
     \/ site[check[c].about] = "slow"
  /\ Become(c, Closed)
  /\ UNCHANGED <<site, row>>

Next ==
  \/ \E m \in Monitors :
       \/ Turn(m) \/ Abandon(m)
       \/ \E url \in Urls : Adopt(m, url) \/ Edit(m, url)
  \/ \E c \in Slots :
       \/ \E m \in Monitors : Open(c, m)
       \/ \E page \in Pages : Hear(c, page)
       \/ Keep(c) \/ Log(c) \/ Close(c)
       \/ \E u \in Users : Tell(c, u)

Spec == Init /\ [][Next]_vars
=============================================================================
