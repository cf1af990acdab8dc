\* One monitor with two jobs at a time on two workers, a page of either
\* status, three users of whom the second cannot be mailed; two requests race
\* past a limit of one.
CONSTANTS
  NumMonitors = 1
  NumUsers = 3
  NumJobs = 2
  NumWorkers = 2
  Limit = 1
  MaxAdding = 2
  OkPages = {p1, p2}
  OddPages = {q1}
  Unmailable = {2}
SPECIFICATION Spec
INVARIANTS
  TypeOK
  MonitorsBounded
  RowWhole
PROPERTIES
  WatchesSites
  StatusSettles
