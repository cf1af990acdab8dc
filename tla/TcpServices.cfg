\* One server the service is attached to twice, two workers, one job waiting.
\* When the server and the service are destroyed nothing more happens to them.
CONSTANTS
  Servers = {s1}
  NumRows = 2
  MaxQueue = 1
  Workers = {w1, w2}
SPECIFICATION Spec
INVARIANTS
  TypeOK
  DownShows
PROPERTIES
  WrongStatusEnds
CHECK_DEADLOCK FALSE
