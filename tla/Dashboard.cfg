\* Two servers and two workers; a machine with and one without file systems.
CONSTANTS
  NumServers = 2
  Figures = {full, bare}
  Bare = {bare}
  MaxQueue = 1
  Workers = {w1, w2}
SPECIFICATION Spec
INVARIANTS
  TypeOK
PROPERTIES
  FiguresSettle
  DashboardRecovers
