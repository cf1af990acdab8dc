\* Two diagnostic hosts, four voting threads, up to six votes.
CONSTANT NumHosts = 2
SPECIFICATION Spec
INVARIANTS
  TypeOK
  VerdictNeedsEveryThread
PROPERTIES
  FoundedVerdict
  VoteEnds
\* The job ends with a verdict or an exception.
CHECK_DEADLOCK FALSE
