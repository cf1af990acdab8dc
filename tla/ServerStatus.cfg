\* One server, two overlapping jobs of it, two users, every fault.
CONSTANTS
  NumServers = 1
  NumUsers = 2
  Registered = {1, 2}
  NumJobs = 2
  NumWorkers = 2
  StaleAfter = 1
  MaxTime = 3
  MailCap = 1
  DelayedJobLoaded = TRUE
  Faults = {"probe", "mail", "crash"}
SPECIFICATION Spec
INVARIANTS
  TypeOK
  HeartbeatKept
  AlarmEarned
PROPERTIES
  DetectsOutages
