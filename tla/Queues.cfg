\* Two servers share the one job slot and the one worker with the jobs of
\* the other queues; the first domain_users row has no user; no faults.
CONSTANTS
  NumServers = 2
  NumUsers = 2
  Registered = {2}
  NumJobs = 1
  NumWorkers = 1
  StaleAfter = 0
  MaxTime = 1
  MailCap = 1
  DelayedJobLoaded = TRUE
  Faults = {}
  Batch = 1
SPECIFICATION SharedSpec
PROPERTIES
  AlarmsGoOn
