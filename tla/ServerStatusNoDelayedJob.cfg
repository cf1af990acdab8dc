\* The gems of the Gemfile: delayed_job is not among them.
CONSTANTS
  NumServers = 1
  NumUsers = 1
  Registered = {1}
  NumJobs = 2
  NumWorkers = 1
  StaleAfter = 1
  MaxTime = 2
  MailCap = 1
  DelayedJobLoaded = FALSE
  Faults = {}
SPECIFICATION Spec
PROPERTIES
  OutageAlarmed
