\* Two servers, two users, one mail that fails, one alert at a time,
\* for half of the day.
CONSTANTS
  NumServers = 2
  NumUsers = 2
  NumAlerts = 1
  NumJobs = 1
  NumWorkers = 1
  LastHour = 1
  Windows <- MCWindows
  Team = {2}
  Failing <- MCFailing
SPECIFICATION Spec
INVARIANTS
  TypeOK
PROPERTIES
  DeliversRounds
  AudienceReached
