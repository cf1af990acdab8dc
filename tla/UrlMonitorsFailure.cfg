\* One monitor, one job, one user: who hears of a site that fails?
CONSTANTS
  NumMonitors = 1
  NumUsers = 1
  NumJobs = 1
  NumWorkers = 1
  Limit = 1
  MaxAdding = 1
  OkPages = {p1}
  OddPages = {q1}
  Unmailable = {}
SPECIFICATION Spec
PROPERTY FailureNoticed
