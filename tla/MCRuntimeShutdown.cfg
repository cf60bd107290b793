SPECIFICATION FairSpec
CONSTANTS
  Workers = {w1, w2}
  Clients = {c1, c2}
  Submitters = {c1}
  Cancellers = {}
  Stoppers = {c1, c2, w1}
  Owners = {o1}
  MaxJobs = 1
  Timed = {}
  Awaited = {}
  MaxQueue = 1
  MaxJobsPerOwner = 2
PROPERTY ShutdownReturns
CHECK_DEADLOCK FALSE
