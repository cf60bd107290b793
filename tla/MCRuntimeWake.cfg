SPECIFICATION LiveSpec
CONSTANTS
  Workers = {w1, w2}
  Clients = {c1}
  Submitters = {c1}
  Cancellers = {}
  Stoppers = {}
  Owners = {o1}
  MaxJobs = 3
  Timed = {1, 2}
  Awaited = {}
  MaxQueue = 2
  MaxJobsPerOwner = 3
PROPERTY EveryJobEnds
CHECK_DEADLOCK FALSE
