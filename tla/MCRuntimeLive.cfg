SPECIFICATION LiveSpec
CONSTANTS
  Workers = {w1, w2}
  Clients = {c1, c2}
  Submitters = {c1}
  Cancellers = {}
  Stoppers = {c2}
  Owners = {o1}
  MaxJobs = 2
  Timed = {2}
  Awaited = {}
  MaxQueue = 1
  MaxJobsPerOwner = 1
INVARIANTS ShutdownDrains ShutdownAccounts
PROPERTIES EveryJobEnds WorkersExit
CHECK_DEADLOCK FALSE
