SPECIFICATION Spec
CONSTANTS
  Workers = {w1, w2}
  Clients = {c1, c2}
  Submitters = {c1}
  Cancellers = {c2}
  Stoppers = {}
  Owners = {o1, o2}
  MaxJobs = 2
  Timed = {1}
  Awaited = {1}
  MaxQueue = 1
  MaxJobsPerOwner = 1
SYMMETRY WorkerSymmetry
INVARIANTS TypeOK OutcomeMatches Accounting Conservation NoStranded RunsOnce CancelWins
PROPERTIES OneOutcome RefinesPool
CHECK_DEADLOCK FALSE
