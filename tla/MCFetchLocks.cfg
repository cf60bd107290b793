SPECIFICATION Spec
CONSTANTS
  a = a
  b = b
  x = x
  y = y
  Callers = {a, b}
  Dest = {x, y}
  Job = {1, 2}
  RuntimeOf <- MCRuntimeOf
  MaxFetches <- Twice
  Retries = {a}
  Mortal = {a}
  Impatient = {a}
  Faults = {"restart"}
SYMMETRY DestSymmetry
CHECK_DEADLOCK FALSE
INVARIANTS SingleFlight HolderKeepsLease LeaseJobsOwn AbandonedJobCancelled
