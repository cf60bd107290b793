CONSTANTS
  p1 = p1
  p2 = p2
  Procs = {p1, p2}
  Submitters = {p1}
  Awaiters = {p1, p2}
  Mortal = {p1}
  Patient = {p1}
  Job = {1}
  Owner = {1, 2}
  MaxPerOwner = 1
  Detached = {}
  Stops = TRUE
SPECIFICATION FairSpec
INVARIANTS TypeOK NoStaleMessage WakeupKept
PROPERTIES EveryWaiterWakes
CHECK_DEADLOCK FALSE
