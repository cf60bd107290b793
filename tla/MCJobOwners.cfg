CONSTANTS
  p1 = p1
  p2 = p2
  Procs = {p1, p2}
  Submitters = {p1}
  Awaiters = {p2}
  Mortal = {p1}
  Patient = {}
  Job = {1, 2}
  Owner = {1, 2, 3}
  MaxPerOwner = 1
  Detached = {2}
  Stops = FALSE
SPECIFICATION Spec
INVARIANTS OwnerCount CeilingPerProcess DeathCancels
CHECK_DEADLOCK FALSE
