SPECIFICATION FairSpec
CONSTANTS
  a = a
  b = b
  x = x
  y = y
  Callers = {a, b}
  Dest = {x}
  Job = {1, 2}
  RuntimeOf <- MCRuntimeOf
  MaxFetches <- Once
  Retries = {a}
  Mortal = {a, b}
  Impatient = {a, b}
  Faults = {}
CHECK_DEADLOCK FALSE
PROPERTIES LeaseFreed DeadHolderFreed
