SPECIFICATION Spec
CONSTANTS
  a = a
  b = b
  x = x
  y = y
  Callers = {a, b}
  Dest = {x}
  Job = {1, 2}
  RuntimeOf <- MCRuntimeOf
  MaxFetches <- Once
  Retries = {}
  Mortal = {a}
  Impatient = {}
  Faults = {}
CHECK_DEADLOCK FALSE
INVARIANT OneFetchPerDestination
