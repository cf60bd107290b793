SPECIFICATION FairSpec
CONSTANTS
  a = a
  b = b
  x = x
  y = y
  Callers = {a, b}
  Dest = {x}
  Job = {1}
  RuntimeOf <- MCRuntimeOf
  MaxFetches <- Once
  Retries = {a}
  Mortal = {a}
  Impatient = {}
  Faults = {"register_fails"}
CHECK_DEADLOCK FALSE
PROPERTY RetainedJobFreed
