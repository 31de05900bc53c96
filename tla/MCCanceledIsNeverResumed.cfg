CONSTANTS
  p1 = p1
  p2 = p2
  Procs = {p1, p2}
  e1 = e1
  e2 = e2
  Envs = {e1, e2}
  MaxCommands = 3
  MaxCrashes = 1
SYMMETRY Terminals
SPECIFICATION Spec
PROPERTY
  CanceledIsNeverResumed
CHECK_DEADLOCK FALSE
