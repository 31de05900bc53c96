CONSTANTS
  Procs = {p1}
  MaxCommands = 3
  MaxRefreshes = 1
SPECIFICATION Spec
INVARIANT ResumeRestartsServices
CHECK_DEADLOCK FALSE
