CONSTANTS
  Services = {app}
  Jobs = {j1}
  NoService = NoService
  NoJob = NoJob
SPECIFICATION Spec
INVARIANTS
  DeleteCanBeRerun
CHECK_DEADLOCK FALSE
