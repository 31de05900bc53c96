CONSTANTS
  Services = {app}
  Jobs = {j1}
  NoService = NoService
  NoJob = NoJob
SPECIFICATION Spec
INVARIANTS
  RecoveryIsOffered
CHECK_DEADLOCK FALSE
