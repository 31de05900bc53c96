CONSTANTS
  Services = {app}
  Jobs = {j1}
  NoService = NoService
  NoJob = NoJob
SPECIFICATION Spec
INVARIANTS
  InjectedUrlsAreTheRoles
CHECK_DEADLOCK FALSE
