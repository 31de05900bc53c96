CONSTANTS
  Services = {app, audit}
  Jobs = {j1, j2}
  NoService = NoService
  NoJob = NoJob
SPECIFICATION Spec
SYMMETRY Symmetry
INVARIANTS
  TypeOK
  NothingIsOrphaned
  RefreshesDoNotMix
  RunnableIsWhole
PROPERTIES
  DeletedMeansGone
CHECK_DEADLOCK FALSE
