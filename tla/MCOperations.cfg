CONSTANTS
  Services = {app, audit}
  NoService = NoService
  MaxAttempts = 2
  Jobs = {j1, j2}
  NoJob = NoJob
SPECIFICATION OperationsSpec
INVARIANTS
  TypeOK
  DataSurvives
  OpenEnvironmentIsCoherent
  CancellationIsNotMidSwap
  ImportTypeOK
  BackupHoldsTheImport
  ResidualsAreNamed
  ChildrenAreReaped
  CulpritIsNamed
PROPERTIES
  SucceededServicesAreKept
  ForwardSpec
  PullCompletes
  ImportEnds
  CreateCompletes
