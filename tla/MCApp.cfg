\* run() and start(): three hooks, all budgets on.
SPECIFICATION FairJournalSpec
CONSTANTS
  Kinds <- MCKinds
  StartKinds <- MCStartKinds
  StopKinds <- MCStopKinds
  TaskKinds <- MCTaskKinds
  Budgets <- AllBudgets
  MaxHooks = 3
INVARIANTS
  OkMeansCleanEnd
  ErrorsSurface
  TaskFailureSurfaces
  LogIsTrue
  NoSilentLoss
  GracefulIsOk
PROPERTIES
  RequestEndsRun
