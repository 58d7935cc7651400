\* src/error.rs, of TaskFailedDuringStart: the task failed during start.
SPECIFICATION JournalSpec
CONSTANTS
  Kinds <- MCKinds
  StartKinds <- MCStartKinds
  StopKinds <- MCStopKinds
  TaskKinds <- MCTaskKinds
  Budgets <- AllBudgets
  MaxHooks = 2
INVARIANTS
  TaskFailedDuringStart
