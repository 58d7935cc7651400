\* README.md, of a failed or cancelled start: OnStop failures are retained.
SPECIFICATION JournalSpec
CONSTANTS
  Kinds <- MCKinds
  StartKinds <- MCStartKinds
  StopKinds <- MCStopKinds
  TaskKinds <- MCTaskKinds
  Budgets <- AllBudgets
  MaxHooks = 3
INVARIANTS
  StopFailuresRetained
