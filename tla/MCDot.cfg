\* The DOT export: every accepted wiring of the options of MCDot, with names
\* that are unique.
SPECIFICATION DotSpec
CONSTANTS
  Results <- MCResults
  Elements <- MCElements
  GroupOf <- MCGroupOf
  Arc <- MCArc
  Builtins = {"Lifecycle"}
  Options <- MCOptions
  None = None
  Label <- UniqueLabels
  ModuleName <- UniqueModules
  MaxOptions = 4
  MaxScopes = 2
INVARIANTS
  GraphShowsWiring
CHECK_DEADLOCK FALSE
