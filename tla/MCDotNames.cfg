\* The DOT export of two types whose names only differ in their path.
SPECIFICATION DotSpec
CONSTANTS
  Results <- MCResults
  Elements <- MCElements
  GroupOf <- MCGroupOf
  Arc <- MCArc
  Builtins = {"Lifecycle"}
  Options <- TwoConfigs
  None = None
  Label <- SameLabels
  ModuleName <- UniqueModules
  MaxOptions = 2
  MaxScopes = 2
INVARIANTS
  NodePerConstructor
CHECK_DEADLOCK FALSE
