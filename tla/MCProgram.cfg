\* A whole application: two constructors and an invoker, two hooks; callbacks,
\* constructors and invokers need never return.
SPECIFICATION FairProgramSpec
CONSTANTS
  Results <- MCResults
  Elements = {}
  GroupOf <- MCGroupOf
  Arc <- MCArc
  Builtins = {}
  Options <- MCOptions
  None = None
  MaxOptions = 3
  MaxScopes = 1
  Kinds = {"stop", "both"}
  StartKinds = {"both"}
  StopKinds = {"stop", "both"}
  TaskKinds = {}
  Budgets = {"build", "stop"}
  MaxHooks = 2
INVARIANTS
  StartsAfterWhatItNeeds
  StopsBeforeWhatItNeeds
  FailedBuildIsUnwound
PROPERTIES
  RequestEndsProgram
