\* Building: every accepted wiring of the options of MCBuild, every way in
\* which constructors and invokers return, fail, suspend or are dropped.
SPECIFICATION BuildFairSpec
CONSTANTS
  Results <- MCResults
  Elements <- MCElements
  GroupOf <- MCGroupOf
  Arc <- MCArc
  Builtins = {}
  Options <- MCOptions
  None = None
  MaxOptions = 4
  MaxScopes = 2
INVARIANTS
  BuildTypeOK
  NoInternalError
  BuiltOnce
  InjectsWhatIsVisible
  OnlyWhatIsNeeded
  MembersAreConsumed
PROPERTIES
  BuildEnds
CHECK_DEADLOCK FALSE
