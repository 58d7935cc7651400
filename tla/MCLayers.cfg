\* Validation: every wiring of three options in up to two scopes.
SPECIFICATION LayersSpec
CONSTANTS
  Results <- MCResults
  Elements <- MCElements
  GroupOf <- MCGroupOf
  Arc <- MCArc
  Builtins = {}
  Options <- MCOptions
  None = None
  MaxOptions = 3
  MaxScopes = 2
INVARIANTS
  VerdictIsJust
  LayersCoverNeeds
CHECK_DEADLOCK FALSE
