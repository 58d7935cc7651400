\* Registration and lookup: every sequence of three options in up to three
\* scopes, nested or side by side.
SPECIFICATION RegistrySpec
CONSTANTS
  Results <- MCResults
  Elements <- MCElements
  GroupOf <- MCGroupOf
  Arc <- MCArc
  Builtins <- MCBuiltins
  Options <- MCOptions
  None = None
  MaxOptions = 3
  MaxScopes = 3
INVARIANTS
  RegistryTypeOK
  LookupsFollowVisibility
  OneBindingPerPlace
  RefusalIsJustified
CHECK_DEADLOCK FALSE
