\* The hook registry: three hooks of any shape, every interleaving of
\* appends, dropped futures and retried passes.
SPECIFICATION FairSpec
CONSTANTS
  Kinds <- MCKinds
  StartKinds <- MCStartKinds
  StopKinds <- MCStopKinds
  MaxHooks = 3
INVARIANTS
  StopsInReverse
  StartedMeansAllActive
  OwedIsReachable
  NothingLeftBehind
PROPERTIES
  ImplementsContract
  FuturesReturn
