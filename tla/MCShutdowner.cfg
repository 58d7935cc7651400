\* Two callers and two waiters, every interleaving of their atomic steps.
SPECIFICATION FairSpec
CONSTANTS
  Callers = {c1, c2}
  Waiters = {w1, w2}
INVARIANTS
  NoLostWakeup
  ReleasedKnowsWhy
PROPERTIES
  WaitEnds
