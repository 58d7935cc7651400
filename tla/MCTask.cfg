\* Two tasks that share a Shutdowner: one owns a clone of the Lifecycle, the
\* other ignores the stop signal.
\* Dropped hooks are the end, so the system may stop.
SPECIFICATION FairSpec
CONSTANTS
  Tasks = {t1, t2}
  Stubborn = {t2}
  Keepers = {t1}
INVARIANTS
  StopJoinsWork
  VerdictMatchesFlag
  OnlyFailuresAreReported
PROPERTIES
  AbandonmentEndsWork
  FailureRequestsShutdown
  StopReturns
CHECK_DEADLOCK FALSE
