------------------------------ MODULE TaskProofs ------------------------------
(***************************************************************************)
(* The safety properties of Task, for any tasks: whichever of them ignore  *)
(* the stop signal or own a clone of the Lifecycle.                        *)
(***************************************************************************)
EXTENDS Task, TLAPS

\* What was spawned: nothing before the hook starts, work and watcher together
\* from then on, and only a dropped hook has them aborted.
SpawnInv(t) ==
  /\ live[t].hook \in {"registered", "preparing"} =>
       live[t].work = "none" /\ live[t].watcher = "none" /\ ~live[t].handle
  /\ live[t].hook \in {"spawned", "held", "stopping"} =>
       live[t].work # "none" /\ live[t].watcher # "none" /\ live[t].handle
  /\ live[t].aborted # {} => live[t].hook = "dropped"
  /\ live[t].work = "aborted" => live[t].aborted # {}
  /\ live[t].watcher = "aborted" => live[t].aborted # {}

\* What the watcher knows of the work, and the Shutdowner of the watcher.
WatcherInv(t) ==
  /\ live[t].watcher \in {"failing", "err"} => live[t].work \in Failure
  /\ live[t].watcher = "ok" => live[t].work \in {"ok", "aborted"}
  /\ live[t].watcher # "panicked"
  /\ t \in reporters <=> live[t].watcher = "err"

\* What an OnStop that returned has seen.
StopInv(t) ==
  /\ live[t].hook = "stopped" => live[t].onStop # "none"
  /\ live[t].onStop # "none" =>
       /\ live[t].hook \in {"stopped", "dropped"}
       /\ live[t].watcher \in {"ok", "err"}
       /\ live[t].work \in {"ok", "err", "panicked"}
       /\ live[t].onStop = "err" <=> live[t].watcher = "err"

IInv == TypeOK /\ \A t \in Tasks : SpawnInv(t) /\ WatcherInv(t) /\ StopInv(t)

-----------------------------------------------------------------------------

\* Nothing is spawned in the initial state.
LEMMA InitIInv == Init => IInv
<1> SUFFICES ASSUME Init PROVE IInv
  OBVIOUS
<1>1. TypeOK
  BY DEF Init, TypeOK, LiveTask, Ended
<1>2. \A t \in Tasks : SpawnInv(t) /\ WatcherInv(t) /\ StopInv(t)
  BY DEF Init, SpawnInv, WatcherInv, StopInv
<1> QED BY <1>1, <1>2 DEF IInv

\* The spawned work ends by itself or by an abort: the watcher has yet to join it.
LEMMA WorkKeepsIInv ==
  ASSUME IInv, NEW t \in Tasks, NEW result \in {"ok", "err", "panicked"},
         WorkEnds(t, result) \/ WorkAborted(t)
  PROVE  IInv'
<1> USE DEF IInv, TypeOK, LiveTask, Ended, WorkEnds, WorkAborted
<1>1. TypeOK'
  OBVIOUS
<1>2. \A u \in Tasks : SpawnInv(u)'
  BY DEF SpawnInv
<1>3. \A u \in Tasks : WatcherInv(u)'
  \* no watcher has ended while the work runs
  BY DEF WatcherInv, SpawnInv, Failure
<1>4. \A u \in Tasks : StopInv(u)'
  BY DEF StopInv
<1> QED BY <1>1, <1>2, <1>3, <1>4

\* Every step of a hook, its work and its watcher keeps the invariant.
LEMMA NextIInv == IInv /\ [Next]_vars => IInv'
<1> SUFFICES ASSUME IInv, [Next]_vars PROVE IInv'
  OBVIOUS
<1> USE DEF IInv, TypeOK, LiveTask, Ended
<1>1. ASSUME NEW t \in Tasks, StartTask(t) PROVE IInv'
  <2>1. TypeOK'
    <3>1. live[t] \in LiveTask
      OBVIOUS
    <3>2. live'[t] \in LiveTask
      BY <1>1, <3>1 DEF StartTask, Spawn
    <3> QED BY <1>1, <3>2 DEF StartTask, Spawn
  <2>2. \A u \in Tasks : SpawnInv(u)'
    BY <1>1 DEF StartTask, Spawn, SpawnInv
  <2>3. \A u \in Tasks : WatcherInv(u)'
    BY <1>1 DEF StartTask, Spawn, WatcherInv, SpawnInv, Failure
  <2>4. \A u \in Tasks : StopInv(u)'
    BY <1>1 DEF StartTask, Spawn, StopInv, SpawnInv, WatcherInv, Failure
  <2> QED BY <2>1, <2>2, <2>3, <2>4
<1>2. ASSUME NEW t \in Tasks, BeginPrepare(t) PROVE IInv'
  <2>1. TypeOK'
    BY <1>2 DEF BeginPrepare
  <2>2. \A u \in Tasks : SpawnInv(u)'
    BY <1>2 DEF BeginPrepare, SpawnInv
  <2>3. \A u \in Tasks : WatcherInv(u)'
    BY <1>2 DEF BeginPrepare, WatcherInv, SpawnInv, Failure
  <2>4. \A u \in Tasks : StopInv(u)'
    BY <1>2 DEF BeginPrepare, StopInv, SpawnInv, WatcherInv, Failure
  <2> QED BY <2>1, <2>2, <2>3, <2>4
<1>3. ASSUME NEW t \in Tasks, Prepared(t) PROVE IInv'
  <2>1. TypeOK'
    <3>1. live[t] \in LiveTask
      OBVIOUS
    <3>2. live'[t] \in LiveTask
      BY <1>3, <3>1 DEF Prepared, Spawn
    <3> QED BY <1>3, <3>2 DEF Prepared, Spawn
  <2>2. \A u \in Tasks : SpawnInv(u)'
    BY <1>3 DEF Prepared, Spawn, SpawnInv
  <2>3. \A u \in Tasks : WatcherInv(u)'
    BY <1>3 DEF Prepared, Spawn, WatcherInv, SpawnInv, Failure
  <2>4. \A u \in Tasks : StopInv(u)'
    BY <1>3 DEF Prepared, Spawn, StopInv, SpawnInv, WatcherInv, Failure
  <2> QED BY <2>1, <2>2, <2>3, <2>4
<1>4. ASSUME NEW t \in Tasks, StartReturns(t) PROVE IInv'
  <2>1. TypeOK'
    BY <1>4 DEF StartReturns
  <2>2. \A u \in Tasks : SpawnInv(u)'
    BY <1>4 DEF StartReturns, SpawnInv
  <2>3. \A u \in Tasks : WatcherInv(u)'
    BY <1>4 DEF StartReturns, WatcherInv, SpawnInv, Failure
  <2>4. \A u \in Tasks : StopInv(u)'
    BY <1>4 DEF StartReturns, StopInv, SpawnInv, WatcherInv, Failure
  <2> QED BY <2>1, <2>2, <2>3, <2>4
<1>5. ASSUME NEW t \in Tasks, WatcherJoins(t) PROVE IInv'
  <2>1. TypeOK'
    BY <1>5 DEF WatcherJoins
  <2>2. \A u \in Tasks : SpawnInv(u)'
    BY <1>5 DEF WatcherJoins, SpawnInv
  <2>3. \A u \in Tasks : WatcherInv(u)'
    BY <1>5 DEF WatcherJoins, WatcherInv, SpawnInv, Failure
  <2>4. \A u \in Tasks : StopInv(u)'
    BY <1>5 DEF WatcherJoins, StopInv, SpawnInv, WatcherInv, Failure
  <2> QED BY <2>1, <2>2, <2>3, <2>4
<1>6. ASSUME NEW t \in Tasks, WatcherFails(t) PROVE IInv'
  <2>1. TypeOK'
    BY <1>6 DEF WatcherFails
  <2>2. \A u \in Tasks : SpawnInv(u)'
    BY <1>6 DEF WatcherFails, SpawnInv
  <2>3. \A u \in Tasks : WatcherInv(u)'
    BY <1>6 DEF WatcherFails, WatcherInv, SpawnInv, Failure
  <2>4. \A u \in Tasks : StopInv(u)'
    BY <1>6 DEF WatcherFails, StopInv, SpawnInv, WatcherInv, Failure
  <2> QED BY <2>1, <2>2, <2>3, <2>4
<1>7. ASSUME NEW t \in Tasks, WatcherAborted(t) PROVE IInv'
  <2>1. TypeOK'
    BY <1>7 DEF WatcherAborted
  <2>2. \A u \in Tasks : SpawnInv(u)'
    BY <1>7 DEF WatcherAborted, SpawnInv
  <2>3. \A u \in Tasks : WatcherInv(u)'
    BY <1>7 DEF WatcherAborted, WatcherInv, SpawnInv, Failure
  <2>4. \A u \in Tasks : StopInv(u)'
    BY <1>7 DEF WatcherAborted, StopInv, SpawnInv, WatcherInv, Failure
  <2> QED BY <2>1, <2>2, <2>3, <2>4
<1>8. ASSUME NEW t \in Tasks, BeginStop(t) PROVE IInv'
  <2>1. TypeOK'
    BY <1>8 DEF BeginStop, Signalled
  <2>2. \A u \in Tasks : SpawnInv(u)'
    BY <1>8, SMTT(20) DEF BeginStop, Signalled, SpawnInv
  <2>3. \A u \in Tasks : WatcherInv(u)'
    BY <1>8 DEF BeginStop, Signalled, WatcherInv, SpawnInv, Failure
  <2>4. \A u \in Tasks : StopInv(u)'
    BY <1>8 DEF BeginStop, Signalled, StopInv, SpawnInv, WatcherInv, Failure
  <2> QED BY <2>1, <2>2, <2>3, <2>4
<1>9. ASSUME NEW t \in Tasks, StopJoins(t) PROVE IInv'
  <2>1. TypeOK'
    <3>1. live[t] \in LiveTask
      OBVIOUS
    <3>2. live'[t] \in LiveTask
      BY <1>9, <3>1 DEF StopJoins, Verdict
    <3> QED BY <1>9, <3>2 DEF StopJoins
  <2>2. \A u \in Tasks : SpawnInv(u)'
    BY <1>9 DEF StopJoins, Verdict, SpawnInv
  <2>3. \A u \in Tasks : WatcherInv(u)'
    BY <1>9 DEF StopJoins, Verdict, WatcherInv, SpawnInv, Failure
  <2>4. \A u \in Tasks : StopInv(u)'
    BY <1>9 DEF StopJoins, Verdict, StopInv, SpawnInv, WatcherInv, Failure
  <2> QED BY <2>1, <2>2, <2>3, <2>4
<1>10. ASSUME NEW t \in Tasks, DropStopCall(t) PROVE IInv'
  <2>1. TypeOK'
    <3>1. live[t] \in LiveTask
      OBVIOUS
    <3>2. live'[t] \in LiveTask
      BY <1>10, <3>1 DEF DropStopCall, HandleAfterDrop
    <3> QED BY <1>10, <3>2 DEF DropStopCall
  <2>2. \A u \in Tasks : SpawnInv(u)'
    BY <1>10 DEF DropStopCall, HandleAfterDrop, SpawnInv
  <2>3. \A u \in Tasks : WatcherInv(u)'
    BY <1>10 DEF DropStopCall, HandleAfterDrop, WatcherInv, SpawnInv, Failure
  <2>4. \A u \in Tasks : StopInv(u)'
    BY <1>10 DEF DropStopCall, HandleAfterDrop, StopInv, SpawnInv, WatcherInv, Failure
  <2> QED BY <2>1, <2>2, <2>3, <2>4
<1>11. ASSUME NEW t \in Tasks, DropHook(t) PROVE IInv'
  <2>1. TypeOK'
    <3>1. live[t] \in LiveTask
      OBVIOUS
    <3>2. Signalled(t) \in BOOLEAN /\ Abortable(t) \in SUBSET {"work", "watcher"}
      BY <3>1 DEF Signalled, Abortable
    <3>3. live'[t] \in LiveTask
      BY <1>11, <3>1, <3>2 DEF DropHook
    <3> QED BY <1>11, <3>3 DEF DropHook
  <2>2. \A u \in Tasks : SpawnInv(u)'
    BY <1>11, SMTT(20) DEF DropHook, Signalled, Abortable, SpawnInv
  <2>3. \A u \in Tasks : WatcherInv(u)'
    BY <1>11 DEF DropHook, Signalled, Abortable, WatcherInv, SpawnInv, Failure
  <2>4. \A u \in Tasks : StopInv(u)'
    BY <1>11, SMTT(20) DEF DropHook, Signalled, Abortable, StopInv, SpawnInv, WatcherInv, Failure
  <2> QED BY <2>1, <2>2, <2>3, <2>4
<1>12. CASE Release
  BY <1>12 DEF Release, SpawnInv, WatcherInv, StopInv
<1>13. CASE UNCHANGED vars
  BY <1>13 DEF vars, SpawnInv, WatcherInv, StopInv
<1> QED
  BY <1>1, <1>2, <1>3, <1>4, <1>5, <1>6, <1>7, <1>8, <1>9, <1>10, <1>11, <1>12, <1>13,
     WorkKeepsIInv DEF Next, Runtime

\* The invariant holds in every reachable state.
THEOREM Invariant == Spec => []IInv
  BY InitIInv, NextIInv, PTL DEF Spec

\* Types: each LiveTask keeps its fields in their ranges.
THEOREM TypeCorrect == Spec => []TypeOK
<1>1. IInv => TypeOK
  BY DEF IInv
<1> QED BY Invariant, <1>1, PTL

\* An OnStop of a task that has returned found the work over, even if earlier
\* calls were dropped while they joined it: the handle stays where it is.
THEOREM StopReturnsAfterWork == Spec => []StopJoinsWork
<1>1. IInv => StopJoinsWork
  BY DEF IInv, StopInv, StopJoinsWork
<1> QED BY Invariant, <1>1, PTL

\* The error of OnStop and the flag of the Shutdowner tell the same of a task.
THEOREM VerdictsAgree == Spec => []VerdictMatchesFlag
<1>1. IInv => VerdictMatchesFlag
  BY DEF IInv, StopInv, WatcherInv, VerdictMatchesFlag
<1> QED BY Invariant, <1>1, PTL

\* Nobody is reported to the Shutdowner for work that was aborted or ended well.
THEOREM ReportsAreFailures == Spec => []OnlyFailuresAreReported
<1>1. IInv => OnlyFailuresAreReported
  BY DEF IInv, TypeOK, WatcherInv, Failure, OnlyFailuresAreReported
<1> QED BY Invariant, <1>1, PTL

=============================================================================
