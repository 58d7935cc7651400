------------------------------- MODULE AppProofs -------------------------------
(***************************************************************************)
(* Proofs about the registry of hooks and about the driver that runs it,   *)
(* for any sets of kinds, any number of hooks, any budgets, signals and    *)
(* failures.                                                               *)
(*                                                                         *)
(* First the registry.  IInv is inductive: it says what the history of     *)
(* every entry is, relative to the prefix `started`, to the entry in       *)
(* flight and to the phase.  One lemma per action shows that the action    *)
(* keeps each conjunct of IInv; the safety properties follow from IInv     *)
(* alone, and under IInv every step is a step of HookContract, or leaves   *)
(* it alone.                                                               *)
(*                                                                         *)
(* Then the driver.  run() and start() drive the registry as Lifecycle     *)
(* allows: every step of App is a step of Lifecycle or leaves the registry *)
(* alone, so what is proved of the registry is true of the application.    *)
(***************************************************************************)
EXTENDS App, TLAPS

-----------------------------------------------------------------------------
(* The registry. *)

USE DEF Index, Calls

\* Nothing is registered at first.
LEMMA InitIInv == Init => IInv
  BY BoundAssumption
  DEF Init, IInv, TypeOK, InflightInv, PhaseInv, StartingInv, StoppingInv, HistoryInv, DoneInv,
      PassDone, StopsInReverse, StopsOnlyActive

-----------------------------------------------------------------------------
(* One lemma per action *)

\* append: the new entry is past the started prefix and untouched by any callback.
LEMMA AppendHookPreserves == ASSUME NEW k \in Kinds, IInv, AppendHook(k) PROVE IInv'
<1> USE BoundAssumption DEF IInv, TypeOK, InflightInv, PhaseInv, AppendHook, MayAppend,
      driver, history
<1>1. TypeOK'
  <2>1. hooks' \in Seq(Kinds) /\ Len(hooks') = Len(hooks) + 1 /\ Len(hooks) \in Nat
    OBVIOUS
  <2>2. \A x \in 1 .. Len(hooks) : x \in 1 .. (Len(hooks) + 1)
    BY <2>1
  <2>3. Len(hooks) + 1 \in 1 .. (Len(hooks) + 1)
    BY <2>1
  <2>4. inner' \subseteq 1 .. Len(hooks')
    BY <2>1, <2>2, <2>3
  <2> QED BY <2>1, <2>4
<1>2. InflightInv'
  BY DEF HasStart, HasStop, Active, Settled, Owed
<1>3. PhaseInv'
  OBVIOUS
<1>4. StartingInv'
  BY DEF HistoryInv, StartingInv, HasStart, Active
<1>5. StoppingInv'
  BY DEF StoppingInv, HasStart, HasStop, Active, Settled, Owed
<1>6. HistoryInv'
  BY DEF HistoryInv
<1>7. DoneInv'
  BY DEF DoneInv, PassDone
<1>8. StopsInReverse'
  BY DEF StartingInv, StopsInReverse, HasStart, HasStop, Active, Settled, Owed
<1>9. StopsOnlyActive'
  BY DEF HistoryInv, StopsOnlyActive, HasStart, Active
<1> QED BY <1>1, <1>2, <1>3, <1>4, <1>5, <1>6, <1>7, <1>8, <1>9

\* start() only moves the phase on.
LEMMA StartPreserves == ASSUME IInv, Start PROVE IInv'
<1> USE BoundAssumption DEF IInv, TypeOK, InflightInv, PhaseInv, Start, history
<1>1. TypeOK'
  OBVIOUS
<1>2. InflightInv'
  BY DEF HasStart, HasStop, Active, Settled, Owed
<1>3. PhaseInv'
  OBVIOUS
<1>4. StartingInv'
  BY DEF StartingInv, HasStart, Active
<1>5. StoppingInv'
  BY DEF StoppingInv, HasStart, HasStop, Active, Settled, Owed
<1>6. HistoryInv'
  BY DEF HistoryInv
<1>7. DoneInv'
  BY DEF DoneInv, PassDone
<1>8. StopsInReverse'
  BY DEF StopsInReverse, HasStart, HasStop, Active, Settled, Owed
<1>9. StopsOnlyActive'
  BY DEF StopsOnlyActive, HasStart, Active
<1> QED BY <1>1, <1>2, <1>3, <1>4, <1>5, <1>6, <1>7, <1>8, <1>9

\* Taking an OnStart: what is skipped on the way to entry i has no OnStart, so the
\* prefix up to i - 1 is active; entry i leaves `inner` while its callback runs.
LEMMA TakeNextStartPreserves == ASSUME NEW i \in Index, IInv, TakeNextStart(i) PROVE IInv'
<1> USE BoundAssumption DEF IInv, TypeOK, InflightInv, PhaseInv, TakeNextStart, IsNextStart,
      StartSkips
<1>1. TypeOK'
  OBVIOUS
<1>2. InflightInv'
  BY DEF HasStart, HasStop, Active, Settled, Owed
<1>3. PhaseInv'
  OBVIOUS
<1>4. StartingInv'
  BY DEF StartingInv, HasStart, Active
<1>5. StoppingInv'
  BY DEF StoppingInv, HasStart, HasStop, Active, Settled, Owed
<1>6. HistoryInv'
  BY DEF HistoryInv
<1>7. DoneInv'
  BY DEF DoneInv, PassDone
<1>8. StopsInReverse'
  BY DEF StopsInReverse, HasStart, HasStop, Active, Settled, Owed
<1>9. StopsOnlyActive'
  BY DEF StartingInv, StopsOnlyActive, HasStart, Active
<1> QED BY <1>1, <1>2, <1>3, <1>4, <1>5, <1>6, <1>7, <1>8, <1>9

\* The last look of start_inner: everything past the prefix has no OnStart.
LEMMA FinishStartPreserves == ASSUME IInv, FinishStart PROVE IInv'
<1> USE BoundAssumption DEF IInv, TypeOK, InflightInv, PhaseInv, FinishStart, StartSkips,
      history
<1>1. TypeOK'
  OBVIOUS
<1>2. InflightInv'
  BY DEF HasStart, HasStop, Active, Settled, Owed
<1>3. PhaseInv'
  OBVIOUS
<1>4. StartingInv'
  BY DEF StartingInv, HasStart, Active
<1>5. StoppingInv'
  BY DEF StoppingInv, HasStart, HasStop, Active, Settled, Owed
<1>6. HistoryInv'
  BY DEF HistoryInv
<1>7. DoneInv'
  BY DEF DoneInv, PassDone
<1>8. StopsInReverse'
  BY DEF StopsInReverse, HasStart, HasStop, Active, Settled, Owed
<1>9. StopsOnlyActive'
  BY DEF StopsOnlyActive, HasStart, Active
<1> QED BY <1>1, <1>2, <1>3, <1>4, <1>5, <1>6, <1>7, <1>8, <1>9

\* An OnStart that succeeds: its entry is put back and joins the prefix.
LEMMA OnStartOkPreserves == ASSUME IInv, OnStartOk PROVE IInv'
<1> USE BoundAssumption DEF IInv, TypeOK, InflightInv, PhaseInv, OnStartOk, PutBack
<1>1. TypeOK'
  OBVIOUS
<1>2. InflightInv'
  BY DEF HasStart, HasStop, Active, Settled, Owed
<1>3. PhaseInv'
  OBVIOUS
<1>4. StartingInv'
  BY DEF StartingInv, HasStart, Active
<1>5. StoppingInv'
  BY DEF StoppingInv, HasStart, HasStop, Active, Settled, Owed
<1>6. HistoryInv'
  BY DEF HistoryInv
<1>7. DoneInv'
  BY DEF DoneInv, PassDone
<1>8. StopsInReverse'
  BY DEF StartingInv, StopsInReverse, HasStart, HasStop, Active, Settled, Owed
<1>9. StopsOnlyActive'
  BY DEF StopsOnlyActive, HasStart, Active
<1> QED BY <1>1, <1>2, <1>3, <1>4, <1>5, <1>6, <1>7, <1>8, <1>9

\* An OnStart that fails: its hook is gone, the entries that have an OnStart and never
\* ran it are dropped, and what remains is active and owed its OnStop.
LEMMA OnStartErrPreserves == ASSUME IInv, OnStartErr PROVE IInv'
<1> USE BoundAssumption DEF IInv, TypeOK, InflightInv, PhaseInv, OnStartErr, Activate
<1>1. TypeOK'
  <2>1. inner' \subseteq 1 .. Len(hooks')
    OBVIOUS
  <2>2. started' \in 0 .. Len(hooks')
    OBVIOUS
  <2>3. onStart' \in [Index -> Calls]
    OBVIOUS
  <2>4. returned' \in {"none", "start", "stop", "unwind"} \X {"none", "ok", "err", "dropped"}
    OBVIOUS
  <2> QED BY <2>1, <2>2, <2>3, <2>4
<1>2. InflightInv'
  BY DEF HasStart, HasStop, Active, Settled, Owed
<1>3. PhaseInv'
  OBVIOUS
<1>4. StartingInv'
  BY DEF StartingInv, HasStart, Active
<1>5. StoppingInv'
  BY DEF StartingInv, StoppingInv, HasStart, HasStop, Active, Settled, Owed
<1>6. HistoryInv'
  BY DEF HistoryInv
<1>7. DoneInv'
  BY DEF DoneInv, PassDone
<1>8. StopsInReverse'
  BY DEF StopsInReverse, HasStart, HasStop, Active, Settled, Owed
<1>9. StopsOnlyActive'
  BY DEF StopsOnlyActive, HasStart, Active
<1> QED BY <1>1, <1>2, <1>3, <1>4, <1>5, <1>6, <1>7, <1>8, <1>9

\* A start future dropped halfway leaves what a failed OnStart leaves.
LEMMA DropStartPreserves == ASSUME IInv, DropStart PROVE IInv'
<1> USE BoundAssumption DEF IInv, TypeOK, InflightInv, PhaseInv, DropStart, Activate
<1>1. TypeOK'
  <2>1. inner' \subseteq 1 .. Len(hooks')
    OBVIOUS
  <2>2. started' \in 0 .. Len(hooks')
    OBVIOUS
  <2>3. onStart' \in [Index -> Calls]
    OBVIOUS
  <2>4. returned' \in {"none", "start", "stop", "unwind"} \X {"none", "ok", "err", "dropped"}
    OBVIOUS
  <2> QED BY <2>1, <2>2, <2>3, <2>4
<1>2. InflightInv'
  BY DEF HasStart, HasStop, Active, Settled, Owed
<1>3. PhaseInv'
  OBVIOUS
<1>4. StartingInv'
  BY DEF StartingInv, HasStart, Active
<1>5. StoppingInv'
  BY DEF StartingInv, StoppingInv, HasStart, HasStop, Active, Settled, Owed
<1>6. HistoryInv'
  BY DEF HistoryInv
<1>7. DoneInv'
  BY DEF DoneInv, PassDone
<1>8. StopsInReverse'
  BY DEF StopsInReverse, HasStart, HasStop, Active, Settled, Owed
<1>9. StopsOnlyActive'
  BY DEF StopsOnlyActive, HasStart, Active
<1> QED BY <1>1, <1>2, <1>3, <1>4, <1>5, <1>6, <1>7, <1>8, <1>9

\* prepare_for_unwind, called by the driver in any phase between two futures.
LEMMA PrepareForUnwindPreserves == ASSUME IInv, PrepareForUnwind PROVE IInv'
<1> USE BoundAssumption DEF IInv, TypeOK, InflightInv, PhaseInv, PrepareForUnwind, Activate,
      driver, history
<1>1. TypeOK'
  <2>1. inner' \subseteq 1 .. Len(hooks')
    OBVIOUS
  <2>2. started' \in 0 .. Len(hooks')
    OBVIOUS
  <2>3. onStart' \in [Index -> Calls]
    OBVIOUS
  <2>4. returned' \in {"none", "start", "stop", "unwind"} \X {"none", "ok", "err", "dropped"}
    OBVIOUS
  <2> QED BY <2>1, <2>2, <2>3, <2>4
<1>2. InflightInv'
  BY DEF HasStart, HasStop, Active, Settled, Owed
<1>3. PhaseInv'
  OBVIOUS
<1>4. StartingInv'
  BY DEF StartingInv, HasStart, Active
<1>5. StoppingInv'
  BY DEF StartingInv, StoppingInv, HasStart, HasStop, Active, Settled, Owed
<1>6. HistoryInv'
  BY DEF HistoryInv
<1>7. DoneInv'
  <2>1. inner' \subseteq inner
    OBVIOUS
  <2> QED BY <2>1 DEF DoneInv, PassDone
<1>8. StopsInReverse'
  BY DEF StopsInReverse, HasStart, HasStop, Active, Settled, Owed
<1>9. StopsOnlyActive'
  BY DEF StopsOnlyActive, HasStart, Active
<1> QED BY <1>1, <1>2, <1>3, <1>4, <1>5, <1>6, <1>7, <1>8, <1>9

\* unwind_started: the count it reads is as large as the prefix.
LEMMA UnwindStartedPreserves == ASSUME IInv, UnwindStarted PROVE IInv'
<1> USE BoundAssumption DEF IInv, TypeOK, InflightInv, PhaseInv, UnwindStarted, UnwindCount,
      registry, history
<1>1. TypeOK'
  OBVIOUS
<1>2. InflightInv'
  BY DEF HasStart, HasStop, Active, Settled, Owed
<1>3. PhaseInv'
  OBVIOUS
<1>4. StartingInv'
  BY DEF StartingInv, HasStart, Active
<1>5. StoppingInv'
  BY DEF StoppingInv, HasStart, HasStop, Active, Settled, Owed
<1>6. HistoryInv'
  BY DEF HistoryInv
<1>7. DoneInv'
  BY DEF DoneInv, PassDone
<1>8. StopsInReverse'
  BY DEF StopsInReverse, HasStart, HasStop, Active, Settled, Owed
<1>9. StopsOnlyActive'
  BY DEF StopsOnlyActive, HasStart, Active
<1> QED BY <1>1, <1>2, <1>3, <1>4, <1>5, <1>6, <1>7, <1>8, <1>9

\* stop(): from Started, every entry is active and held.
LEMMA StopPreserves == ASSUME IInv, Stop PROVE IInv'
<1> USE BoundAssumption DEF IInv, TypeOK, InflightInv, PhaseInv, Stop, history
<1>1. TypeOK'
  OBVIOUS
<1>2. InflightInv'
  BY DEF HasStart, HasStop, Active, Settled, Owed
<1>3. PhaseInv'
  OBVIOUS
<1>4. StartingInv'
  BY DEF StartingInv, HasStart, Active
<1>5. StoppingInv'
  BY DEF StartingInv, StoppingInv, HasStart, HasStop, Active, Settled, Owed
<1>6. HistoryInv'
  BY DEF HistoryInv
<1>7. DoneInv'
  BY DEF DoneInv, PassDone
<1>8. StopsInReverse'
  BY DEF StopsInReverse, HasStart, HasStop, Active, Settled, Owed
<1>9. StopsOnlyActive'
  BY DEF StopsOnlyActive, HasStart, Active
<1> QED BY <1>1, <1>2, <1>3, <1>4, <1>5, <1>6, <1>7, <1>8, <1>9

\* Taking an OnStop: what is dropped on the way down to entry i is owed nothing, so
\* entry i is the last that is.
LEMMA TakeNextStopPreserves == ASSUME NEW i \in Index, IInv, TakeNextStop(i) PROVE IInv'
<1> USE BoundAssumption DEF IInv, TypeOK, InflightInv, PhaseInv, TakeNextStop, IsNextStop,
      StopSkips, MayTake
<1>1. TypeOK'
  OBVIOUS
<1>2. InflightInv'
  BY DEF StoppingInv, HasStart, HasStop, Active, Settled, Owed
<1>3. PhaseInv'
  OBVIOUS
<1>4. StartingInv'
  BY DEF StartingInv, HasStart, Active
<1>5. StoppingInv'
  BY DEF StoppingInv, HasStart, HasStop, Active, Settled, Owed
<1>6. HistoryInv'
  BY DEF HistoryInv
<1>7. DoneInv'
  BY DEF DoneInv, PassDone
<1>8. StopsInReverse'
  BY DEF StoppingInv, HasStart, HasStop, Active, Settled, Owed, StopsInReverse
<1>9. StopsOnlyActive'
  BY DEF StoppingInv, HasStart, HasStop, Active, Settled, Owed, StopsOnlyActive
<1> QED BY <1>1, <1>2, <1>3, <1>4, <1>5, <1>6, <1>7, <1>8, <1>9

\* The last look of take_next_stop: nothing that is left is owed an OnStop.
LEMMA FinishStopPreserves == ASSUME IInv, FinishStop PROVE IInv'
<1> USE BoundAssumption DEF IInv, TypeOK, InflightInv, PhaseInv, FinishStop, StopSkips,
      MayTake, FinishPass, history
<1>1. TypeOK'
  OBVIOUS
<1>2. InflightInv'
  BY DEF HasStart, HasStop, Active, Settled, Owed
<1>3. PhaseInv'
  OBVIOUS
<1>4. StartingInv'
  BY DEF StartingInv, HasStart, Active
<1>5. StoppingInv'
  BY DEF StoppingInv, HasStart, HasStop, Active, Settled, Owed
<1>6. HistoryInv'
  BY DEF HistoryInv
<1>7. DoneInv'
  BY DEF StoppingInv, HasStart, HasStop, Active, Settled, Owed, DoneInv, PassDone
<1>8. StopsInReverse'
  BY DEF StopsInReverse, HasStart, HasStop, Active, Settled, Owed
<1>9. StopsOnlyActive'
  BY DEF StopsOnlyActive, HasStart, Active
<1> QED BY <1>1, <1>2, <1>3, <1>4, <1>5, <1>6, <1>7, <1>8, <1>9

\* stop_first out of iterations: its count was as large as the prefix, so that is empty.
LEMMA ExhaustUnwindPreserves == ASSUME IInv, ExhaustUnwind PROVE IInv'
<1> USE BoundAssumption DEF IInv, TypeOK, InflightInv, PhaseInv, ExhaustUnwind, FinishPass,
      registry, history
<1>1. TypeOK'
  OBVIOUS
<1>2. InflightInv'
  BY DEF HasStart, HasStop, Active, Settled, Owed
<1>3. PhaseInv'
  OBVIOUS
<1>4. StartingInv'
  BY DEF StartingInv, HasStart, Active
<1>5. StoppingInv'
  BY DEF StoppingInv, HasStart, HasStop, Active, Settled, Owed
<1>6. HistoryInv'
  BY DEF HistoryInv
<1>7. DoneInv'
  BY DEF StoppingInv, HasStart, HasStop, Active, Settled, Owed, DoneInv, PassDone
<1>8. StopsInReverse'
  BY DEF StopsInReverse, HasStart, HasStop, Active, Settled, Owed
<1>9. StopsOnlyActive'
  BY DEF StopsOnlyActive, HasStart, Active
<1> QED BY <1>1, <1>2, <1>3, <1>4, <1>5, <1>6, <1>7, <1>8, <1>9

\* An OnStop that returns, with an error or without: its hook is dropped for good.
LEMMA OnStopEndsPreserves == ASSUME NEW verdict \in {"ok", "failed"}, IInv, OnStopEnds(verdict) PROVE IInv'
<1> USE BoundAssumption DEF IInv, TypeOK, InflightInv, PhaseInv, OnStopEnds, registry
<1>1. TypeOK'
  OBVIOUS
<1>2. InflightInv'
  BY DEF HasStart, HasStop, Active, Settled, Owed
<1>3. PhaseInv'
  OBVIOUS
<1>4. StartingInv'
  BY DEF StartingInv, HasStart, Active
<1>5. StoppingInv'
  BY DEF StoppingInv, HasStart, HasStop, Active, Settled, Owed
<1>6. HistoryInv'
  BY DEF HistoryInv
<1>7. DoneInv'
  BY DEF DoneInv, PassDone
<1>8. StopsInReverse'
  BY DEF StopsInReverse, HasStart, HasStop, Active, Settled, Owed
<1>9. StopsOnlyActive'
  BY DEF StopsOnlyActive, HasStart, Active
<1> QED BY <1>1, <1>2, <1>3, <1>4, <1>5, <1>6, <1>7, <1>8, <1>9

\* A stop or unwind future dropped halfway: StopGuard puts the hook back where the
\* next pass finds it first.
LEMMA DropStopPreserves == ASSUME IInv, DropStop PROVE IInv'
<1> USE BoundAssumption DEF IInv, TypeOK, InflightInv, PhaseInv, DropStop, WriteBack
<1>1. TypeOK'
  OBVIOUS
<1>2. InflightInv'
  BY DEF HasStart, HasStop, Active, Settled, Owed
<1>3. PhaseInv'
  OBVIOUS
<1>4. StartingInv'
  BY DEF StartingInv, HasStart, Active
<1>5. StoppingInv'
  BY DEF StoppingInv, HasStart, HasStop, Active, Settled, Owed
<1>6. HistoryInv'
  BY DEF HistoryInv
<1>7. DoneInv'
  BY DEF DoneInv, PassDone
<1>8. StopsInReverse'
  BY DEF StopsInReverse, HasStart, HasStop, Active, Settled, Owed
<1>9. StopsOnlyActive'
  BY DEF StopsOnlyActive, HasStart, Active
<1> QED BY <1>1, <1>2, <1>3, <1>4, <1>5, <1>6, <1>7, <1>8, <1>9
-----------------------------------------------------------------------------
(* The invariant and the properties that follow from it *)

\* Every step of the registry and of its driver keeps IInv.
LEMMA NextIInv == IInv /\ [Next]_vars => IInv'
<1> SUFFICES ASSUME IInv, [Next]_vars PROVE IInv'
  OBVIOUS
<1>1. ASSUME NEW k \in Kinds, AppendHook(k) PROVE IInv'
  BY <1>1, AppendHookPreserves
<1>2. CASE Start
  BY <1>2, StartPreserves
<1>3. CASE DropStart
  BY <1>3, DropStartPreserves
<1>4. CASE PrepareForUnwind
  BY <1>4, PrepareForUnwindPreserves
<1>5. CASE UnwindStarted
  BY <1>5, UnwindStartedPreserves
<1>6. CASE Stop
  BY <1>6, StopPreserves
<1>7. CASE DropStop
  BY <1>7, DropStopPreserves
<1>8. ASSUME NEW i \in Index, TakeNextStart(i) PROVE IInv'
  BY <1>8, TakeNextStartPreserves
<1>9. ASSUME NEW i \in Index, TakeNextStop(i) PROVE IInv'
  BY <1>9, TakeNextStopPreserves
<1>10. CASE FinishStart
  BY <1>10, FinishStartPreserves
<1>11. CASE FinishStop
  BY <1>11, FinishStopPreserves
<1>12. CASE ExhaustUnwind
  BY <1>12, ExhaustUnwindPreserves
<1>13. CASE OnStartOk
  BY <1>13, OnStartOkPreserves
<1>14. CASE OnStartErr
  BY <1>14, OnStartErrPreserves
<1>15. CASE OnStopOk \/ OnStopErr
  BY <1>15, OnStopEndsPreserves DEF OnStopOk, OnStopErr
<1>16. CASE UNCHANGED vars
  BY <1>16
  DEF vars, registry, driver, history, IInv, TypeOK, InflightInv, PhaseInv, StartingInv,
      StoppingInv, HistoryInv, DoneInv, PassDone, StopsInReverse, StopsOnlyActive,
      HasStart, HasStop, Active, Settled, Owed
<1> QED
  BY <1>1, <1>2, <1>3, <1>4, <1>5, <1>6, <1>7, <1>8, <1>9, <1>10, <1>11, <1>12, <1>13, <1>14,
     <1>15, <1>16 DEF Next, Progress

\* The inductive invariant holds of every reachable state of the registry, whatever
\* its driver does.
THEOREM Invariant == Spec => []IInv
  BY InitIInv, NextIInv, PTL DEF Spec

\* Types; in particular `started` and the entry in flight are always positions of
\* entries of State.hooks.
THEOREM TypeCorrect == Spec => []TypeOK
<1>1. IInv => TypeOK
  BY DEF IInv
<1> QED BY Invariant, <1>1, PTL

\* LIFO: once a hook's OnStop was called, every later active hook has had its OnStop
\* return, across failed and dropped starts and dropped and retried passes.
THEOREM Lifo == Spec => []StopsInReverse
<1>1. IInv => StopsInReverse
  BY DEF IInv
<1> QED BY Invariant, <1>1, PTL

\* A hook whose OnStart failed, was dropped or never ran does not get its OnStop.
THEOREM NoStopWithoutStart == Spec => []StopsOnlyActive
<1>1. IInv => StopsOnlyActive
  BY DEF IInv
<1> QED BY Invariant, <1>1, PTL

\* Registration closes without a gap: in phase Started, every entry that append
\* accepted is active and held, although appends race with start().
THEOREM NoAppendIsMissed == Spec => []StartedMeansAllActive
<1>1. IInv => StartedMeansAllActive
  <2> SUFFICES ASSUME IInv, phase = "Started", NEW i \in 1 .. Len(hooks)
               PROVE  Active(i) /\ i \in inner
    BY DEF StartedMeansAllActive
  <2>1. inflight = 0 /\ i <= started
    BY DEF IInv, TypeOK, InflightInv, PhaseInv
  <2> QED BY <2>1 DEF IInv, TypeOK, StartingInv
<1> QED BY Invariant, <1>1, PTL

\* While stopping, every hook that is owed its OnStop is being stopped or is held
\* within the prefix that take_next_stop walks.
THEOREM OwedHooksAreKept == Spec => []OwedIsReachable
<1>1. IInv => OwedIsReachable
  BY DEF IInv, StoppingInv, OwedIsReachable
<1> QED BY Invariant, <1>1, PTL

\* A pass of stop() or unwind_started() that ran to its end has called every OnStop
\* that was owed and has dropped every hook; stop_first's count was enough.
THEOREM PassIsComplete == Spec => []NothingLeftBehind
<1>1. IInv => NothingLeftBehind
  <2> SUFFICES ASSUME IInv, PassDone
               PROVE  inner = {} /\ \A i \in 1 .. Len(hooks) : ~Owed(i)
    BY DEF NothingLeftBehind
  <2>1. phase = "Stopping" /\ inner = {}
    BY DEF IInv, DoneInv
  <2>2. inflight = 0
    BY DEF IInv, InflightInv, PassDone
  <2> QED BY <2>1, <2>2 DEF IInv, StoppingInv
<1> QED BY Invariant, <1>1, PTL

\* OnStart callbacks run in the order of registration: once one was called, every
\* earlier hook is active, whatever was appended meanwhile.
StartsInOrder ==
  \A i, j \in 1 .. Len(hooks) : j < i /\ onStart[i] # "no" => Active(j)

\* Once start() has returned no OnStart runs and no hook is added.
LEMMA StartsAreOver ==
  ASSUME IInv, phase \in {"Started", "Stopping"}, [Next]_vars
  PROVE  UNCHANGED <<hooks, onStart>> /\ phase' \in {"Started", "Stopping"}
<1> USE DEF IInv, PhaseInv, vars, registry, driver, history
<1>1. CASE UNCHANGED vars
  BY <1>1
<1>2. CASE \E k \in Kinds : AppendHook(k)
  BY <1>2 DEF AppendHook, MayAppend
<1>3. CASE Start \/ DropStart \/ FinishStart \/ OnStartOk \/ OnStartErr
  BY <1>3 DEF Start, DropStart, FinishStart, OnStartOk, OnStartErr
<1>4. CASE PrepareForUnwind \/ UnwindStarted \/ Stop \/ DropStop \/ FinishStop \/ ExhaustUnwind
  BY <1>4 DEF PrepareForUnwind, Activate, UnwindStarted, Stop, DropStop, FinishStop, ExhaustUnwind
<1>5. CASE OnStopOk \/ OnStopErr
  BY <1>5 DEF OnStopOk, OnStopErr, OnStopEnds
<1>6. CASE \E i \in Index : TakeNextStart(i) \/ TakeNextStop(i)
  BY <1>6 DEF TakeNextStart, TakeNextStop
<1> QED BY <1>1, <1>2, <1>3, <1>4, <1>5, <1>6 DEF Next, Progress

\* Until then, an OnStart that was called is that of the prefix or of the next entry.
LEMMA StartingInOrder == IInv /\ phase # "Stopping" => StartsInOrder
<1> SUFFICES ASSUME IInv, phase # "Stopping", NEW i \in 1 .. Len(hooks), NEW j \in 1 .. Len(hooks),
                    j < i, onStart[i] # "no"
             PROVE  Active(j)
  BY DEF StartsInOrder
<1>1. i <= started \/ i = inflight
  BY DEF IInv, TypeOK, StartingInv
<1>2. j <= started
  BY <1>1 DEF IInv, TypeOK, InflightInv
<1> QED BY <1>2 DEF IInv, StartingInv

\* A failed or dropped OnStart, and the caller's own preparation, end the starting.
LEMMA EndsInOrder ==
  ASSUME IInv, StartsInOrder, [Next]_vars, phase # "Stopping", phase' = "Stopping"
  PROVE  StartsInOrder'
<1> USE DEF IInv, TypeOK, PhaseInv, InflightInv, StartsInOrder, Active, HasStart
<1>1. CASE UNCHANGED vars
  BY <1>1 DEF vars, registry
<1>2. CASE \E k \in Kinds : AppendHook(k)
  BY <1>2 DEF AppendHook
<1>3. CASE Start \/ FinishStart \/ OnStartOk
  BY <1>3 DEF Start, FinishStart, OnStartOk
<1>4. CASE DropStart \/ OnStartErr
  <2>1. /\ op = "start" /\ inflight # 0 /\ inflight \in 1 .. Len(hooks) /\ inflight \in Index
        /\ hooks' = hooks
        /\ \A i \in Index : i # inflight => onStart'[i] = onStart[i]
    BY <1>4, BoundAssumption DEF DropStart, OnStartErr, Index
  <2>2. HasStart(inflight) /\ onStart[inflight] = "running"
    BY <2>1
  <2>3. ~Active(inflight)
    BY <2>2
  <2>4. \A i \in 1 .. Len(hooks) : i \in Index
    BY BoundAssumption DEF Index
  <2> SUFFICES ASSUME NEW i \in 1 .. Len(hooks), NEW j \in 1 .. Len(hooks),
                      j < i, onStart'[i] # "no"
               PROVE  Active(j)'
    BY <2>1
  <2>5. onStart[i] # "no"
    BY <2>1, <2>2, <2>4
  <2>6. Active(j) /\ j # inflight
    BY <2>3, <2>5
  <2> QED BY <2>1, <2>4, <2>6
<1>5. CASE PrepareForUnwind \/ UnwindStarted \/ Stop
  BY <1>5 DEF PrepareForUnwind, UnwindStarted, Stop, history
<1>6. CASE DropStop \/ FinishStop \/ ExhaustUnwind \/ OnStopOk \/ OnStopErr
  BY <1>6 DEF DropStop, FinishStop, ExhaustUnwind, OnStopOk, OnStopErr, OnStopEnds, MayTake, registry
<1>7. CASE \E i \in Index : TakeNextStart(i) \/ TakeNextStop(i)
  BY <1>7 DEF TakeNextStart, TakeNextStop
<1> QED BY <1>1, <1>2, <1>3, <1>4, <1>5, <1>6, <1>7 DEF Next, Progress

\* Every hook is started after all that were registered before it, for any appends,
\* failures and drops: start_inner of src/lifecycle.rs.
THEOREM StartsFollowRegistration == Spec => []StartsInOrder
<1>1. Init => StartsInOrder
  BY DEF Init, StartsInOrder
<1>2. ASSUME IInv, IInv', StartsInOrder, [Next]_vars PROVE StartsInOrder'
  <2>1. CASE phase' # "Stopping"
    <3>1. (IInv /\ phase # "Stopping" => StartsInOrder)'
      BY StartingInOrder, PTL
    <3> QED BY <1>2, <2>1, <3>1
  <2>2. CASE phase # "Stopping" /\ phase' = "Stopping"
    BY <1>2, <2>2, EndsInOrder
  <2>3. CASE phase = "Stopping"
    BY <1>2, <2>3, StartsAreOver DEF StartsInOrder, Active, HasStart
  <2> QED BY <2>1, <2>2, <2>3
<1> QED BY <1>1, <1>2, Invariant, PTL DEF Spec

-----------------------------------------------------------------------------
(* The registry implements its contract *)

\* Initial states map to initial states.
LEMMA InitMaps == Init => Contract!Init
  BY DEF Init, Contract!Init, Contract!Index

\* Every step maps to a step of the contract, or to a stutter.
LEMMA StepMaps == IInv /\ [Next]_vars => [Contract!Next]_(Contract!vars)
<1> SUFFICES ASSUME IInv, [Next]_vars PROVE [Contract!Next]_(Contract!vars)
  OBVIOUS
<1> USE BoundAssumption
    DEF IInv, TypeOK, registry, driver, history, HasStart, HasStop, Active, Owed, Settled,
        Contract!Next, Contract!vars, Contract!HasStart, Contract!HasStop, Contract!Active,
        Contract!Owed, Contract!Settled
<1>1. ASSUME NEW k \in Kinds, AppendHook(k) PROVE Contract!Next
  <2>1. Contract!Register(k)
    BY <1>1 DEF AppendHook, MayAppend, Contract!Register
  <2> QED BY <2>1
<1>2. CASE Start
  BY <1>2 DEF Start
<1>3. CASE DropStart
  <2>1. Contract!EndStart(inflight, "dropped")
    BY <1>3 DEF DropStart, Activate, Contract!EndStart, InflightInv
  <2>2. inflight \in 1 .. Len(hooks)
    BY <1>3 DEF DropStart
  <2> QED BY <2>1, <2>2
<1>4. CASE PrepareForUnwind
  <2>1. Contract!BeginStopping
    BY <1>4 DEF PrepareForUnwind, Activate, Contract!BeginStopping, HistoryInv
  <2> QED BY <2>1
<1>5. CASE UnwindStarted
  BY <1>5 DEF UnwindStarted
<1>6. CASE Stop
  <2>1. Contract!BeginStopping
    BY <1>6 DEF Stop, Contract!BeginStopping, HistoryInv
  <2> QED BY <2>1
<1>7. CASE DropStop
  <2>1. Contract!EndStop(inflight, "dropped")
    BY <1>7 DEF DropStop, WriteBack, Contract!EndStop, InflightInv
  <2>2. inflight \in 1 .. Len(hooks)
    BY <1>7 DEF DropStop
  <2> QED BY <2>1, <2>2
<1>8. ASSUME NEW i \in Index, TakeNextStart(i) PROVE Contract!Next
  <2>1. i \in 1 .. Len(hooks)
    BY <1>8 DEF TakeNextStart, IsNextStart
  <2>2. Contract!BeginStart(i)
    <3>1. phase = "Starting" /\ inflight = 0
      BY <1>8 DEF TakeNextStart, PhaseInv
    <3>2. HasStart(i) /\ onStart[i] = "no"
      BY <1>8, <2>1, <3>1 DEF TakeNextStart, IsNextStart, StartSkips, StartingInv
    <3>3. \A j \in 1 .. (i - 1) : Active(j)
      BY <1>8, <2>1, <3>1 DEF TakeNextStart, IsNextStart, StartSkips, StartingInv
    <3> QED BY <1>8, <2>1, <3>1, <3>2, <3>3 DEF TakeNextStart, Contract!BeginStart
  <2> QED BY <2>1, <2>2
<1>9. ASSUME NEW i \in Index, TakeNextStop(i) PROVE Contract!Next
  <2>1. i \in 1 .. Len(hooks)
    BY <1>9 DEF TakeNextStop, IsNextStop
  <2>2. Contract!BeginStop(i)
    <3>1. phase = "Stopping" /\ inflight = 0 /\ i \in inner /\ HasStop(i)
      BY <1>9 DEF TakeNextStop, IsNextStop, StopSkips, MayTake, PhaseInv
    <3>2. Owed(i) /\ onStop[i] # "running"
      BY <1>9, <2>1, <3>1 DEF StoppingInv, HistoryInv
    <3>3. \A j \in (i + 1) .. Len(hooks) : ~Owed(j)
      BY <1>9, <2>1, <3>1 DEF TakeNextStop, IsNextStop, StopSkips, StoppingInv
    <3> QED BY <1>9, <2>1, <3>1, <3>2, <3>3 DEF TakeNextStop, Contract!BeginStop
  <2> QED BY <2>1, <2>2
<1>10. CASE FinishStart
  <2>1. Contract!Ready
    BY <1>10 DEF FinishStart, StartSkips, Contract!Ready, StartingInv, PhaseInv
  <2> QED BY <2>1
<1>11. CASE FinishStop
  BY <1>11 DEF FinishStop, FinishPass
<1>12. CASE ExhaustUnwind
  BY <1>12 DEF ExhaustUnwind
<1>13. CASE OnStartOk
  <2>1. Contract!EndStart(inflight, "ok")
    BY <1>13 DEF OnStartOk, PutBack, Contract!EndStart, InflightInv, PhaseInv
  <2>2. inflight \in 1 .. Len(hooks)
    BY <1>13 DEF OnStartOk
  <2> QED BY <2>1, <2>2
<1>14. CASE OnStartErr
  <2>1. Contract!EndStart(inflight, "failed")
    BY <1>14 DEF OnStartErr, Activate, Contract!EndStart, InflightInv, PhaseInv
  <2>2. inflight \in 1 .. Len(hooks)
    BY <1>14 DEF OnStartErr
  <2> QED BY <2>1, <2>2
<1>15. ASSUME NEW verdict \in {"ok", "failed"}, OnStopEnds(verdict) PROVE Contract!Next
  <2>1. Contract!EndStop(inflight, verdict)
    BY <1>15 DEF OnStopEnds, Contract!EndStop, InflightInv, PhaseInv
  <2>2. inflight \in 1 .. Len(hooks)
    BY <1>15 DEF OnStopEnds
  <2> QED BY <2>1, <2>2
<1>16. CASE UNCHANGED vars
  BY <1>16 DEF vars
<1> QED
  BY <1>1, <1>2, <1>3, <1>4, <1>5, <1>6, <1>7, <1>8, <1>9, <1>10, <1>11, <1>12, <1>13, <1>14,
     <1>15, <1>16 DEF Next, Progress, OnStopOk, OnStopErr

\* The registry, for every sequence of hooks and every driver that respects the
\* guards of Lifecycle, behaves as its documentation promises.
THEOREM Refinement == Spec => ImplementsContract
  BY InitMaps, StepMaps, Invariant, PTL DEF Spec, ImplementsContract, Contract!Spec

HIDE DEF Index, Calls

-----------------------------------------------------------------------------
(* The driver. *)

\* Dropping the future of a phase is a drop of start(), stop() or unwind_started().
LEMMA DropWorkSteps == DropWork => [Next]_vars
  BY DEF DropWork, Next

\* What every poll of the driver does to the registry.
LEMMA PollSteps == Poll => [Next]_vars
<1> SUFFICES ASSUME Poll PROVE [Next]_vars
  OBVIOUS
<1>1. CASE Setup \/ Build \/ StartYields \/ StopYields \/ Wake
  BY <1>1 DEF Setup, Build, StartYields, StopYields, Wake
<1>2. CASE BeginStart \/ Prepare \/ BeginUnwind
  BY <1>2 DEF BeginStart, Prepare, BeginUnwind, Next
<1>3. CASE StartStep \/ StopStep
  BY <1>3 DEF StartStep, StopStep, Next, Progress
<1>4. CASE StartFails \/ StartSucceeds \/ StopReturns
  BY <1>4 DEF StartFails, StartSucceeds, StopReturns, Next, Progress
<1>5. CASE LookTimer
  BY <1>5, DropWorkSteps DEF LookTimer
<1>6. CASE LookShutdown
  BY <1>6, DropWorkSteps DEF LookShutdown
<1>7. CASE LookSignal
  BY <1>7, DropWorkSteps DEF LookSignal
<1> QED BY <1>1, <1>2, <1>3, <1>4, <1>5, <1>6, <1>7 DEF Poll

\* Every step of the application, its environment included.
LEMMA AppSteps == [AppNext]_<<vars, appVars>> => [Next]_vars
<1> SUFFICES ASSUME [AppNext]_<<vars, appVars>> PROVE [Next]_vars
  OBVIOUS
<1>1. CASE Poll
  BY <1>1, PollSteps
<1>2. CASE EndSteady \/ SomeoneAppends
  BY <1>2 DEF EndSteady, SomeoneAppends, Next
<1>3. CASE Abandon \/ Panics
  BY <1>3, DropWorkSteps DEF Abandon, Panics
<1>4. CASE Expire \/ RequestShutdown \/ SignalArrives \/ \E i \in Index : TaskFails(i)
  BY <1>4 DEF Expire, RequestShutdown, SignalArrives, TaskFails
<1>5. CASE Returned
  BY <1>5 DEF Returned
<1>6. CASE UNCHANGED <<vars, appVars>>
  BY <1>6
<1> QED BY <1>1, <1>2, <1>3, <1>4, <1>5, <1>6 DEF AppNext

\* The application is a driver that Lifecycle allows.
THEOREM AppDrivesLifecycle == AppSpec => Spec
<1>1. AppInit => Init
  BY DEF AppInit
<1> QED BY <1>1, AppSteps, PTL DEF AppSpec, Spec

\* What a hook author is promised holds of an application that calls run() or start().
THEOREM AppImplementsContract == AppSpec => ImplementsContract
  BY AppDrivesLifecycle, Refinement, PTL

\* The registry's invariant holds throughout run() and start().
THEOREM AppInvariant == AppSpec => []IInv
  BY AppDrivesLifecycle, Invariant, PTL
-----------------------------------------------------------------------------
(* The types of App's own variables; those of the registry are in IInv. *)

\* The names of errors with no hook behind them.
PlainNames == {"Setup", "Invoke", "BuildTimeout", "StartTimeout", "UnwindTimeout",
               "StopTimeout", "TaskFailedDuringStart"}

\* Plain makes an error of each.
LEMMA PlainIsError == \A name \in PlainNames : Plain(name) \in Error
<1>1. 0 \in 0 .. MaxHooks
  BY BoundAssumption
<1> QED BY <1>1 DEF PlainNames, Plain, Error

\* What the clean-up returns are errors: those of hooks, or its timeout.
LEMMA CleanupErrors ==
  ASSUME TypeOK PROVE TimedOutResult \subseteq Error /\ PassResult \subseteq Error
<1>1. TimedOutResult \subseteq Error
  BY PlainIsError DEF TimedOutResult, PlainNames
<1>2. Aggregate(errors) \subseteq Error
  <2>1. \A i \in errors : i \in 0 .. MaxHooks
    BY BoundAssumption DEF TypeOK, Index
  <2> QED BY <2>1 DEF Aggregate, Error
<1> QED BY <1>1, <1>2 DEF PassResult

\* A roll-back with typed errors.
LEMMA RollbackTypes ==
  ASSUME OwnTypes, NEW how \in {"error", "interrupt", "signal"}, NEW errs \in SUBSET Error,
         Rollback(how, errs)
  PROVE  /\ at' = "rollback" /\ look' = "work" /\ overdue' = FALSE
         /\ via' = how /\ cause' \subseteq Error /\ result' \subseteq Error
         /\ early' \subseteq Index
  BY DEF OwnTypes, Rollback, Enter

\* The value that is returned consists of errors.
LEMMA ConcludeTypes ==
  ASSUME OwnTypes, NEW cleanup \in SUBSET Error, Conclude(cleanup)
  PROVE  /\ at' = "done" /\ look' = "work" /\ overdue' = FALSE
         /\ result' \subseteq Error /\ UNCHANGED <<via, cause, early>>
<1>1. FinishRun(cleanup) \subseteq Error
  BY DEF OwnTypes, FinishRun
<1>2. FinishInterrupt(cleanup) \subseteq Error
  BY PlainIsError DEF FinishInterrupt, PlainNames
<1> QED BY <1>1, <1>2 DEF Conclude, Enter

\* Every step of the application keeps its types.
LEMMA AppStepTypes ==
  ASSUME TypeOK, OwnTypes, [AppNext]_<<vars, appVars>> PROVE OwnTypes'
<1> USE DEF WorkKeeps, KeepPhase, shutdowner, ending
<1>1. CASE Setup
  <2>1. {Plain("Setup")} \subseteq Error
    BY PlainIsError DEF PlainNames
  <2> QED BY <1>1, <2>1 DEF Setup, Enter, OwnTypes
<1>2. CASE Build
  <2>1. {Plain("Invoke")} \in SUBSET Error /\ {Plain("BuildTimeout")} \in SUBSET Error
    BY PlainIsError DEF PlainNames
  <2>2. CASE \E errs \in SUBSET Error : Rollback("error", errs)
    BY <1>2, <2>2, RollbackTypes DEF Build, OwnTypes
  <2>3. CASE Yields
    BY <1>2, <2>3 DEF Build, Yields, OwnTypes
  <2>4. CASE Enter("start") /\ UNCHANGED ending
    BY <1>2, <2>4 DEF Build, Enter, OwnTypes
  <2> QED BY <1>2, <2>1, <2>2, <2>3, <2>4 DEF Build
<1>3. CASE BeginStart \/ StartStep \/ StopStep
  BY <1>3 DEF BeginStart, StartStep, StopStep, appVars, OwnTypes
<1>4. CASE StartYields \/ StopYields \/ Wake
  BY <1>4 DEF StartYields, StopYields, Wake, Yields, OwnTypes
<1>5. CASE StartFails
  <2>1. {<<"OnStart", inflight>>} \in SUBSET Error
    <3>1. inflight \in 0 .. MaxHooks
      BY BoundAssumption DEF TypeOK
    <3> QED BY <3>1 DEF Error
  <2> QED BY <1>5, <2>1, RollbackTypes DEF StartFails, OwnTypes
<1>6. CASE StartSucceeds
  <2>1. {Plain("StartTimeout")} \in SUBSET Error
    BY PlainIsError DEF PlainNames
  <2>2. CASE Rollback("error", {Plain("StartTimeout")})
    BY <1>6, <2>1, <2>2, RollbackTypes DEF StartSucceeds, OwnTypes
  <2>3. CASE Enter("steady") /\ UNCHANGED ending
    BY <1>6, <2>3 DEF StartSucceeds, Enter, OwnTypes
  <2> QED BY <1>6, <2>2, <2>3 DEF StartSucceeds
<1>7. CASE EndSteady \/ Prepare \/ BeginUnwind
  BY <1>7 DEF EndSteady, Prepare, BeginUnwind, Enter, OwnTypes
<1>8. CASE StopReturns
  BY <1>8, CleanupErrors, ConcludeTypes DEF StopReturns, OwnTypes
<1>9. CASE LookTimer
  <2>1. {Plain("BuildTimeout")} \in SUBSET Error /\ {Plain("StartTimeout")} \in SUBSET Error
    BY PlainIsError DEF PlainNames
  <2>2. CASE \E errs \in SUBSET Error : Rollback("error", errs)
    BY <1>9, <2>2, RollbackTypes DEF LookTimer, OwnTypes
  <2>3. CASE Conclude(TimedOutResult)
    BY <1>9, <2>3, CleanupErrors, ConcludeTypes DEF LookTimer, OwnTypes
  <2>4. CASE look' \in {"shutdown", "parked"} /\ KeepPhase
    BY <1>9, <2>4 DEF LookTimer, OwnTypes
  <2> QED BY <1>9, <2>1, <2>2, <2>3, <2>4 DEF LookTimer
<1>10. CASE LookShutdown
  <2>1. CASE Rollback("interrupt", {})
    BY <1>10, <2>1, RollbackTypes DEF LookShutdown, OwnTypes
  <2>2. CASE look' = "signal" /\ KeepPhase
    BY <1>10, <2>2 DEF LookShutdown, OwnTypes
  <2> QED BY <1>10, <2>1, <2>2 DEF LookShutdown
<1>11. CASE LookSignal
  <2>1. CASE Rollback("signal", {}) /\ requested' = TRUE /\ signalled' = FALSE
    BY <1>11, <2>1, RollbackTypes DEF LookSignal, OwnTypes
  <2>2. CASE look' = "parked" /\ KeepPhase /\ UNCHANGED <<requested, signalled>>
    BY <1>11, <2>2 DEF LookSignal, OwnTypes
  <2> QED BY <1>11, <2>1, <2>2 DEF LookSignal
<1>12. CASE SomeoneAppends \/ Expire \/ RequestShutdown \/ SignalArrives
  BY <1>12 DEF SomeoneAppends, Expire, RequestShutdown, SignalArrives, appVars, OwnTypes
<1>13. CASE \E i \in Index : TaskFails(i)
  BY <1>13 DEF TaskFails, OwnTypes
<1>14. CASE Abandon \/ Panics
  BY <1>14 DEF Abandon, Panics, Enter, OwnTypes
<1>15. CASE Returned \/ UNCHANGED <<vars, appVars>>
  BY <1>15 DEF Returned, appVars, OwnTypes
<1> QED
  BY <1>1, <1>2, <1>3, <1>4, <1>5, <1>6, <1>7, <1>8, <1>9, <1>10, <1>11, <1>12, <1>13, <1>14,
     <1>15 DEF AppNext, Poll

\* Types: the driver's phase, looks and errors stay in their ranges, and what
\* run() and start() return are errors of hooks that exist or of a phase.
THEOREM AppTypeCorrect == AppSpec => []AppTypeOK
<1>1. AppInit => OwnTypes
  BY DEF AppInit, OwnTypes
<1>2. IInv /\ OwnTypes /\ [AppNext]_<<vars, appVars>> => OwnTypes'
  BY AppStepTypes DEF IInv
<1>3. IInv /\ OwnTypes => AppTypeOK
  BY DEF IInv, OwnTypes, AppTypeOK
<1> QED BY <1>1, <1>2, <1>3, AppInvariant, PTL DEF AppSpec

-----------------------------------------------------------------------------
(***************************************************************************)
(* What run() and start() return: the safety properties of App.            *)
(***************************************************************************)

\* The other branches of a poll are only looked at where there are some: the timer
\* where a future is polled, the select! in the build and the start.
LookInv ==
  /\ look # "work" => at \in {"build", "start", "stop", "unwind"}
  /\ look \in {"shutdown", "signal"} => at \in {"build", "start"}

\* Before the options are applied, no hook exists.
SetupInv ==
  at = "setup" => hooks = << >> /\ dead = {} /\ via = "none"

\* An OnStart that failed is in the error in hand, which it has ended the start with.
FailedStartInv ==
  \A i \in Index : onStart[i] = "failed" =>
    /\ at \notin {"setup", "build", "start", "steady", "stop"}
    /\ <<"OnStart", i>> \in cause /\ via = "error"

\* While a pass runs, the Vec holds the OnStops that failed; before, none has.
FailedStopInv ==
  \A i \in Index : onStop[i] = "failed" =>
    at \in {"done", "abandoned"} \/ (at \in {"stop", "unwind"} /\ i \in errors)

\* Only callbacks that failed are in the Vec.
ErrorsInv ==
  at \in {"stop", "unwind"} => \A i \in errors : onStop[i] = "failed"

\* A task that failed had been started, and its OnStop does not succeed any more.
DeadInv ==
  /\ \A i \in dead :
       /\ i \in 1 .. Len(hooks) /\ hooks[i] \in TaskKinds
       /\ onStart[i] = "ok" /\ onStop[i] # "ok"
  /\ failed => dead # {}

\* There is no error in hand when a request or a signal ends a phase.
CauseInv == via \in {"interrupt", "signal"} => cause = {}

\* What the returned value says.
Outcome == OkMeansCleanEnd /\ ErrorsSurface /\ TaskFailureSurfaces /\ GracefulIsOk

\* The phase of the driver and what it has in hand, related to the registry.
DriverInv ==
  /\ LookInv /\ SetupInv /\ FailedStartInv /\ FailedStopInv /\ ErrorsInv
  /\ DeadInv /\ CauseInv

-----------------------------------------------------------------------------

\* Nothing has happened in the initial state.
LEMMA InitDriver == AppInit => DriverInv /\ Outcome
<1> SUFFICES ASSUME AppInit PROVE DriverInv /\ Outcome
  OBVIOUS
<1> USE DEF AppInit, Init
<1>1. DriverInv
  BY DEF DriverInv, LookInv, SetupInv, FailedStartInv, FailedStopInv, ErrorsInv, DeadInv,
         CauseInv, Index
<1>2. Outcome
  BY DEF Outcome, OkMeansCleanEnd, ErrorsSurface, TaskFailureSurfaces, GracefulIsOk
<1> QED BY <1>1, <1>2

-----------------------------------------------------------------------------
(* What a step of the registry does to the history of callbacks. *)

\* An entry keeps its kind, and an OnStart that returned Ok stays so.
LEMMA HistoryKept ==
  ASSUME IInv, [Next]_vars, NEW i \in 1 .. Len(hooks)
  PROVE  /\ i \in 1 .. Len(hooks') /\ hooks'[i] = hooks[i]
         /\ onStart[i] = "ok" => onStart'[i] = "ok"
<1> USE DEF IInv, TypeOK, Index, registry, driver, history
<1>1. CASE \E k \in Kinds : AppendHook(k)
  BY <1>1 DEF AppendHook
<1>2. CASE Start \/ PrepareForUnwind \/ UnwindStarted \/ Stop
  BY <1>2 DEF Start, PrepareForUnwind, UnwindStarted, Stop, Activate
<1>3. CASE OnStartOk \/ OnStartErr \/ DropStart
  <2>1. UNCHANGED hooks /\ \A j \in Index \ {inflight} : onStart'[j] = onStart[j]
    BY <1>3 DEF OnStartOk, OnStartErr, DropStart
  <2>2. onStart[inflight] = "running"
    BY <1>3 DEF OnStartOk, OnStartErr, DropStart, InflightInv
  <2>3. i \in Index
    BY BoundAssumption
  <2> QED BY <2>1, <2>2, <2>3
<1>4. CASE \E j \in Index : TakeNextStart(j)
  BY <1>4 DEF TakeNextStart, IsNextStart, StartingInv, PhaseInv
<1>5. CASE FinishStart \/ FinishStop \/ ExhaustUnwind
  BY <1>5 DEF FinishStart, FinishStop, ExhaustUnwind, FinishPass
<1>6. CASE OnStopOk \/ OnStopErr \/ DropStop \/ \E j \in Index : TakeNextStop(j)
  BY <1>6 DEF OnStopOk, OnStopErr, OnStopEnds, DropStop, TakeNextStop
<1>7. CASE UNCHANGED vars
  BY <1>7 DEF vars
<1> QED BY <1>1, <1>2, <1>3, <1>4, <1>5, <1>6, <1>7 DEF Next, Progress

\* No drop of a future makes a callback return.
LEMMA DropReturnsNothing ==
  ASSUME IInv, DropWork, NEW i \in Index
  PROVE  /\ onStart'[i] = "failed" => onStart[i] = "failed"
         /\ onStop'[i] \in {"ok", "failed"} => onStop'[i] = onStop[i]
<1> USE DEF IInv, TypeOK
<1>1. CASE at = "start"
  BY <1>1 DEF DropWork, DropStart
<1>2. CASE at \in {"stop", "unwind"}
  BY <1>2 DEF DropWork, DropStop
<1>3. CASE at \notin {"start", "stop", "unwind"}
  BY <1>3 DEF DropWork, vars, history
<1> QED BY <1>1, <1>2, <1>3

-----------------------------------------------------------------------------
(* Each part of the invariant is kept by every step of the application. *)

\* The looks of a poll, the setup, and the error in hand.
LEMMA PhaseStep ==
  ASSUME OwnTypes, LookInv, SetupInv, CauseInv, [AppNext]_<<vars, appVars>>
  PROVE  LookInv' /\ SetupInv' /\ CauseInv'
<1> USE DEF LookInv, SetupInv, CauseInv, OwnTypes, WorkKeeps, KeepPhase, shutdowner, ending,
            Enter, Rollback, Conclude
<1>1. CASE Setup \/ Build
  BY <1>1 DEF Setup, Build, Yields
<1>2. CASE BeginStart \/ StartStep \/ StopStep
  BY <1>2 DEF BeginStart, StartStep, StopStep, appVars
<1>3. CASE StartYields \/ StopYields \/ Wake
  BY <1>3 DEF StartYields, StopYields, Wake, Yields
<1>4. CASE StartFails \/ StartSucceeds
  BY <1>4 DEF StartFails, StartSucceeds
<1>5. CASE EndSteady \/ Prepare \/ BeginUnwind
  BY <1>5 DEF EndSteady, Prepare, BeginUnwind
<1>6. CASE StopReturns
  BY <1>6 DEF StopReturns
<1>7. CASE LookTimer
  BY <1>7 DEF LookTimer
<1>8. CASE LookShutdown \/ LookSignal
  BY <1>8 DEF LookShutdown, LookSignal
<1>9. CASE SomeoneAppends \/ Expire \/ RequestShutdown \/ SignalArrives
  BY <1>9 DEF SomeoneAppends, Expire, RequestShutdown, SignalArrives, appVars, vars, registry
<1>10. CASE \E i \in Index : TaskFails(i)
  BY <1>10 DEF TaskFails, vars, registry
<1>11. CASE Abandon \/ Panics
  BY <1>11 DEF Abandon, Panics
<1>12. CASE Returned \/ UNCHANGED <<vars, appVars>>
  BY <1>12 DEF Returned, appVars, vars, registry
<1> QED
  BY <1>1, <1>2, <1>3, <1>4, <1>5, <1>6, <1>7, <1>8, <1>9, <1>10, <1>11, <1>12
  DEF AppNext, Poll


\* A failed OnStart ends the start, with its error in hand.
LEMMA FailedStartStep ==
  ASSUME IInv, OwnTypes, SetupInv, LookInv, FailedStartInv, [AppNext]_<<vars, appVars>>
  PROVE  FailedStartInv'
<1> USE DEF FailedStartInv, OwnTypes, WorkKeeps, KeepPhase, shutdowner, ending,
            Enter, Rollback, Conclude
<1>1. CASE Setup \/ Build \/ StartYields \/ StopYields \/ Wake
  BY <1>1 DEF Setup, Build, StartYields, StopYields, Wake, Yields, vars, history
<1>2. CASE BeginStart \/ StopStep \/ StopReturns
  BY <1>2 DEF BeginStart, Start, StopStep, TakeNextStop, OnStopOk, OnStopErr, OnStopEnds,
              StopReturns, FinishStop, ExhaustUnwind, appVars, history
<1>3. CASE StartStep
  BY <1>3 DEF StartStep, TakeNextStart, OnStartOk, appVars, IInv, TypeOK
<1>4. CASE StartFails
  BY <1>4 DEF StartFails, OnStartErr, IInv, TypeOK
<1>5. CASE StartSucceeds \/ EndSteady \/ Prepare \/ BeginUnwind
  BY <1>5 DEF StartSucceeds, FinishStart, EndSteady, Stop, Prepare, PrepareForUnwind,
              BeginUnwind, UnwindStarted, history
<1>6. CASE LookTimer \/ LookShutdown \/ LookSignal
  BY <1>6, DropReturnsNothing DEF LookTimer, LookShutdown, LookSignal, LookInv, vars, history
<1>7. CASE SomeoneAppends \/ Expire \/ RequestShutdown \/ SignalArrives
  BY <1>7 DEF SomeoneAppends, AppendHook, Expire, RequestShutdown, SignalArrives, appVars,
              vars, history
<1>8. CASE \E i \in Index : TaskFails(i)
  BY <1>8 DEF TaskFails, vars, history
<1>9. CASE Abandon \/ Panics
  BY <1>9, DropReturnsNothing DEF Abandon, Panics
<1>10. CASE Returned \/ UNCHANGED <<vars, appVars>>
  BY <1>10 DEF Returned, appVars, vars, history
<1> QED
  BY <1>1, <1>2, <1>3, <1>4, <1>5, <1>6, <1>7, <1>8, <1>9, <1>10 DEF AppNext, Poll

\* The Vec of a pass holds exactly the OnStops that failed.
LEMMA FailedStopStep ==
  ASSUME IInv, OwnTypes, LookInv, FailedStopInv, ErrorsInv, [AppNext]_<<vars, appVars>>
  PROVE  FailedStopInv' /\ ErrorsInv'
<1> USE DEF FailedStopInv, ErrorsInv, OwnTypes, WorkKeeps, KeepPhase, shutdowner, ending,
            Enter, Rollback, Conclude
<1>1. CASE Setup \/ Build \/ StartYields \/ StopYields \/ Wake
  BY <1>1 DEF Setup, Build, StartYields, StopYields, Wake, Yields, vars, driver, history
<1>2. CASE BeginStart \/ StartStep \/ StartFails \/ StartSucceeds
  BY <1>2 DEF BeginStart, Start, StartStep, TakeNextStart, OnStartOk, StartFails, OnStartErr,
              StartSucceeds, FinishStart, appVars, history
<1>3. CASE EndSteady \/ Prepare \/ BeginUnwind
  BY <1>3 DEF EndSteady, Stop, Prepare, PrepareForUnwind, BeginUnwind, UnwindStarted,
              driver, history
<1>4. CASE StopStep
  <2>1. CASE \E i \in Index : TakeNextStop(i)
    <3>1. PICK i \in Index : TakeNextStop(i)
      BY <2>1
    <3>2. onStop[i] # "failed"
      BY <3>1 DEF TakeNextStop, IsNextStop, StopSkips, MayTake, IInv, TypeOK, PhaseInv,
                  StoppingInv, Settled
    <3> QED BY <1>4, <3>1, <3>2 DEF StopStep, TakeNextStop, appVars, IInv, TypeOK
  <2>2. CASE OnStopOk \/ OnStopErr
    <3>1. onStop[inflight] = "running"
      BY <2>2 DEF OnStopOk, OnStopErr, OnStopEnds, IInv, InflightInv
    <3>2. at \in {"stop", "unwind"} /\ UNCHANGED at
      BY <1>4 DEF StopStep, appVars
    <3>3. inflight \in Index
      BY <2>2, BoundAssumption DEF OnStopOk, OnStopErr, OnStopEnds, IInv, TypeOK, Index
    <3> QED
      BY <2>2, <3>1, <3>2, <3>3 DEF OnStopOk, OnStopErr, OnStopEnds, IInv, TypeOK
  <2> QED BY <1>4, <2>1, <2>2 DEF StopStep
<1>5. CASE StopReturns
  BY <1>5 DEF StopReturns, FinishStop, ExhaustUnwind, history
<1>6. CASE LookTimer \/ LookShutdown \/ LookSignal
  <2>1. CASE DropWork /\ at \in {"build", "start"} /\ at' = "rollback"
    BY <2>1, DropReturnsNothing
  <2>2. CASE DropWork /\ at' = "done"
    BY <2>2, DropReturnsNothing
  <2>3. CASE UNCHANGED <<at, vars>>
    BY <2>3 DEF vars, driver, history
  <2> QED BY <1>6, <2>1, <2>2, <2>3 DEF LookTimer, LookShutdown, LookSignal, LookInv
<1>7. CASE SomeoneAppends \/ Expire \/ RequestShutdown \/ SignalArrives
  BY <1>7 DEF SomeoneAppends, AppendHook, Expire, RequestShutdown, SignalArrives, appVars,
              vars, driver, history
<1>8. CASE \E i \in Index : TaskFails(i)
  BY <1>8 DEF TaskFails, vars, driver, history
<1>9. CASE Abandon \/ Panics
  BY <1>9 DEF Abandon, Panics
<1>10. CASE Returned \/ UNCHANGED <<vars, appVars>>
  BY <1>10 DEF Returned, appVars, vars, driver, history
<1> QED
  BY <1>1, <1>2, <1>3, <1>4, <1>5, <1>6, <1>7, <1>8, <1>9, <1>10 DEF AppNext, Poll

\* An entry whose task may fail now has not been stopped with success.
LEMMA MayFail ==
  ASSUME IInv, NEW i \in Index, TaskFails(i) PROVE onStop[i] # "ok"
<1> USE DEF IInv, TypeOK, TaskFails
<1>1. CASE phase # "Stopping"
  BY <1>1 DEF StartingInv
<1>2. CASE phase = "Stopping" /\ i \in inner
  BY <1>2 DEF StoppingInv, Settled
<1>3. CASE phase = "Stopping" /\ i = inflight
  BY <1>3 DEF InflightInv, PhaseInv
<1> QED BY <1>1, <1>2, <1>3

\* What a step makes of the OnStop of a task that failed: it does not return Ok.
LEMMA DeadIsNotStopped ==
  ASSUME IInv, OwnTypes, DeadInv, [AppNext]_<<vars, appVars>>, NEW i \in dead
  PROVE  onStop'[i] # "ok"
<1> USE DEF OwnTypes, DeadInv, WorkKeeps
<1>1. CASE Setup \/ Build \/ StartYields \/ StopYields \/ Wake
  BY <1>1 DEF Setup, Build, StartYields, StopYields, Wake, vars, history
<1>2. CASE BeginStart \/ StartStep \/ StartFails \/ StartSucceeds
  BY <1>2 DEF BeginStart, Start, StartStep, TakeNextStart, OnStartOk, StartFails, OnStartErr,
              StartSucceeds, FinishStart, history
<1>3. CASE EndSteady \/ Prepare \/ BeginUnwind \/ StopReturns
  BY <1>3 DEF EndSteady, Stop, Prepare, PrepareForUnwind, BeginUnwind, UnwindStarted,
              StopReturns, FinishStop, ExhaustUnwind, history
<1>4. CASE StopStep
  BY <1>4 DEF StopStep, TakeNextStop, OnStopOk, OnStopErr, OnStopEnds, JoinSucceeds,
              IInv, TypeOK
<1>5. CASE LookTimer \/ LookShutdown \/ LookSignal \/ Abandon \/ Panics
  BY <1>5, DropReturnsNothing DEF LookTimer, LookShutdown, LookSignal, Abandon, Panics,
                                  vars, history
<1>6. CASE SomeoneAppends \/ Expire \/ RequestShutdown \/ SignalArrives
  BY <1>6 DEF SomeoneAppends, AppendHook, Expire, RequestShutdown, SignalArrives,
              vars, history
<1>7. CASE \E j \in Index : TaskFails(j)
  BY <1>7 DEF TaskFails, vars, history
<1>8. CASE Returned \/ UNCHANGED <<vars, appVars>>
  BY <1>8 DEF Returned, vars, history
<1> QED BY <1>1, <1>2, <1>3, <1>4, <1>5, <1>6, <1>7, <1>8 DEF AppNext, Poll

\* Which tasks have failed changes only where one fails.
LEMMA OnlyTasksFail ==
  ASSUME [AppNext]_<<vars, appVars>>, ~(\E i \in Index : TaskFails(i))
  PROVE  UNCHANGED <<dead, failed>>
<1> USE DEF WorkKeeps, shutdowner
<1>1. CASE Poll \/ EndSteady
  BY <1>1 DEF Poll, Setup, Build, BeginStart, StartStep, StartYields, StartFails,
              StartSucceeds, EndSteady, Prepare, BeginUnwind, StopStep, StopYields,
              StopReturns, LookTimer, LookShutdown, LookSignal, Wake, appVars
<1>2. CASE ~(Poll \/ EndSteady)
  BY <1>2 DEF AppNext, SomeoneAppends, Expire, RequestShutdown, SignalArrives, Abandon,
              Panics, Returned, appVars
<1> QED BY <1>1, <1>2

\* A task that has failed stays so, and its OnStop is not a success.
LEMMA DeadStep ==
  ASSUME IInv, OwnTypes, DeadInv, [AppNext]_<<vars, appVars>>
  PROVE  DeadInv'
<1>1. [Next]_vars
  BY AppSteps
<1>2. ASSUME NEW i \in dead
      PROVE  /\ i \in 1 .. Len(hooks') /\ hooks'[i] \in TaskKinds
             /\ onStart'[i] = "ok" /\ onStop'[i] # "ok"
  BY <1>1, <1>2, HistoryKept, DeadIsNotStopped DEF DeadInv
<1>3. CASE UNCHANGED <<dead, failed>>
  BY <1>2, <1>3 DEF DeadInv
<1>4. CASE \E i \in Index : TaskFails(i)
  <2>1. PICK i \in Index : TaskFails(i)
    BY <1>4
  <2>2. dead' = dead \cup {i} /\ UNCHANGED vars
    BY <2>1 DEF TaskFails
  <2>3. i \in 1 .. Len(hooks) /\ hooks[i] \in TaskKinds /\ onStart[i] = "ok" /\ onStop[i] # "ok"
    BY <2>1, MayFail DEF TaskFails
  <2> QED BY <1>2, <2>2, <2>3 DEF DeadInv, vars, registry, history
<1> QED BY <1>3, <1>4, OnlyTasksFail

\* All parts together.
LEMMA DriverStep ==
  ASSUME IInv, OwnTypes, DriverInv, [AppNext]_<<vars, appVars>>
  PROVE  DriverInv'
  BY PhaseStep, FailedStartStep, FailedStopStep, DeadStep DEF DriverInv

-----------------------------------------------------------------------------
(* The steps in which run() and start() return. *)

\* Nothing happens once they have returned.
LEMMA DoneIsFinal ==
  ASSUME LookInv, at = "done", [AppNext]_<<vars, appVars>>
  PROVE  UNCHANGED <<vars, appVars>>
<1> USE DEF LookInv
<1>1. ~Poll /\ ~EndSteady
  BY DEF Poll, Setup, Build, BeginStart, StartStep, StartYields, StartFails, StartSucceeds,
         EndSteady, Prepare, BeginUnwind, StopStep, StopYields, StopReturns, LookTimer,
         LookShutdown, LookSignal, Wake
<1>2. ~SomeoneAppends /\ ~Expire /\ ~RequestShutdown /\ ~SignalArrives
  BY DEF SomeoneAppends, Expire, RequestShutdown, SignalArrives
<1>3. ~(\E i \in Index : TaskFails(i)) /\ ~Abandon /\ ~Panics
  BY DEF TaskFails, Abandon, Panics
<1> QED BY <1>1, <1>2, <1>3 DEF AppNext, Returned

\* They return from the setup, when the clean-up's budget is over, or when it ends.
LEMMA EntersDone ==
  ASSUME LookInv, at # "done", at' = "done", [AppNext]_<<vars, appVars>>
  PROVE  \/ Setup /\ result' # {}
         \/ LookTimer /\ DropWork /\ Conclude(TimedOutResult)
         \/ StopReturns
<1> USE DEF LookInv, WorkKeeps, KeepPhase, Enter
<1>1. CASE Setup
  BY <1>1 DEF Setup
<1>2. CASE LookTimer
  BY <1>2 DEF LookTimer, Rollback
<1>3. CASE Poll /\ ~Setup /\ ~LookTimer /\ ~StopReturns
  BY <1>3 DEF Poll, Build, BeginStart, StartStep, StartYields, StartFails, StartSucceeds,
              Prepare, BeginUnwind, StopStep, StopYields, LookShutdown, LookSignal, Wake,
              Yields, Rollback, appVars
<1>4. CASE EndSteady \/ SomeoneAppends \/ Expire \/ RequestShutdown \/ SignalArrives
  BY <1>4 DEF EndSteady, SomeoneAppends, Expire, RequestShutdown, SignalArrives, appVars
<1>5. CASE (\E i \in Index : TaskFails(i)) \/ Abandon \/ Panics
  BY <1>5 DEF TaskFails, Abandon, Panics
<1>6. CASE Returned \/ UNCHANGED <<vars, appVars>>
  BY <1>6 DEF Returned, appVars
<1> QED BY <1>1, <1>2, <1>3, <1>4, <1>5, <1>6 DEF AppNext, Poll

\* The returned errors include those of the clean-up, and the error in hand.
LEMMA ConcludeKeepsErrors ==
  ASSUME NEW cleanup, Conclude(cleanup)
  PROVE  /\ cleanup \subseteq result'
         /\ via # "interrupt" => result' = cause \cup cleanup
  BY DEF Conclude, FinishRun, FinishInterrupt

\* A failed OnStart is in what is returned, however the clean-up went.
LEMMA StartErrorSurfaces ==
  ASSUME FailedStartInv', NEW cleanup, Conclude(cleanup), NEW i \in Index,
         onStart'[i] = "failed"
  PROVE  <<"OnStart", i>> \in result'
<1>1. <<"OnStart", i>> \in cause' /\ via' = "error"
  BY DEF FailedStartInv
<1>2. cause' = cause /\ via' = via
  BY DEF Conclude
<1> QED BY <1>1, <1>2, ConcludeKeepsErrors

\* A clean-up that ran out of its budget.
LEMMA TimedOutOutcome ==
  ASSUME IInv', FailedStartInv', Conclude(TimedOutResult)
  PROVE  Outcome'
<1>1. TimedOutResult \subseteq result'
  BY ConcludeKeepsErrors
<1>2. TimedOut' /\ result' # {}
  BY <1>1 DEF TimedOutResult, TimedOut, Plain
<1>3. \A i \in 1 .. Len(hooks') : onStart'[i] = "failed" => <<"OnStart", i>> \in result'
  <2>1. \A i \in 1 .. Len(hooks') : i \in Index
    BY BoundAssumption DEF IInv, TypeOK, Index
  <2> QED BY <2>1, StartErrorSurfaces
<1> QED
  BY <1>2, <1>3 DEF Outcome, OkMeansCleanEnd, ErrorsSurface, TaskFailureSurfaces, GracefulIsOk

\* What a clean-up that ended has in its hands: the errors of its Vec, or a timeout.
LEMMA PassErrors ==
  /\ \A i \in errors : <<"OnStop", i>> \in PassResult
  /\ PassResult # {} /\ PassResult # TimedOutResult => errors # {}
<1>1. CASE errors = {}
  BY <1>1 DEF PassResult, Aggregate
<1>2. CASE errors # {}
  BY <1>2 DEF PassResult, Aggregate
<1> QED BY <1>1, <1>2

\* A clean-up that ended: nothing is owed, and every OnStop that failed is in its Vec.
LEMMA StopReturnsOutcome ==
  ASSUME IInv, IInv', OwnTypes, DriverInv, DriverInv', StopReturns
  PROVE  Outcome'
<1> DEFINE Old == 1 .. Len(hooks')
<1>1. /\ at \in {"stop", "unwind"} /\ Conclude(PassResult) /\ UNCHANGED <<hooks, dead, failed>>
      /\ UNCHANGED <<onStart, onStop, inflight>> /\ inflight = 0 /\ PassDone'
  <2>1. at \in {"stop", "unwind"} /\ Conclude(PassResult) /\ UNCHANGED <<dead, failed>>
    BY DEF StopReturns, WorkKeeps, shutdowner
  <2>2. UNCHANGED <<hooks, onStart, onStop, inflight>> /\ inflight = 0
    BY DEF StopReturns, FinishStop, ExhaustUnwind, history, registry
  <2>3. op \in {"stop", "unwind"} /\ FinishPass
    BY DEF StopReturns, FinishStop, ExhaustUnwind, MayTake
  <2> QED BY <2>1, <2>2, <2>3 DEF FinishPass, PassDone
<1>2. inner' = {} /\ \A i \in Old : ~Owed(i)'
  <2>1. inner' = {} /\ phase' = "Stopping"
    BY <1>1 DEF IInv, DoneInv
  <2> QED BY <1>1, <2>1 DEF IInv, StoppingInv, TypeOK
<1>3. \A i \in Old : i \in Index
  BY BoundAssumption DEF IInv, TypeOK, Index
<1>4. /\ PassResult \subseteq result'
      /\ via # "interrupt" => result' = cause \cup PassResult
  BY <1>1, ConcludeKeepsErrors
<1>5. \A i \in Old : onStop'[i] = "failed" => i \in errors /\ <<"OnStop", i>> \in result'
  BY <1>1, <1>3, <1>4, PassErrors DEF DriverInv, FailedStopInv
<1>6. \A i \in Old : onStart'[i] = "failed" => <<"OnStart", i>> \in result'
  BY <1>1, <1>3, StartErrorSurfaces DEF DriverInv
<1>7. \A i \in dead' : i \in Old /\ onStop'[i] = "failed"
  <2> SUFFICES ASSUME NEW i \in dead' PROVE i \in Old /\ onStop'[i] = "failed"
    OBVIOUS
  <2>1. /\ i \in Old /\ hooks'[i] \in TaskKinds
        /\ onStart'[i] = "ok" /\ onStop'[i] # "ok"
    BY DEF DriverInv, DeadInv
  <2>2. HasStop(i)' /\ Active(i)'
    BY <2>1, TaskAssumption DEF HasStop, Active
  <2> QED BY <1>2, <2>1, <2>2 DEF Owed, Settled
<1>8. OkMeansCleanEnd'
  BY <1>2, <1>5, <1>6 DEF OkMeansCleanEnd
<1>9. ErrorsSurface'
  BY <1>5, <1>6 DEF ErrorsSurface
<1>10. TaskFailureSurfaces'
  BY <1>5, <1>7 DEF TaskFailureSurfaces
<1>11. GracefulIsOk'
  <2> SUFFICES ASSUME via' \in {"interrupt", "signal"}, result' # {}
               PROVE  TimedOut' \/ \E i \in Old : onStop'[i] = "failed"
    BY DEF GracefulIsOk
  <2>1. via = via' /\ cause = {}
    BY <1>1 DEF Conclude, DriverInv, CauseInv
  <2>2. CASE PassResult = TimedOutResult
    BY <1>4, <2>2 DEF TimedOutResult, TimedOut, Plain
  <2>3. CASE PassResult # {} /\ PassResult # TimedOutResult
    <3>1. PICK i \in errors : onStop[i] = "failed"
      BY <1>1, <2>3, PassErrors DEF DriverInv, ErrorsInv
    <3>2. i \in 1 .. Len(hooks)
      BY <3>1 DEF IInv, TypeOK, HistoryInv, Index
    <3> QED BY <1>1, <3>1, <3>2
  <2>4. CASE PassResult = {}
    <3>1. dead # {}
      BY <1>1, <1>4, <2>1, <2>4 DEF Conclude, FinishInterrupt, DriverInv, DeadInv
    <3> QED BY <1>1, <1>7, <3>1
  <2> QED BY <2>2, <2>3, <2>4
<1> QED BY <1>8, <1>9, <1>10, <1>11 DEF Outcome

\* What is returned is right in every step.
LEMMA OutcomeStep ==
  ASSUME IInv, IInv', OwnTypes, DriverInv, DriverInv', Outcome, [AppNext]_<<vars, appVars>>
  PROVE  Outcome'
<1> USE DEF Outcome, OkMeansCleanEnd, ErrorsSurface, TaskFailureSurfaces, GracefulIsOk
<1>1. CASE at' # "done"
  BY <1>1
<1>2. CASE at = "done"
  <2>1. UNCHANGED <<vars, appVars>>
    BY <1>2, DoneIsFinal DEF DriverInv
  <2> QED
    BY <2>1 DEF vars, registry, driver, history, appVars, shutdowner, ending, TimedOut,
                Owed, HasStop, HasStart, Active, Settled
<1>3. CASE Setup /\ at' = "done" /\ result' # {}
  <2>1. hooks' = << >> /\ dead' = {} /\ via' = "none"
    BY <1>3 DEF Setup, Enter, WorkKeeps, DriverInv, SetupInv, vars, registry
  <2> QED BY <1>3, <2>1
<1>4. CASE Conclude(TimedOutResult)
  BY <1>4, TimedOutOutcome DEF DriverInv
<1>5. CASE StopReturns
  BY <1>5, StopReturnsOutcome
<1> QED BY <1>1, <1>2, <1>3, <1>4, <1>5, EntersDone DEF DriverInv

-----------------------------------------------------------------------------

\* The driver's phase, its errors in hand and the Vec agree with what callbacks did.
THEOREM DriverInvariant == AppSpec => [](DriverInv /\ Outcome)
<1>1. OwnTypes /\ IInv /\ IInv' /\ DriverInv /\ Outcome /\ [AppNext]_<<vars, appVars>>
      => DriverInv' /\ Outcome'
  BY DriverStep, OutcomeStep
<1>2. AppTypeOK => OwnTypes
  BY DEF AppTypeOK
<1> QED BY <1>1, <1>2, InitDriver, AppInvariant, AppTypeCorrect, PTL DEF AppSpec

\* Ok(()) from run() or start(): no callback failed and no OnStop is owed.
THEOREM OkIsClean == AppSpec => []OkMeansCleanEnd
<1>1. Outcome => OkMeansCleanEnd
  BY DEF Outcome
<1> QED BY <1>1, DriverInvariant, PTL

\* The error of a callback is in the value returned, unless the clean-up timed out.
THEOREM ErrorsReturned == AppSpec => []ErrorsSurface
<1>1. Outcome => ErrorsSurface
  BY DEF Outcome
<1> QED BY <1>1, DriverInvariant, PTL

\* A task that failed before the application was down makes run() an error.
THEOREM TaskFailureReturned == AppSpec => []TaskFailureSurfaces
<1>1. Outcome => TaskFailureSurfaces
  BY DEF Outcome
<1> QED BY <1>1, DriverInvariant, PTL

\* A request or a signal during the build or the start makes no error of its own.
THEOREM GracefulReturnsOk == AppSpec => []GracefulIsOk
<1>1. Outcome => GracefulIsOk
  BY DEF Outcome
<1> QED BY <1>1, DriverInvariant, PTL

-----------------------------------------------------------------------------
(* How the application ends, and what it did before it started. *)

\* Whatever run() or start() return, no OnStop is owed, or the clean-up timed out.
EndInv == at = "done" => TimedOut \/ \A i \in 1 .. Len(hooks) : ~Owed(i)

\* The errors of the start and the clean-up aside: what is left owed at the end is
\* only ever left by a timeout of the clean-up.
THEOREM EndOwesNothing == AppSpec => []EndInv
<1>1. AppInit => EndInv
  BY DEF AppInit, EndInv
<1>2. ASSUME IInv', DriverInv, EndInv, NothingLeftBehind', [AppNext]_<<vars, appVars>>
      PROVE  EndInv'
  <2>1. CASE at = "done"
    <3>1. UNCHANGED <<vars, appVars>>
      BY <1>2, <2>1, DoneIsFinal DEF DriverInv
    <3> QED
      BY <1>2, <3>1 DEF EndInv, TimedOut, Owed, HasStop, Active, HasStart, Settled, vars, registry,
                        history, appVars, ending
  <2>2. CASE at # "done" /\ at' = "done"
    <3>1. CASE Setup /\ result' # {}
      BY <1>2, <2>2, <3>1 DEF Setup, DriverInv, SetupInv, EndInv, vars, registry
    <3>2. CASE LookTimer /\ DropWork /\ Conclude(TimedOutResult)
      <4>1. TimedOutResult \subseteq result'
        BY <3>2, ConcludeKeepsErrors
      <4> QED BY <4>1 DEF EndInv, TimedOut, TimedOutResult
    <3>3. CASE StopReturns
      <4>1. PassDone'
        <5>1. op \in {"stop", "unwind"} /\ FinishPass
          BY <3>3 DEF StopReturns, FinishStop, ExhaustUnwind, MayTake
        <5> QED BY <5>1 DEF FinishPass, PassDone
      <4> QED BY <1>2, <4>1 DEF NothingLeftBehind, EndInv
    <3> QED BY <1>2, <2>2, <3>1, <3>2, <3>3, EntersDone DEF DriverInv
  <2>3. CASE at' # "done"
    BY <2>3 DEF EndInv
  <2> QED BY <2>1, <2>2, <2>3
<1> QED BY <1>1, <1>2, AppInvariant, AppDrivesLifecycle, PassIsComplete, DriverInvariant, PTL
        DEF AppSpec

\* Only the start phase calls an OnStart or has its result.
LEMMA StartsInStart ==
  ASSUME at # "start", [AppNext]_<<vars, appVars>>
  PROVE  onStart' = onStart
<1> USE DEF history
<1>1. CASE Setup \/ Build \/ Wake \/ LookTimer \/ LookShutdown \/ LookSignal \/ Abandon \/ Panics
  <2>1. DropWork => onStart' = onStart
    BY DEF DropWork, DropStop, vars
  <2> QED BY <1>1, <2>1 DEF Setup, Build, Wake, LookTimer, LookShutdown, LookSignal, Abandon, Panics,
                            vars
<1>2. CASE BeginStart \/ StartStep \/ StartYields \/ StartFails \/ StartSucceeds
  BY <1>2 DEF BeginStart, StartStep, StartYields, StartFails, StartSucceeds
<1>3. CASE EndSteady \/ Prepare \/ BeginUnwind \/ StopStep \/ StopYields \/ StopReturns
  BY <1>3 DEF EndSteady, Prepare, BeginUnwind, StopStep, StopYields, StopReturns, Stop, vars,
              PrepareForUnwind, UnwindStarted, TakeNextStop, OnStopOk, OnStopErr, OnStopEnds,
              FinishStop, ExhaustUnwind
<1>4. CASE SomeoneAppends \/ Expire \/ RequestShutdown \/ SignalArrives
  BY <1>4 DEF SomeoneAppends, AppendHook, Expire, RequestShutdown, SignalArrives, vars
<1>5. CASE (\E i \in Index : TaskFails(i)) \/ Returned \/ UNCHANGED <<vars, appVars>>
  BY <1>5 DEF TaskFails, Returned, vars
<1> QED BY <1>1, <1>2, <1>3, <1>4, <1>5 DEF AppNext, Poll

\* The start is entered from a build that returned Ok, and the phases after it from
\* each other; an error in hand ends the build.
LEMMA PhasesFollow ==
  ASSUME OwnTypes, LookInv, [AppNext]_<<vars, appVars>>
  PROVE  /\ at' = "start" => at = "start" \/ (at = "build" /\ Build)
         /\ at' = "steady" => at \in {"start", "steady"}
         /\ at' = "stop" => at \in {"steady", "stop"}
         /\ at' = "setup" => at = "setup"
         /\ at' = "build" => at \in {"setup", "build"}
         /\ at \in {"setup", "build"} /\ at' \in {"setup", "build", "start"} => cause' = cause
<1> USE DEF LookInv, OwnTypes, KeepPhase, ending, Enter, Rollback, Conclude
<1>1. CASE Setup \/ Build
  BY <1>1 DEF Setup, Build, Yields
<1>2. CASE BeginStart \/ StartStep \/ StopStep
  BY <1>2 DEF BeginStart, StartStep, StopStep, appVars
<1>3. CASE StartYields \/ StopYields \/ Wake
  BY <1>3 DEF StartYields, StopYields, Wake, Yields
<1>4. CASE StartFails \/ StartSucceeds
  BY <1>4 DEF StartFails, StartSucceeds
<1>5. CASE EndSteady \/ Prepare \/ BeginUnwind
  BY <1>5 DEF EndSteady, Prepare, BeginUnwind
<1>6. CASE StopReturns \/ LookTimer \/ LookShutdown \/ LookSignal
  BY <1>6 DEF StopReturns, LookTimer, LookShutdown, LookSignal
<1>7. CASE SomeoneAppends \/ Expire \/ RequestShutdown \/ SignalArrives \/ \E i \in Index : TaskFails(i)
  BY <1>7 DEF SomeoneAppends, Expire, RequestShutdown, SignalArrives, TaskFails, appVars
<1>8. CASE Abandon \/ Panics \/ Returned \/ UNCHANGED <<vars, appVars>>
  BY <1>8 DEF Abandon, Panics, Returned, appVars
<1> QED BY <1>1, <1>2, <1>3, <1>4, <1>5, <1>6, <1>7, <1>8 DEF AppNext, Poll

\* Only an append changes the list of hooks.
LEMMA HooksStay ==
  ASSUME \/ Poll \/ EndSteady \/ Expire \/ RequestShutdown \/ SignalArrives
         \/ (\E i \in Index : TaskFails(i)) \/ Abandon \/ Panics \/ Returned
  PROVE  hooks' = hooks
<1> USE DEF vars, registry
<1>1. CASE Setup \/ Build \/ Wake \/ LookTimer \/ LookShutdown \/ LookSignal \/ Abandon \/ Panics
  <2>1. DropWork => hooks' = hooks
    BY DEF DropWork, DropStart, DropStop
  <2> QED BY <1>1, <2>1 DEF Setup, Build, Wake, LookTimer, LookShutdown, LookSignal, Abandon, Panics
<1>2. CASE BeginStart \/ StartStep \/ StartYields \/ StartFails \/ StartSucceeds
  BY <1>2 DEF BeginStart, StartStep, StartYields, StartFails, StartSucceeds, Start, TakeNextStart,
              OnStartOk, OnStartErr, FinishStart
<1>3. CASE EndSteady \/ Prepare \/ BeginUnwind \/ StopStep \/ StopYields \/ StopReturns
  BY <1>3 DEF EndSteady, Prepare, BeginUnwind, StopStep, StopYields, StopReturns, Stop,
              PrepareForUnwind, UnwindStarted, TakeNextStop, OnStopOk, OnStopErr, OnStopEnds,
              FinishStop, ExhaustUnwind
<1>4. CASE Expire \/ RequestShutdown \/ SignalArrives \/ (\E i \in Index : TaskFails(i)) \/ Returned
  BY <1>4 DEF Expire, RequestShutdown, SignalArrives, TaskFails, Returned
<1> QED BY <1>1, <1>2, <1>3, <1>4 DEF Poll

\* The build is left for the start by its own result.
LEMMA OnlyBuildStarts ==
  ASSUME at = "build",
         \/ BeginStart \/ StartStep \/ StartYields \/ StartFails \/ StartSucceeds
         \/ Prepare \/ BeginUnwind \/ StopStep \/ StopYields \/ StopReturns
         \/ LookTimer \/ LookShutdown \/ LookSignal \/ Wake
         \/ EndSteady \/ Expire \/ RequestShutdown \/ SignalArrives \/ Abandon \/ Panics
         \/ \E i \in Index : TaskFails(i)
  PROVE  at' # "start"
<1> USE DEF KeepPhase, Enter, Rollback, Conclude
<1>1. CASE LookTimer \/ LookShutdown \/ LookSignal \/ Wake \/ Abandon \/ Panics
  BY <1>1 DEF LookTimer, LookShutdown, LookSignal, Wake, Abandon, Panics
<1>2. CASE Expire \/ RequestShutdown \/ SignalArrives \/ \E i \in Index : TaskFails(i)
  BY <1>2 DEF Expire, RequestShutdown, SignalArrives, TaskFails
<1>3. ~EndSteady /\ ~Prepare /\ ~BeginUnwind /\ ~StopStep /\ ~StopYields /\ ~StopReturns
  BY DEF EndSteady, Prepare, BeginUnwind, StopStep, StopYields, StopReturns
<1>4. ~BeginStart /\ ~StartStep /\ ~StartYields /\ ~StartFails /\ ~StartSucceeds
  BY DEF BeginStart, StartStep, StartYields, StartFails, StartSucceeds
<1> QED BY <1>1, <1>2, <1>3, <1>4

\* Nothing has started when the build ends, nor after it went over its budget.
UnstartedInv ==
  /\ at \in {"setup", "build"} => \A i \in Index : onStart[i] = "no"
  /\ Plain("BuildTimeout") \in cause \cup result =>
       /\ at \notin {"setup", "build", "start", "steady", "stop"}
       /\ \A i \in Index : onStart[i] = "no"

\* What a clean-up adds is never a timeout of the build.
LEMMA CleanupsAreNot ==
  /\ Plain("BuildTimeout") \notin TimedOutResult \cup PassResult
  /\ \A cleanup : Conclude(cleanup) /\ Plain("BuildTimeout") \in result' =>
                 Plain("BuildTimeout") \in cause \cup cleanup
<1>1. Plain("BuildTimeout") \notin TimedOutResult
  BY DEF TimedOutResult, Plain
<1>2. Plain("BuildTimeout") \notin Aggregate(errors)
  BY DEF Aggregate, Plain
<1>3. Plain("BuildTimeout") \notin PassResult
  BY <1>1, <1>2 DEF PassResult
<1>4. ASSUME NEW cleanup, Conclude(cleanup), Plain("BuildTimeout") \in result'
      PROVE  Plain("BuildTimeout") \in cause \cup cleanup
  <2>1. result' = FinishInterrupt(cleanup) \/ result' = FinishRun(cleanup)
    BY <1>4 DEF Conclude
  <2>2. Plain("BuildTimeout") \notin {Plain("TaskFailedDuringStart")}
    BY DEF Plain
  <2>3. FinishInterrupt(cleanup) \subseteq {Plain("TaskFailedDuringStart")} \cup cleanup
    BY DEF FinishInterrupt
  <2> QED BY <1>4, <2>1, <2>2, <2>3 DEF FinishRun
<1> QED BY <1>1, <1>3, <1>4

\* It is the error in hand only when it has ended the build.
LEMMA BuildTimeoutComes ==
  ASSUME OwnTypes, [AppNext]_<<vars, appVars>>, Plain("BuildTimeout") \notin cause \cup result,
         Plain("BuildTimeout") \in cause' \cup result'
  PROVE  at = "build" /\ at' = "rollback"
<1> USE DEF OwnTypes, KeepPhase, ending, Enter, Rollback
<1>1. CASE Setup \/ Build
  BY <1>1 DEF Setup, Build, Yields, Plain
<1>2. CASE BeginStart \/ StartStep \/ StopStep \/ StartYields \/ StopYields \/ Wake
  BY <1>2 DEF BeginStart, StartStep, StopStep, StartYields, StopYields, Wake, Yields, appVars
<1>3. CASE StartFails \/ StartSucceeds
  BY <1>3 DEF StartFails, StartSucceeds, Plain
<1>4. CASE EndSteady \/ Prepare \/ BeginUnwind
  BY <1>4 DEF EndSteady, Prepare, BeginUnwind
<1>5. CASE StopReturns
  <2>1. Conclude(PassResult) /\ cause' = cause
    BY <1>5 DEF StopReturns, Conclude
  <2> QED BY <2>1, CleanupsAreNot
<1>6. CASE LookTimer
  <2>1. CASE Conclude(TimedOutResult)
    BY <2>1, CleanupsAreNot DEF Conclude
  <2>2. CASE ~Conclude(TimedOutResult) /\ at = "build"
    BY <1>6, <2>2 DEF LookTimer
  <2>3. CASE ~Conclude(TimedOutResult) /\ at # "build"
    <3>1. (cause' = cause \/ cause' = {Plain("StartTimeout")}) /\ result' = result
      BY <1>6, <2>3 DEF LookTimer
    <3> QED BY <3>1 DEF Plain
  <2> QED BY <2>1, <2>2, <2>3
<1>7. CASE LookShutdown \/ LookSignal
  BY <1>7 DEF LookShutdown, LookSignal
<1>8. CASE SomeoneAppends \/ Expire \/ RequestShutdown \/ SignalArrives \/ \E i \in Index : TaskFails(i)
  BY <1>8 DEF SomeoneAppends, Expire, RequestShutdown, SignalArrives, TaskFails, appVars
<1>9. CASE Abandon \/ Panics \/ Returned \/ UNCHANGED <<vars, appVars>>
  BY <1>9 DEF Abandon, Panics, Returned, appVars
<1> QED BY <1>1, <1>2, <1>3, <1>4, <1>5, <1>6, <1>7, <1>8, <1>9 DEF AppNext, Poll

\* A build over its budget starts nothing, also when it had returned Ok.
THEOREM OverdueBuildsStartNothing == AppSpec => []UnstartedInv
<1>1. AppInit => UnstartedInv
  BY DEF AppInit, Init, UnstartedInv
<1>2. ASSUME UnstartedInv, OwnTypes, LookInv, [AppNext]_<<vars, appVars>> PROVE UnstartedInv'
  <2>1. /\ at' \in {"setup", "build"} => at \in {"setup", "build"}
        /\ at' \in {"setup", "build", "start", "steady", "stop"} =>
             at \in {"setup", "build", "start", "steady", "stop"}
    BY <1>2, PhasesFollow
  <2>2. at # "start" => onStart' = onStart
    BY <1>2, StartsInStart
  <2>3. CASE Plain("BuildTimeout") \in cause' \cup result'
             /\ Plain("BuildTimeout") \notin cause \cup result
    BY <1>2, <2>2, <2>3, BuildTimeoutComes DEF UnstartedInv, Plain
  <2>4. CASE Plain("BuildTimeout") \in cause \cup result
    BY <1>2, <2>1, <2>2, <2>4 DEF UnstartedInv, Plain
  <2>5. CASE Plain("BuildTimeout") \notin cause' \cup result'
    BY <1>2, <2>1, <2>2, <2>5 DEF UnstartedInv, Plain
  <2> QED BY <2>3, <2>4, <2>5
<1>3. AppTypeOK => OwnTypes
  BY DEF AppTypeOK
<1>4. DriverInv => LookInv
  BY DEF DriverInv
<1> QED BY <1>1, <1>2, <1>3, <1>4, AppTypeCorrect, DriverInvariant, PTL DEF AppSpec

=============================================================================
