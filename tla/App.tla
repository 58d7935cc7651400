--------------------------------- MODULE App ---------------------------------
(***************************************************************************)
(* ModrunBuilder::run and ModrunBuilder::start, src/app.rs: the driver of  *)
(* a Lifecycle.  A run goes through                                        *)
(*                                                                         *)
(*    build -> start -> steady -> stop -> done                             *)
(*      \        \                                                         *)
(*       `--------`--> rollback -> prepared -> unwind -> done              *)
(*                                                                         *)
(* In a phase with a budget (build, start, stop, unwind) one task polls    *)
(* the phase's future; run() does so inside a biased select!.  A poll      *)
(* looks at its branches in a fixed order: the work, the budget's timer,   *)
(* Shutdowner::wait, the OS signals.  `look` is the branch it is at, and   *)
(* everything else (appends, task failures, requests, signals, the clock)  *)
(* may happen between two looks, on another thread.                        *)
(***************************************************************************)
EXTENDS Lifecycle

CONSTANTS TaskKinds,   \* the kinds made by task() and task_with()
          Budgets      \* the phases with a timeout: of "build", "start", "stop"

ASSUME TaskAssumption == TaskKinds \subseteq StartKinds \cap StopKinds
ASSUME BudgetAssumption == Budgets \subseteq {"build", "start", "stop"}

VARIABLES
  entry,      \* the method called: "run" or "start"
  at,         \* the phase
  look,       \* the branch the poll is at, or "parked" between two polls
  overdue,    \* the budget of the phase has elapsed
  requested,  \* Shutdowner: requested
  failed,     \* Shutdowner: from_failure
  signalled,  \* an OS signal has arrived and was not received yet
  dead,       \* the entries whose background task has failed
  via,        \* what ended the build or the start: "error", "interrupt", "signal"
  cause,      \* the error in hand then
  result,     \* the errors that the returned value carries; {} is Ok(())
  early       \* history: the value of dead when the start was interrupted

shutdowner == <<requested, failed>>
ending     == <<via, cause, result, early>>
appVars    == <<entry, at, look, overdue, shutdowner, signalled, dead, ending>>

Error == {"Setup", "Invoke", "BuildTimeout", "StartTimeout", "OnStart", "OnStop",
          "UnwindTimeout", "StopTimeout", "TaskFailedDuringStart"} \X (0 .. MaxHooks)

\* An error that no single hook is behind.
Plain(name) == <<name, 0>>

OwnTypes ==
  /\ entry \in {"run", "start"}
  /\ at \in {"setup", "build", "start", "steady", "stop",
             "rollback", "prepared", "unwind", "done", "abandoned"}
  /\ look \in {"work", "timer", "shutdown", "signal", "parked"}
  /\ {overdue, requested, failed, signalled} \subseteq BOOLEAN
  /\ dead \subseteq Index /\ early \subseteq Index
  /\ via \in {"none", "error", "interrupt", "signal"}
  /\ cause \subseteq Error /\ result \subseteq Error

AppTypeOK == TypeOK /\ OwnTypes

AppInit ==
  /\ Init
  /\ entry \in {"run", "start"}
  /\ at = "setup" /\ look = "work" /\ overdue = FALSE
  /\ requested = FALSE /\ failed = FALSE /\ signalled = FALSE
  /\ dead = {} /\ early = {}
  /\ via = "none" /\ cause = {} /\ result = {}

-----------------------------------------------------------------------------
(* Faults: each is a wrong version of the definition its comment names. *)

\* Budget: the unwind is not given the stop budget.
FaultBudget == at

\* FinishRun: the clean-up's error replaces the error in hand.
FaultFinishRun(cleanup) == cleanup

\* FinishInterrupt: every interrupt counts as a task failure.
FaultFinishInterrupt(cleanup) == {Plain("TaskFailedDuringStart")} \cup cleanup

\* Aggregate: the errors of the stop loop are not returned.
FaultAggregate(entries) == {}

\* JoinSucceeds: OnStop aborts the task instead of joining it.
FaultJoinSucceeds(i) == TRUE

-----------------------------------------------------------------------------
(* Helpers *)

\* The budget of a phase, if it has one.
Budget == IF at \in {"stop", "unwind"} THEN "stop" ELSE at

\* A new phase: its future has not been polled, its budget starts now.
Enter(phaseName) == at' = phaseName /\ look' = "work" /\ overdue' = FALSE

\* Rolling back after an error, a Shutdowner request or an OS signal.
Rollback(how, errs) ==
  /\ Enter("rollback")
  /\ via' = how /\ cause' = errs
  /\ early' = IF at = "start" THEN dead ELSE early
  /\ UNCHANGED result

\* What with_timeout makes of a clean-up whose budget is over.
TimedOutResult == {Plain(IF at = "stop" THEN "StopTimeout" ELSE "UnwindTimeout")}

\* aggregate_errors over the Vec of the stop loop.
Aggregate(entries) == {<<"OnStop", i>> : i \in entries}

\* What with_timeout makes of a clean-up that returned: an error comes before a
\* timeout, an Ok over budget is a timeout.
PassResult == IF errors = {} /\ overdue THEN TimedOutResult ELSE Aggregate(errors)

\* finish_run and combine_results: with_cleanup keeps both errors.
FinishRun(cleanup) == cause \cup cleanup

\* finish_interrupt: is_failure() is read once the unwind is over; the generic error
\* is for when the clean-up has none of its own, or only a timeout.
FinishInterrupt(cleanup) ==
  IF failed /\ cleanup \subseteq {Plain("UnwindTimeout"), Plain("StopTimeout")}
  THEN {Plain("TaskFailedDuringStart")} \cup cleanup
  ELSE cleanup

\* What run and start return for the outcome of the clean-up.
Conclude(cleanup) ==
  /\ Enter("done")
  /\ result' = IF via = "interrupt" THEN FinishInterrupt(cleanup) ELSE FinishRun(cleanup)
  /\ UNCHANGED <<via, cause, early>>

\* What a poll of the work leaves alone.
WorkKeeps == UNCHANGED <<entry, shutdowner, signalled, dead>>
KeepPhase == UNCHANGED <<at, overdue, ending>>

\* The future returned Pending: the poll goes on to the timer.
Yields == look' = "timer" /\ KeepPhase

-----------------------------------------------------------------------------
(* Setup and build *)

\* SignalWatch::install and into_build_state: nothing is registered yet.
Setup ==
  /\ at = "setup"
  /\ \/ Enter("build") /\ UNCHANGED ending
     \/ Enter("done") /\ result' = {Plain("Setup")} /\ UNCHANGED <<via, cause, early>>
  /\ WorkKeeps /\ UNCHANGED vars

\* A poll of run_invokers: it fails, suspends, or succeeds; a success over budget
\* is a timeout.
Build ==
  /\ at = "build" /\ look = "work"
  /\ \/ Rollback("error", {Plain("Invoke")})
     \/ Yields
     \/ overdue /\ Rollback("error", {Plain("BuildTimeout")})
     \/ ~overdue /\ Enter("start") /\ UNCHANGED ending
  /\ WorkKeeps /\ UNCHANGED vars

-----------------------------------------------------------------------------
(* Start *)

BeginStart == at = "start" /\ look = "work" /\ Start /\ UNCHANGED appVars

StartStep ==
  /\ at = "start" /\ look = "work"
  /\ (\E i \in Index : TakeNextStart(i)) \/ OnStartOk
  /\ UNCHANGED appVars

StartYields ==
  /\ at = "start" /\ look = "work" /\ op = "start" /\ inflight # 0
  /\ Yields
  /\ WorkKeeps /\ UNCHANGED vars

StartFails ==
  /\ at = "start" /\ look = "work"
  /\ OnStartErr
  /\ Rollback("error", {<<"OnStart", inflight>>})
  /\ WorkKeeps

StartSucceeds ==
  /\ at = "start" /\ look = "work"
  /\ FinishStart
  /\ \/ overdue /\ Rollback("error", {Plain("StartTimeout")})
     \/ ~overdue /\ Enter("steady") /\ UNCHANGED ending
  /\ WorkKeeps

\* The last select! of run, in no particular order; or RunningApp::stop.
EndSteady ==
  /\ at = "steady"
  /\ entry = "run" => requested \/ signalled
  /\ requested' = (requested \/ (entry = "run" /\ signalled))
  /\ Stop
  /\ Enter("stop")
  /\ UNCHANGED <<entry, failed, signalled, dead, ending>>

-----------------------------------------------------------------------------
(* Stop and unwind *)

\* unwind_lifecycle: first prepare_for_unwind, then unwind_started with a budget.
Prepare ==
  /\ at = "rollback"
  /\ PrepareForUnwind
  /\ Enter("prepared")
  /\ WorkKeeps /\ UNCHANGED ending

BeginUnwind ==
  /\ at = "prepared"
  /\ UnwindStarted
  /\ Enter("unwind")
  /\ WorkKeeps /\ UNCHANGED ending

\* A task's OnStop joins the task: it fails exactly if the task has.
JoinSucceeds(i) == i \notin dead

StopStep ==
  /\ at \in {"stop", "unwind"} /\ look = "work"
  /\ \/ \E i \in Index : TakeNextStop(i)
     \/ OnStopOk /\ JoinSucceeds(inflight)
     \/ OnStopErr /\ (hooks[inflight] \in TaskKinds => ~JoinSucceeds(inflight))
  /\ UNCHANGED appVars

StopYields ==
  /\ at \in {"stop", "unwind"} /\ look = "work" /\ inflight # 0
  /\ Yields
  /\ WorkKeeps /\ UNCHANGED vars

StopReturns ==
  /\ at \in {"stop", "unwind"} /\ look = "work"
  /\ FinishStop \/ ExhaustUnwind
  /\ Conclude(PassResult)
  /\ WorkKeeps

-----------------------------------------------------------------------------
(* The rest of a poll *)

\* Dropping the future of the phase.  The build has no hook in flight.
DropWork ==
  CASE at = "start" -> DropStart
    [] at \in {"stop", "unwind"} -> DropStop
    [] OTHER -> UNCHANGED vars

LookTimer ==
  /\ look = "timer"
  /\ \/ /\ overdue /\ DropWork
        /\ CASE at = "build" -> Rollback("error", {Plain("BuildTimeout")})
             [] at = "start" -> Rollback("error", {Plain("StartTimeout")})
             [] OTHER        -> Conclude(TimedOutResult)
     \/ /\ ~overdue
        /\ look' = IF entry = "run" /\ at \in {"build", "start"} THEN "shutdown" ELSE "parked"
        /\ KeepPhase /\ UNCHANGED vars
  /\ WorkKeeps

LookShutdown ==
  /\ look = "shutdown"
  /\ \/ requested /\ DropWork /\ Rollback("interrupt", {})
     \/ ~requested /\ look' = "signal" /\ KeepPhase /\ UNCHANGED vars
  /\ WorkKeeps

LookSignal ==
  /\ look = "signal"
  /\ \/ /\ signalled /\ DropWork /\ Rollback("signal", {})
        /\ requested' = TRUE /\ signalled' = FALSE
     \/ /\ ~signalled /\ look' = "parked"
        /\ KeepPhase /\ UNCHANGED <<requested, signalled, vars>>
  /\ UNCHANGED <<entry, failed, dead>>

\* A parked task is polled again when a branch wakes it (or for no reason).
Wake ==
  /\ look = "parked"
  /\ look' = "work"
  /\ KeepPhase /\ WorkKeeps /\ UNCHANGED vars

Poll ==
  \/ Setup \/ Build
  \/ BeginStart \/ StartStep \/ StartYields \/ StartFails \/ StartSucceeds
  \/ Prepare \/ BeginUnwind \/ StopStep \/ StopYields \/ StopReturns
  \/ LookTimer \/ LookShutdown \/ LookSignal \/ Wake

-----------------------------------------------------------------------------
(* The environment *)

\* Constructors, invokers, callbacks, or a thread that was given the handle.
SomeoneAppends ==
  /\ at \notin {"setup", "done", "abandoned"}
  /\ \E k \in Kinds : AppendHook(k)
  /\ UNCHANGED appVars

\* The budget of the current phase elapses.
Expire ==
  /\ at \in {"build", "start", "stop", "unwind"} /\ Budget \in Budgets /\ ~overdue
  /\ overdue' = TRUE
  /\ UNCHANGED <<entry, at, look, shutdowner, signalled, dead, ending, vars>>

\* Shutdowner::shutdown, from anywhere in the application.
RequestShutdown ==
  /\ at \notin {"setup", "done", "abandoned"} /\ ~requested
  /\ requested' = TRUE
  /\ UNCHANGED <<entry, at, look, overdue, failed, signalled, dead, ending, vars>>

\* The watcher of a started task sees the task fail: Shutdowner::fail.
TaskFails(i) ==
  /\ at \notin {"done", "abandoned"}
  /\ i \in 1 .. Len(hooks) /\ hooks[i] \in TaskKinds /\ i \notin dead
  /\ onStart[i] = "ok" /\ (i \in inner \/ i = inflight)
  /\ requested' = TRUE /\ failed' = TRUE
  /\ dead' = dead \cup {i}
  /\ UNCHANGED <<entry, at, look, overdue, signalled, ending, vars>>

SignalArrives ==
  /\ entry = "run" /\ at \in {"build", "start", "steady"} /\ ~signalled
  /\ signalled' = TRUE
  /\ UNCHANGED <<entry, at, look, overdue, shutdowner, dead, ending, vars>>

\* The caller drops run(), start() or RunningApp::stop() between two polls, or
\* the RunningApp it holds: OnStop hooks that are still owed are skipped.
Abandon ==
  /\ at \in {"build", "start", "steady", "stop", "unwind"}
  /\ at = "steady" \/ look = "parked"
  /\ DropWork
  /\ Enter("abandoned")
  /\ WorkKeeps /\ UNCHANGED ending

\* A constructor, an invoker or a callback panics while it is polled: the panic
\* unwinds through run() or start(), and the guards are dropped on the way.
Panics ==
  /\ at = "build" \/ (at \in {"start", "stop", "unwind"} /\ inflight # 0)
  /\ look = "work"
  /\ DropWork
  /\ Enter("abandoned")
  /\ WorkKeeps /\ UNCHANGED ending

Returned == at \in {"done", "abandoned"} /\ UNCHANGED <<vars, appVars>>

AppNext ==
  \/ Poll \/ EndSteady
  \/ SomeoneAppends \/ Expire \/ RequestShutdown \/ SignalArrives
  \/ \E i \in Index : TaskFails(i)
  \/ Abandon \/ Panics \/ Returned

AppSpec == AppInit /\ [][AppNext]_<<vars, appVars>>
\* Liveness assumes that the task is polled when it can make progress, that a
\* callback that never returns does suspend, and that clocks advance.  Nothing
\* is assumed of callers, signals, tasks, or of a callback ever returning.
FairAppSpec ==
  AppSpec /\ WF_<<vars, appVars>>(Poll \/ (entry = "run" /\ EndSteady))
          /\ WF_<<vars, appVars>>(Expire)

-----------------------------------------------------------------------------
(* Properties *)

TimedOut == {Plain("StopTimeout"), Plain("UnwindTimeout")} \cap result # {}

\* run and start return Ok only if nothing failed and nothing is left undone:
\* no callback returned an error, and every active hook has been stopped.
OkMeansCleanEnd ==
  at = "done" /\ result = {} =>
    /\ inner = {}
    /\ \A i \in 1 .. Len(hooks) :
         ~Owed(i) /\ onStart[i] # "failed" /\ onStop[i] # "failed"

\* An error is never lost to a shutdown that races with it: a failed OnStart is in
\* the returned error, and so is a failed OnStop unless the clean-up timed out.
ErrorsSurface ==
  at = "done" =>
    \A i \in 1 .. Len(hooks) :
      /\ onStart[i] = "failed" => <<"OnStart", i>> \in result
      /\ onStop[i] = "failed" /\ ~TimedOut => <<"OnStop", i>> \in result

\* A background task that failed before the application was down is never
\* reported as Ok, whichever of its failure, a signal or a shutdown came first;
\* and its own error is what is reported, unless the clean-up timed out.
TaskFailureSurfaces ==
  at = "done" => \A i \in dead : <<"OnStop", i>> \in result \/ TimedOut

\* A shutdown request or a signal during the build or the start is no error: run
\* then returns Ok unless an OnStop failed or the clean-up timed out.
GracefulIsOk ==
  at = "done" /\ via \in {"interrupt", "signal"} /\ result # {} =>
    TimedOut \/ \E i \in 1 .. Len(hooks) : onStop[i] = "failed"

\* With budgets on the start and the stop, run() returns after a shutdown was
\* requested, even if callbacks never return.
RequestEndsRun == (entry = "run" /\ requested) ~> at \in {"done", "abandoned"}

\* An OnStart returned an error, or was dropped halfway by a timeout, a request
\* or a signal.
StartBroke == \E i \in 1 .. Len(hooks) : onStart[i] \in {"failed", "dropped"}

\* What the docs say of "a start hook fails or start is cancelled": the hooks are
\* stopped "and any OnStop failures are retained in the returned error" (README.md).
StopFailuresRetained ==
  at = "done" /\ StartBroke =>
    \A i \in 1 .. Len(hooks) : onStop[i] = "failed" => <<"OnStop", i>> \in result

\* What the docs say of TaskFailedDuringStart: "A background task failed while
\* start was still running" (src/error.rs).
TaskFailedDuringStart ==
  at = "done" /\ Plain("TaskFailedDuringStart") \in result => early # {}

=============================================================================
