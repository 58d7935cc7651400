-------------------------------- MODULE Journal --------------------------------
(***************************************************************************)
(* What an application logs of its life: the events of src/trace.rs, where *)
(* src/app.rs and the guards of src/lifecycle.rs emit them.  Every step is *)
(* one of App, and says what it logs.                                      *)
(*                                                                         *)
(* A line is what it is about, what it says, and a number: the hook, or    *)
(* how many are left over.  The lines of invokers are those of the one     *)
(* that ends the build; what else the build logs is left out, as the build *)
(* is in App.  Every level is on.                                          *)
(***************************************************************************)
EXTENDS App, FiniteSets, Functions

VARIABLE log

journalVars == <<vars, appVars, log>>

OnStartLine(says, i) == <<"OnStart", says, i>>
OnStopLine(says, i)  == <<"OnStop", says, i>>
InvokerLine(says)    == <<"invoker", says, 0>>
AppLine(says)        == <<"app", says, 0>>

Logs(lines) == log' = log \o lines
-----------------------------------------------------------------------------
(* Faults: each is a wrong version of the definition its comment names. *)

\* Leftover: read before the future is dropped, which writes its hook back.
FaultLeftover == started

\* EndLines: the loop tells its end, before the budget is looked at.
FaultEndLines(cleanup) ==
  IF errors = {} THEN <<AppLine(IF at = "stop" THEN "stopped" ELSE "rolled back")>>
  ELSE <<AppLine(IF at = "stop" THEN "stop failed" ELSE "rollback failed")>>

-----------------------------------------------------------------------------
(* What is said *)

\* pending_stops, once the future of the pass is gone.
Leftover == started'

Abandoned == IF Leftover > 0 THEN << <<"app", "hooks abandoned", Leftover>> >> ELSE << >>

\* report_unwind_result, and the end of BuiltApp::stop.
EndLines(cleanup) ==
  IF cleanup = {} THEN <<AppLine(IF at = "stop" THEN "stopped" ELSE "rolled back")>>
  ELSE <<AppLine(IF at = "stop" THEN "stop failed" ELSE "rollback failed")>> \o Abandoned

\* start_failed comes after the clean-up of a start.
StartFailed == cause \ {Plain("Invoke"), Plain("BuildTimeout")} # {}

AfterPass(cleanup) ==
  EndLines(cleanup) \o (IF at = "unwind" /\ StartFailed THEN <<AppLine("start failed")>> ELSE << >>)

\* The drop guards of what is in flight: emit_unfinished.
DropLines(says) ==
  IF at = "build" THEN <<InvokerLine(says)>>
  ELSE IF at = "start" THEN <<OnStartLine(says, inflight)>>
  ELSE IF at \in {"stop", "unwind"} THEN <<OnStopLine(says, inflight)>>
  ELSE << >>

\* What run() says when a request or a signal ends a phase.
RollingBack    == IF at = "start" THEN <<AppLine("rolling back")>> ELSE << >>
RequestLines   == <<AppLine("shutdown requested")>>
SignalLines    == <<AppLine("signal")>> \o RequestLines
-----------------------------------------------------------------------------
(* The steps of App *)

Silent ==
  /\ \/ Setup \/ BeginStart \/ StartYields \/ Prepare \/ BeginUnwind \/ StopYields \/ Wake
  /\ Logs(<< >>)

LogBuild ==
  /\ Build
  /\ Logs(IF cause' = {Plain("Invoke")} THEN <<InvokerLine("failed")>> ELSE << >>)

LogStart ==
  \/ /\ StartStep
     /\ Logs(IF inflight = 0 THEN <<OnStartLine("executing", inflight')>>
             ELSE <<OnStartLine("executed", inflight)>>)
  \/ StartFails /\ Logs(<<OnStartLine("failed", inflight), AppLine("rolling back")>>)
  \/ StartSucceeds /\ Logs(<<AppLine(IF at' = "steady" THEN "running" ELSE "rolling back")>>)

\* Whichever branch of the select! is taken; RunningApp::stop says nothing.
LogSteady ==
  /\ EndSteady
  /\ \/ entry = "start" /\ Logs(<< >>)
     \/ entry = "run" /\ requested /\ Logs(RequestLines)
     \/ entry = "run" /\ signalled /\ Logs(SignalLines)

LogStop ==
  \/ /\ StopStep
     /\ Logs(IF inflight = 0 THEN <<OnStopLine("executing", inflight')>>
             ELSE <<OnStopLine(IF errors' = errors THEN "executed" ELSE "failed", inflight)>>)
  \/ StopReturns /\ Logs(AfterPass(PassResult))

LogTimer ==
  /\ LookTimer
  /\ Logs(IF ~overdue THEN << >>
          ELSE DropLines("cancelled") \o
               (IF at \in {"stop", "unwind"} THEN AfterPass(TimedOutResult) ELSE RollingBack))

LogSelect ==
  \/ /\ LookShutdown
     /\ Logs(IF at' = at THEN << >>
             ELSE DropLines("cancelled") \o RequestLines \o RollingBack)
  \/ /\ LookSignal
     /\ Logs(IF at' = at THEN << >>
             ELSE DropLines("cancelled") \o SignalLines \o RollingBack)

\* RunningApp::drop; run() has no such guard.
LogAbandon ==
  /\ Abandon
  /\ Logs(DropLines("cancelled") \o
          (IF at = "steady" /\ entry = "start" THEN <<AppLine("dropped")>> ELSE << >>))

LogPanic == Panics /\ Logs(DropLines("panicked"))

JournalPoll ==
  Silent \/ LogBuild \/ LogStart \/ LogStop \/ LogTimer \/ LogSelect

Unlogged ==
  /\ \/ SomeoneAppends \/ Expire \/ RequestShutdown \/ SignalArrives \/ Returned
     \/ \E i \in Index : TaskFails(i)
  /\ Logs(<< >>)

JournalInit == AppInit /\ log = << >>
JournalNext == JournalPoll \/ LogSteady \/ LogAbandon \/ LogPanic \/ Unlogged

JournalSpec == JournalInit /\ [][JournalNext]_journalVars

\* The fairness of App.
FairJournalSpec ==
  JournalSpec /\ WF_journalVars(JournalPoll \/ (entry = "run" /\ LogSteady))
              /\ WF_journalVars(Expire /\ UNCHANGED log)

-----------------------------------------------------------------------------
(* Properties *)

Said(lines) == Range(log) \cap lines # {}
LastLine == log[Len(log)]

Clean == {AppLine("stopped"), AppLine("rolled back")}

\* The lines of level ERROR.
ErrorLines ==
  {l \in Range(log) : l[2] \in {"failed", "cancelled", "panicked", "rolling back", "start failed",
                                "rollback failed", "stop failed", "hooks abandoned"}}

\* The good news in the log is true: RUNNING says that every hook is active,
\* STOPPED and ROLLED BACK that every active hook has been stopped without an
\* error; and an application that ends well says so.  An error is always logged,
\* but for one of the wiring and a build that blocked its thread beyond the budget.
LogIsTrue ==
  /\ Said({AppLine("running")}) => \A i \in 1 .. Len(hooks) : Active(i)
  /\ Said(Clean) =>
       at = "done" /\ \A i \in 1 .. Len(hooks) : ~Owed(i) /\ onStop[i] # "failed"
  /\ at = "done" =>
       /\ result = {} => Said(Clean)
       /\ result \ {Plain("Setup"), Plain("BuildTimeout")} # {} => ErrorLines # {}

\* However the application ends, an OnStop that is owed and was skipped leaves a
\* trace.  run() and stop() skip one only by a timeout, which is in the result,
\* and log how many entries are left over; a future or a RunningApp that is
\* dropped, or left by a panic, logs a warning or what was in flight.  Only
\* run() dropped while the application is up says nothing.
NoSilentLoss ==
  (\E i \in 1 .. Len(hooks) : Owed(i)) =>
    /\ at = "done" =>
         TimedOut /\ \E l \in Range(log) :
           l[2] = "hooks abandoned" /\ l[3] >= Cardinality({i \in 1 .. Len(hooks) : Owed(i)})
    /\ at = "abandoned" =>
         \/ LastLine[2] \in {"cancelled", "panicked", "dropped"}
         \/ entry = "run" /\ LastLine = AppLine("running")

=============================================================================
