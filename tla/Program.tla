------------------------------- MODULE Program -------------------------------
(***************************************************************************)
(* A whole application: the wiring and the build of module Build, driven   *)
(* by run() or start() of module App over its hook registry.               *)
(*                                                                         *)
(* What App leaves open about the build is decided here: it ends when the  *)
(* invokers have run, it suspends where a constructor or an invoker is     *)
(* awaited, its future is dropped by the timer, a request, a signal or the *)
(* caller, and hooks are appended by constructors and invokers while they  *)
(* run.  owners remembers who appended each hook, so that the order of     *)
(* hooks can be compared with that of the dependencies.                    *)
(***************************************************************************)
EXTENDS Build

CONSTANTS Kinds, StartKinds, StopKinds, TaskKinds, Budgets, MaxHooks

VARIABLES
  hooks, inner, started, phase,                  \* the State of the Lifecycle
  op, hookInflight, left, errors, returned,      \* its futures; App's inflight
  onStart, onStop,                               \* its history
  entry, stage, look, overdue,                   \* the driver; stage is App's at
  requested, failed, signalled, dead, via, cause, result, early,
  owners      \* history: who has appended each hook

ASSUME HooksAssumption ==
  /\ StartKinds \subseteq Kinds /\ StopKinds \subseteq Kinds
  /\ TaskKinds \subseteq StartKinds \cap StopKinds
  /\ Budgets \subseteq {"build", "start", "stop"}
  /\ MaxHooks \in Nat

\* App, with what is proved of it.
A == INSTANCE AppProofs WITH at <- stage, inflight <- hookInflight

lifecycleVars == <<hooks, inner, started, phase, op, hookInflight, left, errors, returned,
                   onStart, onStop>>
driverVars    == <<lifecycleVars, entry, stage, look, overdue, requested, failed, signalled,
                   dead, via, cause, result, early>>
programVars   == <<buildVars, driverVars, owners>>
----------------------------------------------------------------------------
(* Setup: the options are applied and validated.                           *)

ApplyOption ==
  /\ stage = "setup" /\ Wire /\ status' = "open"
  /\ UNCHANGED <<driverVars, owners>>

\* Only an accepted wiring gets to the build; it may still fail to write
\* the DOT file.
EndSetup ==
  /\ stage = "setup" /\ Wire /\ status' # "open"
  /\ A!Setup
  /\ stage' = "build" => status' = "validated"
  /\ UNCHANGED owners

\* run() installs its signal listeners before it looks at the options.
InstallFails ==
  /\ entry = "run" /\ applied = 0 /\ Len(chain) = 1
  /\ A!Setup /\ stage' = "done"
  /\ UNCHANGED <<buildVars, owners>>
----------------------------------------------------------------------------
(* The build, polled by the driver.                                        *)

Polled == stage = "build" /\ look = "work"

\* Fault: the hooks start, whatever run_invokers has returned.
FaultBuildDone == stage' = "start"

\* Its result, as run_invokers returns it.
BuildDone ==
  IF outcome = "ok" THEN stage' = "start" \/ cause' = {A!Plain("BuildTimeout")}
  ELSE cause' = {A!Plain("Invoke")}

\* A wave's constructors that have appended are among those that it calls.
BuildRuns ==
  /\ Polled /\ Run /\ UNCHANGED verdict
  /\ \A i \in DOMAIN owners : owners[i][1] = "constructor" => owners[i][2] \in Called'
  /\ UNCHANGED <<driverVars, owners>>

\* What is awaited comes.
BuildGoesOn ==
  /\ Polled /\ UNCHANGED verdict
  /\ InvokerEnds \/ \E k \in inflight : FutureEnds(k) \/ FutureFails(k)
  /\ UNCHANGED <<driverVars, owners>>

\* Fault: an invoker is not left while its future is pending.
FaultAwaits == at = "join" /\ inflight # {}

Awaits == (at = "join" /\ inflight # {}) \/ at = "invoking"

BuildYields ==
  /\ Polled /\ Awaits
  /\ A!Build /\ look' = "timer"
  /\ UNCHANGED <<buildVars, owners>>

BuildReturns ==
  /\ Polled /\ at = "end"
  /\ A!Build /\ BuildDone
  /\ UNCHANGED <<buildVars, owners>>
----------------------------------------------------------------------------
(* Appends.                                                                *)

AppendsAs(o) ==
  /\ A!SomeoneAppends
  /\ owners' = Append(owners, o)
  /\ UNCHANGED buildVars

\* The constructor appends while it is called, one after another within the
\* wave, or in the future that it has left.
ConstructorAppends ==
  /\ Polled
  /\ \/ /\ at = "layers" /\ layer <= Len(layers)
        /\ \E n \in DOMAIN Wave :
             /\ CanConstruct(Wave[n])
             /\ \A m \in DOMAIN Wave :
                  /\ m < n => CanConstruct(Wave[m])
                  /\ m > n => <<"constructor", Wave[m]>> \notin Range(owners)
             /\ AppendsAs(<<"constructor", Wave[n]>>)
     \/ /\ at = "join"
        /\ \E k \in inflight : AppendsAs(<<"constructor", k>>)

InvokerAppends ==
  /\ Polled
  /\ at = "invoking" \/ (at = "call" /\ CanGet(Invoker.deps, Invoker.scope))
  /\ AppendsAs(<<"invoker", next>>)

\* A callback, or a thread that was given the handle.
OtherAppends == AppendsAs(<<"other">>)
----------------------------------------------------------------------------
(* The driver.                                                             *)

\* What App does after the build or beside it.
DriverPoll ==
  \/ A!BeginStart \/ A!StartStep \/ A!StartYields \/ A!StartFails \/ A!StartSucceeds
  \/ A!Prepare \/ A!BeginUnwind \/ A!StopStep \/ A!StopYields \/ A!StopReturns
  \/ A!LookTimer \/ A!LookShutdown \/ A!LookSignal \/ A!Wake

Environment ==
  \/ A!EndSteady \/ A!Expire \/ A!RequestShutdown \/ A!SignalArrives \/ A!Abandon \/ A!Panics
  \/ \E i \in A!Index : A!TaskFails(i)

\* Whatever makes the driver leave the build drops its future.
DriverStep ==
  /\ DriverPoll \/ Environment
  /\ IF stage = "build" /\ stage' # "build" THEN DropBuild /\ UNCHANGED verdict
     ELSE UNCHANGED buildVars
  /\ UNCHANGED owners

Returned == A!Returned /\ UNCHANGED <<buildVars, owners>>

ProgramInit == BuildInit /\ A!AppInit /\ owners = << >>

ProgramNext ==
  \/ ApplyOption \/ EndSetup \/ InstallFails
  \/ BuildRuns \/ BuildGoesOn \/ BuildYields \/ BuildReturns
  \/ ConstructorAppends \/ InvokerAppends \/ OtherAppends
  \/ DriverStep \/ Returned

ProgramSpec == ProgramInit /\ [][ProgramNext]_programVars

\* As in App: the task is polled when it can make progress, synchronous
\* functions return, and clocks advance.  No future has to end.
Poll == InstallFails \/ ApplyOption \/ EndSetup \/ BuildRuns \/ BuildYields \/ BuildReturns
        \/ (DriverStep /\ (DriverPoll \/ (entry = "run" /\ A!EndSteady)))
FairProgramSpec ==
  ProgramSpec /\ WF_programVars(Poll) /\ WF_programVars(A!Expire /\ UNCHANGED <<buildVars, owners>>)
----------------------------------------------------------------------------
(* Properties.                                                             *)

\* The constructors whose values o was given, or that went into those.
Behind(o) ==
  LET given == IF o[1] = "constructor" THEN Needs(o[2])
               ELSE IF o[1] = "invoker"
               THEN {Visible(invokers[o[2]].deps[i], invokers[o[2]].scope)
                     : i \in DOMAIN invokers[o[2]].deps} \cap DOMAIN providers
               ELSE {}
  IN Reached(given, [k \in DOMAIN providers |-> Needs(k)])

\* Hook i belongs to something that was built from what hook j belongs to.
RestsOn(i, j) == owners[j][1] = "constructor" /\ owners[j][2] \in Behind(owners[i])

\* Hooks of what a constructor or an invoker was given start before its own
\* hooks, in whichever order and with whatever concurrency the waves ran.
StartsAfterWhatItNeeds ==
  \A i, j \in DOMAIN hooks :
    onStart[i] # "no" /\ RestsOn(i, j) => A!Active(j)

\* ... and they are stopped only when its own hooks owe nothing any more,
\* however the application ends.
StopsBeforeWhatItNeeds ==
  \A i, j \in DOMAIN hooks :
    onStop[j] # "no" /\ RestsOn(i, j) => ~A!Owed(i)

\* A build that failed, was dropped or went over its budget starts nothing,
\* and what was registered meanwhile, by constructors whose wave was abandoned
\* or by threads of theirs, is stopped if it needs no start; only a timeout of
\* this clean-up leaves it, and is reported.
FailedBuildIsUnwound ==
  stage = "done" /\ (outcome \notin {"none", "ok"} \/ A!Plain("BuildTimeout") \in result) =>
    \A i \in DOMAIN hooks :
      /\ onStart[i] = "no"
      /\ hooks[i] \in StopKinds \ StartKinds => A!Settled(i) \/ A!TimedOut

\* A request ends run() even if it comes during the build and constructors or
\* invokers never get what they await: the build is dropped at that await, and
\* nothing else that it does lasts.
RequestEndsProgram ==
  (entry = "run" /\ requested) ~> stage \in {"done", "abandoned"}

=============================================================================
