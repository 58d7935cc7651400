--------------------------------- MODULE Task ---------------------------------
(***************************************************************************)
(* Background tasks made by task() or task_with(), src/task.rs: for each,  *)
(* the LiveTask inside the hook, the work it spawns, and the watcher it    *)
(* spawns to join the work, which run on three tokio tasks.  All share one *)
(* Shutdowner.                                                             *)
(*                                                                         *)
(* The Lifecycle is the environment here: it starts the hook, may drop the *)
(* start, calls OnStop, may drop that call and make it again, and drops    *)
(* the hook after OnStop has returned.  A hook that it still holds is only *)
(* dropped with the Lifecycle: when the driver has let go of it and no     *)
(* clone of the handle is left, of which hooks may own some themselves.    *)
(* tokio is external: an abort takes effect when the task is not being     *)
(* polled, and never on a task that has completed.                         *)
(***************************************************************************)

CONSTANTS Tasks,
          Stubborn,  \* the tasks whose work need not end when Stopped resolves
          Keepers    \* the tasks whose closure has captured a clone of the Lifecycle

ASSUME StubbornAssumption == Stubborn \subseteq Tasks
ASSUME KeepersAssumption == Keepers \subseteq Tasks

VARIABLES
  live,       \* for each task, its LiveTask and what became of the tasks spawned
  reporters,  \* the tasks whose watcher has called Shutdowner::fail
  released    \* the driver has let go of the Lifecycle: run() or RunningApp is gone

vars == <<live, reporters, released>>

Ended == {"ok", "err", "panicked", "aborted"}

LiveTask == [
  hook    : {"registered", "preparing", "spawned", "held", "stopping", "stopped", "dropped"},
  work    : {"none", "running"} \cup Ended,
  watcher : {"none", "joining", "failing"} \cup Ended,  \* "failing": inside fail()
  armed   : BOOLEAN,   \* stop_tx is Some
  stop    : BOOLEAN,   \* Stopped has resolved for the work
  handle  : BOOLEAN,   \* handle is Some
  aborted : SUBSET {"work", "watcher"},   \* what was told to abort
  onStop  : {"none", "ok", "err"}]        \* what OnStop has returned

TypeOK == live \in [Tasks -> LiveTask] /\ reporters \subseteq Tasks /\ released \in BOOLEAN

Init ==
  /\ live = [t \in Tasks |->
       [hook |-> "registered", work |-> "none", watcher |-> "none", armed |-> FALSE,
        stop |-> FALSE, handle |-> FALSE, aborted |-> {}, onStop |-> "none"]]
  /\ reporters = {} /\ released = FALSE

\* Shutdowner::is_failure: some task has failed.
IsFailure == reporters # {}

-----------------------------------------------------------------------------
(* Faults: each is a wrong version of the definition its comment names. *)

\* Signalled: the sender is kept, Stopped does not resolve.
FaultSignalled(t) == live[t].stop

\* HandleAfterDrop: OnStop takes the handle before it awaits it.
FaultHandleAfterDrop(t) == FALSE

\* Verdict: OnStop does not pass on the result it joined.
FaultVerdict(t) == "ok"

\* Failure: an aborted work is not told from a panicked one.
FaultFailure == {"err", "panicked", "aborted"}

\* Failure: a panic is taken for a cancellation.
FaultFailurePanic == {"err"}

\* Abortable: only the watcher is aborted, the work is left to itself.
FaultAbortable(t) == {"watcher"}

-----------------------------------------------------------------------------
(* OnStart *)

\* spawn_with_stop: the work, and the watcher that joins it.
Spawn(t) ==
  /\ live' = [live EXCEPT ![t].hook = "spawned", ![t].work = "running",
                          ![t].watcher = "joining", ![t].armed = TRUE, ![t].handle = TRUE]
  /\ UNCHANGED <<reporters, released>>

\* Task: on_start spawns before it returns a future.
StartTask(t) == ~released /\ live[t].hook = "registered" /\ Spawn(t)

\* PreparedTask: on_start awaits `prepare` first, and spawns if that succeeds.
BeginPrepare(t) ==
  /\ ~released /\ live[t].hook = "registered"
  /\ live' = [live EXCEPT ![t].hook = "preparing"]
  /\ UNCHANGED <<reporters, released>>

Prepared(t) == live[t].hook = "preparing" /\ Spawn(t)

\* The future of OnStart returns; until then the start may still be dropped.
StartReturns(t) ==
  /\ live[t].hook = "spawned"
  /\ live' = [live EXCEPT ![t].hook = "held"]
  /\ UNCHANGED <<reporters, released>>

-----------------------------------------------------------------------------
(* The work and its watcher *)

\* The user's future completes by itself, asked to stop or not.
WorkEnds(t, result) ==
  /\ live[t].work = "running"
  /\ live' = [live EXCEPT ![t].work = result]
  /\ UNCHANGED <<reporters, released>>

WorkAborted(t) == "work" \in live[t].aborted /\ WorkEnds(t, "aborted")

\* The ends of the work that count as failures.
Failure == {"err", "panicked"}

\* The watcher's join returns: it ends, or calls fail() first.
WatcherJoins(t) ==
  /\ live[t].watcher = "joining" /\ live[t].work \in Ended
  /\ live' = [live EXCEPT ![t].watcher = IF live[t].work \in Failure THEN "failing" ELSE "ok"]
  /\ UNCHANGED <<reporters, released>>

\* The rest of the same poll, which no abort interrupts.
WatcherFails(t) ==
  /\ live[t].watcher = "failing"
  /\ live' = [live EXCEPT ![t].watcher = "err"]
  /\ reporters' = reporters \cup {t}
  /\ UNCHANGED released

WatcherAborted(t) ==
  /\ live[t].watcher = "joining" /\ "watcher" \in live[t].aborted
  /\ live' = [live EXCEPT ![t].watcher = "aborted"]
  /\ UNCHANGED <<reporters, released>>

-----------------------------------------------------------------------------
(* OnStop *)

\* stop_tx.take().send(()), or the sender's drop: Stopped resolves either way.
Signalled(t) == live[t].stop \/ live[t].armed

\* on_stop is called, for the first time or after a call that was dropped.  Without
\* a handle there is nothing to join.
BeginStop(t) ==
  /\ ~released /\ live[t].hook = "held"
  /\ live' = [live EXCEPT ![t].armed = FALSE, ![t].stop = Signalled(t),
                          ![t].hook = IF live[t].handle THEN "stopping" ELSE "stopped",
                          ![t].onStop = IF live[t].handle THEN "none" ELSE "ok"]
  /\ UNCHANGED <<reporters, released>>

\* What OnStop makes of the watcher's end: its result, or Ok if it was cancelled.
Verdict(t) == IF live[t].watcher = "err" THEN "err" ELSE "ok"

StopJoins(t) ==
  /\ live[t].hook = "stopping" /\ live[t].watcher \in Ended
  /\ live' = [live EXCEPT ![t].hook = "stopped", ![t].onStop = Verdict(t), ![t].handle = FALSE]
  /\ UNCHANGED <<reporters, released>>

\* The handle is awaited by reference: a call that is dropped leaves it in place.
HandleAfterDrop(t) == live[t].handle

DropStopCall(t) ==
  /\ live[t].hook = "stopping"
  /\ live' = [live EXCEPT ![t].hook = "held", ![t].handle = HandleAfterDrop(t)]
  /\ UNCHANGED <<reporters, released>>

-----------------------------------------------------------------------------
(* LiveTask::drop *)

\* The abort handles that the LiveTask holds.
Abortable(t) ==
  (IF live[t].work # "none" THEN {"work"} ELSE {}) \cup (IF live[t].handle THEN {"watcher"} ELSE {})

\* A clone of the Lifecycle is left, in a closure or in work that runs: then so
\* are the State and all hooks in it.
Kept ==
  \/ ~released
  \/ \E t \in Keepers : live[t].hook = "registered" \/ live[t].work = "running"

\* The hook is dropped: never started, with a start that is dropped, stopped, or
\* with the Lifecycle.
DropHook(t) ==
  /\ \/ ~released /\ live[t].hook \in {"registered", "preparing", "spawned", "stopped"}
     \/ ~Kept /\ live[t].hook \in {"registered", "held"}
  /\ live' = [live EXCEPT ![t].hook = "dropped", ![t].armed = FALSE, ![t].stop = Signalled(t),
                          ![t].handle = FALSE, ![t].aborted = Abortable(t)]
  /\ UNCHANGED <<reporters, released>>

\* run() has returned or was dropped, or RunningApp was; the futures that it drove,
\* with the hooks that they had taken, are gone by then.
Release ==
  /\ ~released
  /\ \A t \in Tasks : live[t].hook \in {"registered", "held", "dropped"}
  /\ released' = TRUE
  /\ UNCHANGED <<live, reporters>>

-----------------------------------------------------------------------------

\* What the runtime does with the spawned tasks and a pending OnStop.
Runtime(t) ==
  WorkAborted(t) \/ WatcherJoins(t) \/ WatcherFails(t) \/ WatcherAborted(t) \/ StopJoins(t)

Next ==
  \/ \E t \in Tasks :
       \/ StartTask(t) \/ BeginPrepare(t) \/ Prepared(t) \/ StartReturns(t)
       \/ \E result \in {"ok", "err", "panicked"} : WorkEnds(t, result)
       \/ Runtime(t)
       \/ BeginStop(t) \/ DropStopCall(t) \/ DropHook(t)
  \/ Release

Spec == Init /\ [][Next]_vars

\* The runtime polls what is ready, and the work suspends now and then, so that an
\* abort takes effect; a State without owners drops its hooks.  Work that is not
\* stubborn ends once Stopped has resolved.
Cooperates(t) == live[t].stop /\ \E result \in {"ok", "err"} : WorkEnds(t, result)

FairSpec ==
  /\ Spec
  /\ \A t \in Tasks : WF_vars(Runtime(t)) /\ WF_vars(~Kept /\ DropHook(t))
  /\ \A t \in Tasks \ Stubborn : WF_vars(Cooperates(t))

-----------------------------------------------------------------------------
(* Properties *)

\* OnStop returns only when the work is over, even if earlier calls were dropped
\* halfway and the stop signal was spent by the first of them.
StopJoinsWork ==
  \A t \in Tasks : live[t].onStop # "none" => live[t].work \in {"ok", "err", "panicked"}

\* OnStop returns an error exactly if the watcher has told the Shutdowner of a
\* failure: what App takes a failed task to be.
VerdictMatchesFlag ==
  \A t \in Tasks : live[t].onStop # "none" => (live[t].onStop = "err" <=> t \in reporters)

\* A failure is reported only for work that returned Err or panicked: work that is
\* aborted with its hook does not make the application fail.
OnlyFailuresAreReported ==
  \A t \in reporters : live[t].work \in {"err", "panicked"}

\* When the Lifecycle is let go, by whatever path and with whatever OnStop calls
\* left undone, no work is left behind, however stubborn; only a task that owns a
\* clone of the Lifecycle can keep itself and the others alive.
AbandonmentEndsWork ==
  ~Kept ~> \A t \in Tasks : live[t].work # "running"

\* Work that fails gets the application shut down, unless its hook is dropped first.
FailureRequestsShutdown ==
  \A t \in Tasks : live[t].work \in {"err", "panicked"} ~> (IsFailure \/ live[t].hook = "dropped")

\* If the work heeds Stopped, every call of OnStop returns or is dropped.
StopReturns ==
  \A t \in Tasks \ Stubborn : live[t].hook = "stopping" ~> live[t].hook # "stopping"

=============================================================================
