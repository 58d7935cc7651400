------------------------------ MODULE Lifecycle ------------------------------
(***************************************************************************)
(* The hook registry of modrun, src/lifecycle.rs.                          *)
(*                                                                         *)
(* A Lifecycle is a mutex around a State (hooks, started, phase).  Three   *)
(* futures run over it: start(), stop() and unwind_started().  Every       *)
(* critical section of the code is one step here; the code between two     *)
(* critical sections is the await of one user callback, during which hooks *)
(* may still be appended, by the callback or by another thread.  Whoever   *)
(* drives a future may drop it while a callback is awaited: a timeout, a   *)
(* lost select! branch, a caller that drops run().  What the driver        *)
(* (src/app.rs) does with the futures is left open here: any order of      *)
(* calls that the guards below allow.  Module App narrows it to that code. *)
(***************************************************************************)
EXTENDS Naturals, Sequences

CONSTANTS Kinds,        \* the kinds of hook: what Hook::has_start and has_stop say
          StartKinds,   \* the kinds whose has_start() is true
          StopKinds,    \* the kinds whose has_stop() is true
          MaxHooks      \* bound: how many hooks are ever appended

ASSUME KindsAssumption == StartKinds \subseteq Kinds /\ StopKinds \subseteq Kinds
ASSUME BoundAssumption == MaxHooks \in Nat

Index == 1 .. MaxHooks

VARIABLES
  hooks,      \* State.hooks: the kinds of the entries, in registration order
  inner,      \* the entries whose HookEntry.inner is Some
  started,    \* State.started: the entries done with starting, as a prefix length
  phase,      \* State.phase
  op,         \* the future that is live: "none", "start", "stop" or "unwind"
  inflight,   \* the entry whose callback that future awaits; 0 if none
  left,       \* the iterations stop_first has left
  errors,     \* the entries whose error is in the Vec that stop and stop_first fill
  returned,   \* how the last future ended: <<op, "ok" | "err" | "dropped">>
  onStart,    \* history: what became of each entry's OnStart callback
  onStop      \* history: what became of each entry's OnStop callback

registry == <<hooks, inner, started, phase>>
driver   == <<op, inflight, left, errors, returned>>
history  == <<onStart, onStop>>
vars     == <<registry, driver, history>>

\* What can have become of a callback; "dropped" is a future dropped halfway.
Calls == {"no", "running", "ok", "failed", "dropped"}

TypeOK ==
  /\ hooks \in Seq(Kinds) /\ Len(hooks) <= MaxHooks
  /\ inner \subseteq 1 .. Len(hooks)
  /\ started \in 0 .. Len(hooks)
  /\ phase \in {"Registering", "Starting", "Started", "Stopping"}
  /\ op \in {"none", "start", "stop", "unwind"}
  /\ inflight \in 0 .. Len(hooks)
  /\ left \in 0 .. MaxHooks
  /\ errors \subseteq Index
  /\ returned \in {"none", "start", "stop", "unwind"} \X {"none", "ok", "err", "dropped"}
  /\ onStart \in [Index -> Calls]
  /\ onStop \in [Index -> Calls]

-----------------------------------------------------------------------------

HasStart(i) == hooks[i] \in StartKinds
HasStop(i)  == hooks[i] \in StopKinds

\* What take_next_stop steps over, dropping the entry if there is one.
StopSkips(i) == i \notin inner \/ ~HasStop(i)

(* Faults: each is a wrong version of the definition its comment names, which a *)
(* slip in the code would give.  They show that the properties can be broken.   *)

\* IsNextStart: some entry with an OnStart, not the first.
FaultNextStart(i) == i \in (started + 1) .. Len(hooks) /\ i \in inner /\ HasStart(i)

\* IsNextStop: in registration order.
FaultNextStop(i) ==
  i \in 1 .. started /\ ~StopSkips(i) /\ \A j \in 1 .. (i - 1) : StopSkips(j)

\* MayAppend: append looks for a stop only.
FaultMayAppend == phase # "Stopping"

\* PutBack: the hook is put back but not counted.
FaultPutBack == inner' = inner \cup {inflight} /\ UNCHANGED started

\* UnwindCount: the entry at index 0 is forgotten.
FaultUnwindCount == IF started = 0 THEN 0 ELSE started - 1

\* WriteBack: the prefix is not extended again.
FaultWriteBack == inner' = inner \cup {inflight} /\ UNCHANGED started

-----------------------------------------------------------------------------

\* What start_inner steps over: an entry with no OnStart, or already taken.
StartSkips(i) == i \notin inner \/ ~HasStart(i)

\* The entry start_inner takes next: the first past `started` that it does not skip.
IsNextStart(i) ==
  /\ i \in (started + 1) .. Len(hooks) /\ ~StartSkips(i)
  /\ \A j \in (started + 1) .. (i - 1) : StartSkips(j)

\* The entry take_next_stop takes next: the last one started that it does not skip.
IsNextStop(i) ==
  /\ i \in 1 .. started /\ ~StopSkips(i)
  /\ \A j \in (i + 1) .. started : StopSkips(j)

Init ==
  /\ hooks = <<>> /\ inner = {} /\ started = 0 /\ phase = "Registering"
  /\ op = "none" /\ inflight = 0 /\ left = 0 /\ errors = {}
  /\ returned = <<"none", "none">>
  /\ onStart = [i \in Index |-> "no"]
  /\ onStop = [i \in Index |-> "no"]

-----------------------------------------------------------------------------
(* Registration *)

\* The phases in which append accepts a hook.
MayAppend == phase \in {"Registering", "Starting"}

\* append, where it accepts.  In the two other phases it returns an error,
\* AppendAfterStart or AppendWhileStopping, and changes nothing.
AppendHook(k) ==
  /\ MayAppend
  /\ Len(hooks) < MaxHooks
  /\ hooks' = Append(hooks, k)
  /\ inner' = inner \cup {Len(hooks) + 1}
  /\ UNCHANGED <<started, phase, driver, history>>

-----------------------------------------------------------------------------
(* start() *)

\* The callers start a Lifecycle once, after the invokers.
Start ==
  /\ op = "none" /\ phase = "Registering"
  /\ phase' = "Starting"
  /\ op' = "start"
  /\ UNCHANGED <<hooks, inner, started, inflight, left, errors, returned, history>>

\* One critical section of start_inner: skip to the next real OnStart, take it.
TakeNextStart(i) ==
  /\ op = "start" /\ inflight = 0
  /\ IsNextStart(i)
  /\ started' = i - 1
  /\ inner' = inner \ {i}
  /\ inflight' = i
  /\ onStart' = [onStart EXCEPT ![i] = "running"]
  /\ UNCHANGED <<hooks, phase, op, left, errors, returned, onStop>>

\* The same critical section when nothing is left: Started is set before the
\* lock is released, so that no append slips in between.
FinishStart ==
  /\ op = "start" /\ inflight = 0
  /\ \A j \in (started + 1) .. Len(hooks) : StartSkips(j)
  /\ started' = Len(hooks)
  /\ phase' = "Started"
  /\ op' = "none" /\ returned' = <<"start", "ok">>
  /\ UNCHANGED <<hooks, inner, inflight, left, errors, history>>

\* The hook is put back, and counted as started.
PutBack == inner' = inner \cup {inflight} /\ started' = started + 1

OnStartOk ==
  /\ op = "start" /\ inflight # 0
  /\ PutBack
  /\ inflight' = 0
  /\ onStart' = [onStart EXCEPT ![inflight] = "ok"]
  /\ UNCHANGED <<hooks, phase, op, left, errors, returned, onStop>>

\* prepare_for_unwind: no more appends; every entry past `started` counts as
\* started, and one with an OnStart that never ran is dropped.
Activate ==
  /\ phase' = "Stopping"
  /\ inner' = {i \in inner : i <= started \/ ~HasStart(i)}
  /\ started' = Len(hooks)

\* The hook is dropped, not put back; its OnStop must not run.
OnStartErr ==
  /\ op = "start" /\ inflight # 0
  /\ Activate
  /\ op' = "none" /\ inflight' = 0 /\ returned' = <<"start", "err">>
  /\ onStart' = [onStart EXCEPT ![inflight] = "failed"]
  /\ UNCHANGED <<hooks, left, errors, onStop>>

\* The start future is dropped at its only await: InflightHook::drop.
DropStart ==
  /\ op = "start" /\ inflight # 0
  /\ Activate
  /\ op' = "none" /\ inflight' = 0 /\ returned' = <<"start", "dropped">>
  /\ onStart' = [onStart EXCEPT ![inflight] = "dropped"]
  /\ UNCHANGED <<hooks, left, errors, onStop>>

-----------------------------------------------------------------------------
(* stop() and unwind_started() *)

\* The caller's own call of prepare_for_unwind, before it unwinds.
PrepareForUnwind ==
  /\ op = "none"
  /\ Activate
  /\ UNCHANGED <<hooks, driver, history>>

\* The count unwind_started hands to stop_first.
UnwindCount == started

UnwindStarted ==
  /\ op = "none" /\ phase = "Stopping"
  /\ op' = "unwind"
  /\ left' = UnwindCount
  /\ errors' = {}
  /\ UNCHANGED <<registry, inflight, returned, history>>

Stop ==
  /\ op = "none" /\ phase \in {"Started", "Stopping"}
  /\ phase' = "Stopping"
  /\ op' = "stop"
  /\ errors' = {}
  /\ UNCHANGED <<hooks, inner, started, inflight, left, returned, history>>

\* stop_first gives up after `left` iterations, stop never does.
MayTake == op = "stop" \/ (op = "unwind" /\ left > 0)

\* One critical section of take_next_stop: skip back to the next OnStop, take it.
TakeNextStop(i) ==
  /\ MayTake /\ inflight = 0
  /\ IsNextStop(i)
  /\ started' = i - 1
  /\ inner' = inner \ (i .. started)
  /\ inflight' = i
  /\ left' = IF op = "unwind" THEN left - 1 ELSE left
  /\ onStop' = [onStop EXCEPT ![i] = "running"]
  /\ UNCHANGED <<hooks, phase, op, errors, returned, onStart>>

FinishPass ==
  /\ op' = "none"
  /\ returned' = <<op, IF errors = {} THEN "ok" ELSE "err">>

\* The same critical section when it reaches entry 0.
FinishStop ==
  /\ MayTake /\ inflight = 0
  /\ \A j \in 1 .. started : StopSkips(j)
  /\ started' = 0
  /\ inner' = inner \ (1 .. started)
  /\ FinishPass
  /\ UNCHANGED <<hooks, phase, inflight, left, errors, history>>

\* stop_first returns when its count is used up, without another look.
ExhaustUnwind ==
  /\ op = "unwind" /\ inflight = 0 /\ left = 0
  /\ FinishPass
  /\ UNCHANGED <<registry, inflight, left, errors, history>>

OnStopEnds(result) ==
  /\ op \in {"stop", "unwind"} /\ inflight # 0
  /\ inflight' = 0
  /\ errors' = IF result = "failed" THEN errors \cup {inflight} ELSE errors
  /\ onStop' = [onStop EXCEPT ![inflight] = result]
  /\ UNCHANGED <<registry, op, left, returned, onStart>>

OnStopOk  == OnStopEnds("ok")
OnStopErr == OnStopEnds("failed")

\* StopGuard::drop: the hook is written back where take_next_stop left it.
WriteBack == inner' = inner \cup {inflight} /\ started' = started + 1

\* The future is dropped while an OnStop is awaited.  The Vec of errors is a local of the future and goes with it.
DropStop ==
  /\ op \in {"stop", "unwind"} /\ inflight # 0
  /\ WriteBack
  /\ op' = "none" /\ inflight' = 0 /\ errors' = {}
  /\ returned' = <<op, "dropped">>
  /\ onStop' = [onStop EXCEPT ![inflight] = "dropped"]
  /\ UNCHANGED <<hooks, phase, left, onStart>>

-----------------------------------------------------------------------------

\* What the futures do by themselves, as opposed to what their driver does.
Progress ==
  \/ \E i \in Index : TakeNextStart(i) \/ TakeNextStop(i)
  \/ FinishStart \/ FinishStop \/ ExhaustUnwind
  \/ OnStartOk \/ OnStartErr \/ OnStopOk \/ OnStopErr

Next ==
  \/ \E k \in Kinds : AppendHook(k)
  \/ Start \/ DropStart
  \/ PrepareForUnwind \/ UnwindStarted \/ Stop \/ DropStop
  \/ Progress

Spec == Init /\ [][Next]_vars

\* Liveness assumes that a hook's callbacks return and that a live future is polled.
FairSpec == Spec /\ WF_vars(Progress)

-----------------------------------------------------------------------------
(* Properties *)

\* An entry is active once its OnStart returned Ok, or if it has none.
Active(i)  == HasStart(i) => onStart[i] = "ok"
Settled(i) == onStop[i] \in {"ok", "failed"}
Owed(i)    == HasStop(i) /\ Active(i) /\ ~Settled(i)

\* A pass of stop or unwind_started has run to its end.
PassDone == op = "none" /\ returned \in {"stop", "unwind"} \X {"ok", "err"}

\* OnStop callbacks run in reverse: once one was called, every later hook that
\* is active has had its OnStop return, whatever was dropped and retried between.
StopsInReverse ==
  \A i, j \in 1 .. Len(hooks) : i < j /\ onStop[i] # "no" => ~Owed(j)

\* No append slips between start_inner's last look and Started: a hook that was
\* accepted is active when start() has returned Ok.
StartedMeansAllActive ==
  phase = "Started" => \A i \in 1 .. Len(hooks) : Active(i) /\ i \in inner

\* While stopping, an OnStop that is owed is never lost: its hook is being
\* stopped, or is still held where take_next_stop will find it.
OwedIsReachable ==
  phase = "Stopping" =>
    \A i \in 1 .. Len(hooks) : Owed(i) => i = inflight \/ (i \in inner /\ i <= started)

\* A pass that ran to its end left nothing behind: every owed OnStop was called
\* and returned, and every hook value is dropped (with the task it may own).
\* stop_first's count, read before its first iteration, was enough.
NothingLeftBehind ==
  PassDone => inner = {} /\ \A i \in 1 .. Len(hooks) : ~Owed(i)

\* Only active hooks are stopped: an OnStart that failed, was dropped or never
\* ran does not get its OnStop.
StopsOnlyActive ==
  \A i \in 1 .. Len(hooks) : onStop[i] # "no" => Active(i)

Contract == INSTANCE HookContract WITH
  stage <- CASE phase = "Started"  -> "ready"
             [] phase = "Stopping" -> "stopping"
             [] OTHER              -> "open"

\* The registry implements the contract its docs state.
ImplementsContract == Contract!Spec

\* A start, stop or unwind future returns (or is dropped), even though OnStart
\* callbacks may append hooks while it runs: up to MaxHooks, as nothing in the
\* code bounds a start whose callbacks append for ever.
FuturesReturn == op # "none" ~> op = "none"
-----------------------------------------------------------------------------
(* The inductive invariant behind the safety properties above *)

\* A callback is awaited for the entry just past the started prefix, and the
\* future holds that entry's hook.
InflightInv ==
  inflight # 0 =>
    /\ op # "none" /\ inflight = started + 1 /\ inflight \notin inner
    /\ op = "start" => HasStart(inflight) /\ onStart[inflight] = "running"
    /\ op # "start" => Owed(inflight) /\ onStop[inflight] = "running"

PhaseInv ==
  /\ op = "start" <=> phase = "Starting"
  /\ op \in {"stop", "unwind"} => phase = "Stopping"
  /\ phase = "Registering" => started = 0
  /\ phase = "Started" => started = Len(hooks)
  /\ op = "unwind" => left >= started

\* What the history says of every entry while hooks start: the prefix is
\* active, the rest is untouched, no OnStop has run.
StartingInv ==
  phase # "Stopping" =>
    \A i \in 1 .. Len(hooks) :
      /\ onStop[i] = "no"
      /\ i # inflight => i \in inner
      /\ i <= started => Active(i)
      /\ i > started /\ i # inflight => onStart[i] = "no"

\* While stopping, the held entries are those that are still owed their OnStop
\* or have none, all of them active and in the prefix.
StoppingInv ==
  phase = "Stopping" =>
    \A i \in 1 .. Len(hooks) :
      /\ i \in inner => i <= started /\ Active(i) /\ ~Settled(i)
      /\ Owed(i) => i = inflight \/ i \in inner

HistoryInv ==
  /\ \A i \in Index : onStart[i] = "running" => op = "start" /\ i = inflight
  /\ \A i \in Index : onStop[i] = "running" => op \in {"stop", "unwind"} /\ i = inflight
  /\ \A i \in Index : i > Len(hooks) => onStart[i] = "no" /\ onStop[i] = "no"

DoneInv == PassDone => phase = "Stopping" /\ inner = {}

IInv ==
  /\ TypeOK /\ InflightInv /\ PhaseInv /\ StartingInv /\ StoppingInv
  /\ HistoryInv /\ DoneInv /\ StopsInReverse /\ StopsOnlyActive

=============================================================================
