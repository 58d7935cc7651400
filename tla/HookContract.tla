---------------------------- MODULE HookContract ----------------------------
(***************************************************************************)
(* What modrun promises the author of a lifecycle hook: the doc comments   *)
(* of Lifecycle in src/lifecycle.rs, without mutex, counters or futures.   *)
(* OnStart callbacks run one at a time in registration order, and the      *)
(* first that fails or is dropped is the last.  OnStop callbacks run in    *)
(* reverse, only for hooks that are active: those whose OnStart succeeded  *)
(* and those that have none.  A callback that has returned is never run    *)
(* again; an OnStop that was dropped halfway may be.                       *)
(***************************************************************************)
EXTENDS Naturals, Sequences

CONSTANTS Kinds, StartKinds, StopKinds, MaxHooks

Index == 1 .. MaxHooks

VARIABLES
  hooks,     \* the kinds of the registered hooks, in order
  stage,     \* "open" to registration, "ready" once all have started, "stopping"
  onStart,   \* what became of each OnStart
  onStop     \* what became of each OnStop

vars == <<hooks, stage, onStart, onStop>>

HasStart(i) == hooks[i] \in StartKinds
HasStop(i)  == hooks[i] \in StopKinds
Active(i)   == HasStart(i) => onStart[i] = "ok"
Settled(i)  == onStop[i] \in {"ok", "failed"}
Owed(i)     == HasStop(i) /\ Active(i) /\ ~Settled(i)

Init ==
  /\ hooks = <<>> /\ stage = "open"
  /\ onStart = [i \in Index |-> "no"]
  /\ onStop = [i \in Index |-> "no"]

Register(k) ==
  /\ stage = "open"
  /\ hooks' = Append(hooks, k)
  /\ UNCHANGED <<stage, onStart, onStop>>

BeginStart(i) ==
  /\ stage = "open" /\ HasStart(i) /\ onStart[i] = "no"
  /\ \A j \in 1 .. (i - 1) : Active(j)
  /\ onStart' = [onStart EXCEPT ![i] = "running"]
  /\ UNCHANGED <<hooks, stage, onStop>>

EndStart(i, result) ==
  /\ onStart[i] = "running"
  /\ onStart' = [onStart EXCEPT ![i] = result]
  /\ stage' = IF result = "ok" THEN "open" ELSE "stopping"
  /\ UNCHANGED <<hooks, onStop>>

\* Registration closes with every hook active.
Ready ==
  /\ stage = "open" /\ \A i \in 1 .. Len(hooks) : Active(i)
  /\ stage' = "ready"
  /\ UNCHANGED <<hooks, onStart, onStop>>

BeginStopping ==
  /\ \A i \in 1 .. Len(hooks) : onStart[i] # "running"
  /\ stage' = "stopping"
  /\ UNCHANGED <<hooks, onStart, onStop>>

BeginStop(i) ==
  /\ stage = "stopping" /\ Owed(i) /\ onStop[i] # "running"
  /\ \A j \in (i + 1) .. Len(hooks) : ~Owed(j)
  /\ onStop' = [onStop EXCEPT ![i] = "running"]
  /\ UNCHANGED <<hooks, stage, onStart>>

EndStop(i, result) ==
  /\ onStop[i] = "running"
  /\ onStop' = [onStop EXCEPT ![i] = result]
  /\ UNCHANGED <<hooks, stage, onStart>>

Next ==
  \/ \E k \in Kinds : Register(k)
  \/ \E i \in 1 .. Len(hooks) :
        \/ BeginStart(i) \/ BeginStop(i)
        \/ \E result \in {"ok", "failed", "dropped"} : EndStart(i, result) \/ EndStop(i, result)
  \/ Ready \/ BeginStopping

Spec == Init /\ [][Next]_vars

=============================================================================
