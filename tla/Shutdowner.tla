------------------------------ MODULE Shutdowner ------------------------------
(***************************************************************************)
(* Shutdowner, src/shutdown.rs: two atomic flags and a tokio Notify,       *)
(* shared by every thread of the application.  shutdown() and fail() are   *)
(* split at their stores, wait() at its loads, so that every interleaving  *)
(* of requests and waits is a behaviour.  The flags are read and written   *)
(* one after another: the code's Release stores and Acquire loads are      *)
(* ordered by the synchronisation inside Notify.                           *)
(***************************************************************************)
EXTENDS Naturals

CONSTANTS Callers,   \* the threads that call shutdown() or fail()
          Waiters    \* the futures that wait(), of which any may be dropped

VARIABLES
  requested,   \* Inner.requested
  failed,      \* Inner.from_failure
  caller,      \* where each caller is: the next step of shutdown() or fail()
  waiter,      \* where each waiter is in wait()
  notified,    \* the waiters whose Notified future was notified since its creation
  plain        \* history: some shutdown() that is not part of a fail() stored its flag

vars == <<requested, failed, caller, waiter, notified, plain>>

TypeOK ==
  /\ requested \in BOOLEAN /\ failed \in BOOLEAN /\ plain \in BOOLEAN
  /\ caller \in [Callers -> {"idle", "fail", "failRequest", "request", "notify"}]
  /\ waiter \in [Waiters -> {"idle", "check", "poll", "await", "released"}]
  /\ notified \subseteq Waiters

Init ==
  /\ requested = FALSE /\ failed = FALSE /\ plain = FALSE
  /\ caller = [c \in Callers |-> "idle"]
  /\ waiter = [w \in Waiters |-> "idle"]
  /\ notified = {}

-----------------------------------------------------------------------------
(* Faults: each is a wrong version of the definition its comment names. *)

\* CallFail: fail() is just shutdown(), the failure is not flagged.
FaultCallFail(c) ==
  /\ caller[c] = "idle" /\ caller' = [caller EXCEPT ![c] = "failRequest"]
  /\ UNCHANGED <<requested, failed, waiter, notified, plain>>

\* Enlisted: the Notified future is created when it is awaited, after the flag was read.
FaultEnlisted == {w \in Waiters : waiter[w] = "await"}

-----------------------------------------------------------------------------
(* shutdown() and fail() *)

CallShutdown(c) ==
  /\ caller[c] = "idle"
  /\ caller' = [caller EXCEPT ![c] = "request"]
  /\ UNCHANGED <<requested, failed, waiter, notified, plain>>

CallFail(c) ==
  /\ caller[c] = "idle"
  /\ caller' = [caller EXCEPT ![c] = "fail"]
  /\ UNCHANGED <<requested, failed, waiter, notified, plain>>

StoreFailure(c) ==
  /\ caller[c] = "fail"
  /\ failed' = TRUE
  /\ caller' = [caller EXCEPT ![c] = "failRequest"]
  /\ UNCHANGED <<requested, waiter, notified, plain>>

StoreRequested(c) ==
  /\ caller[c] \in {"request", "failRequest"}
  /\ requested' = TRUE
  /\ plain' = (plain \/ caller[c] = "request")
  /\ caller' = [caller EXCEPT ![c] = "notify"]
  /\ UNCHANGED <<failed, waiter, notified>>

\* The waiters whose Notified future exists: enable() came before the flag is read.
Enlisted == {w \in Waiters : waiter[w] \in {"check", "poll", "await"}}

NotifyWaiters(c) ==
  /\ caller[c] = "notify"
  /\ notified' = notified \cup Enlisted
  /\ caller' = [caller EXCEPT ![c] = "idle"]
  /\ UNCHANGED <<requested, failed, waiter, plain>>

-----------------------------------------------------------------------------
(* wait() *)

\* One turn of the loop begins: a new Notified future, enabled.
Enlist(w) ==
  /\ waiter[w] = "idle"
  /\ waiter' = [waiter EXCEPT ![w] = "check"]
  /\ notified' = notified \ {w}
  /\ UNCHANGED <<requested, failed, caller, plain>>

Check(w) ==
  /\ waiter[w] = "check"
  /\ waiter' = [waiter EXCEPT ![w] = IF requested THEN "released" ELSE "poll"]
  /\ UNCHANGED <<requested, failed, caller, notified, plain>>

\* The first poll of the Notified future; the flag was read some time ago.
PollNotified(w) ==
  /\ waiter[w] = "poll"
  /\ waiter' = [waiter EXCEPT ![w] = "await"]
  /\ UNCHANGED <<requested, failed, caller, notified, plain>>

\* A woken waiter goes around the loop.
Wake(w) ==
  /\ waiter[w] = "await" /\ w \in notified
  /\ waiter' = [waiter EXCEPT ![w] = "idle"]
  /\ UNCHANGED <<requested, failed, caller, notified, plain>>

\* A select! that took another branch drops the future; it may wait again.
DropWait(w) ==
  /\ waiter[w] \in {"await", "released"}
  /\ waiter' = [waiter EXCEPT ![w] = "idle"]
  /\ UNCHANGED <<requested, failed, caller, notified, plain>>

-----------------------------------------------------------------------------

Requesting(c) == StoreFailure(c) \/ StoreRequested(c) \/ NotifyWaiters(c)
Waiting(w)    == Enlist(w) \/ Check(w) \/ PollNotified(w) \/ Wake(w)

Next ==
  \/ \E c \in Callers : CallShutdown(c) \/ CallFail(c) \/ Requesting(c)
  \/ \E w \in Waiters : Waiting(w) \/ DropWait(w)

Spec == Init /\ [][Next]_vars

\* Threads run and woken futures are polled; nobody is assumed to request a shutdown.
FairSpec ==
  /\ Spec
  /\ \A c \in Callers : WF_vars(Requesting(c))
  /\ \A w \in Waiters : WF_vars(Waiting(w))

-----------------------------------------------------------------------------
(* Properties *)

\* No wake-up is lost between the check and the await: once requested, a waiter that
\* read the flag too early and is not notified yet has a caller about to notify it.
NoLostWakeup ==
  requested =>
    \A w \in Waiters :
      waiter[w] \in {"poll", "await"} /\ w \notin notified =>
        \E c \in Callers : caller[c] = "notify"

\* wait() returns only after a shutdown was requested; and if no plain shutdown()
\* is among the requests, is_failure() is already true, which run() relies on when
\* it picks the error of an interrupted start.
ReleasedKnowsWhy ==
  \A w \in Waiters : waiter[w] = "released" => requested /\ (plain \/ failed)

\* Every wait ends, whether it began before the request or after.
WaitEnds ==
  \A w \in Waiters : requested ~> (waiter[w] = "released")

=============================================================================
