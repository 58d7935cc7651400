--------------------------- MODULE ShutdownerProofs ---------------------------
(***************************************************************************)
(* Proofs about Shutdowner, for any sets of callers and waiters, finite or *)
(* not.  NoLostWakeup is inductive once the types are known: a waiter goes *)
(* to sleep only while nothing is requested, and the caller that requests  *)
(* next is then the one about to notify.  ReleasedKnowsWhy needs Reason:   *)
(* fail() stores from_failure before requested.                            *)
(***************************************************************************)
EXTENDS Shutdowner, TLAPS

\* Why a shutdown is requested: by a plain shutdown(), or after a failure that is
\* already flagged; a fail() on its way to request has flagged it too.
Reason ==
  /\ requested => plain \/ failed
  /\ \A c \in Callers : caller[c] = "failRequest" => failed
  /\ \A w \in Waiters : waiter[w] = "released" => requested

SInv == TypeOK /\ NoLostWakeup /\ Reason

\* Nothing is requested and nobody waits in the initial state.
LEMMA InitSInv == Init => SInv
  BY DEF Init, SInv, TypeOK, NoLostWakeup, Reason

\* Every atomic step of every caller and every waiter keeps the invariant.
LEMMA NextSInv == SInv /\ [Next]_vars => SInv'
<1> SUFFICES ASSUME SInv, [Next]_vars PROVE SInv'
  OBVIOUS
<1> USE DEF SInv, TypeOK
<1>1. ASSUME NEW c \in Callers, CallShutdown(c) PROVE SInv'
  BY <1>1 DEF CallShutdown, NoLostWakeup, Reason
<1>2. ASSUME NEW c \in Callers, CallFail(c) PROVE SInv'
  BY <1>2 DEF CallFail, NoLostWakeup, Reason
<1>3. ASSUME NEW c \in Callers, StoreFailure(c) PROVE SInv'
  BY <1>3 DEF StoreFailure, NoLostWakeup, Reason
<1>4. ASSUME NEW c \in Callers, StoreRequested(c) PROVE SInv'
  <2>1. TypeOK'
    BY <1>4 DEF StoreRequested
  <2>2. NoLostWakeup'
    \* the storing caller itself is about to notify
    BY <1>4 DEF StoreRequested, NoLostWakeup
  <2>3. Reason'
    BY <1>4 DEF StoreRequested, Reason
  <2> QED BY <2>1, <2>2, <2>3
<1>5. ASSUME NEW c \in Callers, NotifyWaiters(c) PROVE SInv'
  <2>1. TypeOK' /\ Reason'
    BY <1>5 DEF NotifyWaiters, Enlisted, Reason
  <2>2. NoLostWakeup'
    \* every sleeping waiter is enlisted
    BY <1>5 DEF NotifyWaiters, Enlisted, NoLostWakeup
  <2> QED BY <2>1, <2>2
<1>6. ASSUME NEW w \in Waiters, Enlist(w) PROVE SInv'
  BY <1>6 DEF Enlist, NoLostWakeup, Reason
<1>7. ASSUME NEW w \in Waiters, Check(w) PROVE SInv'
  BY <1>7 DEF Check, NoLostWakeup, Reason
<1>8. ASSUME NEW w \in Waiters, PollNotified(w) PROVE SInv'
  BY <1>8 DEF PollNotified, NoLostWakeup, Reason
<1>9. ASSUME NEW w \in Waiters, Wake(w) PROVE SInv'
  BY <1>9 DEF Wake, NoLostWakeup, Reason
<1>10. ASSUME NEW w \in Waiters, DropWait(w) PROVE SInv'
  BY <1>10 DEF DropWait, NoLostWakeup, Reason
<1>11. CASE UNCHANGED vars
  BY <1>11 DEF vars, NoLostWakeup, Reason
<1> QED
  BY <1>1, <1>2, <1>3, <1>4, <1>5, <1>6, <1>7, <1>8, <1>9, <1>10, <1>11 DEF Next, Requesting, Waiting

\* The invariant holds in every reachable state.
THEOREM Invariant == Spec => []SInv
  BY InitSInv, NextSInv, PTL DEF Spec

\* Types: the flags, the callers and the waiters stay in their ranges.
THEOREM TypeCorrect == Spec => []TypeOK
<1>1. SInv => TypeOK
  BY DEF SInv
<1> QED BY Invariant, <1>1, PTL

\* A request that lands between a waiter's check of the flag and its await still
\* wakes it: Shutdowner::wait enables its Notified before it reads the flag.
THEOREM NoWakeupIsLost == Spec => []NoLostWakeup
<1>1. SInv => NoLostWakeup
  BY DEF SInv
<1> QED BY Invariant, <1>1, PTL

\* A wait() that has returned implies a request, and if no shutdown() is among the
\* requests, is_failure() is already true: fail() stores from_failure first.
THEOREM ReleaseIsExplained == Spec => []ReleasedKnowsWhy
<1>1. SInv => ReleasedKnowsWhy
  BY DEF SInv, Reason, ReleasedKnowsWhy
<1> QED BY Invariant, <1>1, PTL

=============================================================================
