----------------------------- MODULE JournalProofs -----------------------------
(***************************************************************************)
(* Logging changes nothing: what is proved of App holds of Journal.  And   *)
(* what the log says is true.                                              *)
(***************************************************************************)
EXTENDS Journal, AppProofs, FiniteSetTheorems

\* Every step that logs is a step of the application.
LEMMA JournalSteps == [JournalNext]_journalVars => [AppNext]_<<vars, appVars>>
<1> SUFFICES ASSUME [JournalNext]_journalVars PROVE [AppNext]_<<vars, appVars>>
  OBVIOUS
<1>1. CASE JournalPoll
  BY <1>1 DEF JournalPoll, Silent, LogBuild, LogStart, LogStop, LogTimer, LogSelect, AppNext, Poll
<1>2. CASE LogSteady \/ LogAbandon \/ LogPanic
  BY <1>2 DEF LogSteady, LogAbandon, LogPanic, AppNext
<1>3. CASE Unlogged
  BY <1>3 DEF Unlogged, AppNext
<1>4. CASE UNCHANGED journalVars
  BY <1>4 DEF journalVars
<1> QED BY <1>1, <1>2, <1>3, <1>4 DEF JournalNext

\* An application that logs is an application: run() and start() do the same
\* whether a subscriber listens or not.
THEOREM JournalIsApp == JournalSpec => AppSpec
<1>1. JournalInit => AppInit
  BY DEF JournalInit
<1> QED BY <1>1, JournalSteps, PTL DEF JournalSpec, AppSpec
-----------------------------------------------------------------------------
(* Sequences of lines. *)

IsLines(t) == t \in Seq(Range(t))
LastOf(t)  == t[Len(t)]

\* No line, one, two.
LEMMA FewLines ==
  /\ IsLines(<< >>) /\ Range(<< >>) = {}
  /\ \A x : /\ IsLines(<<x>>) /\ Range(<<x>>) = {x} /\ <<x>> # << >>
           /\ LastOf(<<x>>) = x
  /\ \A x, y : /\ IsLines(<<x, y>>) /\ Range(<<x, y>>) = {x, y} /\ <<x, y>> # << >>
              /\ LastOf(<<x, y>>) = y
<1>1. IsLines(<< >>) /\ Range(<< >>) = {}
  BY DEF IsLines, Range
<1>2. ASSUME NEW x
      PROVE  IsLines(<<x>>) /\ Range(<<x>>) = {x} /\ <<x>> # << >> /\ LastOf(<<x>>) = x
  <2>1. Range(<<x>>) = {x}
    BY DEF Range
  <2> QED BY <2>1 DEF IsLines, LastOf
<1>3. ASSUME NEW x, NEW y
      PROVE  /\ IsLines(<<x, y>>) /\ Range(<<x, y>>) = {x, y} /\ <<x, y>> # << >>
             /\ LastOf(<<x, y>>) = y
  <2>1. Range(<<x, y>>) = {x, y}
    BY DEF Range
  <2> QED BY <2>1 DEF IsLines, LastOf
<1> QED BY <1>1, <1>2, <1>3

\* Lines and then others.
LEMMA LinesJoin ==
  ASSUME NEW s, NEW t, IsLines(s), IsLines(t)
  PROVE  /\ IsLines(s \o t) /\ Range(s \o t) = Range(s) \cup Range(t)
         /\ t = << >> => s \o t = s
         /\ t # << >> => s \o t # << >> /\ LastOf(s \o t) = LastOf(t)
<1> DEFINE S == Range(s) \cup Range(t)
           u == s \o t
<1>1. s \in Seq(S) /\ t \in Seq(S)
  BY DEF IsLines
<1>2. /\ u \in Seq(S) /\ Len(u) = Len(s) + Len(t) /\ Len(s) \in Nat /\ Len(t) \in Nat
      /\ DOMAIN s = 1 .. Len(s) /\ DOMAIN t = 1 .. Len(t) /\ DOMAIN u = 1 .. Len(u)
      /\ \A i \in 1 .. Len(s) : u[i] = s[i]
      /\ \A i \in 1 .. Len(t) : u[Len(s) + i] = t[i]
  BY <1>1
<1>3. t = << >> => s \o t = s
  BY <1>1
<1>4. t # << >> => Len(t) > 0
  BY <1>1
<1> HIDE DEF u
<1>5. Range(u) = S
  <2>1. \A i \in DOMAIN u : u[i] \in S
    BY <1>2
  <2>2. \A x \in S : \E i \in DOMAIN u : u[i] = x
    <3>1. \A i \in DOMAIN s : i \in DOMAIN u /\ u[i] = s[i]
      BY <1>2
    <3>2. \A i \in DOMAIN t : Len(s) + i \in DOMAIN u /\ u[Len(s) + i] = t[i]
      BY <1>2
    <3> QED BY <3>1, <3>2 DEF Range
  <2> HIDE DEF S
  <2> QED BY <2>1, <2>2 DEF Range
<1>6. t # << >> => u # << >> /\ LastOf(u) = LastOf(t)
  <2>1. t # << >> => Len(t) \in 1 .. Len(t) /\ Len(u) > 0
    BY <1>2, <1>4
  <2> QED BY <1>2, <2>1 DEF LastOf
<1>7. IsLines(u)
  BY <1>2, <1>5 DEF IsLines
<1> QED BY <1>3, <1>5, <1>6, <1>7 DEF u
-----------------------------------------------------------------------------
(* What the parts of the log say. *)

ErrorSays == {"failed", "cancelled", "panicked", "rolling back", "start failed",
              "rollback failed", "stop failed", "hooks abandoned"}

\* No line of t says that the application runs or has ended well.
NoGoodNews(t) == \A l \in Range(t) : l[2] \notin {"running", "stopped", "rolled back"}

\* Some line of t is of level ERROR.
HasError(t) == \E l \in Range(t) : l[2] \in ErrorSays

\* What a line says.
LEMMA LineSays ==
  /\ \A says : AppLine(says)[2] = says /\ InvokerLine(says)[2] = says
  /\ \A says, i : OnStartLine(says, i)[2] = says /\ OnStopLine(says, i)[2] = says
  /\ \A n : <<"app", "hooks abandoned", n>>[2] = "hooks abandoned"
  /\ \A l \in Clean : l[2] \in {"stopped", "rolled back"}
  BY DEF AppLine, InvokerLine, OnStartLine, OnStopLine, Clean

\* A future that is dropped in a phase of work tells what was in flight.
LEMMA DropSays ==
  ASSUME NEW says \in {"cancelled", "panicked"}
  PROVE  /\ IsLines(DropLines(says)) /\ NoGoodNews(DropLines(says))
         /\ at \in {"build", "start", "stop", "unwind"} =>
              /\ DropLines(says) # << >> /\ LastOf(DropLines(says))[2] = says
              /\ HasError(DropLines(says))
<1> USE DEF NoGoodNews, HasError, ErrorSays
<1>1. PICK t : t = DropLines(says)
  OBVIOUS
<1>2. CASE at \notin {"build", "start", "stop", "unwind"}
  <2>1. t = << >>
    BY <1>1, <1>2 DEF DropLines
  <2> QED BY <1>1, <1>2, <2>1, FewLines
<1>3. CASE at \in {"build", "start", "stop", "unwind"}
  <2>1. PICK x : /\ t = <<x>>
                 /\ \/ x = InvokerLine(says) \/ x = OnStartLine(says, inflight)
                    \/ x = OnStopLine(says, inflight)
    BY <1>1, <1>3 DEF DropLines
  <2>2. x[2] = says
    <3>1. CASE x = InvokerLine(says)
      BY <3>1, LineSays
    <3>2. CASE x = OnStartLine(says, inflight)
      BY <3>2, LineSays
    <3>3. CASE x = OnStopLine(says, inflight)
      BY <3>3, LineSays
    <3> QED BY <2>1, <3>1, <3>2, <3>3
  <2>3. IsLines(t) /\ Range(t) = {x} /\ t # << >> /\ LastOf(t) = x
    BY <2>1, FewLines
  <2>4. HasError(t) /\ NoGoodNews(t)
    BY <2>2, <2>3
  <2> QED BY <1>1, <2>2, <2>3, <2>4
<1> QED BY <1>2, <1>3

\* The end of a clean-up: good news if it has no errors, else an error, and how many
\* entries are left over, if any.
LEMMA EndSays ==
  ASSUME NEW cleanup
  PROVE  /\ IsLines(AfterPass(cleanup))
         /\ \A l \in Range(AfterPass(cleanup)) : l[2] # "running"
         /\ cleanup = {} => Range(AfterPass(cleanup)) \cap Clean # {}
         /\ cleanup # {} =>
              /\ NoGoodNews(AfterPass(cleanup)) /\ HasError(AfterPass(cleanup))
              /\ Leftover > 0 => <<"app", "hooks abandoned", Leftover>> \in Range(AfterPass(cleanup))
<1> USE DEF NoGoodNews, HasError, ErrorSays
<1>1. PICK b : b = IF at = "unwind" /\ StartFailed THEN <<AppLine("start failed")>> ELSE << >>
  OBVIOUS
<1>2. IsLines(b) /\ NoGoodNews(b)
  <2>1. b = << >> \/ b = <<AppLine("start failed")>>
    BY <1>1
  <2>2. CASE b = << >>
    BY <2>2, FewLines
  <2>3. CASE b = <<AppLine("start failed")>>
    <3>1. IsLines(b) /\ Range(b) = {AppLine("start failed")}
      BY <2>3, FewLines
    <3> QED BY <3>1, LineSays
  <2> QED BY <2>1, <2>2, <2>3
<1>3. PICK a : a = EndLines(cleanup)
  OBVIOUS
<1>4. /\ IsLines(a) /\ \A l \in Range(a) : l[2] # "running"
      /\ cleanup = {} => Range(a) \cap Clean # {}
      /\ cleanup # {} =>
           /\ NoGoodNews(a) /\ HasError(a)
           /\ Leftover > 0 => <<"app", "hooks abandoned", Leftover>> \in Range(a)
  <2>1. CASE cleanup = {}
    <3>1. PICK x \in Clean : a = <<x>>
      BY <1>3, <2>1 DEF EndLines, Clean
    <3>2. IsLines(a) /\ Range(a) = {x}
      BY <3>1, FewLines
    <3> QED BY <2>1, <3>1, <3>2, LineSays
  <2>2. CASE cleanup # {}
    <3>1. PICK x, c : /\ a = x \o c /\ c = Abandoned
                      /\ x = <<AppLine(IF at = "stop" THEN "stop failed" ELSE "rollback failed")>>
      BY <1>3, <2>2 DEF EndLines
    <3>2. IsLines(x) /\ NoGoodNews(x) /\ HasError(x)
      <4>1. PICK y : x = <<y>> /\ (y = AppLine("stop failed") \/ y = AppLine("rollback failed"))
        BY <3>1
      <4>2. IsLines(x) /\ Range(x) = {y}
        BY <4>1, FewLines
      <4>3. y[2] \in {"stop failed", "rollback failed"}
        <5>1. CASE y = AppLine("stop failed")
          BY <5>1, LineSays
        <5>2. CASE y = AppLine("rollback failed")
          BY <5>2, LineSays
        <5> QED BY <4>1, <5>1, <5>2
      <4> QED BY <4>2, <4>3
    <3>3. /\ IsLines(c) /\ NoGoodNews(c)
          /\ Leftover > 0 => <<"app", "hooks abandoned", Leftover>> \in Range(c)
      <4>1. CASE Leftover > 0
        <5>1. PICK y : c = <<y>> /\ y = <<"app", "hooks abandoned", Leftover>>
          BY <3>1, <4>1 DEF Abandoned
        <5>2. IsLines(c) /\ Range(c) = {y}
          BY <5>1, FewLines
        <5> QED BY <5>1, <5>2, LineSays
      <4>2. CASE ~(Leftover > 0)
        <5>1. c = << >>
          BY <3>1, <4>2 DEF Abandoned
        <5> QED BY <4>2, <5>1, FewLines
      <4> QED BY <4>1, <4>2
    <3>4. IsLines(a) /\ Range(a) = Range(x) \cup Range(c)
      BY <3>1, <3>2, <3>3, LinesJoin
    <3> QED BY <2>2, <3>2, <3>3, <3>4
  <2> QED BY <2>1, <2>2
<1>5. PICK t : t = AfterPass(cleanup)
  OBVIOUS
<1>6. IsLines(t) /\ Range(t) = Range(a) \cup Range(b)
  <2>1. t = a \o b
    BY <1>1, <1>3, <1>5 DEF AfterPass
  <2> QED BY <1>2, <1>4, <2>1, LinesJoin
<1> QED BY <1>2, <1>4, <1>5, <1>6

\* What run() says of a request or a signal.
LEMMA RequestSays ==
  \A t \in {RequestLines, SignalLines, RollingBack} : IsLines(t) /\ NoGoodNews(t)
<1> USE DEF NoGoodNews
<1>1. PICK r : r = RequestLines
  OBVIOUS
<1>2. IsLines(r) /\ NoGoodNews(r)
  <2>1. IsLines(r) /\ Range(r) = {AppLine("shutdown requested")}
    BY <1>1, FewLines DEF RequestLines
  <2> QED BY <2>1, LineSays
<1>3. PICK s : s = <<AppLine("signal")>>
  OBVIOUS
<1>4. IsLines(s) /\ NoGoodNews(s)
  <2>1. IsLines(s) /\ Range(s) = {AppLine("signal")}
    BY <1>3, FewLines
  <2> QED BY <2>1, LineSays
<1>5. PICK u : u = SignalLines
  OBVIOUS
<1>6. IsLines(u) /\ NoGoodNews(u)
  <2>1. u = s \o r
    BY <1>1, <1>3, <1>5 DEF SignalLines
  <2>2. IsLines(u) /\ Range(u) = Range(s) \cup Range(r)
    BY <1>2, <1>4, <2>1, LinesJoin
  <2> QED BY <1>2, <1>4, <2>2
<1>7. PICK b : b = RollingBack
  OBVIOUS
<1>8. IsLines(b) /\ NoGoodNews(b)
  <2>1. CASE at = "start"
    <3>1. IsLines(b) /\ Range(b) = {AppLine("rolling back")}
      BY <1>7, <2>1, FewLines DEF RollingBack
    <3> QED BY <3>1, LineSays
  <2>2. CASE at # "start"
    BY <1>7, <2>2, FewLines DEF RollingBack
  <2> QED BY <2>1, <2>2
<1> QED BY <1>1, <1>2, <1>5, <1>6, <1>7, <1>8

-----------------------------------------------------------------------------
(* What a step adds to the log. *)

\* The application is on its way to an error, or was interrupted: an error must have
\* been logged.  Not so of a build over its budget that returned all the same.
InTrouble ==
  /\ at \notin {"done", "abandoned"}
  /\ cause \ {Plain("BuildTimeout")} # {} \/ via = "interrupt"

\* A step that logs t without ending a clean-up.
Tells(t) ==
  /\ IsLines(t)
  /\ \A l \in Range(t) : l[2] \notin {"stopped", "rolled back"}
  /\ (\E l \in Range(t) : l[2] = "running") => StartSucceeds /\ at' = "steady"
  /\ at' = "steady" => \/ at = "steady" /\ t = << >>
                       \/ t # << >> /\ LastOf(t) = AppLine("running")
  /\ at' = "abandoned" => \/ at = "abandoned" /\ t = << >>
                          \/ t # << >> /\ LastOf(t)[2] \in {"cancelled", "panicked", "dropped"}
                          \/ t = << >> /\ at = "steady" /\ entry = "run"
  /\ at' = "done" => at = "done" \/ (at = "setup" /\ Setup /\ result' = {Plain("Setup")})
  /\ InTrouble' => InTrouble \/ HasError(t)

\* A step that logs t and ends a clean-up, by itself or over its budget.
Ends(t, cleanup) ==
  /\ at \in {"stop", "unwind"} /\ Conclude(cleanup)
  /\ \/ StopReturns /\ cleanup = PassResult
     \/ DropStop /\ cleanup = TimedOutResult
  /\ IsLines(t)
  /\ \A l \in Range(t) : l[2] # "running"
  /\ cleanup = {} => Range(t) \cap Clean # {}
  /\ cleanup # {} =>
       /\ NoGoodNews(t) /\ HasError(t)
       /\ Leftover > 0 => <<"app", "hooks abandoned", Leftover>> \in Range(t)

\* A step that says nothing.
LEMMA NothingTells ==
  ASSUME NEW t, t = << >>, InTrouble' => InTrouble,
         at' = "steady" => at = "steady",
         at' = "abandoned" => at = "abandoned" \/ (at = "steady" /\ entry = "run"),
         at' = "done" => at = "done" \/ (at = "setup" /\ Setup /\ result' = {Plain("Setup")})
  PROVE  Tells(t)
<1>1. IsLines(t) /\ Range(t) = {}
  BY FewLines
<1> QED BY <1>1 DEF Tells

\* A step between two phases of work.
LEMMA WorkTells ==
  ASSUME NEW t, IsLines(t), NoGoodNews(t), InTrouble' => InTrouble \/ HasError(t),
         at' \notin {"steady", "abandoned", "done"}
  PROVE  Tells(t)
  BY DEF Tells, NoGoodNews

\* One line.
LEMMA OneLine ==
  \A x : /\ IsLines(<<x>>)
         /\ x[2] \notin {"running", "stopped", "rolled back"} => NoGoodNews(<<x>>)
         /\ x[2] \in ErrorSays => HasError(<<x>>)
<1> SUFFICES ASSUME NEW x
             PROVE /\ IsLines(<<x>>)
                   /\ x[2] \notin {"running", "stopped", "rolled back"} => NoGoodNews(<<x>>)
                   /\ x[2] \in ErrorSays => HasError(<<x>>)
  OBVIOUS
<1>1. PICK t : t = <<x>>
  OBVIOUS
<1>2. IsLines(t) /\ Range(t) = {x}
  BY <1>1, FewLines
<1> QED BY <1>1, <1>2 DEF NoGoodNews, HasError

\* Lines and then others, none of them good news.
LEMMA NewsJoin ==
  ASSUME NEW s, NEW t, IsLines(s), IsLines(t), NoGoodNews(s), NoGoodNews(t)
  PROVE  /\ IsLines(s \o t) /\ NoGoodNews(s \o t)
         /\ HasError(s) \/ HasError(t) => HasError(s \o t)
<1>1. PICK u : u = s \o t
  OBVIOUS
<1>2. IsLines(u) /\ Range(u) = Range(s) \cup Range(t)
  BY <1>1, LinesJoin
<1> QED BY <1>1, <1>2 DEF NoGoodNews, HasError

\* The steps that say nothing in any phase.
LEMMA SilentTells ==
  ASSUME OwnTypes, LookInv, NEW t, t = << >>,
         \/ Setup \/ BeginStart \/ StartYields \/ Prepare \/ BeginUnwind \/ StopYields \/ Wake
         \/ SomeoneAppends \/ Expire \/ RequestShutdown \/ SignalArrives \/ Returned
         \/ (\E i \in Index : TaskFails(i)) \/ UNCHANGED <<vars, appVars>>
  PROVE  Tells(t)
<1> USE DEF InTrouble, KeepPhase, ending, Enter
<1>1. CASE Setup
  <2>1. InTrouble' => InTrouble
    BY <1>1 DEF Setup
  <2>2. at = "setup" /\ at' \in {"build", "done"} /\ (at' = "done" => result' = {Plain("Setup")})
    BY <1>1 DEF Setup
  <2> HIDE DEF InTrouble
  <2> QED BY <1>1, <2>1, <2>2, NothingTells
<1>2. CASE BeginStart \/ StartYields \/ StopYields \/ Wake
  <2>1. at' = at /\ (InTrouble' => InTrouble)
    BY <1>2 DEF BeginStart, StartYields, StopYields, Wake, Yields, appVars
  <2> HIDE DEF InTrouble
  <2>2. at # "done" /\ at # "abandoned"
    BY <1>2 DEF BeginStart, StartYields, StopYields, Wake, LookInv
  <2> QED BY <2>1, <2>2, NothingTells
<1>3. CASE Prepare \/ BeginUnwind
  <2>1. at' \in {"prepared", "unwind"} /\ (InTrouble' => InTrouble)
    BY <1>3 DEF Prepare, BeginUnwind
  <2> HIDE DEF InTrouble
  <2> QED BY <2>1, NothingTells
<1>4. CASE SomeoneAppends \/ Expire \/ RequestShutdown \/ SignalArrives \/ Returned
           \/ (\E i \in Index : TaskFails(i)) \/ UNCHANGED <<vars, appVars>>
  <2>1. at' = at /\ (InTrouble' => InTrouble)
    BY <1>4 DEF SomeoneAppends, Expire, RequestShutdown, SignalArrives, Returned, TaskFails, appVars
  <2> HIDE DEF InTrouble
  <2> QED BY <2>1, NothingTells
<1> QED BY <1>1, <1>2, <1>3, <1>4

\* The build, and the start's callbacks.
LEMMA BuildTells ==
  ASSUME OwnTypes, LogBuild PROVE \E t : log' = log \o t /\ Tells(t)
<1> USE DEF Enter, Rollback, KeepPhase, ending
<1>1. PICK t : t = IF cause' = {Plain("Invoke")} THEN <<InvokerLine("failed")>> ELSE << >>
  OBVIOUS
<1>2. Build /\ log' = log \o t
  BY <1>1 DEF LogBuild, Logs
<1>3. at = "build" /\ at' \in {"rollback", "build", "start"}
  BY <1>2 DEF Build, Yields
<1>4. CASE cause' = {Plain("Invoke")}
  <2>1. PICK x : x = InvokerLine("failed")
    OBVIOUS
  <2>2. t = <<x>> /\ x[2] = "failed"
    BY <1>1, <1>4, <2>1, LineSays
  <2>3. IsLines(t) /\ NoGoodNews(t) /\ HasError(t)
    BY <2>2, OneLine DEF ErrorSays
  <2> QED BY <1>2, <1>3, <2>3, WorkTells
<1>5. CASE cause' # {Plain("Invoke")}
  <2>1. t = << >>
    BY <1>1, <1>5
  <2>2. InTrouble' => InTrouble
    <3>1. CASE UNCHANGED ending
      BY <1>3, <3>1 DEF InTrouble
    <3>2. CASE Rollback("error", {Plain("BuildTimeout")})
      BY <3>2 DEF InTrouble
    <3> QED BY <1>2, <1>5, <3>1, <3>2 DEF Build, Yields
  <2> QED BY <1>2, <1>3, <2>1, <2>2, NothingTells
<1> QED BY <1>4, <1>5

\* An OnStart is called, or has returned.
LEMMA StartStepTells ==
  ASSUME StartStep, NEW t, t = IF inflight = 0 THEN <<OnStartLine("executing", inflight')>>
                             ELSE <<OnStartLine("executed", inflight)>>
  PROVE  Tells(t)
<1>1. PICK x : t = <<x>> /\ (x = OnStartLine("executing", inflight') \/ x = OnStartLine("executed", inflight))
  OBVIOUS
<1>2. x[2] = "executing" \/ x[2] = "executed"
  <2>1. CASE x = OnStartLine("executing", inflight')
    BY <2>1, LineSays
  <2>2. CASE x = OnStartLine("executed", inflight)
    BY <2>2, LineSays
  <2> QED BY <1>1, <2>1, <2>2
<1>3. IsLines(t) /\ NoGoodNews(t)
  BY <1>1, <1>2, OneLine
<1>4. at' = "start" /\ (InTrouble' => InTrouble)
  BY DEF StartStep, appVars, ending, InTrouble
<1> QED BY <1>3, <1>4, WorkTells

\* The start ends: by an error, over its budget, or with the application running.
LEMMA StartTells ==
  ASSUME LogStart PROVE \E t : log' = log \o t /\ Tells(t)
<1> USE DEF Enter, Rollback
<1>1. CASE StartStep /\ log' = log \o (IF inflight = 0 THEN <<OnStartLine("executing", inflight')>>
                                       ELSE <<OnStartLine("executed", inflight)>>)
  <2>1. PICK t : t = IF inflight = 0 THEN <<OnStartLine("executing", inflight')>>
                     ELSE <<OnStartLine("executed", inflight)>>
    OBVIOUS
  <2> QED BY <1>1, <2>1, StartStepTells
<1>2. CASE StartFails /\ log' = log \o <<OnStartLine("failed", inflight), AppLine("rolling back")>>
  <2>1. PICK x, y : x = OnStartLine("failed", inflight) /\ y = AppLine("rolling back")
    OBVIOUS
  <2>2. PICK t : t = <<x, y>>
    OBVIOUS
  <2>3. x[2] = "failed" /\ y[2] = "rolling back"
    BY <2>1, LineSays
  <2>4. IsLines(t) /\ Range(t) = {x, y}
    BY <2>2, FewLines
  <2>5. NoGoodNews(t) /\ HasError(t)
    BY <2>3, <2>4 DEF NoGoodNews, HasError, ErrorSays
  <2>6. at' = "rollback"
    BY <1>2 DEF StartFails
  <2> QED BY <1>2, <2>1, <2>2, <2>4, <2>5, <2>6, WorkTells
<1>3. CASE StartSucceeds /\ log' = log \o <<AppLine(IF at' = "steady" THEN "running" ELSE "rolling back")>>
  <2>1. PICK x : x = AppLine(IF at' = "steady" THEN "running" ELSE "rolling back")
    OBVIOUS
  <2>2. PICK t : t = <<x>>
    OBVIOUS
  <2>3. log' = log \o t
    BY <1>3, <2>1, <2>2
  <2>4. CASE at' = "steady"
    <3>1. x = AppLine("running")
      BY <2>1, <2>4
    <3>2. x[2] = "running"
      BY <3>1, LineSays
    <3>3. IsLines(t) /\ Range(t) = {x} /\ t # << >> /\ LastOf(t) = x
      BY <2>2, FewLines
    <3>4. InTrouble' => InTrouble
      BY <1>3, <2>4 DEF StartSucceeds, InTrouble, ending
    <3> QED BY <1>3, <2>3, <2>4, <3>1, <3>2, <3>3, <3>4 DEF Tells
  <2>5. CASE at' # "steady"
    <3>1. x[2] = "rolling back"
      <4>1. x = AppLine("rolling back")
        BY <2>1, <2>5
      <4> QED BY <4>1, LineSays
    <3>2. IsLines(t) /\ NoGoodNews(t) /\ HasError(t)
      BY <2>2, <3>1, OneLine DEF ErrorSays
    <3>3. at' = "rollback"
      BY <1>3, <2>5 DEF StartSucceeds
    <3> QED BY <2>3, <3>2, <3>3, WorkTells
  <2> QED BY <2>4, <2>5
<1> QED BY <1>1, <1>2, <1>3 DEF LogStart, Logs

\* A request, a signal or RunningApp::stop ends the steady phase.
LEMMA SteadyTells ==
  ASSUME LogSteady PROVE \E t : log' = log \o t /\ Tells(t)
<1>1. at' = "stop" /\ (InTrouble' => InTrouble)
  BY DEF LogSteady, EndSteady, Enter, ending, InTrouble
<1>2. PICK t : log' = log \o t /\ (t = << >> \/ t = RequestLines \/ t = SignalLines)
  BY DEF LogSteady, Logs
<1>3. IsLines(t) /\ NoGoodNews(t)
  <2>1. CASE t = << >>
    BY <2>1, FewLines DEF NoGoodNews
  <2> QED BY <1>2, <2>1, RequestSays
<1> QED BY <1>1, <1>2, <1>3, WorkTells

\* An OnStop is called, or has returned; or the clean-up is over.
LEMMA StopTells ==
  ASSUME LogStop
  PROVE  \E t : log' = log \o t /\ (Tells(t) \/ \E cleanup : Ends(t, cleanup))
<1>1. CASE StopStep /\ log' = log \o
             (IF inflight = 0 THEN <<OnStopLine("executing", inflight')>>
              ELSE <<OnStopLine(IF errors' = errors THEN "executed" ELSE "failed", inflight)>>)
  <2>1. PICK x : /\ log' = log \o <<x>>
                 /\ \/ x = OnStopLine("executing", inflight')
                    \/ x = OnStopLine("executed", inflight)
                    \/ x = OnStopLine("failed", inflight)
    BY <1>1
  <2>2. x[2] \in {"executing", "executed", "failed"}
    <3>1. CASE x = OnStopLine("executing", inflight')
      BY <3>1, LineSays
    <3>2. CASE x = OnStopLine("executed", inflight)
      BY <3>2, LineSays
    <3>3. CASE x = OnStopLine("failed", inflight)
      BY <3>3, LineSays
    <3> QED BY <2>1, <3>1, <3>2, <3>3
  <2>3. PICK t : t = <<x>>
    OBVIOUS
  <2>4. IsLines(t) /\ NoGoodNews(t)
    BY <2>2, <2>3, OneLine
  <2>5. at' \in {"stop", "unwind"} /\ (InTrouble' => InTrouble)
    BY <1>1 DEF StopStep, appVars, ending, InTrouble
  <2> QED BY <2>1, <2>3, <2>4, <2>5, WorkTells
<1>2. CASE StopReturns /\ log' = log \o AfterPass(PassResult)
  <2>1. PICK t, cleanup : t = AfterPass(PassResult) /\ cleanup = PassResult
    OBVIOUS
  <2>2. at \in {"stop", "unwind"} /\ Conclude(cleanup)
    BY <1>2, <2>1 DEF StopReturns
  <2>3. t = AfterPass(cleanup)
    BY <2>1
  <2>4. /\ IsLines(t) /\ \A l \in Range(t) : l[2] # "running"
        /\ cleanup = {} => Range(t) \cap Clean # {}
        /\ cleanup # {} =>
             /\ NoGoodNews(t) /\ HasError(t)
             /\ Leftover > 0 => <<"app", "hooks abandoned", Leftover>> \in Range(t)
    BY <2>3, EndSays
  <2>5. Ends(t, cleanup)
    BY <1>2, <2>1, <2>2, <2>4 DEF Ends
  <2> QED BY <1>2, <2>1, <2>5
<1> QED BY <1>1, <1>2 DEF LogStop, Logs

\* The budget of the phase is looked at.
LEMMA TimerTells ==
  ASSUME OwnTypes, LookInv, LogTimer
  PROVE  \E t : log' = log \o t /\ (Tells(t) \/ \E cleanup : Ends(t, cleanup))
<1>1. LookTimer /\ look = "timer" /\ at \in {"build", "start", "stop", "unwind"}
  BY DEF LogTimer, LookTimer, LookInv
<1>2. CASE ~overdue
  <2>1. PICK t : t = << >>
    OBVIOUS
  <2>2. log' = log \o t
    BY <1>2, <2>1 DEF LogTimer, Logs
  <2>3. at' = at /\ (InTrouble' => InTrouble)
    BY <1>1, <1>2 DEF LookTimer, KeepPhase, ending, InTrouble
  <2> QED BY <1>1, <2>1, <2>2, <2>3, NothingTells
<1>3. PICK d : d = DropLines("cancelled")
  OBVIOUS
<1>4. IsLines(d) /\ NoGoodNews(d) /\ HasError(d)
  BY <1>1, <1>3, DropSays
<1>5. CASE overdue /\ at \in {"build", "start"}
  <2>1. PICK b : b = RollingBack
    OBVIOUS
  <2>2. PICK t : t = d \o b
    OBVIOUS
  <2>3. log' = log \o t
    BY <1>3, <1>5, <2>1, <2>2 DEF LogTimer, Logs
  <2>4. IsLines(b) /\ NoGoodNews(b)
    BY <2>1, RequestSays
  <2>5. IsLines(t) /\ NoGoodNews(t) /\ HasError(t)
    BY <1>4, <2>2, <2>4, NewsJoin
  <2>6. at' = "rollback"
    BY <1>1, <1>5 DEF LookTimer, Rollback, Enter
  <2> QED BY <2>3, <2>5, <2>6, WorkTells
<1>6. CASE overdue /\ at \in {"stop", "unwind"}
  <2>1. PICK cleanup : cleanup = TimedOutResult
    OBVIOUS
  <2>2. PICK e : e = AfterPass(cleanup)
    OBVIOUS
  <2>3. PICK t : t = d \o e
    OBVIOUS
  <2>4. log' = log \o t
    BY <1>3, <1>6, <2>1, <2>2, <2>3 DEF LogTimer, Logs
  <2>5. cleanup # {}
    BY <2>1 DEF TimedOutResult
  <2>6. /\ IsLines(e) /\ NoGoodNews(e) /\ HasError(e)
        /\ Leftover > 0 => <<"app", "hooks abandoned", Leftover>> \in Range(e)
    BY <2>2, <2>5, EndSays
  <2>7. IsLines(t) /\ Range(t) = Range(d) \cup Range(e)
    BY <1>4, <2>3, <2>6, LinesJoin
  <2>8. NoGoodNews(t) /\ HasError(t)
    BY <1>4, <2>3, <2>6, NewsJoin
  <2>9. DropStop /\ Conclude(cleanup)
    BY <1>1, <1>6, <2>1 DEF LookTimer, DropWork
  <2>10. Ends(t, cleanup)
    BY <1>6, <2>1, <2>5, <2>6, <2>7, <2>8, <2>9 DEF Ends, NoGoodNews
  <2> QED BY <2>4, <2>10
<1> QED BY <1>1, <1>2, <1>5, <1>6

\* A request or a signal is found during the build or the start.
LEMMA SelectTells ==
  ASSUME OwnTypes, LookInv, LogSelect PROVE \E t : log' = log \o t /\ Tells(t)
<1>1. at \in {"build", "start"}
  BY DEF LogSelect, LookShutdown, LookSignal, LookInv
<1>2. CASE at' = at
  <2>1. PICK t : t = << >>
    OBVIOUS
  <2>2. log' = log \o t
    BY <1>2, <2>1 DEF LogSelect, Logs
  <2>3. InTrouble' => InTrouble
    BY <1>1, <1>2
    DEF LogSelect, LookShutdown, LookSignal, Rollback, Enter, KeepPhase, ending, InTrouble
  <2> QED BY <1>1, <1>2, <2>1, <2>2, <2>3, NothingTells
<1>3. CASE at' # at
  <2>1. PICK d, b : d = DropLines("cancelled") /\ b = RollingBack
    OBVIOUS
  <2>2. PICK r : log' = log \o (d \o r \o b) /\ (r = RequestLines \/ r = SignalLines)
    BY <1>3, <2>1 DEF LogSelect, Logs
  <2>3. IsLines(d) /\ NoGoodNews(d) /\ HasError(d)
    BY <1>1, <2>1, DropSays
  <2>4. IsLines(b) /\ NoGoodNews(b) /\ IsLines(r) /\ NoGoodNews(r)
    BY <2>1, <2>2, RequestSays
  <2>5. PICK s : s = d \o r
    OBVIOUS
  <2>6. IsLines(s) /\ NoGoodNews(s) /\ HasError(s)
    BY <2>3, <2>4, <2>5, NewsJoin
  <2>7. PICK t : t = s \o b
    OBVIOUS
  <2>8. IsLines(t) /\ NoGoodNews(t) /\ HasError(t)
    BY <2>4, <2>6, <2>7, NewsJoin
  <2>9. at' = "rollback"
    BY <1>1, <1>3 DEF LogSelect, LookShutdown, LookSignal, Rollback, Enter, KeepPhase
  <2> QED BY <2>2, <2>5, <2>7, <2>8, <2>9, WorkTells
<1> QED BY <1>2, <1>3

\* The future of a phase, or a RunningApp, is dropped; or a callback panics.
LEMMA LeaveTells ==
  ASSUME OwnTypes, LogAbandon \/ LogPanic PROVE \E t : log' = log \o t /\ Tells(t)
<1>1. at' = "abandoned" /\ at \in {"build", "start", "steady", "stop", "unwind"}
  BY DEF LogAbandon, LogPanic, Abandon, Panics, Enter
<1>2. CASE at # "steady"
  <2>1. PICK says \in {"cancelled", "panicked"} :
          log' = log \o DropLines(says) \/ log' = log \o (DropLines(says) \o << >>)
    BY <1>2 DEF LogAbandon, LogPanic, Logs
  <2>2. PICK t : t = DropLines(says)
    OBVIOUS
  <2>3. IsLines(t) /\ NoGoodNews(t) /\ t # << >> /\ LastOf(t)[2] = says /\ HasError(t)
    BY <1>1, <1>2, <2>2, DropSays
  <2>4. log' = log \o t
    <3>1. PICK e : e = << >>
      OBVIOUS
    <3>2. t \o e = t
      BY <2>3, <3>1, FewLines, LinesJoin
    <3> QED BY <2>1, <2>2, <3>1, <3>2
  <2>5. Tells(t)
    BY <1>1, <2>3 DEF Tells, NoGoodNews
  <2> QED BY <2>4, <2>5
<1>3. CASE at = "steady"
  <2>1. LogAbandon /\ DropLines("cancelled") = << >>
    BY <1>3 DEF LogAbandon, LogPanic, Panics, DropLines
  <2>2. CASE entry = "start"
    <3>1. PICK x : x = AppLine("dropped")
      OBVIOUS
    <3>2. PICK t : t = <<x>>
      OBVIOUS
    <3>3. log' = log \o t
      BY <1>3, <2>1, <2>2, <3>1, <3>2 DEF LogAbandon, Logs
    <3>4. x[2] = "dropped"
      BY <3>1, LineSays
    <3>5. IsLines(t) /\ NoGoodNews(t)
      BY <3>2, <3>4, OneLine
    <3>6. t # << >> /\ LastOf(t) = x
      BY <3>2, FewLines
    <3>7. ~InTrouble'
      BY <1>1 DEF InTrouble
    <3>8. Tells(t)
      BY <1>1, <3>4, <3>5, <3>6, <3>7 DEF Tells, NoGoodNews
    <3> QED BY <3>3, <3>8
  <2>3. CASE entry # "start"
    <3>1. PICK t : t = << >>
      OBVIOUS
    <3>2. log' = log \o t
      <4>1. log' = log \o (t \o t)
        BY <1>3, <2>1, <2>3, <3>1 DEF LogAbandon, Logs
      <4>2. t \o t = t
        BY <3>1, FewLines, LinesJoin
      <4> QED BY <4>1, <4>2
    <3>3. ~InTrouble'
      BY <1>1 DEF InTrouble
    <3>4. entry = "run" => Tells(t)
      BY <1>1, <1>3, <3>1, <3>3, NothingTells
    <3> QED BY <2>3, <3>2, <3>4 DEF OwnTypes
  <2> QED BY <2>2, <2>3
<1> QED BY <1>2, <1>3

\* Every step tells something true, or ends a clean-up.
LEMMA StepTells ==
  ASSUME OwnTypes, LookInv, IsLines(log), [JournalNext]_journalVars
  PROVE  \E t : log' = log \o t /\ (Tells(t) \/ \E cleanup : Ends(t, cleanup))
<1>1. CASE Silent \/ Unlogged
  <2>1. PICK t : t = << >>
    OBVIOUS
  <2>2. log' = log \o t
    BY <1>1, <2>1 DEF Silent, Unlogged, Logs
  <2> QED BY <1>1, <2>1, <2>2, SilentTells DEF Silent, Unlogged
<1>2. CASE UNCHANGED journalVars
  <2>1. PICK t : t = << >>
    OBVIOUS
  <2>2. IsLines(t) /\ log \o t = log
    BY <2>1, FewLines, LinesJoin
  <2>3. UNCHANGED <<vars, appVars>> /\ log' = log
    BY <1>2 DEF journalVars
  <2> QED BY <2>1, <2>2, <2>3, SilentTells
<1>3. CASE LogBuild \/ LogStart \/ LogSteady
  BY <1>3, BuildTells, StartTells, SteadyTells
<1>4. CASE LogStop \/ LogTimer \/ LogSelect
  BY <1>4, StopTells, TimerTells, SelectTells
<1>5. CASE LogAbandon \/ LogPanic
  BY <1>5, LeaveTells
<1> QED BY <1>1, <1>2, <1>3, <1>4, <1>5 DEF JournalNext, JournalPoll
-----------------------------------------------------------------------------
(* What the log says, related to the registry and to the driver. *)

\* RUNNING is said of hooks that are all active.
RunningInv ==
  (\E l \in Range(log) : l[2] = "running") =>
    phase \in {"Started", "Stopping"} /\ \A i \in 1 .. Len(hooks) : Active(i)

\* The good news at the end is true.
CleanInv ==
  (\E l \in Range(log) : l[2] \in {"stopped", "rolled back"}) =>
    at = "done" /\ \A i \in 1 .. Len(hooks) : ~Owed(i) /\ onStop[i] # "failed"

\* What is returned has been said.
EndedInv ==
  at = "done" =>
    /\ result = {} => Said(Clean)
    /\ result \ {Plain("Setup"), Plain("BuildTimeout")} # {} => HasError(log)

\* An error on its way has been said.
TroubleInv == InTrouble => HasError(log)

\* While the application is up, the last thing said is that it is.
UpInv == at = "steady" => log # << >> /\ LastOf(log) = AppLine("running")

\* The last line before the future or the RunningApp was dropped.
LeftInv ==
  at = "abandoned" => \/ LastOf(log)[2] \in {"cancelled", "panicked", "dropped"}
                      \/ entry = "run" /\ LastOf(log) = AppLine("running")

\* The hooks that are owed their OnStop at the end have been counted.
OwedInv ==
  at = "done" /\ (\E i \in 1 .. Len(hooks) : Owed(i)) =>
    \E l \in Range(log) :
      l[2] = "hooks abandoned" /\ l[3] >= Cardinality({i \in 1 .. Len(hooks) : Owed(i)})

JournalInv ==
  /\ IsLines(log)
  /\ RunningInv /\ CleanInv /\ EndedInv /\ TroubleInv /\ UpInv /\ LeftInv /\ OwedInv

\* The method called does not change.
LEMMA EntryStays == [AppNext]_<<vars, appVars>> => entry' = entry
<1> SUFFICES ASSUME [AppNext]_<<vars, appVars>> PROVE entry' = entry
  OBVIOUS
<1> USE DEF WorkKeeps
<1>1. CASE Setup \/ Build \/ StartYields \/ StartFails \/ StartSucceeds \/ Prepare \/ BeginUnwind
  BY <1>1 DEF Setup, Build, StartYields, StartFails, StartSucceeds, Prepare, BeginUnwind
<1>2. CASE BeginStart \/ StartStep \/ StopStep
  BY <1>2 DEF BeginStart, StartStep, StopStep, appVars
<1>3. CASE StopYields \/ StopReturns \/ LookTimer \/ LookShutdown \/ LookSignal \/ Wake
  BY <1>3 DEF StopYields, StopReturns, LookTimer, LookShutdown, LookSignal, Wake
<1>4. CASE EndSteady \/ SomeoneAppends \/ Expire \/ RequestShutdown \/ SignalArrives
  BY <1>4 DEF EndSteady, SomeoneAppends, Expire, RequestShutdown, SignalArrives, appVars
<1>5. CASE (\E i \in Index : TaskFails(i)) \/ Abandon \/ Panics
  BY <1>5 DEF TaskFails, Abandon, Panics
<1>6. CASE Returned \/ UNCHANGED <<vars, appVars>>
  BY <1>6 DEF Returned, appVars
<1> QED BY <1>1, <1>2, <1>3, <1>4, <1>5, <1>6 DEF AppNext, Poll

\* Hooks that were all active when the application was said to run stay so.
LEMMA StillActive ==
  ASSUME IInv, RunningInv, [Next]_vars, \E l \in Range(log) : l[2] = "running"
  PROVE  phase' \in {"Started", "Stopping"} /\ \A i \in 1 .. Len(hooks') : Active(i)'
<1>1. phase \in {"Started", "Stopping"} /\ \A i \in 1 .. Len(hooks) : Active(i)
  BY DEF RunningInv
<1>2. UNCHANGED <<hooks, onStart>> /\ phase' \in {"Started", "Stopping"}
  BY <1>1, StartsAreOver
<1> QED BY <1>1, <1>2 DEF Active, HasStart

\* Most steps.
LEMMA TellsKeeps ==
  ASSUME IInv, StartedMeansAllActive', DriverInv, JournalInv, [AppNext]_<<vars, appVars>>,
         NEW t, log' = log \o t, Tells(t)
  PROVE  JournalInv'
<1>1. IsLines(log) /\ IsLines(t)
  BY DEF JournalInv, Tells
<1>2. /\ IsLines(log') /\ Range(log') = Range(log) \cup Range(t)
      /\ t = << >> => log' = log
      /\ t # << >> => log' # << >> /\ LastOf(log') = LastOf(t)
  BY <1>1, LinesJoin
<1>3. [Next]_vars /\ entry' = entry
  BY AppSteps, EntryStays
<1>4. at = "done" => UNCHANGED <<vars, appVars>>
  BY DoneIsFinal DEF DriverInv
<1>5. HasError(log) \/ HasError(t) => HasError(log')
  BY <1>2 DEF HasError
<1>6. RunningInv'
  <2> SUFFICES ASSUME \E l \in Range(log') : l[2] = "running"
               PROVE  phase' \in {"Started", "Stopping"} /\ \A i \in 1 .. Len(hooks') : Active(i)'
    BY DEF RunningInv
  <2>1. CASE \E l \in Range(log) : l[2] = "running"
    BY <1>3, <2>1, StillActive DEF JournalInv
  <2>2. CASE \E l \in Range(t) : l[2] = "running"
    <3>1. phase' = "Started"
      BY <2>2 DEF Tells, StartSucceeds, FinishStart
    <3> QED BY <3>1 DEF StartedMeansAllActive
  <2> QED BY <1>2, <2>1, <2>2
<1>7. CleanInv'
  <2> SUFFICES ASSUME \E l \in Range(log') : l[2] \in {"stopped", "rolled back"}
               PROVE  at' = "done" /\ \A i \in 1 .. Len(hooks') : ~Owed(i)' /\ onStop'[i] # "failed"
    BY DEF CleanInv
  <2>1. \E l \in Range(log) : l[2] \in {"stopped", "rolled back"}
    BY <1>2 DEF Tells
  <2>2. at = "done" /\ \A i \in 1 .. Len(hooks) : ~Owed(i) /\ onStop[i] # "failed"
    BY <2>1 DEF JournalInv, CleanInv
  <2> QED BY <1>4, <2>2 DEF vars, registry, history, appVars, Owed, Active, HasStop, HasStart, Settled
<1>8. EndedInv'
  <2>1. CASE at = "done"
    <3>1. at' = at /\ result' = result
      BY <1>4, <2>1 DEF appVars, ending
    <3>2. Said(Clean) => Said(Clean)'
      BY <1>2 DEF Said, Clean, AppLine
    <3> QED BY <1>5, <2>1, <3>1, <3>2 DEF JournalInv, EndedInv, Plain
  <2>2. CASE at # "done" /\ at' = "done"
    BY <2>2 DEF Tells, EndedInv, Plain
  <2> QED BY <2>1, <2>2 DEF EndedInv
<1>9. TroubleInv'
  BY <1>5 DEF JournalInv, TroubleInv, Tells
<1>10. UpInv'
  <2> SUFFICES ASSUME at' = "steady" PROVE log' # << >> /\ LastOf(log') = AppLine("running")
    BY DEF UpInv, AppLine
  <2> QED BY <1>2 DEF Tells, JournalInv, UpInv
<1>11. LeftInv'
  <2> SUFFICES ASSUME at' = "abandoned"
               PROVE  \/ LastOf(log')[2] \in {"cancelled", "panicked", "dropped"}
                      \/ entry' = "run" /\ LastOf(log') = AppLine("running")
    BY DEF LeftInv, AppLine, LastOf
  <2>1. CASE at = "abandoned" /\ t = << >>
    BY <1>2, <1>3, <2>1 DEF JournalInv, LeftInv
  <2>2. CASE t # << >> /\ LastOf(t)[2] \in {"cancelled", "panicked", "dropped"}
    BY <1>2, <2>2
  <2>3. CASE t = << >> /\ at = "steady" /\ entry = "run"
    BY <1>2, <1>3, <2>3 DEF JournalInv, UpInv
  <2> QED BY <2>1, <2>2, <2>3 DEF Tells
<1>12. OwedInv'
  <2>1. CASE at = "done"
    <3>1. \A i : Owed(i)' <=> Owed(i)
      BY <1>4, <2>1 DEF vars, registry, history, Owed, Active, HasStop, HasStart, Settled
    <3>2. hooks' = hooks
      BY <1>4, <2>1 DEF vars, registry
    <3> SUFFICES ASSUME \E i \in 1 .. Len(hooks') : Owed(i)'
                 PROVE  (\E l \in Range(log) :
                           l[2] = "hooks abandoned" /\
                           l[3] >= Cardinality({i \in 1 .. Len(hooks) : Owed(i)}))'
      BY DEF OwedInv
    <3>3. {i \in 1 .. Len(hooks') : Owed(i)'} = {i \in 1 .. Len(hooks) : Owed(i)}
      BY <3>1, <3>2
    <3>4. PICK l \in Range(log) :
            l[2] = "hooks abandoned" /\ l[3] >= Cardinality({i \in 1 .. Len(hooks) : Owed(i)})
      BY <2>1, <3>1, <3>2 DEF JournalInv, OwedInv
    <3> QED BY <1>2, <3>3, <3>4
  <2>2. CASE at # "done" /\ at' = "done"
    <3>1. hooks' = << >>
      BY <2>2 DEF Tells, Setup, DriverInv, SetupInv, vars, registry
    <3>2. ~(\E i \in 1 .. Len(hooks') : Owed(i)')
      <4>1. Len(hooks') = 0
        BY <3>1
      <4> QED BY <4>1
    <3> QED BY <3>2 DEF OwedInv
  <2> QED BY <2>1, <2>2 DEF OwedInv
<1> QED BY <1>2, <1>6, <1>7, <1>8, <1>9, <1>10, <1>11, <1>12 DEF JournalInv

\* A clean-up that ended by itself owes nothing, and has no errors only if no OnStop failed.
LEMMA PassOwesNothing ==
  ASSUME IInv, NothingLeftBehind', DriverInv, StopReturns
  PROVE  \A i \in 1 .. Len(hooks') : ~Owed(i)' /\ (PassResult = {} => onStop'[i] # "failed")
<1>1. PassDone'
  <2>1. op \in {"stop", "unwind"} /\ FinishPass
    BY DEF StopReturns, FinishStop, ExhaustUnwind, MayTake
  <2> QED BY <2>1 DEF FinishPass, PassDone
<1>2. at \in {"stop", "unwind"} /\ onStop' = onStop /\ hooks' = hooks
  BY DEF StopReturns, FinishStop, ExhaustUnwind, history, registry
<1>3. PassResult = {} => \A i \in Index : onStop[i] # "failed"
  <2>1. PassResult = {} => errors = {}
    BY PassErrors
  <2> QED BY <1>2, <2>1 DEF DriverInv, FailedStopInv
<1>4. \A i \in 1 .. Len(hooks') : i \in Index
  BY <1>2, BoundAssumption DEF IInv, TypeOK, Index
<1> QED BY <1>1, <1>2, <1>3, <1>4 DEF NothingLeftBehind

\* A clean-up over its budget leaves the entries that it has not come to.
LEMMA DropLeaves ==
  ASSUME IInv, IInv', DropStop
  PROVE  /\ Cardinality({i \in 1 .. Len(hooks') : Owed(i)'}) \in Nat /\ started' \in Nat
         /\ Cardinality({i \in 1 .. Len(hooks') : Owed(i)'}) <= started'
         /\ (\E i \in 1 .. Len(hooks') : Owed(i)') => started' > 0
<1>1. started' \in Nat /\ phase' = "Stopping" /\ inflight' = 0
  BY DEF IInv, TypeOK, PhaseInv, DropStop
<1>2. \A i \in 1 .. Len(hooks') : Owed(i)' => i \in 1 .. started'
  BY <1>1 DEF IInv, TypeOK, StoppingInv
<1>3. PICK S, T : S = 1 .. started' /\ T = {i \in 1 .. Len(hooks') : Owed(i)'}
  OBVIOUS
<1>4. T \in SUBSET S
  BY <1>2, <1>3
<1>5. IsFiniteSet(S) /\ Cardinality(S) = started'
  <2>1. PICK a, n : a = 1 /\ n = started'
    OBVIOUS
  <2>2. a \in Int /\ n \in Int
    BY <1>1, <2>1
  <2>3. IsFiniteSet(a .. n) /\ Cardinality(a .. n) = IF a > n THEN 0 ELSE n - a + 1
    BY <2>2, FS_Interval
  <2>4. S = a .. n
    BY <1>3, <2>1
  <2> QED BY <1>1, <2>1, <2>3, <2>4
<1>6. IsFiniteSet(T) /\ Cardinality(T) <= Cardinality(S)
  BY <1>4, <1>5, FS_Subset
<1>7. Cardinality(T) \in Nat
  BY <1>6, FS_CardinalityType
<1> QED BY <1>1, <1>2, <1>3, <1>5, <1>6, <1>7

\* The end of a clean-up.
LEMMA EndsKeeps ==
  ASSUME IInv, IInv', NothingLeftBehind', DriverInv, JournalInv, [AppNext]_<<vars, appVars>>,
         NEW t, log' = log \o t, NEW cleanup, Ends(t, cleanup)
  PROVE  JournalInv'
<1>1. IsLines(log) /\ IsLines(t) /\ at \in {"stop", "unwind"} /\ at' = "done"
  BY DEF JournalInv, Ends, Conclude, Enter
<1>2. IsLines(log') /\ Range(log') = Range(log) \cup Range(t)
  BY <1>1, LinesJoin
<1>3. [Next]_vars
  BY AppSteps
<1>4. HasError(log) \/ HasError(t) => HasError(log')
  BY <1>2 DEF HasError
<1>5. RunningInv'
  <2> SUFFICES ASSUME \E l \in Range(log') : l[2] = "running"
               PROVE  phase' \in {"Started", "Stopping"} /\ \A i \in 1 .. Len(hooks') : Active(i)'
    BY DEF RunningInv
  <2>1. \E l \in Range(log) : l[2] = "running"
    BY <1>2 DEF Ends
  <2> QED BY <1>3, <2>1, StillActive DEF JournalInv
<1>6. CleanInv'
  <2> SUFFICES ASSUME \E l \in Range(log') : l[2] \in {"stopped", "rolled back"}
               PROVE  \A i \in 1 .. Len(hooks') : ~Owed(i)' /\ onStop'[i] # "failed"
    BY <1>1 DEF CleanInv
  <2>1. \E l \in Range(t) : l[2] \in {"stopped", "rolled back"}
    BY <1>1, <1>2 DEF JournalInv, CleanInv
  <2>2. cleanup = {}
    BY <2>1 DEF Ends, NoGoodNews
  <2>3. StopReturns /\ PassResult = {}
    BY <2>2 DEF Ends, TimedOutResult
  <2> QED BY <2>3, PassOwesNothing
<1>7. EndedInv'
  <2>1. cleanup \subseteq result' /\ (via # "interrupt" => result' = cause \cup cleanup)
    BY ConcludeKeepsErrors DEF Ends
  <2>2. result' = {} => Said(Clean)'
    <3>1. cleanup = {} => Range(log') \cap Clean # {}
      BY <1>2 DEF Ends
    <3> QED BY <2>1, <3>1 DEF Said, Clean, AppLine
  <2>3. result' \ {Plain("Setup"), Plain("BuildTimeout")} # {} => HasError(log')
    <3> SUFFICES ASSUME result' \ {Plain("Setup"), Plain("BuildTimeout")} # {}, cleanup = {}
                 PROVE  HasError(log')
      BY <1>4 DEF Ends
    <3>1. InTrouble
      BY <1>1, <2>1 DEF InTrouble
    <3> QED BY <1>4, <3>1 DEF JournalInv, TroubleInv
  <2> QED BY <2>2, <2>3 DEF EndedInv, Plain
<1>8. TroubleInv' /\ UpInv' /\ LeftInv'
  BY <1>1 DEF TroubleInv, InTrouble, UpInv, LeftInv
<1>9. OwedInv'
  <2> SUFFICES ASSUME \E i \in 1 .. Len(hooks') : Owed(i)'
               PROVE  \E l \in Range(log') :
                        l[2] = "hooks abandoned" /\
                        l[3] >= Cardinality({i \in 1 .. Len(hooks') : Owed(i)'})
    BY DEF OwedInv
  <2>1. DropStop /\ cleanup = TimedOutResult
    BY PassOwesNothing DEF Ends
  <2>2. /\ Cardinality({i \in 1 .. Len(hooks') : Owed(i)'}) \in Nat /\ started' \in Nat
        /\ Cardinality({i \in 1 .. Len(hooks') : Owed(i)'}) <= started'
        /\ started' > 0
    BY <2>1, DropLeaves
  <2>3. cleanup # {}
    BY <2>1 DEF TimedOutResult
  <2>4. PICK n : n = started'
    OBVIOUS
  <2>5. PICK l : l = <<"app", "hooks abandoned", n>>
    OBVIOUS
  <2>6. l \in Range(t)
    BY <2>2, <2>3, <2>4, <2>5 DEF Ends, Leftover
  <2>7. l[2] = "hooks abandoned" /\ l[3] = n
    BY <2>5
  <2> QED BY <1>2, <2>2, <2>4, <2>6, <2>7
<1> QED BY <1>1, <1>2, <1>5, <1>6, <1>7, <1>8, <1>9 DEF JournalInv

\* Nothing is said in the initial state.
LEMMA InitJournal == JournalInit => JournalInv
<1> SUFFICES ASSUME JournalInit PROVE JournalInv
  OBVIOUS
<1>1. PICK t : t = << >>
  OBVIOUS
<1>2. IsLines(t) /\ Range(t) = {} /\ log = t
  BY <1>1, FewLines DEF JournalInit
<1>3. at = "setup" /\ cause = {} /\ via = "none"
  BY DEF JournalInit, AppInit
<1>4. RunningInv /\ CleanInv
  BY <1>2 DEF RunningInv, CleanInv
<1>5. EndedInv /\ TroubleInv /\ UpInv /\ LeftInv /\ OwedInv
  BY <1>3 DEF EndedInv, TroubleInv, InTrouble, UpInv, LeftInv, OwedInv
<1> QED BY <1>2, <1>4, <1>5 DEF JournalInv

\* The log agrees with the registry and with the driver.
THEOREM JournalInvariant == JournalSpec => []JournalInv
<1>1. ASSUME IInv, IInv', OwnTypes, DriverInv, StartedMeansAllActive', NothingLeftBehind',
             JournalInv, [JournalNext]_journalVars
      PROVE  JournalInv'
  <2>1. [AppNext]_<<vars, appVars>>
    BY <1>1, JournalSteps
  <2>2. PICK t : log' = log \o t /\ (Tells(t) \/ \E cleanup : Ends(t, cleanup))
    BY <1>1, StepTells DEF DriverInv, JournalInv
  <2>3. CASE Tells(t)
    BY <1>1, <2>1, <2>2, <2>3, TellsKeeps
  <2>4. CASE \E cleanup : Ends(t, cleanup)
    BY <1>1, <2>1, <2>2, <2>4, EndsKeeps
  <2> QED BY <2>2, <2>3, <2>4
<1>2. AppTypeOK => OwnTypes
  BY DEF AppTypeOK
<1> QED
  BY <1>1, <1>2, InitJournal, JournalIsApp, AppInvariant, AppTypeCorrect, DriverInvariant,
     AppDrivesLifecycle, NoAppendIsMissed, PassIsComplete, PTL DEF JournalSpec
-----------------------------------------------------------------------------

\* RUNNING, STOPPED and ROLLED BACK are only logged when they are true; a clean end is
\* always logged, and so is an error: report_unwind_result and the guards of src/app.rs.
THEOREM TheLogIsTrue == JournalSpec => []LogIsTrue
<1>1. JournalInv => LogIsTrue
  <2> SUFFICES ASSUME JournalInv PROVE LogIsTrue
    OBVIOUS
  <2>1. Said({AppLine("running")}) => \E l \in Range(log) : l[2] = "running"
    BY LineSays DEF Said
  <2>2. Said(Clean) => \E l \in Range(log) : l[2] \in {"stopped", "rolled back"}
    BY LineSays DEF Said
  <2>3. HasError(log) => ErrorLines # {}
    BY DEF HasError, ErrorSays, ErrorLines
  <2> QED BY <2>1, <2>2, <2>3 DEF JournalInv, RunningInv, CleanInv, EndedInv, LogIsTrue
<1> QED BY <1>1, JournalInvariant, PTL

\* No OnStop that is owed is skipped without a trace: at a timeout of the clean-up the
\* log counts what is left, and a future that is dropped or left by a panic says so.
THEOREM NoLossIsSilent == JournalSpec => []NoSilentLoss
<1>1. JournalInv /\ EndInv => NoSilentLoss
  BY DEF JournalInv, EndInv, OwedInv, LeftInv, NoSilentLoss, LastLine, LastOf
<1> QED BY <1>1, JournalInvariant, JournalIsApp, EndOwesNothing, PTL

=============================================================================
