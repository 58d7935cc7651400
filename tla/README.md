# Formal models of modrun

TLA+ models of [modrun](../src/README.md), a dependency-injection and
application-lifecycle framework for tokio, with the TLC configurations that
check them and TLAPS proofs about them. All source paths below are relative to
`src/src/`.

## 1. The system

An application is a list of *options* (values to supply, constructors, modules,
invokers). `Modrun::builder()…run()` turns it into a running process:

1. **Build.** Options are applied to a `Container`; the wiring is validated;
   the invokers run one after another, and each has the constructors it needs
   run first. Constructors and invokers register *hooks*.
2. **Start.** The hooks' OnStart callbacks run one at a time, in order.
3. **Steady.** `run()` waits for a shutdown request or an OS signal.
4. **Stop.** The hooks' OnStop callbacks run in reverse.

A failure, a timeout, a request or a signal during build or start leads to an
*unwind* instead: the hooks that are active are stopped.

### Components

| Component | Source | State it keeps | Operations | Modelled by |
|---|---|---|---|---|
| Lifecycle registry | `lifecycle.rs` | under one mutex: the hooks, the length of the started prefix, the phase | `append`, `start`, `prepare_for_unwind`, `stop`, `unwind_started`, two drop guards | `Lifecycle`, `HookContract` |
| Application driver | `app.rs` | none of its own: a future that goes through the phases | `run`, `start`, `RunningApp::stop`, drop | `App`; `Program` with the build; `Journal` with the log |
| Shutdowner | `shutdown.rs` | two atomic flags, a `Notify` | `shutdown`, `fail`, `wait`, `is_failure` | `Shutdowner` (and two variables of `App`) |
| Background tasks | `task.rs` | per hook: stop sender, join handle, abort handle | `on_start`, `on_stop`, drop; the spawned work and its watcher | `Task` (and `TaskFails` in `App`) |
| Registration | `container/mod.rs`, `container/storage.rs`, `scope.rs` | constructors and values, public or private to a scope of the module tree | `insert_provider`, `insert_value`, `child` | `Registry` |
| Resolution, validation | `container/graph.rs` | the frozen layers | four lookups; `validate`, `freeze_layers`, `detect_cycles` | `Registry`; `Layers` |
| Construction | `container/build.rs`, `future.rs` | the values built so far, the keys under construction | `ensure_built`, `run_wave`, `try_join_all` | `Build` |
| Value groups | `container/group.rs`, `group.rs` | members, virtual aggregate providers, member values | member and group registration; edges; aggregation | `Registry`; `Layers`; `Build` |
| Invokers, constructors | `invoke.rs`, `provide.rs`, `deps.rs` | none | trait implementations per arity | `Build`: what a call does with the container |
| Modules, options | `module.rs`, `wiring.rs`, `option.rs` | queued options | builder methods, `apply` | `Registry`: applying options in a child scope |
| Errors | `error.rs` | — | `aggregate_errors`, `with_cleanup`, `combine_results` | inside `App` |
| DOT export | `graph/dot.rs` | the nodes by key, the edges | `render_dot`, `dot_graph` | `Dot` |
| Tracing | `trace.rs` | — | one function per event | `Journal`: the lines about the application, its hooks and invokers |
| Banner, subscriber, crate surface | `logging.rs`, `banner.rs`, `lib.rs`, `timeout.rs` | — | output, re-exports, default durations | no |

### How they interact

`run()` owns one `Lifecycle` and one `Shutdowner`, and clones of both are
injected everywhere: any thread may append a hook or request a shutdown at any
time. `run()` polls the future of the current phase inside a biased `select!`,
next to `Shutdowner::wait` and the signal streams; a branch that wins *drops* the
future of the phase, at whatever `.await` it is suspended. The drop guards
`InflightHook` and `StopGuard` then repair the registry. A background task is a
hook whose OnStart spawns work; its watcher calls `Shutdowner::fail` if the work
fails, and its OnStop joins the watcher.

### What is hard, and what makes each part correct

- *Registry*: appends race with the end of `start`; futures are dropped in the
  middle of a callback and passes are retried. Correct means: OnStart in order,
  OnStop in reverse, OnStop only for active hooks, no callback that returned is
  run again, no owed OnStop lost, nothing left behind by a complete pass.
- *Driver*: errors, timeouts, requests, signals, task failures and drops race.
  Correct means: the returned `Result` tells the truth about the hooks, and
  `run()` returns once it was asked to. The log tells the same story, also of
  endings that return nothing: a drop by the caller or a panic.
- *Build and driver together*: constructors of a wave run concurrently and append
  hooks; the driver may drop them at any await. Correct means: a hook does not
  start before, or stop after, the hooks of what it was built from, and a build
  that did not succeed is unwound.
- *Shutdowner*: a request races with a waiter between its check and its await.
  Correct means: no wake-up is lost, and a released waiter can tell why.
- *Tasks*: work, watcher, OnStop and drop race on different threads. Correct
  means: OnStop returns when the work is over, with the verdict that the
  Shutdowner was told; an application that is let go leaves no work behind.
- *Registration and lookup*: `T`, `Arc<T>` and `Group<T>` may be bound by hand or
  implied by another binding, in any order, in nested scopes; four lookups walk
  the scopes with slightly different rules. Correct means: no place is bound
  twice, nothing is refused without a conflict, all lookups follow one rule.
- *Validation*: a count of edges (Kahn) decides the layers and a depth-first
  search decides the verdict. Correct means: the verdict is that of the
  dependency relation, and the layers cover it.
- *Construction*: what an invoker needs is collected against what earlier ones
  have cached; futures of a wave fail or are dropped while values of the same
  wave are stored. Correct means: an accepted wiring never fails by itself, each
  constructor runs at most once and only if needed, and everyone gets the value
  its scope sees.
- *DOT export*: nodes are found again by keys made of names. Correct means: the
  picture is the wiring that the build will inject.

`PROJECT.json` lists the hazards line by line with the properties that cover them.

## 2. The modules

    HookContract <--refined by-- Lifecycle <--extended by-- App <--extended by-- Journal
                                                             ^
                                                             | instance
    Registry <--extended by-- Layers <--extended by-- Build <-- extended by -- Program
                                ^
                                |  extended by
                               Dot

    Shutdowner          Task

The first row is the life of the process, the second its build phase. `App` takes
the build phase as one abstract phase; `Program` puts `Build` in its place.
`RegistryProofs`, `LayersProofs`, `DotProofs`, `JournalProofs`, `ShutdownerProofs` and
`TaskProofs` hold the theorems about the module that they are named after, `AppProofs`
those about `Lifecycle` and `App`, `ProgramProofs` those about `Build` and `Program`.
What is proved of a part is used for the whole: `JournalProofs` extends `AppProofs`,
`LayersProofs` extends `RegistryProofs`, and `DotProofs` and `ProgramProofs` extend
`LayersProofs`.
`Program` instantiates `App` through `AppProofs` for the same reason.

The `MC*` modules give the constants their values for TLC; the instances of
`Shutdowner` and `Task` only need model values and have their `.cfg` alone. The
definitions named `Fault*` are wrong versions of the definition they precede;
they are used to see that every property can be violated by a slip in the code.

### HookContract

What a hook author is promised: the callbacks' order and conditions, with no
mutex, counters, held values or futures. Its state is the list of hooks, what
became of each callback, and whether registration is open.

### Lifecycle

One variable per field of `State` (`hooks`, `started`, `phase`), `inner` for the
entries that still hold their hook, and the local state of the one live future:
`op`, `inflight` (the entry whose callback it awaits), `left` (iterations of
`stop_first`), `errors`, `returned`. `onStart` and `onStop` are history.

| Action | Code |
|---|---|
| `AppendHook` | `append`, where it accepts; where it refuses it changes nothing |
| `Start` | the first critical section of `start` |
| `TakeNextStart`, `FinishStart` | the inner loop of `start_inner`, which skips and takes under one lock |
| `OnStartOk`, `OnStartErr` | the two arms after the callback; the second calls `prepare_for_unwind` |
| `DropStart` | `InflightHook::drop` |
| `PrepareForUnwind`, `UnwindStarted`, `Stop` | the calls of the driver |
| `TakeNextStop`, `FinishStop`, `ExhaustUnwind` | `take_next_stop` and the loops around it |
| `OnStopEnds` | `StopGuard::run` |
| `DropStop` | `StopGuard::drop` |

A hook is its *kind*: whether it has an OnStart and an OnStop. A kind does not
change. In the code the `has_start` of a closure hook turns false when OnStart
was taken, but is not asked again for an entry inside the started prefix; user
hooks whose `has_start` or `has_stop` changes its answer are outside the model.
The driver is left open: `start` once, any number of stop and unwind passes, a
drop at any await.

### App

Extends `Lifecycle`: every action of the driver conjoins an action of `Lifecycle`
or leaves its variables alone. `at` is the phase. `look` is the position inside a
poll: the phase's future, its timer, `Shutdowner::wait`, the signals, in the order
the biased `select!` and `timeout` look at them, with everything else able to
happen between two looks. `overdue` says that the budget of the phase has
elapsed, for the timer as for the `elapsed() >= d` test of `with_timeout`. Errors
are tokens (a name and the hook behind it), the returned value is a set of them:
`CleanupAfterFailure` and the aggregate of several stop errors are unions.
`TaskFails` is one step although the code needs several (watcher, two flags);
`Task` and `Shutdowner` show what justifies that: the verdict of OnStop and the
flag agree, and a released waiter finds the flag set. Building is abstract: a
poll of `run_invokers` fails, suspends or succeeds, and anyone appends hooks.
`Panics` is a panic of a constructor, an invoker or a callback: it leaves the
driver through the drop guards, as a drop by the caller (`Abandon`) does, but in
the middle of a poll.

### Journal

Extends `App` by one variable, the log, and gives every action its lines. A line
is its subject, what it says and a number (the hook, or how many are left over).

| Definition | Code |
|---|---|
| `LogStart`, `LogStop` | `InflightHook` and `StopGuard` as they are made and finished |
| `DropLines` | their `Drop`, and that of `InflightInvoke`: `emit_unfinished` says cancelled or panicked |
| `EndLines`, `AfterPass` | `report_unwind_result`, the end of `BuiltApp::stop`, `start_failed` |
| `Leftover` | `pending_stops`, read when the future of the pass is gone |
| `LogTimer`, `LogSelect`, `LogSteady` | the timer and the branches of the three `select!` |
| `LogAbandon` | `RunningApp::drop` |

The number that `hooks_abandoned` prints is the length of the prefix that was not
walked. It counts entries without an OnStop too, so it is an upper bound of the
hooks that were skipped, and `NoSilentLoss` says just that.

### Program

Extends `Build` and instantiates `App` over one set of variables. What `App`
leaves open is decided: the build suspends where `run_wave` or an invoker awaits
(`BuildYields`), returns when the invokers have run (`BuildReturns`), and is
dropped with its wave by the timer, a request, a signal, the caller or a panic
(`DriverStep`). `owners` remembers which constructor or invoker appended each
hook; a constructor appends while it is called or from its future, also if its
wave fails afterwards. `ApplyOption`, `EndSetup` and `InstallFails` are the setup.

### Dot

Extends `Layers` by `valueNodes` and the rendered document. `Prepare` applies an
option and validates, and notes the supplied values; `Render` is `render_dot`:
`Nodes` goes through constructors, values and invokers and keeps the first item
under a key (`ensure_node`), `EdgesAmong` resolves every dependency again. Keys are
built from the constants `Label` and `ModuleName`, so names may coincide.
`valueNodes` has an entry for the type and one for its `Arc` for every value that was
supplied (`NoteValues`, a part of `insert_value`); those of the built-ins, which are
never drawn, are left out.

### Shutdowner

Every store, load and notification is a step of a caller or a waiter. `Notify` is
external, modelled from its use: a `Notified` future is notified by every
`notify_waiters` after its creation. The flags are sequentially consistent.

### Task

For each task the `LiveTask` fields, the state of the work and of its watcher,
and what has been told to abort. The registry is the environment: it starts,
drops the start, stops, drops the call and calls again, drops the hook. `released`
says that the driver has let go of the Lifecycle. The hooks are dropped with its
State, so when no clone of the handle is left (`Kept`), and the closures of the
tasks in `Keepers` own such a clone. `spawn`, `abort` and the
`oneshot` channel are external, modelled from their use: an abort takes effect
between two polls and not on a completed task.

### Registry

One variable per field of `Container`, `Groups`, `ScopeTree` and `BuildState` that
registration or lookup reads. An option is a record; a type id is a value, and
the constants `Arc` and `GroupOf` give the ids that a binding implies. A value and
a constructor are both identified by their `ProviderKey`, so that a lookup returns
the binding it found. `accepted` and `refused` are history.

| Definition | Code |
|---|---|
| `Provide`, `Supply` | `ProvideOption`, `SupplyOption`: `insert_provider`, `insert_value` |
| `AddMember`, `InitGroup`, `RequireGroup` | the group options: `insert_group_member_typed`, `ensure_empty_group`, `ensure_group_virtual` |
| `AddInvoker` | `InvokeOption` |
| `OpenModule`, `CloseModule` | `ModuleOption::apply` before and after its options |
| `Refuse` | any of these when `ensure_absent` finds a conflict |
| `LookupValue`, `ResolveProvider`, `CanResolve`, `ValueSatisfies` | the four lookups |

The order and the nesting of options are left open, so the runs see all of them.
`Visible` is the reference for lookups, the rule of modrun's README in one
definition over `accepted`: the nearest private binding, else the public one.

### Layers

Adds the one step `Validate`. `freeze_layers` is `Frozen`, with one `Round` per layer,
which keeps the indegrees with one edge per parameter as the code does, and
`detect_cycles` is the recursive function `Visit` with its path and visited sets.
Neither is assumed to agree with the other; `Verdict` combines them in the
code's order. The reference is the relation `Needs`, defined from `Visible`.

### Build

Adds the walk of `run_invokers`. `at` is its place, `pending` the constructors
that the running invoker lacks, `constructing`, `finished` and `memberValues` are
the fields of that purpose. `calls` and `injected` are history.

| Action | Code |
|---|---|
| `BeginInvoker` | `collect_pending` and what it calls, up to `build_pending` |
| `SkipLayer`, `EndLayers` | the loop of `build_pending` |
| `StartWave`, `FailWave` | `run_wave` up to its await: all constructors are called, or the first failure ends it |
| `FutureEnds`, `FutureFails` | the futures in `try_join_all` |
| `EndWave` | `run_wave` after its await |
| `CallSync`, `CallAsync`, `InvokerEnds` | the invoker |
| `DropBuild` | the future is dropped at either await; `WaveGuard` |

Between two awaits the code runs on one task with the container borrowed
exclusively, so one step per stretch is no abstraction. Wirings come from
`Layers`: every one that validation accepts is built.

## 3. What is checked

| Run | Instance | Bounds | Result |
|---|---|---|---|
| `lifecycle` | `MCLifecycle.cfg` | 3 hooks of the 4 kinds | holds |
| `app` | `MCApp.cfg` (`Journal`) | 3 hooks of 3 kinds (stop-only, both, task), all budgets on | holds |
| `app_retained` | `MCAppRetained.cfg` | 3 hooks | violated: see findings |
| `app_task_failed` | `MCAppTaskFailed.cfg` | 2 hooks | violated: see findings |
| `shutdowner` | `MCShutdowner.cfg` | 2 callers, 2 waiters | holds |
| `task` | `MCTask.cfg` | 2 tasks, one ignores the stop signal, the other owns a clone of the Lifecycle | holds |
| `registry` | `MCRegistry.cfg` | 3 options in up to 3 scopes; `Arc<T>` and `Group<T>` also by hand | holds |
| `layers` | `MCLayers.cfg` | 3 options in up to 2 scopes | holds |
| `build` | `MCBuild.cfg` | 4 options in up to 2 scopes | holds |
| `dot` | `MCDot.cfg` | 4 options in up to 2 scopes, unique names | holds |
| `dot_names` | `MCDotNames.cfg` | 2 constructors whose types share a name | violated: see findings |
| `program` | `MCProgram.cfg` | 3 options (two constructors in one wave or two, an invoker), 2 hooks, budgets on build and stop | holds |

Bounds. `MaxHooks` is the only bound on the registry. Three hooks are enough for
one hook before and one after the hook in flight, on both ways, and for one that
is skipped between two that are not; what is proved holds for any number.
Nothing else is cut off: passes may be dropped and repeated without limit. Two
callers and two waiters give every overlap of a request with a wait, and a third
of either only repeats the second; the proofs cover any number. Two tasks show
that one task's failure is not taken for another's.

In the container, `MaxOptions` and `MaxScopes` bound the wiring. A conflict is
between two bindings and a lookup compares at most one binding per scope with
the public one, so three options in three scopes (a chain, or two siblings) hold
every case of either; the options cover every pair of ids that imply one
another. Three constructors make every cycle through a type, an `Arc`, a group or
itself, and double edges; all verdicts are reached. Four options make a chain
from an invoker through a constructor and a group to a type that a module may
hide, with two invokers sharing it. These bounds do limit breadth: waves of more
than two constructors and groups of more than two members are rarely or never
combined with two scopes, and the group of `build` has one consumer: that a second
one finds the aggregate is left to the proofs (`NoInternalError`, `BuiltOnce`).

`program` multiplies the states of `Build` and `App`, so its wiring is small: two
constructors that are independent or build on one another, and an invoker of
both, with two hooks, which any two of them, or a callback, may own. That is what
an order between two hooks needs; three hooks and larger wirings are in `app` and
`build`. It has no budget on the start, which `app` has, and no tasks.

Properties, by run:

- `lifecycle`: `StopsInReverse`, `StartedMeansAllActive`, `OwedIsReachable`,
  `NothingLeftBehind`, the refinement `ImplementsContract`, and `FuturesReturn`:
  every future ends.
- `app`: `OkMeansCleanEnd` (Ok means that no callback failed and all active hooks
  were stopped), `ErrorsSurface` (a callback's error is in the result whatever
  raced with it), `TaskFailureSurfaces`, `GracefulIsOk` (a request or signal is no
  error by itself), `LogIsTrue` (RUNNING, STOPPED and ROLLED BACK are only logged
  if they are true, an error that is returned was logged), `NoSilentLoss` (an OnStop
  that is owed is skipped only by a timeout, which is returned and logged with
  a sufficient number, or by a drop or a panic, which is logged), `RequestEndsRun`.
- `shutdowner`: `NoLostWakeup`, `ReleasedKnowsWhy`, `WaitEnds`.
- `task`: `StopJoinsWork`, `VerdictMatchesFlag`, `OnlyFailuresAreReported`,
  `AbandonmentEndsWork` (an application that is let go leaves no work behind, unless
  that work itself owns the Lifecycle), `FailureRequestsShutdown`, `StopReturns`.
- `registry`: `LookupsFollowVisibility`, `OneBindingPerPlace`,
  `RefusalIsJustified`.
- `layers`: `VerdictIsJust` (an error names a real fault, an accepted wiring has
  none), `LayersCoverNeeds`.
- `build`: `NoInternalError` (neither `NotConstructed` nor a cycle shows up after
  validation), `BuiltOnce`, `InjectsWhatIsVisible`, `OnlyWhatIsNeeded`,
  `MembersAreConsumed`, `BuildEnds`.
- `dot`: `GraphShowsWiring`: the nodes are everything that was accepted, each once
  and in its cluster, and the arrows are the bindings by the rule of visibility.
- `program`: `StartsAfterWhatItNeeds`, `StopsBeforeWhatItNeeds` (hooks follow the
  dependencies of their owners), `FailedBuildIsUnwound`, `RequestEndsProgram`.

Fairness. In `lifecycle`, that callbacks return and a live future is polled. In
`app`, that the task is polled while it can make progress and that clocks
advance: tokio guarantees the first, and no callback is assumed to return, which
is the point of `RequestEndsRun`. In `shutdowner`, that threads and woken futures
run. In `task`, that the runtime polls what is ready and the work suspends now
and then; for tasks that are not stubborn, also that the work ends once `Stopped`
has resolved. In `build`, that the task is polled and that constructors' and
invokers' futures end one way or the other. In `program` they need not: there only
the polls of the driver and the clock are fair, as in `app`, and a request ends the
build at its await. In `task`, also that a State without owners drops its hooks.
Nothing is assumed of requests, signals, failures or callers.

Deadlock is checked everywhere but in `task`, where every hook may be dropped and
nothing is left to do, and in `registry`, `layers`, `build` and `dot`, which stop at
a refused option, at a verdict, at the end of the build and at the document.

### Findings

1. `app_retained`: README.md promises that if a start hook fails or start is
   cancelled, OnStop failures of the unwind are retained in the returned error.
   They are in a `Vec` local to `stop_first`, and are lost when a later OnStop
   exceeds the stop budget (`StopFailuresRetained`, which only speaks of runs in
   which an OnStart failed or was dropped halfway). The trace has two stop-only
   hooks and one whose OnStart fails: the second hook's OnStop fails, the first
   one's hangs, and the error that is returned has the OnStart's failure and the
   timeout only.
2. `app_task_failed`: `TaskFailedDuringStart` is documented as a task failure
   while start was running, but `finish_interrupt` reads `is_failure()` after the
   unwind: a graceful shutdown during start is reported so if a task fails later,
   while the unwind runs into its timeout (`TaskFailedDuringStart`).
3. `dot_names`: README.md says that nodes show the type, constructor name and
   module of what is registered. Constructors of `a::Config` and `b::Config` in one
   module have the same key, so the second has no node and its arrows are drawn at
   the first (`NodePerConstructor`).

Two smaller observations, which no document contradicts. A build that returns `Ok`
after blocking its thread beyond its budget is rolled back and `BuildTimeout` is
returned, but no line of level ERROR is logged; `LogIsTrue` names this exception.
And `run()` that is dropped while the application is up logs nothing, where a
dropped `RunningApp` warns; `NoSilentLoss` names this one.

## 4. What is proved

For any kinds and any number of hooks, any types, options and nesting of modules, any
callers and waiters.

- `AppProofs`, of the registry of hooks: `IInv` is inductive, hence `TypeOK`, `StopsInReverse`,
  `StopsOnlyActive`, `StartedMeansAllActive`, `OwedIsReachable` and
  `NothingLeftBehind` hold in every reachable state, and `Spec` implements
  `HookContract`. `StartsInOrder` is the counterpart of `StopsInReverse`, which no run
  checks: once an OnStart was called, every hook registered before is active.
- `AppProofs`, of the driver: `AppSpec` implements `Lifecycle`'s `Spec`, so all of this is true
  of `run()` and `start()`; and `AppTypeOK`. `OkMeansCleanEnd`, `ErrorsSurface`,
  `TaskFailureSurfaces` and `GracefulIsOk` say what is returned, whatever callbacks,
  tasks, budgets, requests, signals and drops do. Two more are used below: `EndInv`
  (at the end nothing is owed unless the clean-up timed out) and `UnstartedInv` (a
  build over its budget is never followed by an OnStart, even if it returned Ok).
- `JournalProofs`: `JournalSpec` implements `AppSpec`, so logging changes nothing;
  `LogIsTrue` and `NoSilentLoss`.
- `RegistryProofs`: all properties of `Registry`: `RegistryTypeOK`,
  `LookupsFollowVisibility`, `OneBindingPerPlace`, `RefusalIsJustified`.
- `LayersProofs`: `VerdictIsJust` (validation accepts a wiring exactly if nothing is
  missing, empty or cyclic in it, and names the right fault otherwise) and
  `LayersCoverNeeds` (the frozen layers hold every constructor once, after all that
  it needs).
- `ProgramProofs`, of the build: `BuildTypeOK`, `BuiltOnce`, `InjectsWhatIsVisible`,
  `OnlyWhatIsNeeded` and `MembersAreConsumed`, for any wiring that may be built at
  all; that a constructor is called only when all that it needs is complete; and
  `NoInternalError`: a wiring that was accepted never fails to build by itself.
- `DotProofs`: `GraphShowsWiring`: where names are unique, the document is the wiring.
- `ProgramProofs`, of the whole: `ProgramSpec` implements `BuildSpec` on the variables of the
  build and `AppSpec` on those of the driver. So neither module leaves out
  anything that the other needs: what holds of `Build` alone and of `App`
  alone, for safety, holds when they are joined. And what only the two together
  promise: `StartsAfterWhatItNeeds`, `StopsBeforeWhatItNeeds`, `FailedBuildIsUnwound`.
- `ShutdownerProofs`: the type invariant and the safety properties of `Shutdowner`.
- `TaskProofs`: the type invariant and the three safety properties of `Task`.

The assumptions used are `BoundAssumption` of `Lifecycle` (`MaxHooks` is a number),
`TaskAssumption` of `App` (a hook made by `task()` has an OnStart and an OnStop),
`HooksAssumption` of `Program`, which repeats these two for its instance of `App`, and
those of `Registry`: `Arc` and `GroupOf` give different ids for different types
(`TypesAssumption`: they stand for `TypeId::of::<Arc<T>>()` and
`TypeId::of::<Group<E>>()`), the options are of the six kinds there are
(`OptionsAssumption`), there is a root scope (`BoundsAssumption`), and `None` is no key.

The argument for the registry. None of the properties is inductive: that a stop
keeps the order depends on what `inner` and `started` say of entries that were
skipped or dropped long before. `IInv` adds this, in parts: the entry in flight is
the one just past the prefix and is not held (`InflightInv`); the phase fixes
which future lives and how long the prefix is, and `left` covers it (`PhaseInv`);
until stopping begins the prefix is active and the rest untouched
(`StartingInv`); from then on the held entries are in the prefix, active and not
stopped yet, and every owed entry is held or in flight (`StoppingInv`). One lemma
per action shows that it keeps each part. For the refinement, `stage` is a
function of `phase`, and every critical section is a step of the contract or
invisible to it.

For the results of `App`, `DriverInv` says in each phase where a failure is: a
failed OnStart has ended the start and is in `cause` (`FailedStartInv`); a failed
OnStop is in the Vec of the pass that called it until the application is down
(`FailedStopInv`, and `ErrorsInv` for the converse); a task that failed had been
started and its OnStop has not returned Ok (`DeadInv`), which rests on `IInv`: a hook
that is still held or in flight was not stopped. There are three ways to return
(`EntersDone`). From the setup nothing has happened; a clean-up over budget says so
in the value; and a pass that ended leaves nothing owed (`NothingLeftBehind`'s
argument), so every task that failed was joined and its error is in the Vec.

For the log, every step either ends a clean-up (`Ends`) or tells something that cannot
be wrong (`Tells`): RUNNING only as it enters the steady phase, no good news about the
end, an error if one is now on its way. `JournalInv` keeps what follows: RUNNING means
that the start is over and all hooks are active (`RunningInv`), an error in hand or an
interrupt has been logged (`TroubleInv`), the last line of the steady phase is RUNNING
(`UpInv`). At the end of a clean-up the number that is logged is the length of the
prefix after the hook in flight was written back, and `StoppingInv` says that all owed
hooks are in that prefix.

For `Shutdowner`, a waiter goes to sleep only while nothing is requested, so the
first request after that comes from a caller that still has to notify.

For `Task`, the safety properties are not inductive because OnStop only looks at
the watcher. `SpawnInv` says what exists at each stage of the hook: before the
start nothing, then work and watcher, and an abort only once the hook is dropped.
`WatcherInv` ties the watcher to the work it joined and to `reporters`. `StopInv`
says that an OnStop that returned found the watcher ended, and not by an abort;
with the other two this gives the work's end and the agreement of the verdicts.

For `Registry`, `ensure_absent` and the lookups read six maps, and the properties speak
of the history of accepted bindings. `RInv` says that the maps and the history agree:
what each map holds under an id and place is a binding of that id and place
(`ValuesInv`, `IndexInv`), what was supplied or provided is found (`StockInv`,
`IndexInv`), groups and members are in step (`GroupInv`), and scopes and keys are in
range (`PlaceInv`, `KeysInv`). The lookups stop at the first scope of the chain where
some map has an entry; `RInv` makes that the first scope with a binding. That a set of
positions has a least one is derived from `WellFoundedInduction`, for strict
subsets of a finite set.

For `Build`, `BuiltOnce` needs that what is pending was not called yet, but for the wave
that runs (`PhaseInv`); `InjectsWhatIsVisible` that values stay those of the binding
that is seen, which is `RInv` again, kept by every wave; `MembersAreConsumed` that
members are called only for an aggregate that is still pending (`MembersInv`); and
`OnlyWhatIsNeeded` that what is pending or called lies in every set that holds what
invokers ask for and what that needs (`NeedInv`), which is how `Reached` is
defined. `FollowInv` adds the order: values are those of complete constructors, and what
was called has all that it needs complete. None of this rests on the layers being right:
a wave asks `CanConstruct`, and a wrong layer would end the build with an error.

That this never happens is `NoInternalError`, and this does rest on the layers.
`ReadyInv` says that the lookup that comes next must find what it looks for: what is
pending lies in this layer or a later one, what a pending constructor or the invoker
needs was called or is pending, and a member that was constructed for an aggregate
that is not built yet still has its value set aside. A wave reaches a constructor only in
its layer; by `LayersCoverNeeds` what it needs is in earlier layers, so it is not
pending any more, so it was called, and at a wave that starts no future is awaited, so
it is complete. A build that failed or was dropped is over, and so are its waves.

For `Layers`, two facts about recursive functions come first. TLA+ defines such a
function by CHOOSE, so that it has the values that its definition says has to be proved
from an order on its arguments: `Recursion` shows it for any body that only looks at
earlier places of a well-founded order, and `RanksAreWellFounded` makes such an order
from ranks that are natural numbers. `Round` is one (`RoundIs`), and `Visit`
(`VisitIs`): a search either goes deeper, with more on its path, or goes on with a
shorter list. The inductions are over sets of numbers or of searches, by their least
element, since an induction rule for predicates is beyond the provers. Then Kahn's
count: the indegree that is left in round `n` is the number of edges from constructors
that were not ready before it (`RoundsAre`), so what is ready next has all that it needs
before it (`ReadyNeeds`), and some round finds nothing ready (`RoundsEnd`). The loop ends
without every constructor exactly if the wiring has a cycle (`StuckIsCyclic`). For the
search, what it is done with, if it reports no cycle, is closed under what it follows
and has no cycle (`SearchSettles`); so if there is one, it reports it
(`CyclesAreDetected`). `LInv` holds `RInv`, which carries the lookups over to `Needs`,
defined without them.

For `Dot`, `NotesInv` says that the list of values, written as options are applied, has
two entries for every value that was supplied, each once, and `OrdinalsInv` that the
ordinal of a member, which is all that its key keeps of it, is its own. Then two things
that are drawn have different keys if names are unique (`NodesDiffer`), which makes
`ensure_node` find the right node (`NodesAre`); what `resolve_dep` finds is what
the scope sees, by `LookupsFollowVisibility` (`ResolvesToBound`), and none of the ends is
unknown, because validation found no dependency missing (`EdgesAreArrows`). Unique names are a
hypothesis inside the property, as in the run; without them it is false
(`dot_names`).

For `Program`, `OwnersInv` turns `FollowInv` into an order of hooks: what an owner was
given was complete when it registered its hook, so everything behind it registered
earlier. Then `StartsInOrder` and `StopsInReverse` of the driver give the two
properties. `FailedBuildIsUnwound` follows from `UnbuiltInv` (a build that did not
return Ok is not followed by the start), `UnstartedInv` and `EndInv`.

Only model-checked: the liveness properties (`FuturesReturn`, `RequestEndsRun`,
`WaitEnds`, `AbandonmentEndsWork`, `FailureRequestsShutdown`, `StopReturns`, `BuildEnds`,
`RequestEndsProgram`), since fairness and ENABLED are out of the prover's reach. Every
invariant that a passing run checks is also proved.

## 5. What is not modelled

- A poisoned mutex, and user code that runs while the registry's mutex is held
  (`has_start`, `has_stop` and the drop of a user's hook in `prepare_for_unwind` and
  `take_next_stop`): if it appends, its thread blocks for ever.
- What a panic does to a runtime with `panic = "abort"`.
- Weak memory: the flags of `Shutdowner` are read and written in one order.
- Names and messages, the lines of the log about registrations and constructors
  (after a panic the siblings of the constructor that panicked are logged as
  panicked too), levels, the banner; escaping and layout of the DOT file.
- The macros that implement the traits per arity, and type inference.
- The caches of `validate`, which hold what the lookups return.
- `provide_group_dyn` with a member of the wrong type, which is found or not by
  the types alone; the collection methods of `Group<T>`.
- A constructor taken out of the container while it runs and put back: this
  happens within one step of `Build`.

## 6. Plan

What is left is the log of the build: the lines about registrations and constructors,
in `Journal`'s style, over `Build`.
