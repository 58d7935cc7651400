-------------------------------- MODULE Build --------------------------------
(***************************************************************************)
(* Running the invokers and the constructors that they need: run_invokers  *)
(* of src/app.rs, src/container/build.rs, collect_pending of graph.rs and  *)
(* the aggregation of groups in group.rs.                                  *)
(*                                                                         *)
(* The invokers run one after another on one task.  For each, the missing  *)
(* constructors are collected and run layer by layer.  In a layer, the     *)
(* constructors are called one by one; what they return is a value, an     *)
(* error or a future, and the futures are then awaited together.  While    *)
(* something is awaited, the build may be dropped: by its timeout, or by a *)
(* signal or request that run() reacts to.                                 *)
(***************************************************************************)
EXTENDS Layers

VARIABLES
  at,            \* where run_invokers is
  next,          \* the invoker that runs
  layer,         \* build_pending's place in the layers
  pending,       \* the constructors that this invoker still needs
  constructing,  \* Container.constructing
  inflight,      \* the constructors whose futures have not finished
  finished,      \* the constructors whose futures have: TryJoinAll.done
  memberValues,  \* Groups.member_values: the members that hold a value
  outcome,       \* how the build ended
  calls,         \* history: the waves of constructors called, in order
  injected       \* history: the scopes, ids and values of parameters that were filled in

progress      == <<layer, pending, constructing, inflight, finished>>
history   == <<calls, injected>>
buildVars == <<layersVars, at, next, progress, memberValues, outcome, history>>

\* What registration and validation have fixed.
wiring == <<indices, groups, placement, invokers>>
verdict == <<status, applied, accepted, refused, layers>>

BuildTypeOK ==
  /\ at \in {"wiring", "invoker", "layers", "join", "call", "invoking", "end"}
  /\ next \in 1 .. Len(invokers) + 1
  /\ layer \in 1 .. Len(layers) + 1
  /\ pending \cup constructing \cup inflight \cup finished \subseteq DOMAIN providers
  /\ inflight \cup finished \subseteq constructing
  /\ memberValues \subseteq {k \in DOMAIN providers : k.ordinal > 0}
  /\ outcome \in {"none", "ok", "failed", "dropped", "internal"}
  /\ outcome = "none" <=> at # "end"
  /\ \A w \in DOMAIN calls : Range(calls[w]) \subseteq DOMAIN providers
  /\ injected \subseteq Scopes \X Ids \X Keys
----------------------------------------------------------------------------
(* Values.                                                                 *)

\* Container::get, for each of the parameters.
CanGet(deps, scope) == \A i \in DOMAIN deps : LookupValue(deps[i], scope) # None
Got(deps, scope) == {<<scope, deps[i], LookupValue(deps[i], scope)>> : i \in DOMAIN deps}

\* store_constructed or store_group_member, for the constructors in S.
StoreResults(S, held) ==
  LET bound(id, s, private) ==
        {k \in S : k.ordinal = 0 /\ k.private = private
                   /\ (private => k.scope = s) /\ id \in Offers(k)}
      put(old, ks) == IF ks = {} THEN old ELSE CHOOSE k \in ks : TRUE
  IN /\ valuesPublic' = [id \in Ids |-> put(valuesPublic[id], bound(id, Root, FALSE))]
     /\ valuesPrivate' = [p \in Ids \X Scopes |->
          put(valuesPrivate[p], bound(p[1], p[2], TRUE))]
     /\ privateScopes' = privateScopes \cup {k.scope : k \in {l \in S : l.private}}
     /\ memberValues' = held \cup {k \in S : k.ordinal > 0}
----------------------------------------------------------------------------
(* collect_pending, collect_group_pending, collect_provider_pending.       *)

\* Fault: a value that is cached is built again.
FaultPendingFor(id, from) == {ResolveProvider(id, from)}

\* The constructor to run for id: none if a value is cached.
PendingFor(id, from) ==
  IF LookupValue(id, from) # None THEN {} ELSE {ResolveProvider(id, from)}

PendingOf(deps, from) == UNION {PendingFor(deps[i], from) : i \in DOMAIN deps}

\* What collecting k leads to; None if a provider is missing.
WaitsFor(k) == IF k = None THEN {} ELSE PendingOf(providers[k], k.scope) \cup Range(MembersOf(k))

\* S and all that the steps of `to` lead to from there: what is in each set
\* that holds S and, with a key, what that leads to.
Reached(S, to) ==
  LET closed == {C \in SUBSET DOMAIN to : S \subseteq C /\ \A k \in C : to[k] \subseteq C}
  IN {k \in DOMAIN to : \A C \in closed : k \in C}

Collected(S) == Reached(S, [k \in DOMAIN providers \cup {None} |-> WaitsFor(k)])
----------------------------------------------------------------------------
(* run_invokers and build_pending.                                         *)

Invoker == invokers[next]

End(how) == at' = "end" /\ outcome' = how

\* The next invoker: what it needs is collected first.
BeginInvoker ==
  /\ at = "invoker" /\ next <= Len(invokers)
  /\ LET needed == Collected(PendingOf(Invoker.deps, Invoker.scope))
     IN IF None \in needed \/ needed \cap constructing # {}
        THEN End("internal") /\ UNCHANGED <<layer, pending>>
        ELSE /\ at' = "layers" /\ layer' = 1 /\ pending' = needed
             /\ UNCHANGED outcome
  /\ UNCHANGED <<container, next, constructing, inflight, finished, memberValues, history>>

AllInvoked ==
  /\ at = "invoker" /\ next > Len(invokers)
  /\ End("ok")
  /\ UNCHANGED <<container, next, progress, memberValues, history>>

\* Fault: the whole layer runs.
FaultWave == layers[layer]

\* The part of the layer that is pending, in the layer's order.
Wave == Restrict(layers[layer], {n \in DOMAIN layers[layer] : layers[layer][n] \in pending})

\* Fault: the loop stays in its layer.
FaultNextLayer == layer

NextLayer == layer + 1

SkipLayer ==
  /\ at = "layers" /\ pending # {} /\ layer <= Len(layers)
  /\ DOMAIN Wave = {}
  /\ layer' = NextLayer
  /\ UNCHANGED <<container, at, next, pending, constructing, inflight, finished,
                 memberValues, outcome, history>>

\* Nothing is pending any more, or the layers are used up.
EndLayers ==
  /\ at = "layers" /\ (pending = {} \/ layer > Len(layers))
  /\ IF pending = {} THEN at' = "call" /\ UNCHANGED outcome ELSE End("internal")
  /\ UNCHANGED <<container, next, progress, memberValues, history>>
----------------------------------------------------------------------------
(* run_wave.                                                               *)

\* The constructor finds all it asks the container for; an aggregate, the
\* values of its members, which it takes out.
CanConstruct(k) ==
  CanGet(providers[k], k.scope) /\ Range(MembersOf(k)) \subseteq memberValues

\* The constructors that were called.
Called == UNION {Range(calls[w]) : w \in DOMAIN calls}

\* Fault: the values of the members are copied.
FaultConsumed(ks) == {}

Consumed(ks) == UNION {Range(MembersOf(k)) : k \in ks}

GotBy(ks) == UNION {Got(providers[k], k.scope) : k \in ks}

\* What a constructor may return.  An aggregate returns a value.
Returns(k) == IF k \in {VirtualKey(e) : e \in registered}
              THEN {"value"} ELSE {"value", "future", "error"}

\* All constructors of the wave are called and none fails.  Values are
\* stored at once, futures wait for the join.
StartWave ==
  /\ at = "layers" /\ layer <= Len(layers) /\ DOMAIN Wave # {}
  /\ LET ks == Range(Wave)
     IN /\ ks \cap constructing = {} /\ \A k \in ks : CanConstruct(k)
        /\ \E fut \in SUBSET {k \in ks : "future" \in Returns(k)} :
             /\ inflight' = fut
             /\ StoreResults(ks \ fut, memberValues \ Consumed(ks))
             /\ pending' = pending \ (ks \ fut)
        /\ constructing' = constructing \cup ks
        /\ calls' = Append(calls, Wave)
        /\ injected' = injected \cup GotBy(ks)
  /\ at' = "join"
  /\ UNCHANGED <<wiring, next, layer, finished, outcome>>

\* The n-th constructor of the wave fails: by its own error, or because it
\* asks for something that is not there.  What the ones before it returned
\* is dropped, and the guard releases the wave.
FailWave ==
  /\ at = "layers" /\ layer <= Len(layers)
  /\ \E n \in DOMAIN Wave :
       LET k == Wave[n]
           before == {Wave[i] : i \in {m \in DOMAIN Wave : m < n}}
           broken == ~CanConstruct(k) \/ k \in constructing
           called == Restrict(Wave, {m \in DOMAIN Wave : m < n \/ (m = n /\ ~broken)})
       IN /\ \A l \in before : CanConstruct(l)
          /\ broken \/ "error" \in Returns(k)
          /\ End(IF broken THEN "internal" ELSE "failed")
          /\ calls' = Append(calls, called)
          /\ injected' = injected \cup GotBy(Range(called))
          /\ memberValues' = memberValues \ Consumed(before)
  /\ constructing' = {}
  /\ UNCHANGED <<wiring, values, privateScopes, next, layer, pending, inflight, finished>>

\* One of the futures of try_join_all has its value.
FutureEnds(k) ==
  /\ at = "join" /\ k \in inflight
  /\ inflight' = inflight \ {k} /\ finished' = finished \cup {k}
  /\ UNCHANGED <<container, at, next, layer, pending, constructing, memberValues, outcome, history>>

\* Fault: what had finished is kept.
FaultAbandonWave == constructing' = {} /\ inflight' = {} /\ UNCHANGED finished

\* The futures that are left, and the values of those that finished, are
\* dropped, and the guard releases the wave.
AbandonWave == constructing' = {} /\ inflight' = {} /\ finished' = {}

\* One fails, and the build with it.
FutureFails(k) ==
  /\ at = "join" /\ k \in inflight
  /\ AbandonWave /\ End("failed")
  /\ UNCHANGED <<container, next, layer, pending, memberValues, history>>

\* All futures have finished: their values are stored.
EndWave ==
  /\ at = "join" /\ inflight = {}
  /\ StoreResults(finished, memberValues)
  /\ pending' = pending \ finished
  /\ constructing' = {} /\ finished' = {}
  /\ layer' = NextLayer /\ at' = "layers"
  /\ UNCHANGED <<wiring, next, inflight, outcome, history>>
----------------------------------------------------------------------------
(* The invoker itself.                                                     *)

\* Its result: on to the next invoker, or the build fails.
InvokerResult ==
  \/ at' = "invoker" /\ next' = next + 1 /\ UNCHANGED outcome
  \/ End("failed") /\ UNCHANGED next

\* A synchronous function is called with its parameters and returns.
CallSync ==
  /\ at = "call"
  /\ IF CanGet(Invoker.deps, Invoker.scope)
     THEN injected' = injected \cup Got(Invoker.deps, Invoker.scope) /\ InvokerResult
     ELSE End("internal") /\ UNCHANGED <<next, injected>>
  /\ UNCHANGED <<container, progress, memberValues, calls>>

\* An async one gets its parameters in the same way and leaves a future.
CallAsync ==
  /\ at = "call" /\ CanGet(Invoker.deps, Invoker.scope)
  /\ injected' = injected \cup Got(Invoker.deps, Invoker.scope)
  /\ at' = "invoking"
  /\ UNCHANGED <<container, next, progress, memberValues, outcome, calls>>

InvokerEnds ==
  /\ at = "invoking" /\ InvokerResult
  /\ UNCHANGED <<container, progress, memberValues, history>>

\* The future of the build is dropped while it awaits something.
DropBuild ==
  /\ (at = "join" /\ inflight # {}) \/ at = "invoking"
  /\ AbandonWave /\ End("dropped")
  /\ UNCHANGED <<container, next, layer, pending, memberValues, history>>
----------------------------------------------------------------------------
BuildInit ==
  /\ LayersInit
  /\ at = "wiring" /\ next = 1 /\ layer = 1
  /\ pending = {} /\ constructing = {} /\ inflight = {} /\ finished = {}
  /\ memberValues = {} /\ outcome = "none"
  /\ calls = << >> /\ injected = {}

\* Options are applied and validated, then the invokers run.
Wire ==
  /\ at = "wiring" /\ LayersNext
  /\ at' = IF status' = "validated" THEN "invoker" ELSE "wiring"
  /\ UNCHANGED <<next, progress, memberValues, outcome, history>>

\* The steps of the code between two awaits.
Run ==
  \/ BeginInvoker \/ AllInvoked \/ SkipLayer \/ EndLayers
  \/ StartWave \/ FailWave \/ EndWave \/ CallSync \/ CallAsync

BuildNext ==
  \/ Wire
  \/ /\ UNCHANGED verdict
     /\ \/ Run \/ InvokerEnds \/ DropBuild
        \/ \E k \in inflight : FutureEnds(k) \/ FutureFails(k)

BuildSpec == BuildInit /\ [][BuildNext]_buildVars

\* The task is polled while it can run, and what users' futures wait for
\* comes.
BuildFairness ==
  LET steps == UNCHANGED verdict
  IN /\ WF_buildVars(Run /\ steps) /\ WF_buildVars(InvokerEnds /\ steps)
     /\ WF_buildVars((\E k \in inflight : FutureEnds(k) \/ FutureFails(k)) /\ steps)

BuildFairSpec == BuildSpec /\ BuildFairness
----------------------------------------------------------------------------
(* Properties.                                                             *)

\* After validation, the build cannot fail by itself: no constructor or
\* invoker asks for a value that is not there (NotConstructed), none is
\* left over when the layers are used up (Cycle), no provider is missing.
NoInternalError == outcome # "internal"

\* Each constructor is called at most once, whoever needs it and however
\* often: src/README.md:225.  The providers of supply_group panic if not.
BuiltOnce ==
  \A v, w \in DOMAIN calls :
    \A i \in DOMAIN calls[v], j \in DOMAIN calls[w] :
      calls[v][i] = calls[w][j] => v = w /\ i = j

\* Whatever was injected was the value of the binding that the scope sees,
\* not a cached one further out, and the same for everyone who sees it.
InjectsWhatIsVisible == \A g \in injected : g[3] = Visible(g[2], g[1])

\* The bindings that the invokers reached so far have asked for.
Asked ==
  UNION {{Visible(invokers[n].deps[i], invokers[n].scope) : i \in DOMAIN invokers[n].deps}
         : n \in {m \in DOMAIN invokers : m <= next}}

\* A constructor is called only if an invoker that was reached needs it,
\* directly or through others: src/README.md:241.
OnlyWhatIsNeeded ==
  Called \subseteq Reached(Asked \cap DOMAIN providers, [k \in DOMAIN providers |-> Needs(k)])

\* Between invokers no member's value waits for its group: members are
\* built only together with the aggregate, which takes all of them.
MembersAreConsumed == at \in {"invoker", "call", "invoking"} => memberValues = {}

\* If users' futures end, so does the build.
BuildEnds == status = "validated" ~> at = "end"

=============================================================================
