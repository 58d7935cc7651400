------------------------------- MODULE Layers -------------------------------
(***************************************************************************)
(* Validation of the wiring: src/container/graph.rs.                       *)
(*                                                                         *)
(* When all options are applied, validate checks that every dependency     *)
(* resolves and freezes the constructors into layers, each of which        *)
(* depends only on earlier ones.  freeze_layers counts edges (Kahn); if it *)
(* gets stuck, detect_cycles searches depth first for a cycle to report.   *)
(* Both are translated here as functions of the registered container; the  *)
(* caches of validate hold what the lookups return and are left out.       *)
(***************************************************************************)
EXTENDS Registry, FiniteSets, Functions

VARIABLE layers     \* Container.layers: the waves in which constructors may run

layersVars == <<registryVars, layers>>

Verdicts == {"missing_dep", "invoker_missing_dep", "empty_group", "cycle", "validated"}
----------------------------------------------------------------------------
(* The edges that freeze_layers and visit follow.                          *)

\* The constructor that must run before k for the dependency id of k, if
\* no value satisfies it.
DependsOn(k, id) ==
  IF ValueSatisfies(id, k.scope) THEN None ELSE ResolveProvider(id, k.scope)

\* The constructors behind the parameters of k, in their order: None where a
\* value is; one that is needed twice occurs twice.
Dependencies(k) == [i \in DOMAIN providers[k] |-> DependsOn(k, providers[k][i])]
----------------------------------------------------------------------------
(* freeze_layers: k occurs in dependents[d] as often as d in Incoming(k),  *)
(* and each of its occurrences counts the indegree down when d is ready.   *)

\* Fault: an aggregate waits for nothing.
FaultVirtualEdges(k) == << >>

\* add_group_virtual_edges, which goes through the registrations.
VirtualEdges(k) ==
  IF \E e \in registered : VirtualKey(e) = k
  THEN members[CHOOSE e \in registered : VirtualKey(e) = k] ELSE << >>

Incoming(k) == Dependencies(k) \o VirtualEdges(k)
Edges(from, k) == Cardinality({i \in DOMAIN Incoming(k) : Incoming(k)[i] \in from})

\* The n-th round of the loop: the indegrees left, the keys of which it has
\* just become 0, and how many are built after it.
Round[n \in Nat] ==
  IF n = 0
  THEN LET degree == [k \in DOMAIN providers |-> Edges(DOMAIN providers, k)]
           ready  == {k \in DOMAIN providers : degree[k] = 0}
       IN [degree |-> degree, ready |-> ready, built |-> Cardinality(ready)]
  ELSE LET last   == Round[n - 1]
           degree == [k \in DOMAIN providers |-> last.degree[k] - Edges(last.ready, k)]
           ready  == {k \in DOMAIN providers : degree[k] = 0 /\ last.degree[k] > 0}
       IN [degree |-> degree, ready |-> ready, built |-> last.built + Cardinality(ready)]

\* The loop ends with the first round that finds nothing ready.
Rounds == CHOOSE n \in 0 .. Len(order) :
            Round[n].ready = {} /\ \A m \in 0 .. n - 1 : Round[m].ready # {}

\* Each layer is in the order of registration: it maps places in that order
\* to keys.
Frozen ==
  [n \in 1 .. Rounds |->
     LET ready == Round[n - 1].ready
     IN Restrict(order, {i \in DOMAIN order : order[i] \in ready})]

\* Every constructor was built when the loop ended.
AllFrozen == Round[Rounds].built = Len(order)
----------------------------------------------------------------------------
(* detect_cycles and visit.                                                *)

\* Fault: the search does not enter groups.
FaultMembersOf(k) == << >>

\* What visit goes on to after the dependencies: the members, if k is in
\* virtual_to_element.
MembersOf(k) ==
  IF k \in {VirtualKey(e) : e \in registered}
  THEN members[CHOOSE e \in registered : VirtualKey(e) = k] ELSE << >>

Below(k) == Dependencies(k) \o MembersOf(k)

\* A search: the keys that are visited next, one after the other, the keys
\* on the path to them, and those that are done.
Searches == [todo : Seq(DOMAIN providers \cup {None}),
             path : SUBSET DOMAIN providers, done : SUBSET DOMAIN providers]

\* Whether a search meets a cycle, and the keys that are done after it.
Visit[s \in Searches] ==
  IF s.todo = << >> THEN [cycle |-> FALSE, done |-> s.done]
  ELSE LET k     == Head(s.todo)
           below == Visit[[todo |-> Below(k), path |-> s.path \cup {k}, done |-> s.done]]
           first == IF k \in s.done \cup {None} THEN [cycle |-> FALSE, done |-> s.done]
                    ELSE IF k \in s.path THEN [cycle |-> TRUE, done |-> s.done]
                    ELSE [cycle |-> below.cycle, done |-> below.done \cup {k}]
       IN IF first.cycle THEN first
          ELSE Visit[[todo |-> Tail(s.todo), path |-> s.path, done |-> first.done]]

\* The members of groups are only reached through their aggregates.
DetectCycles ==
  LET roots == [i \in DOMAIN order |-> IF order[i].ordinal = 0 THEN order[i] ELSE None]
  IN Visit[[todo |-> roots, path |-> {}, done |-> {}]].cycle
----------------------------------------------------------------------------
(* validate.                                                               *)

MissingDep ==
  \E k \in DOMAIN providers, id \in Ids :
    (\E i \in DOMAIN providers[k] : providers[k][i] = id) /\ ~CanResolve(id, k.scope)

InvokerMissingDep ==
  \E n \in DOMAIN invokers :
    \E i \in DOMAIN invokers[n].deps : ~CanResolve(invokers[n].deps[i], invokers[n].scope)

EmptyGroup == \E e \in required : members[e] = << >>

\* A failed freeze leaves the verdict to detect_cycles.
Verdict ==
  IF MissingDep THEN "missing_dep"
  ELSE IF InvokerMissingDep THEN "invoker_missing_dep"
  ELSE IF EmptyGroup THEN "empty_group"
  ELSE IF ~AllFrozen /\ DetectCycles THEN "cycle"
  ELSE "validated"

\* All options are applied: validate.
Validate ==
  /\ status = "open" /\ current = Root
  /\ status' = Verdict
  /\ layers' = IF Verdict = "validated" /\ AllFrozen THEN Frozen ELSE << >>
  /\ UNCHANGED <<container, applied, accepted, refused>>

LayersInit == RegistryInit /\ layers = << >>
LayersNext == (Apply /\ UNCHANGED layers) \/ Validate
LayersSpec == LayersInit /\ [][LayersNext]_layersVars
----------------------------------------------------------------------------
(* Properties.                                                             *)

\* What a constructor needs by the rule of visibility: the constructors
\* that its parameters are bound to, and an aggregate its members.
Needs(k) ==
  {d \in DOMAIN providers :
     \/ \E i \in DOMAIN providers[k] : Visible(providers[k][i], k.scope) = d
     \/ \E e \in registered : k = VirtualKey(e) /\ d.ordinal > 0 /\ d.type = e}

\* Some constructors each need another one of them.
Cyclic == \E C \in SUBSET DOMAIN providers : C # {} /\ \A k \in C : Needs(k) \cap C # {}

Unbound(deps, scope) == \E i \in DOMAIN deps : Visible(deps[i], scope) = None

\* The verdict is just: an error is reported only for what is really wrong
\* with the wiring, whichever of the two cycle searches found it, and a
\* wiring with a fault is never accepted.
VerdictIsJust ==
  LET missing        == \E k \in DOMAIN providers : Unbound(providers[k], k.scope)
      invokerMissing == \E n \in DOMAIN invokers : Unbound(invokers[n].deps, invokers[n].scope)
      empty          == \E e \in required : \A k \in DOMAIN providers : ~(k.ordinal > 0 /\ k.type = e)
  IN /\ status = "missing_dep" => missing
     /\ status = "invoker_missing_dep" => invokerMissing
     /\ status = "empty_group" => empty
     /\ status = "cycle" => Cyclic
     /\ status = "validated" => ~(missing \/ invokerMissing \/ empty \/ Cyclic)

\* The layers of an accepted wiring hold every constructor once, each after
\* all constructors that it needs, so that one walk through them is enough.
LayersCoverNeeds ==
  status = "validated" =>
    LET at(k) == {n \in DOMAIN layers : k \in Range(layers[n])}
    IN /\ \A n \in DOMAIN layers : IsInjective(layers[n]) /\ Range(layers[n]) \subseteq DOMAIN providers
       /\ \A k \in DOMAIN providers :
            /\ Cardinality(at(k)) = 1
            /\ \A d \in Needs(k) : \A n \in at(k), m \in at(d) : m < n

=============================================================================
