--------------------------------- MODULE Dot ---------------------------------
(***************************************************************************)
(* The DOT export of the wiring: src/graph/dot.rs, called by render_dot    *)
(* and dot_graph of src/app.rs once the wiring is validated.               *)
(*                                                                         *)
(* The renderer makes a node for everything that is registered and finds   *)
(* it again, when it draws the edges, by a key that is put together from   *)
(* names: those of modules and types, which need not be unique.  A node    *)
(* keeps its text and the scope of the cluster that it is drawn in; here   *)
(* the text is what it was made from.  Two arrows between the same nodes   *)
(* are one edge.                                                           *)
(***************************************************************************)
EXTENDS Layers

CONSTANTS Label,        \* the name under which a produced type is shown
          ModuleName    \* the name of each scope

ASSUME NamesAssumption == DOMAIN Label = Produced /\ DOMAIN ModuleName = Scopes

VARIABLES
  valueNodes,   \* Container.value_nodes: the ids of the values, as supplied
  dot           \* the rendered document: its nodes and edges

dotVars == <<layersVars, valueNodes, dot>>

NoDocument == [nodes |-> << >>, edges |-> {}]
----------------------------------------------------------------------------
(* value_nodes, which insert_value extends.  The built-ins, which are never *)
(* drawn, are left out of it.                                              *)

\* The keys of the values that the container holds.
Stocked == ({valuesPublic[id] : id \in Ids}
            \cup {valuesPrivate[p] : p \in Ids \X Scopes}) \ {None}

\* A ValueNode: an id, and the type and place of the value under it.
ValueEntry(id, k) == [id |-> id, key |-> k]

\* insert_value, as part of the option that supplies a value.
NoteValues ==
  \/ Stocked' = Stocked /\ UNCHANGED valueNodes
  \/ \E k \in Stocked' \ Stocked :
       valueNodes' = valueNodes \o <<ValueEntry(k.type, k), ValueEntry(Arc[k.type], k)>>
----------------------------------------------------------------------------
(* The keys of nodes.                                                      *)

\* is_framework_dep: the built-ins are not drawn.
IsFramework(id) == \E b \in Builtins : id \in {b, Arc[b]}

\* Fault: private constructors are not told from public ones.
FaultProviderNode(k) ==
  IF k.ordinal > 0 THEN <<"member", ModuleName[k.scope], k.ordinal>>
  ELSE <<"provider", ModuleName[k.scope], Label[k.type]>>

\* provider_node_key.  A member's type is not in its key, its ordinal is.
ProviderNode(k) ==
  IF k.ordinal > 0 THEN <<"member", ModuleName[k.scope], k.ordinal>>
  ELSE <<"provider", ModuleName[k.scope], Label[k.type], k.private>>

\* value_node_key: a value is drawn once for its type and once for the Arc.
ValueNode(id, k) == <<"value", ModuleName[k.scope], id, k.private>>

InvokerNode(n) == <<"invoker", n>>
----------------------------------------------------------------------------
(* collect_nodes.                                                          *)

Item(node, scope, shows) == [node |-> node, scope |-> scope, shows |-> shows]

ProviderItem(k) == Item(ProviderNode(k), k.scope, <<"constructor", k>>)
ValueItem(v)    == Item(ValueNode(v.id, v.key), v.key.scope, <<"value", v.key, v.id>>)
InvokerItem(n)  == Item(InvokerNode(n), invokers[n].scope, <<"invoker", n>>)

\* The constructors, then the values, then the invokers: by kind, and by
\* their place among their kind.
Places == ({1} \X DOMAIN order)
          \cup ({2} \X {i \in DOMAIN valueNodes : ~IsFramework(valueNodes[i].id)})
          \cup ({3} \X DOMAIN invokers)

Before(p, q) == p[1] < q[1] \/ (p[1] = q[1] /\ p[2] < q[2])

ItemAt(p) == IF p[1] = 1 THEN ProviderItem(order[p[2]])
             ELSE IF p[1] = 2 THEN ValueItem(valueNodes[p[2]]) ELSE InvokerItem(p[2])

\* ensure_node: whatever comes first under a key is the node.
Nodes ==
  LET first(n) == CHOOSE p \in Places :
                    /\ ItemAt(p).node = n
                    /\ \A q \in Places : Before(q, p) => ItemAt(q).node # n
  IN [n \in {ItemAt(p).node : p \in Places} |-> ItemAt(first(n))]
----------------------------------------------------------------------------
(* collect_dependency_edges and collect_group_edges.                       *)

Edge(from, to, style) == [from |-> from, to |-> to, style |-> style]

\* resolve_dep: the node behind a dependency, if there is one.
ResolveDep(id, from) ==
  IF ValueSatisfies(id, from) THEN {ValueNode(id, LookupValue(id, from))}
  ELSE IF ResolveProvider(id, from) # None
       THEN {ProviderNode(ResolveProvider(id, from))} ELSE {}

\* Only nodes that are known can be ends of an arrow.
DependencyEdges(deps, from, node, known) ==
  UNION {{Edge(n, node, "solid") : n \in ResolveDep(deps[i], from) \cap known}
         : i \in {j \in DOMAIN deps : ~IsFramework(deps[j])}}

GroupEdges(e) ==
  {Edge(ProviderNode(members[e][i]), ProviderNode(VirtualKey(e)), "dotted")
   : i \in DOMAIN members[e]}

EdgesAmong(known) ==
  (UNION {DependencyEdges(providers[k], k.scope, ProviderNode(k), known)
          : k \in DOMAIN providers})
  \cup (UNION {DependencyEdges(invokers[n].deps, invokers[n].scope, InvokerNode(n), known)
               : n \in DOMAIN invokers})
  \cup (UNION {GroupEdges(e) : e \in registered})
----------------------------------------------------------------------------

DotInit == LayersInit /\ valueNodes = << >> /\ dot = NoDocument

\* Options, then validation.
Prepare == LayersNext /\ NoteValues /\ UNCHANGED dot

\* render_dot, for a wiring that was accepted.
Render ==
  /\ status = "validated" /\ dot = NoDocument
  /\ LET nodes == Nodes IN dot' = [nodes |-> nodes, edges |-> EdgesAmong(DOMAIN nodes)]
  /\ UNCHANGED <<layersVars, valueNodes>>

DotNext == Prepare \/ Render
DotSpec == DotInit /\ [][DotNext]_dotVars
----------------------------------------------------------------------------
(* Properties.                                                             *)

\* What the wiring of the accepted bindings looks like by the rule of
\* visibility, without names.
Bound(id, from) ==
  LET k == Visible(id, from)
  IN IF k \in DOMAIN providers THEN <<"constructor", k>> ELSE <<"value", k, id>>

Wants(deps, from) ==
  {Bound(deps[i], from) : i \in {j \in DOMAIN deps : ~IsFramework(deps[j])}}

Everything ==
  {<<"constructor", k>> : k \in DOMAIN providers}
  \cup {<<"invoker", n>> : n \in DOMAIN invokers}
  \cup UNION {{<<"value", k, id>> : id \in {i \in Offers(k) : ~IsFramework(i)}}
              : k \in accepted \ DOMAIN providers}

ScopeOf(item) == IF item[1] = "invoker" THEN invokers[item[2]].scope ELSE item[2].scope

Arrows ==
  (UNION {{<<d, <<"constructor", k>>, "solid">> : d \in Wants(providers[k], k.scope)}
          : k \in DOMAIN providers})
  \cup (UNION {{<<d, <<"invoker", n>>, "solid">> : d \in Wants(invokers[n].deps, invokers[n].scope)}
               : n \in DOMAIN invokers})
  \cup {<<<<"constructor", k>>, <<"constructor", VirtualKey(k.type)>>, "dotted">>
        : k \in {l \in DOMAIN providers : l.ordinal > 0}}

UniqueNames ==
  /\ \A t, u \in Produced : Label[t] = Label[u] => t = u
  /\ \A s, t \in Scopes : ModuleName[s] = ModuleName[t] => s = t

\* If names are unique, the document is the wiring: everything but the
\* built-ins has one node, in the cluster of its module, and the arrows are
\* the bindings that the build will inject, values that shadow constructors
\* and members of groups included.
GraphShowsWiring ==
  UniqueNames /\ dot # NoDocument =>
    LET shows(n) == dot.nodes[n].shows
    IN /\ {shows(n) : n \in DOMAIN dot.nodes} = Everything
       /\ \A m, n \in DOMAIN dot.nodes : shows(m) = shows(n) => m = n
       /\ \A n \in DOMAIN dot.nodes : dot.nodes[n].scope = ScopeOf(shows(n))
       /\ {<<shows(e.from), shows(e.to), e.style>> : e \in dot.edges} = Arrows

\* What the docs say of the export: "Nodes show the type, constructor name,
\* and module scope" (README.md); so each constructor has a node.
NodePerConstructor ==
  dot # NoDocument =>
    \A k \in DOMAIN providers :
      \E n \in DOMAIN dot.nodes : dot.nodes[n].shows = <<"constructor", k>>

=============================================================================
