------------------------------ MODULE Registry ------------------------------
(***************************************************************************)
(* Registration and lookup in modrun's container: src/container/mod.rs,    *)
(* storage.rs and group.rs, the scope tree of src/scope.rs, and the        *)
(* options of src/module.rs that fill them.                                *)
(*                                                                         *)
(* The builder applies its queue of options one after another on one task. *)
(* An option is a record; a module is opened, its options are applied in   *)
(* its scope, and it is closed.  Whichever options come, in whichever      *)
(* order and nesting, is left open here.                                   *)
(*                                                                         *)
(* A type id is a value; Arc[t] and GroupOf[e] are the ids of Arc<T> and   *)
(* of Group<E>.  A value or a constructor is identified by its key.        *)
(***************************************************************************)
EXTENDS Integers, Sequences

CONSTANTS Results,     \* the types that are provided, supplied or asked for by hand
          Elements,    \* the element types of groups
          GroupOf,     \* the id of Group<E> for each element type E
          Arc,         \* the id of Arc<T> for each type T that can be produced
          Builtins,    \* the types that seed_builtins supplies
          Options,     \* the options that a builder may hold
          None,        \* no key
          MaxOptions,  \* bound: how many options are applied, modules apart
          MaxScopes    \* bound: how many scopes there are, the root included

Root   == 1
Scopes == 1 .. MaxScopes
NoScope == 0

Groups   == {GroupOf[e] : e \in Elements}
Produced == Results \cup Groups
Ids      == Produced \cup {Arc[t] : t \in Produced}

ASSUME TypesAssumption ==
  /\ GroupOf \in [Elements -> Groups]
  /\ \A d, e \in Elements : GroupOf[d] = GroupOf[e] => d = e
  /\ Arc \in [Produced -> Ids]
  /\ \A t \in Produced : Arc[t] # t
  /\ \A t, u \in Produced : Arc[t] = Arc[u] => t = u
  /\ \A e \in Elements : GroupOf[e] \notin {Arc[t] : t \in Produced}
  /\ Builtins \subseteq Results
  /\ \A b, c \in Builtins : Arc[b] # c
ASSUME OptionsAssumption ==
  \A o \in Options :
    /\ o.kind \in {"provide", "supply", "member", "init", "require", "invoke"}
    /\ o.kind \in {"provide", "supply"} => o.type \in Results /\ o.private \in BOOLEAN
    /\ o.kind \in {"member", "init", "require"} => o.element \in Elements
    /\ o.kind \in {"provide", "member", "invoke"} => o.deps \in Seq(Ids)
ASSUME BoundsAssumption == MaxOptions \in Nat /\ MaxScopes \in Nat \ {0}

\* A ProviderKey.  A value has a key as well: that of its type and place.
Key(t, scope, private, ordinal) ==
  [type |-> t, scope |-> scope, private |-> private, ordinal |-> ordinal]
Singleton(t, scope, private) == Key(t, scope, private, 0)
Keys == [type : Produced \cup Elements, scope : Scopes, private : BOOLEAN, ordinal : Nat]

ASSUME NoneAssumption == None \notin Keys

\* The key of the aggregate provider of a group.
VirtualKey(e) == Singleton(GroupOf[e], Root, FALSE)

VARIABLES
  chain,          \* ScopeTree.ancestors: the scopes from each scope up to the root
  current,        \* BuildState.current_scope
  status,         \* how far the builder is: "open", "refused"; Layers adds more
  valuesPublic,   \* values_public: the key of the value under an id
  valuesPrivate,  \* values_private: the same, by id and scope
  providers,      \* providers: the dependencies of the constructor under each key
  publicIndex,    \* public_index
  privateAlias,   \* private_alias
  order,          \* provider_order
  privateScopes,  \* private_scopes: the scopes marked
  members,        \* Groups.members: the keys of each group's members
  registered,     \* Groups.registrations, by_type, virtual_to_element: the elements
  required,       \* Groups.required
  nextMember,     \* Groups.next_member_id
  invokers,       \* BuildState.invokers: scope and dependencies of each
  applied,        \* how many options were applied
  accepted,       \* history: the keys of all bindings that were accepted
  refused         \* history: what the option that failed wanted to bind

values    == <<valuesPublic, valuesPrivate>>
indices   == <<providers, publicIndex, privateAlias, order>>
groups    == <<members, registered, required, nextMember>>
placement == <<chain, current>>
container == <<values, indices, groups, placement, privateScopes, invokers>>
registryVars == <<container, status, applied, accepted, refused>>

\* Groups.by_type, which knows a group by two ids.
ElementOf(id) == {e \in registered : id \in {GroupOf[e], Arc[GroupOf[e]]}}

Offers(k) == IF k.ordinal = 0 THEN {k.type, Arc[k.type]} ELSE {}

RegistryTypeOK ==
  /\ chain \in Seq(Seq(Scopes)) /\ Len(chain) \in Scopes
  /\ current \in DOMAIN chain
  /\ valuesPublic \in [Ids -> Keys \cup {None}]
  /\ valuesPrivate \in [Ids \X Scopes -> Keys \cup {None}]
  /\ DOMAIN providers \subseteq Keys /\ \A k \in DOMAIN providers : providers[k] \in Seq(Ids)
  /\ publicIndex \in [Ids -> DOMAIN providers \cup {None}]
  /\ privateAlias \in [Ids \X Scopes -> DOMAIN providers \cup {None}]
  /\ order \in Seq(DOMAIN providers)
  /\ privateScopes \subseteq DOMAIN chain
  /\ members \in [Elements -> Seq(DOMAIN providers)]
  /\ registered \subseteq Elements /\ required \subseteq registered
  /\ nextMember \in 0 .. applied
  /\ invokers \in Seq([scope : Scopes, deps : Seq(Ids)])
  /\ applied \in 0 .. MaxOptions
  /\ accepted \subseteq Keys
----------------------------------------------------------------------------
(* Registration.                                                           *)

\* store_constructed and store_value: a value goes under its type and, as
\* the same handle, under Arc of it.
Stored(vals, k) == [vals EXCEPT ![k.type] = k, ![Arc[k.type]] = k]
StoredIn(vals, k) ==
  [vals EXCEPT ![<<k.type, k.scope>>] = k, ![<<Arc[k.type], k.scope>>] = k]

\* Fault: the scope is not marked.
FaultMarked(k) == privateScopes

\* mark_private_scope, for a binding that may be public.
Marked(k) == IF k.private THEN privateScopes \cup {k.scope} ELSE privateScopes

\* Fault: private aliases are not looked at.
FaultConflict(id, scope, private) ==
  IF private
  THEN valuesPrivate[<<id, scope>>] # None \/ Singleton(id, scope, TRUE) \in DOMAIN providers
  ELSE valuesPublic[id] # None \/ publicIndex[id] # None

\* Fault: a public binding keeps modules from having a private one.
FaultConflictPublic(id, scope, private) ==
  \/ valuesPublic[id] # None \/ publicIndex[id] # None
  \/ private /\ valuesPrivate[<<id, scope>>] # None

\* ensure_absent finds a conflict.
Conflict(id, scope, private) ==
  \/ /\ private
     /\ \/ valuesPrivate[<<id, scope>>] # None
        \/ Singleton(id, scope, TRUE) \in DOMAIN providers
        \/ privateAlias[<<id, scope>>] # None
  \/ /\ ~private
     /\ valuesPublic[id] # None \/ publicIndex[id] # None

\* Container::new and seed_builtins.
RegistryInit ==
  /\ chain = << <<Root>> >> /\ current = Root
  /\ status = "open"
  /\ valuesPublic = [id \in Ids |->
       IF \E b \in Builtins : id \in {b, Arc[b]}
       THEN Singleton(CHOOSE b \in Builtins : id \in {b, Arc[b]}, Root, FALSE)
       ELSE None]
  /\ valuesPrivate = [p \in Ids \X Scopes |-> None]
  /\ providers = << >>
  /\ publicIndex = [id \in Ids |-> None]
  /\ privateAlias = [p \in Ids \X Scopes |-> None]
  /\ order = << >>
  /\ privateScopes = {}
  /\ members = [e \in Elements |-> << >>]
  /\ registered = {} /\ required = {} /\ nextMember = 0
  /\ invokers = << >>
  /\ applied = 0
  /\ accepted = {Singleton(b, Root, FALSE) : b \in Builtins}
  /\ refused = None

\* The next option of the queue.  The private ones exist only on Module,
\* init_group and require_group only on the root builder.
Take(kind, o) ==
  /\ status = "open" /\ applied < MaxOptions
  /\ o.kind = kind
  /\ kind \in {"provide", "supply"} => (o.private => current # Root)
  /\ kind \in {"init", "require"} => current = Root
  /\ applied' = applied + 1

\* The ids that must be absent for an option, and where.
Claim(o) ==
  IF o.kind \in {"provide", "supply"}
  THEN [ids |-> {o.type, Arc[o.type]}, scope |-> current, private |-> o.private]
  ELSE [ids |-> IF o.kind \in {"member", "init", "require"} /\ o.element \notin registered
                THEN {GroupOf[o.element], Arc[GroupOf[o.element]]} ELSE {},
        scope |-> Root, private |-> FALSE]

Free(o) == LET c == Claim(o) IN \A id \in c.ids : ~Conflict(id, c.scope, c.private)

\* insert_provider: ProvideOption.
Provide(o) ==
  LET k == Singleton(o.type, current, o.private)
  IN /\ Take("provide", o) /\ Free(o)
     /\ privateScopes' = Marked(k)
     /\ \/ /\ k.private
           /\ privateAlias' = [privateAlias EXCEPT ![<<Arc[o.type], current>>] = k]
           /\ UNCHANGED publicIndex
        \/ /\ ~k.private
           /\ publicIndex' = Stored(publicIndex, k)
           /\ UNCHANGED privateAlias
     /\ providers' = [q \in DOMAIN providers \cup {k} |-> IF q = k THEN o.deps ELSE providers[q]]
     /\ order' = Append(order, k)
     /\ accepted' = accepted \cup {k}
     /\ UNCHANGED <<values, groups, placement, invokers, status, refused>>

\* insert_value: SupplyOption.
Supply(o) ==
  LET k == Singleton(o.type, current, o.private)
  IN /\ Take("supply", o) /\ Free(o)
     /\ privateScopes' = Marked(k)
     /\ \/ k.private  /\ valuesPrivate' = StoredIn(valuesPrivate, k) /\ UNCHANGED valuesPublic
        \/ ~k.private /\ valuesPublic' = Stored(valuesPublic, k) /\ UNCHANGED valuesPrivate
     /\ accepted' = accepted \cup {k}
     /\ UNCHANGED <<indices, groups, placement, invokers, status, refused>>

\* The aggregate that ensure_group_virtual adds when the group is new.
NewVirtual(e) == IF e \in registered THEN << >> ELSE <<VirtualKey(e)>>

\* ensure_group_virtual, then insert the constructors ks behind the aggregate.
RegisterGroup(e, ks, deps) ==
  LET new == NewVirtual(e) \o ks
      isNew == e \notin registered
  IN /\ registered' = registered \cup {e}
     /\ publicIndex' = IF isNew THEN Stored(publicIndex, VirtualKey(e)) ELSE publicIndex
     /\ accepted' = IF isNew THEN accepted \cup {VirtualKey(e)} ELSE accepted
     /\ order' = order \o new
     /\ providers' = [k \in DOMAIN providers \cup {new[i] : i \in DOMAIN new} |->
          IF k \in {ks[i] : i \in DOMAIN ks} THEN deps
          ELSE IF k \in DOMAIN providers THEN providers[k] ELSE << >>]
     /\ UNCHANGED <<values, privateAlias, privateScopes, placement, invokers, status, refused>>

\* The key of the next member.
MemberKey(e) == Key(e, current, FALSE, nextMember + 1)

\* insert_group_member_typed: ProvideGroupOption and SupplyGroupOption.
AddMember(o) ==
  /\ Take("member", o) /\ Free(o)
  /\ RegisterGroup(o.element, <<MemberKey(o.element)>>, o.deps)
  /\ nextMember' = nextMember + 1
  /\ members' = [members EXCEPT ![o.element] = Append(@, MemberKey(o.element))]
  /\ UNCHANGED required

\* ensure_empty_group: InitGroupOption.
InitGroup(o) ==
  /\ Take("init", o) /\ Free(o)
  /\ RegisterGroup(o.element, << >>, << >>)
  /\ UNCHANGED <<members, nextMember, required>>

\* Fault: the group is not registered.
FaultRequireGroup(o) ==
  /\ Take("require", o) /\ Free(o)
  /\ required' = required \cup {o.element}
  /\ UNCHANGED <<values, indices, members, registered, nextMember, placement,
                 privateScopes, invokers, status, accepted, refused>>

\* RequireGroupOption.
RequireGroup(o) ==
  /\ Take("require", o) /\ Free(o)
  /\ RegisterGroup(o.element, << >>, << >>)
  /\ required' = required \cup {o.element}
  /\ UNCHANGED <<members, nextMember>>

\* InvokeOption.
AddInvoker(o) ==
  /\ Take("invoke", o)
  /\ invokers' = Append(invokers, [scope |-> current, deps |-> o.deps])
  /\ UNCHANGED <<values, indices, groups, placement, privateScopes, status, accepted, refused>>

\* Any option whose ids are taken: the error goes up through the open
\* modules, each of which restores its parent, and the build is over.
Refuse(o) ==
  /\ Take(o.kind, o) /\ ~Free(o)
  /\ status' = "refused" /\ current' = Root
  /\ refused' = Claim(o)
  /\ UNCHANGED <<values, indices, groups, chain, privateScopes, invokers, accepted>>

\* ModuleOption::apply: enters a new child of the current scope...
OpenModule ==
  /\ status = "open" /\ Len(chain) < MaxScopes
  /\ chain' = Append(chain, <<Len(chain) + 1>> \o chain[current])
  /\ current' = Len(chain) + 1
  /\ UNCHANGED <<values, indices, groups, privateScopes, invokers, status, applied, accepted, refused>>

\* ...and goes back to its parent after the last option.
CloseModule ==
  /\ status = "open" /\ current # Root
  /\ current' = chain[current][2]
  /\ UNCHANGED <<values, indices, groups, chain, privateScopes, invokers, status, applied, accepted, refused>>

Apply ==
  \/ OpenModule \/ CloseModule
  \/ \E o \in Options :
       \/ Provide(o) \/ Supply(o)
       \/ AddMember(o) \/ InitGroup(o) \/ RequireGroup(o)
       \/ AddInvoker(o) \/ Refuse(o)

RegistrySpec == RegistryInit /\ [][Apply]_registryVars
----------------------------------------------------------------------------
(* Lookup.  Each of the four functions walks the chain from a scope, skips *)
(* scopes without private bindings, and stops at the first that has what   *)
(* it looks for.                                                           *)

\* The first scope of the chain of from that is in S.
Nearest(from, S) ==
  LET at == {i \in DOMAIN chain[from] : chain[from][i] \in S}
  IN IF at = {} THEN NoScope ELSE chain[from][CHOOSE i \in at : \A j \in at : i <= j]

\* Scope s has a private constructor for id.
HasPrivateProvider(id, s) ==
  Singleton(id, s, TRUE) \in DOMAIN providers \/ privateAlias[<<id, s>>] # None

\* Fault: private constructors that have not run hide nothing.
FaultLookupValue(id, from) ==
  LET s == Nearest(from, {p \in privateScopes : valuesPrivate[<<id, p>>] # None})
  IN IF s = NoScope THEN valuesPublic[id] ELSE valuesPrivate[<<id, s>>]

\* lookup_value_ref_from: a private constructor hides values further out.
LookupValue(id, from) ==
  LET s == Nearest(from, {p \in privateScopes :
             valuesPrivate[<<id, p>>] # None \/ HasPrivateProvider(id, p)})
  IN IF s = NoScope THEN valuesPublic[id] ELSE valuesPrivate[<<id, s>>]

\* resolve_provider looks at constructors only.
ResolveProvider(id, from) ==
  LET s == Nearest(from, {p \in privateScopes : HasPrivateProvider(id, p)})
      k == IF s # NoScope
           THEN IF Singleton(id, s, TRUE) \in DOMAIN providers
                THEN Singleton(id, s, TRUE) ELSE privateAlias[<<id, s>>]
           ELSE IF ElementOf(id) # {}
                THEN VirtualKey(CHOOSE e \in ElementOf(id) : TRUE)
                ELSE publicIndex[id]
  IN IF k \in DOMAIN providers THEN k ELSE None

\* can_resolve looks at all private values first.
CanResolve(id, from) ==
  \/ Nearest(from, {p \in privateScopes : valuesPrivate[<<id, p>>] # None}) # NoScope
  \/ valuesPublic[id] # None
  \/ ResolveProvider(id, from) # None

\* value_satisfies: resolve_value_binding finds a value.
ValueSatisfies(id, from) ==
  LET s == Nearest(from, {p \in privateScopes :
             valuesPrivate[<<id, p>>] # None \/ HasPrivateProvider(id, p)})
  IN \/ s # NoScope /\ valuesPrivate[<<id, s>>] # None
     \/ s = NoScope /\ valuesPublic[id] # None
----------------------------------------------------------------------------
(* Properties.                                                             *)

\* The rule of src/README.md, said once: a scope sees the nearest private
\* binding of its own and the enclosing modules, else the public one.
Binds(k, id, s) == k.private /\ k.scope = s /\ id \in Offers(k)
Visible(id, from) ==
  LET s == Nearest(from, {p \in Scopes : \E k \in accepted : Binds(k, id, p)})
      in == IF s # NoScope THEN {k \in accepted : Binds(k, id, s)}
            ELSE {k \in accepted : ~k.private /\ id \in Offers(k)}
  IN IF in = {} THEN None ELSE CHOOSE k \in in : TRUE

\* The four lookups agree with that rule and with each other, from every
\* scope and for every id: what validate accepts is what the build will
\* find, and a private binding hides the ones further out whether it is a
\* value or a constructor, by its type or as an Arc of it.
LookupsFollowVisibility ==
  \A from \in DOMAIN chain, id \in Ids :
    LET k == Visible(id, from)
        isConstructor == k \in DOMAIN providers
    IN /\ CanResolve(id, from) <=> k # None
       /\ ValueSatisfies(id, from) <=> k # None /\ ~isConstructor
       /\ LookupValue(id, from) = IF isConstructor THEN None ELSE k
       /\ isConstructor => ResolveProvider(id, from) = k
       /\ k = None => ResolveProvider(id, from) = None

\* Of the accepted bindings no two offer the same id in the same place, so
\* that the type of a parameter determines what is injected.
OneBindingPerPlace ==
  \A k, l \in accepted :
    /\ k # l
    /\ k.private = l.private
    /\ k.private => k.scope = l.scope
    => Offers(k) \cap Offers(l) = {}

\* An option is refused only for a binding that is really there: not for
\* one of another scope, nor for a group that was registered before.
RefusalIsJustified ==
  refused # None =>
    \E k \in accepted :
      /\ k.private = refused.private
      /\ k.private => k.scope = refused.scope
      /\ Offers(k) \cap refused.ids # {}

=============================================================================
