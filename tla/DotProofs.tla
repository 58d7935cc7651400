------------------------------ MODULE DotProofs ------------------------------
(***************************************************************************)
(* The DOT export shows the wiring, for any wiring whose names are unique. *)
(***************************************************************************)
EXTENDS Dot, LayersProofs

(***************************************************************************)
(* The inductive invariant.                                                *)
(***************************************************************************)

\* The keys that are bound to a value that was supplied, and those of the built-ins.
Supplied == accepted \ DOMAIN providers
Seeds    == {Singleton(b, Root, FALSE) : b \in Builtins}

\* The ids of what is supplied, one after another.
NotesInv ==
  /\ Seeds \subseteq Supplied
  /\ valueNodes \in Seq(Range(valueNodes)) /\ IsInjective(valueNodes)
  /\ Range(valueNodes) = {ValueEntry(k.type, k) : k \in Supplied \ Seeds}
                         \cup {ValueEntry(Arc[k.type], k) : k \in Supplied \ Seeds}

\* A member is told from all others, those of other groups included, by its ordinal.
OrdinalsInv ==
  \A k, l \in DOMAIN providers : k.ordinal > 0 /\ k.ordinal = l.ordinal => k = l

DInv == /\ LInv /\ Unbuilt /\ NotesInv /\ OrdinalsInv /\ GraphShowsWiring
        /\ dot # NoDocument => status = "validated"

-----------------------------------------------------------------------------
(* What is supplied. *)

\* The values in stock are those that were supplied.
LEMMA StockedIs ==
  ASSUME RInv, Unbuilt PROVE Stocked = Supplied
<1>1. ASSUME NEW k \in Stocked PROVE k \in Supplied
  <2>1. k # None /\ ((\E id \in Ids : k = valuesPublic[id])
                     \/ \E p \in Ids \X Scopes : k = valuesPrivate[p])
    BY DEF Stocked
  <2>2. ASSUME NEW id \in Ids, k = valuesPublic[id] PROVE k \in Supplied
    BY <2>1, <2>2 DEF RInv, ValuesInv, PublicFor, Unbuilt, Supplied
  <2>3. ASSUME NEW id \in Ids, NEW s \in Scopes, k = valuesPrivate[<<id, s>>] PROVE k \in Supplied
    BY <2>1, <2>3 DEF RInv, ValuesInv, PrivateFor, Unbuilt, Supplied
  <2> QED BY <2>1, <2>2, <2>3
<1>2. ASSUME NEW k \in Supplied PROVE k \in Stocked
  <2>1. k \in accepted /\ k \notin DOMAIN providers /\ k \in Bindings
    BY DEF Supplied, RInv, KeysInv
  <2>2. k.type \in Offers(k) /\ k.type \in Ids /\ k.scope \in Scopes /\ k.private \in BOOLEAN /\ k # None
    BY <2>1, BindingIs
  <2>3. Held(k)
    BY <2>1 DEF RInv, StockInv
  <2>4. CASE k.private
    <3>1. valuesPrivate[<<k.type, k.scope>>] # None
      BY <2>2, <2>3, <2>4 DEF Held
    <3>2. valuesPrivate[<<k.type, k.scope>>] \in PrivateFor(k.type, k.scope)
      BY <2>2, <3>1 DEF RInv, ValuesInv
    <3>3. k \in PrivateFor(k.type, k.scope)
      BY <2>1, <2>2, <2>4 DEF PrivateFor, Binds
    <3>4. k = valuesPrivate[<<k.type, k.scope>>]
      BY <3>2, <3>3, OneBinding DEF RInv
    <3> QED BY <2>2, <3>4 DEF Stocked
  <2>5. CASE ~k.private
    <3>1. valuesPublic[k.type] # None
      BY <2>2, <2>3, <2>5 DEF Held
    <3>2. valuesPublic[k.type] \in PublicFor(k.type)
      BY <2>2, <3>1 DEF RInv, ValuesInv
    <3>3. k \in PublicFor(k.type)
      BY <2>1, <2>2, <2>5 DEF PublicFor
    <3>4. k = valuesPublic[k.type]
      BY <3>2, <3>3, OneBinding DEF RInv
    <3> QED BY <2>2, <3>4 DEF Stocked
  <2> QED BY <2>4, <2>5
<1> QED BY <1>1, <1>2

\* An option supplies at most one value.
LEMMA SuppliesOne ==
  ASSUME RInv, Unbuilt, RInv', Unbuilt', LayersNext
  PROVE  Stocked' = Stocked \/ \E k : Stocked' = Stocked \cup {k}
<1>1. CASE UNCHANGED values
  BY <1>1 DEF values, Stocked
<1>2. CASE \E o \in Options : Supply(o)
  <2>1. PICK k : accepted' = accepted \cup {k} /\ DOMAIN providers' = DOMAIN providers
    BY <1>2 DEF Supply, indices
  <2>2. Supplied' = Supplied \/ Supplied' = Supplied \cup {k}
    BY <2>1 DEF Supplied
  <2>3. Stocked' = Supplied' /\ Stocked = Supplied
    <3>1. Stocked = Supplied
      BY StockedIs
    <3>2. (RInv /\ Unbuilt => Stocked = Supplied)'
      BY StockedIs, PTL
    <3> QED BY <3>1, <3>2
  <2> QED BY <2>2, <2>3
<1>3. ASSUME ~ \E o \in Options : Supply(o) PROVE UNCHANGED values
  BY <1>3 DEF LayersNext, Apply, OpenModule, CloseModule, Provide, AddMember, InitGroup,
              RequireGroup, RegisterGroup, AddInvoker, Refuse, Validate, container, values
<1> QED BY <1>1, <1>2, <1>3

\* A value that is new is noted, under both of its ids.
LEMMA NotesKeep ==
  ASSUME RInv, Unbuilt, RInv', Unbuilt', NotesInv, LayersNext, NoteValues
  PROVE  NotesInv'
<1>1. Stocked = Supplied
  BY StockedIs
<1>2. Stocked' = Supplied'
  <2>1. (RInv /\ Unbuilt => Stocked = Supplied)'
    BY StockedIs, PTL
  <2> QED BY <2>1
<1>3. UNCHANGED Seeds
  BY DEF Seeds
<1>4. CASE Stocked' = Stocked /\ UNCHANGED valueNodes
  BY <1>1, <1>2, <1>3, <1>4 DEF NotesInv
<1>5. ASSUME NEW k \in Stocked' \ Stocked,
             valueNodes' = valueNodes \o <<ValueEntry(k.type, k), ValueEntry(Arc[k.type], k)>>
      PROVE  NotesInv'
  <2> DEFINE a == ValueEntry(k.type, k)
             b == ValueEntry(Arc[k.type], k)
             s == Append(valueNodes, a)
  <2>1. Supplied' = Supplied \cup {k} /\ k \notin Supplied /\ k \notin Seeds
    BY <1>1, <1>2, SuppliesOne DEF NotesInv
  <2>2. k \in Bindings
    BY <2>1 DEF Supplied, RInv, KeysInv
  <2>3. k.type # Arc[k.type]
    BY <2>2, BindingIs
  <2>4. \A v \in Range(valueNodes) : v.key \in Supplied
    BY DEF NotesInv, ValueEntry
  <2>5. a # b /\ a \notin Range(valueNodes) /\ b \notin Range(valueNodes)
    BY <2>1, <2>3, <2>4 DEF ValueEntry
  <2>6. valueNodes' = Append(s, b)
    BY <1>5, Concats DEF NotesInv
  <2> HIDE DEF a, b
  <2>7. s \in Seq(Range(s)) /\ Range(s) = Range(valueNodes) \cup {a} /\ IsInjective(s)
    BY <2>5, Ordered DEF NotesInv
  <2>8. b \notin Range(s)
    BY <2>5, <2>7
  <2> HIDE DEF s
  <2>9. /\ valueNodes' \in Seq(Range(valueNodes')) /\ IsInjective(valueNodes')
        /\ Range(valueNodes') = Range(valueNodes) \cup {a, b}
    <3>1. PICK t : t = valueNodes'
      OBVIOUS
    <3>2. t = Append(s, b)
      BY <2>6, <3>1
    <3>3. t \in Seq(Range(t)) /\ Range(t) = Range(s) \cup {b} /\ IsInjective(t)
      BY <2>7, <2>8, <3>2, Ordered
    <3> QED BY <2>7, <3>1, <3>3
  <2>10. Supplied' \ Seeds = (Supplied \ Seeds) \cup {k}
    BY <2>1
  <2>11. Range(valueNodes') = {ValueEntry(l.type, l) : l \in Supplied' \ Seeds}
                              \cup {ValueEntry(Arc[l.type], l) : l \in Supplied' \ Seeds}
    BY <2>9, <2>10 DEF NotesInv, a, b
  <2>12. (Range(valueNodes))' = Range(valueNodes')
    BY DEF Range
  <2> QED BY <1>3, <2>1, <2>9, <2>11, <2>12 DEF NotesInv, IsInjective, Range
<1> QED BY <1>4, <1>5 DEF NoteValues

-----------------------------------------------------------------------------
(* The ordinals of members. *)

\* Each member has an ordinal of its own.
LEMMA OrdinalsKeep ==
  ASSUME RInv, OrdinalsInv, LayersNext
  PROVE  OrdinalsInv'
<1>1. nextMember \in Nat
  BY DEF RInv, RegistryTypeOK
<1>2. \A k \in DOMAIN providers : (k.ordinal \in Nat /\ k.ordinal <= nextMember) \/ k.ordinal = 0
  BY DEF RInv, RegistryTypeOK, Keys, GroupInv
<1>3. ASSUME NEW m, m.ordinal = nextMember + 1,
             \A k \in DOMAIN providers' : k \in DOMAIN providers \/ k.ordinal = 0 \/ k = m
      PROVE  OrdinalsInv'
  BY <1>1, <1>2, <1>3 DEF OrdinalsInv
<1>4. ASSUME \A k \in DOMAIN providers' : k \in DOMAIN providers \/ k.ordinal = 0
      PROVE  OrdinalsInv'
  BY <1>4 DEF OrdinalsInv
<1>5. ASSUME NEW o \in Options, Provide(o) PROVE OrdinalsInv'
  <2>1. DOMAIN providers' = DOMAIN providers \cup {Singleton(o.type, current, o.private)}
    BY <1>5 DEF Provide
  <2> QED BY <1>4, <2>1, SingletonParts
<1>6. ASSUME NEW o \in Options, NEW ks, NEW deps, RegisterGroup(o.element, ks, deps),
             NEW m, m.ordinal = nextMember + 1, ks = << >> \/ ks = <<m>>
      PROVE  OrdinalsInv'
  <2> DEFINE new == NewVirtual(o.element) \o ks
  <2>1. DOMAIN providers' = DOMAIN providers \cup {new[i] : i \in DOMAIN new}
    BY <1>6 DEF RegisterGroup
  <2>2. \A i \in DOMAIN new : new[i] \in {VirtualKey(o.element), m}
    <3>1. NewVirtual(o.element) = << >> \/ NewVirtual(o.element) = <<VirtualKey(o.element)>>
      BY DEF NewVirtual
    <3> DEFINE v == VirtualKey(o.element)
    <3>2. << >> \in Seq({v, m}) /\ <<v>> \in Seq({v, m}) /\ <<m>> \in Seq({v, m})
      <4> HIDE DEF v
      <4> QED OBVIOUS
    <3>3. NewVirtual(o.element) \in Seq({v, m}) /\ ks \in Seq({v, m})
      BY <1>6, <3>1, <3>2
    <3>4. new \in Seq({v, m})
      BY <3>3
    <3> HIDE DEF new, v
    <3>5. \A i \in DOMAIN new : new[i] \in {v, m}
      BY <3>4
    <3> QED BY <3>5 DEF v
  <2>3. VirtualKey(o.element).ordinal = 0
    BY DEF VirtualKey, Singleton, Key
  <2> HIDE DEF new
  <2> QED BY <1>3, <1>6, <2>1, <2>2, <2>3
<1>7. ASSUME NEW e PROVE MemberKey(e).ordinal = nextMember + 1
  BY DEF MemberKey, Key
<1>8. ASSUME NEW o \in Options, AddMember(o) \/ InitGroup(o) \/ RequireGroup(o) PROVE OrdinalsInv'
  <2>1. \/ RegisterGroup(o.element, <<MemberKey(o.element)>>, o.deps)
        \/ RegisterGroup(o.element, << >>, << >>)
    BY <1>8 DEF AddMember, InitGroup, RequireGroup
  <2> QED BY <1>6, <1>7, <2>1
<1>9. ASSUME NEW o \in Options, Supply(o) \/ AddInvoker(o) \/ Refuse(o) PROVE OrdinalsInv'
  BY <1>9 DEF Supply, AddInvoker, Refuse, indices, OrdinalsInv
<1>10. CASE OpenModule \/ CloseModule \/ Validate
  BY <1>10 DEF OpenModule, CloseModule, Validate, container, indices, OrdinalsInv
<1> QED BY <1>5, <1>8, <1>9, <1>10 DEF LayersNext, Apply

-----------------------------------------------------------------------------
(* The nodes. *)

Constructor(k) == <<"constructor", k>>
Value(k, id)   == <<"value", k, id>>
AnInvoker(n)   == <<"invoker", n>>

\* What is drawn: constructors, values under the ids that are shown, and invokers.
LEMMA EverythingIs ==
  /\ \A k \in DOMAIN providers : Constructor(k) \in Everything
  /\ \A n \in DOMAIN invokers : AnInvoker(n) \in Everything
  /\ \A k \in Supplied : \A id \in Offers(k) : ~IsFramework(id) => Value(k, id) \in Everything
  /\ \A x \in Everything :
       \/ \E k \in DOMAIN providers : x = Constructor(k)
       \/ \E n \in DOMAIN invokers : x = AnInvoker(n)
       \/ \E k \in Supplied : \E id \in Offers(k) : ~IsFramework(id) /\ x = Value(k, id)
<1> DEFINE V(k) == {<<"value", k, id>> : id \in {i \in Offers(k) : ~IsFramework(i)}}
<1>1. Everything = {<<"constructor", k>> : k \in DOMAIN providers}
                   \cup {<<"invoker", n>> : n \in DOMAIN invokers}
                   \cup UNION {V(k) : k \in Supplied}
  BY DEF Everything, Supplied
<1>2. \A k, x : x \in V(k) <=> \E id \in Offers(k) : ~IsFramework(id) /\ x = <<"value", k, id>>
  OBVIOUS
<1> HIDE DEF V
<1>3. \A x : x \in UNION {V(k) : k \in Supplied} <=> \E k \in Supplied : x \in V(k)
  OBVIOUS
<1> QED BY <1>1, <1>2, <1>3 DEF Constructor, Value, AnInvoker

\* The key of the node of what is drawn, and the scope that it is drawn in.
NodeOf(x) == IF x[1] = "constructor" THEN ProviderNode(x[2])
             ELSE IF x[1] = "value" THEN ValueNode(x[3], x[2]) ELSE InvokerNode(x[2])

LEMMA NodeOfIs ==
  /\ \A k : NodeOf(Constructor(k)) = ProviderNode(k) /\ ScopeOf(Constructor(k)) = k.scope
  /\ \A k, id : NodeOf(Value(k, id)) = ValueNode(id, k) /\ ScopeOf(Value(k, id)) = k.scope
  /\ \A n : NodeOf(AnInvoker(n)) = InvokerNode(n) /\ ScopeOf(AnInvoker(n)) = invokers[n].scope
  BY DEF NodeOf, ScopeOf, Constructor, Value, AnInvoker

\* The three kinds of things, and their parts.
LEMMA ThingsDiffer ==
  /\ \A k, l : Constructor(k) = Constructor(l) => k = l
  /\ \A m, n : AnInvoker(m) = AnInvoker(n) => m = n
  /\ \A k, l, i, j : Value(k, i) = Value(l, j) => k = l /\ i = j
  /\ \A k, l, i : Constructor(k) # Value(l, i)
  /\ \A k, n : Constructor(k) # AnInvoker(n)
  /\ \A l, i, n : Value(l, i) # AnInvoker(n)
<1>1. \A k : Constructor(k)[1] = "constructor" /\ Constructor(k)[2] = k
  BY DEF Constructor
<1>2. \A n : AnInvoker(n)[1] = "invoker" /\ AnInvoker(n)[2] = n
  BY DEF AnInvoker
<1>3. \A k, i : Value(k, i)[1] = "value" /\ Value(k, i)[2] = k /\ Value(k, i)[3] = i
  BY DEF Value
<1> QED BY <1>1, <1>2, <1>3

\* Constructors whose nodes have one key are one, if names are unique.
LEMMA ProviderNodesDiffer ==
  ASSUME RInv, OrdinalsInv, UniqueNames,
         NEW k \in DOMAIN providers, NEW l \in DOMAIN providers, ProviderNode(k) = ProviderNode(l)
  PROVE  k = l
<1>1. /\ k \in Keys /\ l \in Keys
      /\ k.ordinal = 0 => k \in Bindings
      /\ l.ordinal = 0 => l \in Bindings
  BY DEF RInv, RegistryTypeOK, KeysInv
<1>2. \A m : IF m.ordinal > 0
             THEN ProviderNode(m)[1] = "member" /\ ProviderNode(m)[3] = m.ordinal
             ELSE /\ ProviderNode(m)[1] = "provider" /\ ProviderNode(m)[2] = ModuleName[m.scope]
                  /\ ProviderNode(m)[3] = Label[m.type] /\ ProviderNode(m)[4] = m.private
  BY DEF ProviderNode
<1>3. k.ordinal \in Nat /\ l.ordinal \in Nat
  BY <1>1 DEF Keys
<1>4. CASE k.ordinal > 0
  <2>1. ProviderNode(k)[1] = "member" /\ ProviderNode(k)[3] = k.ordinal
    BY <1>2, <1>4
  <2>2. l.ordinal > 0
    BY <1>2, <2>1
  <2>3. ProviderNode(l)[3] = l.ordinal
    BY <1>2, <2>2
  <2> QED BY <1>4, <2>1, <2>3 DEF OrdinalsInv
<1>5. CASE k.ordinal = 0
  <2>1. ~(k.ordinal > 0)
    BY <1>5
  <2>2. /\ ProviderNode(k)[1] = "provider" /\ ProviderNode(k)[2] = ModuleName[k.scope]
        /\ ProviderNode(k)[3] = Label[k.type] /\ ProviderNode(k)[4] = k.private
    BY <1>2, <2>1
  <2>3. ~(l.ordinal > 0)
    BY <1>2, <2>2
  <2>4. /\ ProviderNode(l)[2] = ModuleName[l.scope]
        /\ ProviderNode(l)[3] = Label[l.type] /\ ProviderNode(l)[4] = l.private
    BY <1>2, <2>3
  <2>5. l.ordinal = 0
    BY <1>3, <2>3
  <2>6. /\ k.type \in Produced /\ k.scope \in Scopes /\ l.type \in Produced /\ l.scope \in Scopes
        /\ k = Singleton(k.type, k.scope, k.private) /\ l = Singleton(l.type, l.scope, l.private)
    BY <1>1, <1>5, <2>5, BindingIs
  <2>7. k.type = l.type /\ k.scope = l.scope /\ k.private = l.private
    BY <2>2, <2>4, <2>6 DEF UniqueNames
  <2> QED BY <2>6, <2>7
<1> QED BY <1>3, <1>4, <1>5

\* So are values.
LEMMA ValueNodesDiffer ==
  ASSUME RInv, UniqueNames, NEW k \in Supplied, NEW l \in Supplied,
         NEW i \in Offers(k), NEW j \in Offers(l), ValueNode(i, k) = ValueNode(j, l)
  PROVE  k = l /\ i = j
<1>1. k \in accepted /\ l \in accepted /\ k \in Bindings /\ l \in Bindings
  BY DEF Supplied, RInv, KeysInv
<1>2. k.scope \in Scopes /\ l.scope \in Scopes /\ k.private \in BOOLEAN /\ l.private \in BOOLEAN
  BY <1>1, BindingIs
<1>3. ModuleName[k.scope] = ModuleName[l.scope] /\ i = j /\ k.private = l.private
  BY DEF ValueNode
<1>4. k.scope = l.scope
  BY <1>2, <1>3 DEF UniqueNames
<1>5. i \in Offers(k) \cap Offers(l)
  BY <1>3
<1> QED BY <1>1, <1>3, <1>4, <1>5 DEF RInv, OneBindingPerPlace

\* What is drawn is told from all else by the key of its node.
LEMMA NodesDiffer ==
  ASSUME RInv, OrdinalsInv, UniqueNames, NEW x \in Everything, NEW y \in Everything,
         NodeOf(x) = NodeOf(y)
  PROVE  x = y
<1>1. \A k : ProviderNode(k)[1] \in {"member", "provider"}
  BY DEF ProviderNode
<1>2. \A k, id : ValueNode(id, k)[1] = "value"
  BY DEF ValueNode
<1>3. \A n : InvokerNode(n)[1] = "invoker" /\ InvokerNode(n)[2] = n
  BY DEF InvokerNode
<1>4. CASE \E k \in DOMAIN providers : x = Constructor(k)
  <2>1. PICK k \in DOMAIN providers : x = Constructor(k)
    BY <1>4
  <2>2. \E l \in DOMAIN providers : y = Constructor(l)
    BY <1>1, <1>2, <1>3, <2>1, NodeOfIs, EverythingIs
  <2> QED BY <2>1, <2>2, NodeOfIs, ProviderNodesDiffer
<1>5. CASE \E n \in DOMAIN invokers : x = AnInvoker(n)
  <2>1. PICK n \in DOMAIN invokers : x = AnInvoker(n)
    BY <1>5
  <2>2. \E m \in DOMAIN invokers : y = AnInvoker(m)
    BY <1>1, <1>2, <1>3, <2>1, NodeOfIs, EverythingIs
  <2> QED BY <1>3, <2>1, <2>2, NodeOfIs
<1>6. CASE \E k \in Supplied : \E id \in Offers(k) : x = Value(k, id)
  <2>1. PICK k \in Supplied : \E id \in Offers(k) : x = Value(k, id)
    BY <1>6
  <2>2. \E l \in Supplied : \E j \in Offers(l) : y = Value(l, j)
    BY <1>1, <1>2, <1>3, <2>1, NodeOfIs, EverythingIs
  <2>3. PICK i \in Offers(k) : x = Value(k, i)
    BY <2>1
  <2>4. PICK l \in Supplied : \E j \in Offers(l) : y = Value(l, j)
    BY <2>2
  <2>5. PICK j \in Offers(l) : y = Value(l, j)
    BY <2>4
  <2> QED BY <2>3, <2>5, NodeOfIs, ValueNodesDiffer
<1> QED BY <1>4, <1>5, <1>6, EverythingIs

\* What value_nodes holds: the values that were supplied, under their two ids, but for
\* some that are not drawn.
LEMMA NotedAre ==
  ASSUME RInv, NotesInv
  PROVE  /\ \A i \in DOMAIN valueNodes :
              /\ valueNodes[i].key \in Supplied
              /\ valueNodes[i].id \in Offers(valueNodes[i].key)
              /\ valueNodes[i] = ValueEntry(valueNodes[i].id, valueNodes[i].key)
         /\ \A k \in Supplied : \A id \in Offers(k) : ~IsFramework(id) =>
              \E i \in DOMAIN valueNodes : valueNodes[i] = ValueEntry(id, k)
<1>1. \A k \in Supplied : k \in Bindings /\ Offers(k) = {k.type, Arc[k.type]}
  BY BindingIs DEF Supplied, RInv, KeysInv
<1>2. \A v : v \in Range(valueNodes) <=>
        \E k \in Supplied \ Seeds : v = ValueEntry(k.type, k) \/ v = ValueEntry(Arc[k.type], k)
  BY DEF NotesInv
<1>3. \A id, k : ValueEntry(id, k).id = id /\ ValueEntry(id, k).key = k
  BY DEF ValueEntry
<1>4. ASSUME NEW i \in DOMAIN valueNodes
      PROVE  /\ valueNodes[i].key \in Supplied
             /\ valueNodes[i].id \in Offers(valueNodes[i].key)
             /\ valueNodes[i] = ValueEntry(valueNodes[i].id, valueNodes[i].key)
  <2>1. valueNodes[i] \in Range(valueNodes)
    BY DEF Range
  <2>2. PICK k \in Supplied \ Seeds :
          valueNodes[i] = ValueEntry(k.type, k) \/ valueNodes[i] = ValueEntry(Arc[k.type], k)
    BY <1>2, <2>1
  <2> QED BY <1>1, <1>3, <2>2
<1>5. ASSUME NEW k \in Supplied, NEW id \in Offers(k), ~IsFramework(id)
      PROVE  \E i \in DOMAIN valueNodes : valueNodes[i] = ValueEntry(id, k)
  <2>1. id = k.type \/ id = Arc[k.type]
    BY <1>1
  <2>2. k \notin Seeds
    <3>1. ASSUME NEW b \in Builtins, k = Singleton(b, Root, FALSE) PROVE FALSE
      <4>1. k.type = b
        BY <3>1 DEF Singleton, Key
      <4> QED BY <1>5, <2>1, <4>1 DEF IsFramework
    <3> QED BY <3>1 DEF Seeds
  <2>3. ValueEntry(id, k) \in Range(valueNodes)
    BY <1>2, <2>1, <2>2
  <2> QED BY <2>3 DEF Range
<1> QED BY <1>4, <1>5

\* What the items show.
LEMMA ItemsShow ==
  /\ \A i : ItemAt(<<1, i>>) = ProviderItem(order[i])
  /\ \A i : ItemAt(<<2, i>>) = ValueItem(valueNodes[i])
  /\ \A i : ItemAt(<<3, i>>) = InvokerItem(i)
  /\ \A k : LET it == ProviderItem(k)
            IN it.shows = Constructor(k) /\ it.node = NodeOf(it.shows) /\ it.scope = ScopeOf(it.shows)
  /\ \A v : LET it == ValueItem(v)
            IN it.shows = Value(v.key, v.id) /\ it.node = NodeOf(it.shows) /\ it.scope = ScopeOf(it.shows)
  /\ \A n : LET it == InvokerItem(n)
            IN it.shows = AnInvoker(n) /\ it.node = NodeOf(it.shows) /\ it.scope = ScopeOf(it.shows)
<1>1. /\ \A i : ItemAt(<<1, i>>) = ProviderItem(order[i])
      /\ \A i : ItemAt(<<2, i>>) = ValueItem(valueNodes[i])
      /\ \A i : ItemAt(<<3, i>>) = InvokerItem(i)
  BY DEF ItemAt
<1>2. ASSUME NEW k
      PROVE  /\ ProviderItem(k).shows = Constructor(k) /\ ProviderItem(k).node = ProviderNode(k)
             /\ ProviderItem(k).scope = k.scope
  BY DEF ProviderItem, Item, Constructor
<1>3. ASSUME NEW v
      PROVE  /\ ValueItem(v).shows = Value(v.key, v.id) /\ ValueItem(v).node = ValueNode(v.id, v.key)
             /\ ValueItem(v).scope = v.key.scope
  BY DEF ValueItem, Item, Value
<1>4. ASSUME NEW n
      PROVE  /\ InvokerItem(n).shows = AnInvoker(n) /\ InvokerItem(n).node = InvokerNode(n)
             /\ InvokerItem(n).scope = invokers[n].scope
  BY DEF InvokerItem, Item, AnInvoker
<1>5. ASSUME NEW k
      PROVE  LET it == ProviderItem(k)
             IN it.shows = Constructor(k) /\ it.node = NodeOf(it.shows) /\ it.scope = ScopeOf(it.shows)
  BY <1>2, NodeOfIs
<1>6. ASSUME NEW v
      PROVE  LET it == ValueItem(v)
             IN it.shows = Value(v.key, v.id) /\ it.node = NodeOf(it.shows) /\ it.scope = ScopeOf(it.shows)
  BY <1>3, NodeOfIs
<1>7. ASSUME NEW n
      PROVE  LET it == InvokerItem(n)
             IN it.shows = AnInvoker(n) /\ it.node = NodeOf(it.shows) /\ it.scope = ScopeOf(it.shows)
  BY <1>4, NodeOfIs
<1> QED BY <1>1, <1>5, <1>6, <1>7

\* The places of the three kinds.
LEMMA PlacesAre ==
  \A p : p \in Places <=>
    \/ \E i \in DOMAIN order : p = <<1, i>>
    \/ \E i \in DOMAIN valueNodes : ~IsFramework(valueNodes[i].id) /\ p = <<2, i>>
    \/ \E n \in DOMAIN invokers : p = <<3, n>>
  BY DEF Places

\* Each place has something to draw, with the key and the scope of it, and everything
\* that is to be drawn has one place.
LEMMA ItemsAre ==
  ASSUME RInv, NotesInv
  PROVE  /\ \A p \in Places :
              /\ ItemAt(p).shows \in Everything
              /\ ItemAt(p).node = NodeOf(ItemAt(p).shows)
              /\ ItemAt(p).scope = ScopeOf(ItemAt(p).shows)
         /\ \A x \in Everything : \E p \in Places : ItemAt(p).shows = x
         /\ \A p, q \in Places : ItemAt(p).shows = ItemAt(q).shows => p = q
<1>1. Range(order) = DOMAIN providers /\ IsInjective(order)
  BY DEF RInv, OrderInv
<1>2. \A i \in DOMAIN order : order[i] \in DOMAIN providers
  BY <1>1 DEF Range
<1>3. ASSUME NEW p \in Places
      PROVE  /\ ItemAt(p).shows \in Everything
             /\ ItemAt(p).node = NodeOf(ItemAt(p).shows)
             /\ ItemAt(p).scope = ScopeOf(ItemAt(p).shows)
  <2>1. CASE \E i \in DOMAIN order : p = <<1, i>>
    BY <1>2, <2>1, ItemsShow, EverythingIs
  <2>2. CASE \E i \in DOMAIN valueNodes : ~IsFramework(valueNodes[i].id) /\ p = <<2, i>>
    BY <2>2, ItemsShow, EverythingIs, NotedAre
  <2>3. CASE \E n \in DOMAIN invokers : p = <<3, n>>
    BY <2>3, ItemsShow, EverythingIs
  <2> QED BY <2>1, <2>2, <2>3, PlacesAre
<1>4. ASSUME NEW x \in Everything PROVE \E p \in Places : ItemAt(p).shows = x
  <2>1. ASSUME NEW k \in DOMAIN providers, x = Constructor(k)
        PROVE  \E p \in Places : ItemAt(p).shows = x
    <3>1. PICK i \in DOMAIN order : order[i] = k
      BY <1>1 DEF Range
    <3>2. <<1, i>> \in Places /\ ItemAt(<<1, i>>).shows = Constructor(k)
      BY <3>1, ItemsShow, PlacesAre
    <3> QED BY <2>1, <3>2
  <2>2. ASSUME NEW n \in DOMAIN invokers, x = AnInvoker(n)
        PROVE  \E p \in Places : ItemAt(p).shows = x
    BY <2>2, ItemsShow, PlacesAre
  <2>3. ASSUME NEW k \in Supplied, NEW id \in Offers(k), ~IsFramework(id), x = Value(k, id)
        PROVE  \E p \in Places : ItemAt(p).shows = x
    <3>1. PICK i \in DOMAIN valueNodes : valueNodes[i] = ValueEntry(id, k)
      BY <2>3, NotedAre
    <3>2. valueNodes[i].id = id /\ valueNodes[i].key = k
      BY <3>1 DEF ValueEntry
    <3>3. <<2, i>> \in Places /\ ItemAt(<<2, i>>).shows = Value(k, id)
      BY <2>3, <3>2, ItemsShow, PlacesAre
    <3> QED BY <2>3, <3>3
  <2> QED BY <2>1, <2>2, <2>3, EverythingIs
<1>5. ASSUME NEW p \in Places, NEW q \in Places, ItemAt(p).shows = ItemAt(q).shows PROVE p = q
  <2>1. CASE \E i \in DOMAIN order : p = <<1, i>>
    <3>1. PICK i \in DOMAIN order : p = <<1, i>>
      BY <2>1
    <3>2. PICK j \in DOMAIN order : q = <<1, j>>
      BY <1>5, <3>1, ItemsShow, PlacesAre, ThingsDiffer
    <3>3. order[i] = order[j]
      BY <1>5, <3>1, <3>2, ItemsShow, ThingsDiffer
    <3> QED BY <1>1, <3>1, <3>2, <3>3 DEF IsInjective
  <2>2. CASE \E i \in DOMAIN valueNodes : p = <<2, i>>
    <3>1. PICK i \in DOMAIN valueNodes : p = <<2, i>>
      BY <2>2
    <3>2. PICK j \in DOMAIN valueNodes : q = <<2, j>>
      BY <1>5, <3>1, ItemsShow, PlacesAre, ThingsDiffer
    <3>3. valueNodes[i].key = valueNodes[j].key /\ valueNodes[i].id = valueNodes[j].id
      BY <1>5, <3>1, <3>2, ItemsShow, ThingsDiffer
    <3>4. valueNodes[i] = valueNodes[j]
      BY <3>3, NotedAre
    <3> QED BY <3>1, <3>2, <3>4 DEF IsInjective, NotesInv
  <2>3. CASE \E n \in DOMAIN invokers : p = <<3, n>>
    <3>1. PICK n \in DOMAIN invokers : p = <<3, n>>
      BY <2>3
    <3>2. PICK m \in DOMAIN invokers : q = <<3, m>>
      BY <1>5, <3>1, ItemsShow, PlacesAre, ThingsDiffer
    <3> QED BY <1>5, <3>1, <3>2, ItemsShow, ThingsDiffer
  <2> QED BY <2>1, <2>2, <2>3, PlacesAre
<1> QED BY <1>3, <1>4, <1>5

\* Under unique names each thing has the node of its key, and no other.
LEMMA NodesAre ==
  ASSUME RInv, OrdinalsInv, NotesInv, UniqueNames
  PROVE  /\ DOMAIN Nodes = {NodeOf(x) : x \in Everything}
         /\ \A x \in Everything :
              Nodes[NodeOf(x)].shows = x /\ Nodes[NodeOf(x)].scope = ScopeOf(x)
<1> DEFINE first(n) == CHOOSE p \in Places :
                         /\ ItemAt(p).node = n
                         /\ \A q \in Places : Before(q, p) => ItemAt(q).node # n
<1>1. Nodes = [n \in {ItemAt(p).node : p \in Places} |-> ItemAt(first(n))]
  BY DEF Nodes
<1>2. {ItemAt(p).node : p \in Places} = {NodeOf(x) : x \in Everything}
  BY ItemsAre
<1>3. \A p \in Places : ~Before(p, p)
  <2>1. \A p \in Places : p[1] \in Nat /\ p[2] \in Nat
    <3>1. /\ \A i \in DOMAIN order : i \in Nat
          /\ \A i \in DOMAIN valueNodes : i \in Nat
          /\ \A i \in DOMAIN invokers : i \in Nat
      BY DEF RInv, RegistryTypeOK, NotesInv
    <3> QED BY <3>1, PlacesAre
  <2> QED BY <2>1 DEF Before
<1>4. ASSUME NEW x \in Everything
      PROVE  ItemAt(first(NodeOf(x))).shows = x /\ ItemAt(first(NodeOf(x))).scope = ScopeOf(x)
  <2>1. PICK p \in Places : ItemAt(p).shows = x
    BY ItemsAre
  <2>2. ItemAt(p).node = NodeOf(x)
    BY <2>1, ItemsAre
  <2>3. \A q \in Places : ItemAt(q).node = NodeOf(x) => ItemAt(q).shows = x
    BY ItemsAre, NodesDiffer
  <2>4. \A q \in Places : ItemAt(q).node = NodeOf(x) => q = p
    BY <2>1, <2>3, ItemsAre
  <2>5. \A q \in Places : Before(q, p) => ItemAt(q).node # NodeOf(x)
    BY <1>3, <2>4
  <2>6. first(NodeOf(x)) \in Places /\ ItemAt(first(NodeOf(x))).node = NodeOf(x)
    BY <2>2, <2>5
  <2> HIDE DEF first
  <2> QED BY <2>3, <2>6, ItemsAre
<1> HIDE DEF first
<1> QED BY <1>1, <1>2, <1>4

-----------------------------------------------------------------------------
(* The arrows. *)

\* A parameter that is bound leads to the node of its binding.
LEMMA ResolvesToBound ==
  ASSUME RInv, Unbuilt, NEW from \in DOMAIN chain, NEW id \in Ids, Visible(id, from) # None
  PROVE  /\ ResolveDep(id, from) = {NodeOf(Bound(id, from))}
         /\ ~IsFramework(id) => Bound(id, from) \in Everything
<1>1. PICK v : v = Visible(id, from)
  OBVIOUS
<1>2. /\ v # None
      /\ ValueSatisfies(id, from) <=> v \notin DOMAIN providers
      /\ v \notin DOMAIN providers => LookupValue(id, from) = v
      /\ v \in DOMAIN providers => ResolveProvider(id, from) = v
  BY <1>1, LookupsAgree DEF LookupsFollowVisibility
<1>3. v \in accepted /\ id \in Offers(v)
  <2>1. DOMAIN chain = 1 .. Len(chain)
    BY DEF RInv, PlaceInv
  <2> QED BY <1>1, <2>1, LookupsFind
<1>4. CASE v \in DOMAIN providers
  <2>1. ResolveDep(id, from) = {ProviderNode(v)}
    BY <1>2, <1>4 DEF ResolveDep
  <2>2. Bound(id, from) = Constructor(v)
    BY <1>1, <1>4 DEF Bound, Constructor
  <2> QED BY <1>4, <2>1, <2>2, NodeOfIs, EverythingIs
<1>5. CASE v \notin DOMAIN providers
  <2>1. ResolveDep(id, from) = {ValueNode(id, v)}
    BY <1>2, <1>5 DEF ResolveDep
  <2>2. Bound(id, from) = Value(v, id)
    BY <1>1, <1>5 DEF Bound, Value
  <2>3. v \in Supplied
    BY <1>3, <1>5 DEF Supplied
  <2> QED BY <1>3, <2>1, <2>2, <2>3, NodeOfIs, EverythingIs
<1> QED BY <1>4, <1>5

\* Whoever has parameters has an arrow from each that is drawn.
LEMMA DependenciesAreWants ==
  ASSUME RInv, Unbuilt, NEW deps, NEW from \in DOMAIN chain,
         \A i \in DOMAIN deps : deps[i] \in Ids /\ Visible(deps[i], from) # None,
         NEW node, NEW known, \A x \in Everything : NodeOf(x) \in known
  PROVE  /\ \A e : e \in DependencyEdges(deps, from, node, known)
                   <=> \E d \in Wants(deps, from) : e = Edge(NodeOf(d), node, "solid")
         /\ Wants(deps, from) \subseteq Everything
<1> DEFINE J == {j \in DOMAIN deps : ~IsFramework(deps[j])}
           E(i) == {Edge(n, node, "solid") : n \in ResolveDep(deps[i], from) \cap known}
<1>1. ASSUME NEW i \in J
      PROVE  Bound(deps[i], from) \in Everything /\ E(i) = {Edge(NodeOf(Bound(deps[i], from)), node, "solid")}
  <2>1. /\ ResolveDep(deps[i], from) = {NodeOf(Bound(deps[i], from))}
        /\ Bound(deps[i], from) \in Everything
    BY ResolvesToBound
  <2>2. ResolveDep(deps[i], from) \cap known = {NodeOf(Bound(deps[i], from))}
    BY <2>1
  <2> QED BY <2>1, <2>2
<1>2. DependencyEdges(deps, from, node, known) = UNION {E(i) : i \in J}
  BY DEF DependencyEdges
<1>3. Wants(deps, from) = {Bound(deps[i], from) : i \in J}
  BY DEF Wants
<1> HIDE DEF J, E
<1> QED BY <1>1, <1>2, <1>3

\* The parts of an arrow in the document.
LEMMA EdgeIs ==
  \A m, n, s : Edge(m, n, s).from = m /\ Edge(m, n, s).to = n /\ Edge(m, n, s).style = s
  BY DEF Edge

\* The arrows of the document are those of the wiring, between the nodes of their ends.
LEMMA EdgesAreArrows ==
  ASSUME RInv, Unbuilt, VerdictIsJust, status = "validated",
         NEW known, \A x \in Everything : NodeOf(x) \in known
  PROVE  /\ EdgesAmong(known) = {Edge(NodeOf(a[1]), NodeOf(a[2]), a[3]) : a \in Arrows}
         /\ \A a \in Arrows : /\ a[1] \in Everything /\ a[2] \in Everything
                              /\ a = <<a[1], a[2], a[3]>>
<1> DEFINE D(k) == DependencyEdges(providers[k], k.scope, ProviderNode(k), known)
           I(n) == DependencyEdges(invokers[n].deps, invokers[n].scope, InvokerNode(n), known)
           AD(k) == {<<d, <<"constructor", k>>, "solid">> : d \in Wants(providers[k], k.scope)}
           AI(n) == {<<d, <<"invoker", n>>, "solid">> : d \in Wants(invokers[n].deps, invokers[n].scope)}
           M == {l \in DOMAIN providers : l.ordinal > 0}
           AM(k) == <<<<"constructor", k>>, <<"constructor", VirtualKey(k.type)>>, "dotted">>
           Drawn(a) == Edge(NodeOf(a[1]), NodeOf(a[2]), a[3])
<1>1. DOMAIN chain = 1 .. Len(chain)
  BY DEF RInv, PlaceInv
<1>2. /\ \A k \in DOMAIN providers : ~Unbound(providers[k], k.scope)
      /\ \A n \in DOMAIN invokers : ~Unbound(invokers[n].deps, invokers[n].scope)
  BY DEF VerdictIsJust
<1>3. ASSUME NEW k \in DOMAIN providers
      PROVE  /\ \A e : e \in D(k) <=> \E d \in Wants(providers[k], k.scope) :
                                        e = Edge(NodeOf(d), ProviderNode(k), "solid")
             /\ Wants(providers[k], k.scope) \subseteq Everything
  <2>1. k.scope \in DOMAIN chain
        /\ \A i \in DOMAIN providers[k] :
             providers[k][i] \in Ids /\ Visible(providers[k][i], k.scope) # None
    BY <1>1, <1>2, ParametersAre DEF Unbound
  <2> QED BY <2>1, DependenciesAreWants
<1>4. ASSUME NEW n \in DOMAIN invokers
      PROVE  /\ \A e : e \in I(n) <=> \E d \in Wants(invokers[n].deps, invokers[n].scope) :
                                        e = Edge(NodeOf(d), InvokerNode(n), "solid")
             /\ Wants(invokers[n].deps, invokers[n].scope) \subseteq Everything
  <2>1. invokers[n].scope \in DOMAIN chain
        /\ \A i \in DOMAIN invokers[n].deps :
             invokers[n].deps[i] \in Ids /\ Visible(invokers[n].deps[i], invokers[n].scope) # None
    BY <1>1, <1>2, ParametersAre DEF Unbound
  <2> QED BY <2>1, DependenciesAreWants
<1>5. /\ UNION {GroupEdges(e) : e \in registered} = {Drawn(AM(k)) : k \in M}
      /\ \A k \in M : VirtualKey(k.type) \in DOMAIN providers
  <2>1. registered \subseteq Elements
    BY DEF RInv, RegistryTypeOK
  <2>2. \A k \in M : k.type \in registered /\ k \in Range(members[k.type])
                     /\ VirtualKey(k.type) \in DOMAIN providers
    BY DEF RInv, GroupInv
  <2>3. \A e \in registered : \A k \in Range(members[e]) : k \in M /\ k.type = e
    BY <2>1 DEF RInv, GroupInv
  <2>4. \A k : Drawn(AM(k)) = Edge(ProviderNode(k), ProviderNode(VirtualKey(k.type)), "dotted")
    <3>1. \A k : /\ AM(k)[1] = Constructor(k) /\ AM(k)[2] = Constructor(VirtualKey(k.type))
                 /\ AM(k)[3] = "dotted"
      BY DEF Constructor
    <3> HIDE DEF AM
    <3> QED BY <3>1, NodeOfIs
  <2>5. \A e \in registered : GroupEdges(e)
          = {Edge(ProviderNode(k), ProviderNode(VirtualKey(e)), "dotted") : k \in Range(members[e])}
    BY DEF GroupEdges, Range
  <2> HIDE DEF M, AM, Drawn
  <2> QED BY <2>2, <2>3, <2>4, <2>5
<1>6. ASSUME NEW k \in DOMAIN providers
      PROVE  \A e : e \in D(k) <=> \E a \in AD(k) : e = Drawn(a)
  <2> DEFINE Arrow(d) == <<d, <<"constructor", k>>, "solid">>
  <2>1. \A d : Drawn(Arrow(d)) = Edge(NodeOf(d), ProviderNode(k), "solid")
    BY NodeOfIs DEF Constructor
  <2>2. \A a : a \in AD(k) <=> \E d \in Wants(providers[k], k.scope) : a = Arrow(d)
    OBVIOUS
  <2> HIDE DEF D, AD, Drawn, Arrow
  <2> QED BY <1>3, <2>1, <2>2
<1>7. ASSUME NEW n \in DOMAIN invokers
      PROVE  \A e : e \in I(n) <=> \E a \in AI(n) : e = Drawn(a)
  <2> DEFINE Arrow(d) == <<d, <<"invoker", n>>, "solid">>
  <2>1. \A d : Drawn(Arrow(d)) = Edge(NodeOf(d), InvokerNode(n), "solid")
    BY NodeOfIs DEF AnInvoker
  <2>2. \A a : a \in AI(n) <=> \E d \in Wants(invokers[n].deps, invokers[n].scope) : a = Arrow(d)
    OBVIOUS
  <2> HIDE DEF I, AI, Drawn, Arrow
  <2> QED BY <1>4, <2>1, <2>2
<1>8. \A a : a \in Arrows <=> \/ \E k \in DOMAIN providers : a \in AD(k)
                              \/ \E n \in DOMAIN invokers : a \in AI(n)
                              \/ \E k \in M : a = AM(k)
  <2> DEFINE X == UNION {AD(k) : k \in DOMAIN providers}
             Y == UNION {AI(n) : n \in DOMAIN invokers}
             Z == {AM(k) : k \in M}
  <2>1. Arrows = X \cup Y \cup Z
    BY DEF Arrows
  <2> HIDE DEF AD, AI, AM, M
  <2>2. /\ \A a : a \in X <=> \E k \in DOMAIN providers : a \in AD(k)
        /\ \A a : a \in Y <=> \E n \in DOMAIN invokers : a \in AI(n)
        /\ \A a : a \in Z <=> \E k \in M : a = AM(k)
    OBVIOUS
  <2> HIDE DEF X, Y, Z
  <2> QED BY <2>1, <2>2
<1>9. \A e : e \in EdgesAmong(known) <=> \/ \E k \in DOMAIN providers : e \in D(k)
                                         \/ \E n \in DOMAIN invokers : e \in I(n)
                                         \/ \E k \in M : e = Drawn(AM(k))
  <2> DEFINE X == UNION {D(k) : k \in DOMAIN providers}
             Y == UNION {I(n) : n \in DOMAIN invokers}
             Z == UNION {GroupEdges(e) : e \in registered}
  <2>1. EdgesAmong(known) = X \cup Y \cup Z
    BY DEF EdgesAmong
  <2> HIDE DEF D, I, AM, M, Drawn
  <2>2. /\ \A e : e \in X <=> \E k \in DOMAIN providers : e \in D(k)
        /\ \A e : e \in Y <=> \E n \in DOMAIN invokers : e \in I(n)
        /\ \A e : e \in Z <=> \E k \in M : e = Drawn(AM(k))
    BY <1>5
  <2> HIDE DEF X, Y, Z
  <2> QED BY <2>1, <2>2
<1>10. EdgesAmong(known) = {Drawn(a) : a \in Arrows}
  <2> HIDE DEF D, I, AD, AI, AM, M, Drawn
  <2>1. ASSUME NEW a \in Arrows PROVE Drawn(a) \in EdgesAmong(known)
    BY <1>6, <1>7, <1>8, <1>9
  <2>2. ASSUME NEW e \in EdgesAmong(known) PROVE \E a \in Arrows : e = Drawn(a)
    BY <1>6, <1>7, <1>8, <1>9
  <2> QED BY <2>1, <2>2
<1>11. ASSUME NEW a \in Arrows
       PROVE  a[1] \in Everything /\ a[2] \in Everything /\ a = <<a[1], a[2], a[3]>>
  <2>1. ASSUME NEW k \in DOMAIN providers, a \in AD(k)
        PROVE  a[1] \in Everything /\ a[2] \in Everything /\ a = <<a[1], a[2], a[3]>>
    BY <1>3, <2>1, EverythingIs DEF Constructor
  <2>2. ASSUME NEW n \in DOMAIN invokers, a \in AI(n)
        PROVE  a[1] \in Everything /\ a[2] \in Everything /\ a = <<a[1], a[2], a[3]>>
    BY <1>4, <2>2, EverythingIs DEF AnInvoker
  <2>3. ASSUME NEW k \in M, a = AM(k)
        PROVE  a[1] \in Everything /\ a[2] \in Everything /\ a = <<a[1], a[2], a[3]>>
    BY <1>5, <2>3, EverythingIs DEF Constructor
  <2> HIDE DEF AD, AI, AM, M
  <2>4. \/ \E k \in DOMAIN providers : a \in AD(k)
        \/ \E n \in DOMAIN invokers : a \in AI(n)
        \/ \E k \in M : a = AM(k)
    BY <1>8
  <2> QED BY <2>1, <2>2, <2>3, <2>4
<1> QED BY <1>10, <1>11

-----------------------------------------------------------------------------
(* Steps. *)

\* Document d is the wiring.
Shows(d) ==
  LET shows(n) == d.nodes[n].shows
  IN /\ {shows(n) : n \in DOMAIN d.nodes} = Everything
     /\ \A m, n \in DOMAIN d.nodes : shows(m) = shows(n) => m = n
     /\ \A n \in DOMAIN d.nodes : d.nodes[n].scope = ScopeOf(shows(n))
     /\ {<<shows(e.from), shows(e.to), e.style>> : e \in d.edges} = Arrows

\* What is rendered of an accepted wiring shows it.
LEMMA RenderShows ==
  ASSUME RInv, Unbuilt, NotesInv, OrdinalsInv, VerdictIsJust, status = "validated", UniqueNames,
         NEW d, d = [nodes |-> Nodes, edges |-> EdgesAmong(DOMAIN Nodes)]
  PROVE  Shows(d)
<1> DEFINE shows(n) == Nodes[n].shows
<1>1. d.nodes = Nodes /\ d.edges = EdgesAmong(DOMAIN Nodes)
  OBVIOUS
<1>2. /\ DOMAIN Nodes = {NodeOf(x) : x \in Everything}
      /\ \A x \in Everything : shows(NodeOf(x)) = x /\ Nodes[NodeOf(x)].scope = ScopeOf(x)
  BY NodesAre
<1>3. /\ d.edges = {Edge(NodeOf(a[1]), NodeOf(a[2]), a[3]) : a \in Arrows}
      /\ \A a \in Arrows : a[1] \in Everything /\ a[2] \in Everything /\ a = <<a[1], a[2], a[3]>>
  <2>1. \A x \in Everything : NodeOf(x) \in DOMAIN Nodes
    BY <1>2
  <2>2. PICK known : known = DOMAIN Nodes
    OBVIOUS
  <2> QED BY <1>1, <2>1, <2>2, EdgesAreArrows
<1>4. {shows(n) : n \in DOMAIN Nodes} = Everything
  <2> HIDE DEF shows
  <2> QED BY <1>2
<1>5. /\ \A m, n \in DOMAIN Nodes : shows(m) = shows(n) => m = n
      /\ \A n \in DOMAIN Nodes : Nodes[n].scope = ScopeOf(shows(n))
  <2> HIDE DEF shows
  <2> QED BY <1>2
<1>6. {<<shows(e.from), shows(e.to), e.style>> : e \in d.edges} = Arrows
  <2> DEFINE Drawn(a) == Edge(NodeOf(a[1]), NodeOf(a[2]), a[3])
             Shown(e) == <<shows(e.from), shows(e.to), e.style>>
  <2>1. ASSUME NEW a \in Arrows PROVE Shown(Drawn(a)) = a
    <3>1. /\ Drawn(a).from = NodeOf(a[1]) /\ Drawn(a).to = NodeOf(a[2]) /\ Drawn(a).style = a[3]
      BY EdgeIs
    <3> HIDE DEF shows, Drawn
    <3>2. shows(NodeOf(a[1])) = a[1] /\ shows(NodeOf(a[2])) = a[2]
      BY <1>2, <1>3
    <3> QED BY <1>3, <3>1, <3>2
  <2>2. d.edges = {Drawn(a) : a \in Arrows}
    BY <1>3
  <2> HIDE DEF Drawn, Shown
  <2>3. {Shown(e) : e \in d.edges} = Arrows
    BY <2>1, <2>2
  <2> QED BY <2>3 DEF Shown
<1> QED BY <1>1, <1>4, <1>5, <1>6 DEF Shows

\* A document stays true of a wiring that does not change.
LEMMA SameGraph ==
  ASSUME UNCHANGED <<chain, accepted, providers, invokers, registered, members>>,
         NEW CONSTANT d, Shows(d)
  PROVE  Shows(d)'
<1>1. \A id, from : Visible(id, from)' = Visible(id, from)
  BY SameSight
<1>2. \A id, from : Bound(id, from)' = Bound(id, from)
  BY <1>1 DEF Bound
<1>3. \A deps, from : Wants(deps, from)' = Wants(deps, from)
  BY <1>2 DEF Wants
<1>4. UNCHANGED <<Everything, Arrows>>
  BY <1>3 DEF Everything, Arrows
<1>5. \A x : ScopeOf(x)' = ScopeOf(x)
  BY DEF ScopeOf
<1> QED BY <1>4, <1>5 DEF Shows

LEMMA DotInitHolds == DotInit => DInv
<1> SUFFICES ASSUME DotInit PROVE DInv
  OBVIOUS
<1>1. RInv /\ Unbuilt /\ LInv /\ status = "open"
  BY InitHolds DEF DotInit, LayersInit, RegistryInit, LInv, VerdictIsJust, LayersCoverNeeds
<1>2. providers = << >> /\ accepted = Seeds /\ valueNodes = << >> /\ dot = NoDocument
  BY DEF DotInit, LayersInit, RegistryInit, Seeds
<1>3. Supplied = Seeds
  BY <1>2 DEF Supplied
<1>4. DOMAIN valueNodes = {} /\ Range(valueNodes) = {} /\ valueNodes \in Seq({})
  BY <1>2 DEF Range
<1>5. NotesInv
  BY <1>3, <1>4 DEF NotesInv, IsInjective
<1>6. OrdinalsInv
  BY <1>2 DEF OrdinalsInv
<1> QED BY <1>1, <1>2, <1>5, <1>6 DEF DInv, GraphShowsWiring

\* Options and validation, before anything is rendered.
LEMMA PrepareKeeps ==
  ASSUME DInv, Prepare PROVE DInv'
<1>1. LayersNext /\ NoteValues /\ UNCHANGED dot
  BY DEF Prepare
<1>2. status = "open"
  BY <1>1, ApplyIsOpen DEF LayersNext, Validate
<1>3. dot = NoDocument
  BY <1>2 DEF DInv
<1>4. LInv'
  BY <1>1, LayersStepKeeps DEF DInv
<1>5. Unbuilt'
  <2>1. CASE Apply
    BY <2>1, ApplyKeeps DEF DInv, LInv
  <2>2. CASE Validate
    BY <2>2 DEF Validate, container, values, indices, DInv, Unbuilt
  <2> QED BY <1>1, <2>1, <2>2 DEF LayersNext
<1>6. NotesInv'
  BY <1>1, <1>4, <1>5, NotesKeep DEF DInv, LInv
<1>7. OrdinalsInv'
  BY <1>1, OrdinalsKeep DEF DInv, LInv
<1> QED BY <1>1, <1>3, <1>4, <1>5, <1>6, <1>7 DEF DInv, GraphShowsWiring, NoDocument

\* Nothing of the wiring changes.
LEMMA WiringKeeps ==
  ASSUME DInv, UNCHANGED <<layersVars, valueNodes>>
  PROVE  LInv' /\ Unbuilt' /\ NotesInv' /\ OrdinalsInv' /\ status' = status
<1>1. LInv' /\ status' = status
  BY LayersStepKeeps DEF DInv, layersVars, registryVars
<1>2. UNCHANGED <<valuesPublic, valuesPrivate, providers, accepted>>
  BY DEF layersVars, registryVars, container, values, indices
<1>3. Unbuilt' /\ OrdinalsInv'
  BY <1>2 DEF DInv, Unbuilt, OrdinalsInv
<1>4. NotesInv'
  BY <1>2 DEF DInv, NotesInv, Supplied, Seeds, IsInjective, Range
<1> QED BY <1>1, <1>3, <1>4

LEMMA RenderKeeps ==
  ASSUME DInv, Render PROVE DInv'
<1>1. /\ status = "validated" /\ UNCHANGED <<layersVars, valueNodes>>
      /\ dot' = [nodes |-> Nodes, edges |-> EdgesAmong(DOMAIN Nodes)]
  BY DEF Render
<1>2. LInv' /\ Unbuilt' /\ NotesInv' /\ OrdinalsInv' /\ status' = "validated"
  BY <1>1, WiringKeeps
<1>3. GraphShowsWiring'
  <2> SUFFICES ASSUME UniqueNames PROVE Shows(dot)'
    BY DEF GraphShowsWiring, Shows, UniqueNames
  <2>1. PICK d : d = [nodes |-> Nodes, edges |-> EdgesAmong(DOMAIN Nodes)]
    OBVIOUS
  <2>2. Shows(d)
    BY <1>1, <2>1, RenderShows DEF DInv, LInv
  <2>3. UNCHANGED <<chain, accepted, providers, invokers, registered, members>>
    BY <1>1 DEF layersVars, registryVars, container, placement, indices, groups
  <2>4. Shows(d)'
    BY <2>2, <2>3, SameGraph
  <2> QED BY <1>1, <2>1, <2>4 DEF Shows
<1> QED BY <1>2, <1>3 DEF DInv

LEMMA DotStepKeeps == DInv /\ [DotNext]_dotVars => DInv'
<1> SUFFICES ASSUME DInv, [DotNext]_dotVars PROVE DInv'
  OBVIOUS
<1>1. CASE UNCHANGED dotVars
  <2>1. UNCHANGED <<layersVars, valueNodes>> /\ UNCHANGED dot
    BY <1>1 DEF dotVars
  <2>2. UNCHANGED <<chain, accepted, providers, invokers, registered, members, dot>>
    BY <2>1 DEF layersVars, registryVars, container, placement, indices, groups
  <2>3. GraphShowsWiring'
    <3> SUFFICES ASSUME UniqueNames, dot # NoDocument PROVE Shows(dot)'
      BY <2>1 DEF GraphShowsWiring, Shows, UniqueNames
    <3>1. PICK d : d = dot
      OBVIOUS
    <3>2. Shows(d)
      BY <3>1 DEF DInv, GraphShowsWiring, Shows
    <3>3. Shows(d)'
      BY <2>2, <3>2, SameGraph
    <3> QED BY <2>1, <3>1, <3>3 DEF Shows
  <2> QED BY <2>1, <2>3, WiringKeeps DEF DInv
<1> QED BY <1>1, PrepareKeeps, RenderKeeps DEF DotNext

THEOREM DotInvariant == DotSpec => []DInv
  BY DotInitHolds, DotStepKeeps, PTL DEF DotSpec

\* The document that render_dot makes of an accepted wiring shows it, wherever names are
\* unique: everything but the built-ins has one node, in the cluster of its module, and
\* the arrows are the bindings that the build injects.
THEOREM TheGraphIsTheWiring == DotSpec => []GraphShowsWiring
<1>1. DInv => GraphShowsWiring
  BY DEF DInv
<1> QED BY <1>1, DotInvariant, PTL

=============================================================================
