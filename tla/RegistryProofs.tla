---------------------------- MODULE RegistryProofs ----------------------------
(***************************************************************************)
(* The container's indices hold exactly the bindings that were accepted,   *)
(* and the lookups find in them what the rule of visibility says, for any  *)
(* types, options and nesting of modules.                                  *)
(***************************************************************************)
EXTENDS Registry, SequenceTheorems, FiniteSetTheorems, WellFoundedInduction, TLAPS

(***************************************************************************)
(* The inductive invariant.                                                *)
(***************************************************************************)

\* The keys that offer a type: all but those of group members.
Bindings == [type : Produced, scope : Scopes, private : BOOLEAN, ordinal : {0}]

\* The bindings that a lookup may find: the public ones of an id, and the private ones
\* of an id in a scope.
PublicFor(id)     == {k \in accepted : ~k.private /\ id \in Offers(k)}
PrivateFor(id, s) == {k \in accepted : Binds(k, id, s)}

\* Every scope starts its chain itself and, but for the root, goes on with its parent.
PlaceInv ==
  /\ chain \in Seq(Seq(Scopes)) /\ Len(chain) \in Scopes
  /\ current \in 1 .. Len(chain)
  /\ \A s \in 1 .. Len(chain) :
       /\ Len(chain[s]) >= 1
       /\ s # Root => Len(chain[s]) >= 2
       /\ \A n \in 1 .. Len(chain[s]) : chain[s][n] \in 1 .. Len(chain)

\* What is bound or provided lies in scopes that exist, and is a binding or a member.
KeysInv ==
  /\ accepted \subseteq Bindings
  /\ \A k \in accepted : k.scope \in 1 .. Len(chain) /\ (k.private => k.scope \in privateScopes)
  /\ \A k \in DOMAIN providers : k.scope \in 1 .. Len(chain) /\ (k.ordinal = 0 => k \in accepted)
  /\ \A n \in DOMAIN invokers : invokers[n].scope \in 1 .. Len(chain)

\* The values under an id are those of bindings of that id and place.
ValuesInv ==
  /\ \A id \in Ids : valuesPublic[id] = None \/ valuesPublic[id] \in PublicFor(id)
  /\ \A id \in Ids, s \in Scopes :
       valuesPrivate[<<id, s>>] = None \/ valuesPrivate[<<id, s>>] \in PrivateFor(id, s)

\* The value of a binding is there, under all that it offers.
Held(k) ==
  \A id \in Offers(k) :
    /\ k.private => valuesPrivate[<<id, k.scope>>] # None
    /\ ~k.private => valuesPublic[id] # None

\* What was supplied is there.
StockInv == \A k \in accepted : k \notin DOMAIN providers => Held(k)

\* The indices of constructors lead to the bindings of that id and place, and to all.
IndexInv ==
  /\ \A id \in Ids :
       publicIndex[id] = None \/ publicIndex[id] \in PublicFor(id) \cap DOMAIN providers
  /\ \A id \in Ids, s \in Scopes :
       \/ privateAlias[<<id, s>>] = None
       \/ privateAlias[<<id, s>>] \in PrivateFor(id, s) \cap DOMAIN providers
  /\ \A k \in accepted \cap DOMAIN providers :
       /\ k.private => privateAlias[<<Arc[k.type], k.scope>>] # None
       /\ ~k.private => \A id \in Offers(k) : publicIndex[id] # None

\* A registered group has its aggregate, and the members listed are those provided.
GroupInv ==
  /\ \A e \in registered : VirtualKey(e) \in DOMAIN providers
  /\ \A k \in DOMAIN providers : k.ordinal > 0 =>
       /\ k.private = FALSE /\ k.ordinal <= nextMember
       /\ k.type \in registered /\ k \in Range(members[k.type])
  /\ \A e \in Elements : \A k \in Range(members[e]) :
       k \in DOMAIN providers /\ k.ordinal > 0 /\ k.type = e

\* Every constructor is in the order of registration once.
OrderInv ==
  /\ IsInjective(order)
  /\ Range(order) = DOMAIN providers

RInv == /\ RegistryTypeOK /\ PlaceInv /\ KeysInv /\ ValuesInv /\ StockInv /\ IndexInv
        /\ GroupInv /\ OrderInv /\ OneBindingPerPlace

\* Until the build runs, no constructor has left a value.
Unbuilt ==
  /\ \A id \in Ids : valuesPublic[id] \notin DOMAIN providers
  /\ \A id \in Ids, s \in Scopes : valuesPrivate[<<id, s>>] \notin DOMAIN providers

-----------------------------------------------------------------------------
(* Numbers. *)

\* A set of numbers up to n has a least one: the smallest of the intervals to them.
LEMMA LeastUpTo ==
  ASSUME NEW n \in Nat, NEW T \in SUBSET (0 .. n), T # {}
  PROVE  \E m \in T : \A k \in T : m <= k
<1> DEFINE Up == {0 .. k : k \in T}
           Less == StrictSubsetOrdering(0 .. n)
<1>1. IsWellFoundedOn(Less, SUBSET (0 .. n))
  <2>1. IsFiniteSet(0 .. n)
    BY FS_Interval
  <2>2. FiniteSubsetsOf(0 .. n) = SUBSET (0 .. n)
    BY <2>1, FS_FiniteSubsetsOfFinite
  <2>3. IsWellFoundedOn(Less, FiniteSubsetsOf(0 .. n))
    BY FS_StrictSubsetOrderingWellFounded
  <2> QED BY <2>2, <2>3
<1>2. Up \subseteq SUBSET (0 .. n) /\ Up # {}
  <2>1. ASSUME NEW k \in T PROVE 0 .. k \subseteq 0 .. n
    OBVIOUS
  <2> QED BY <2>1
<1>3. \E x \in Up : \A y \in Up : ~(<<y, x>> \in Less)
  <2> HIDE DEF Up, Less
  <2> QED BY <1>1, <1>2, WFMin
<1>4. PICK m \in T : \A k \in T : ~(<<0 .. k, 0 .. m>> \in Less)
  BY <1>3
<1>5. ASSUME NEW k \in T, k < m PROVE FALSE
  <2>1. 0 .. k \subseteq 0 .. m /\ m \in 0 .. m /\ m \notin 0 .. k
    BY <1>5
  <2>2. 0 .. k \in SUBSET (0 .. n) /\ 0 .. m \in SUBSET (0 .. n)
    BY <1>2
  <2>3. <<0 .. k, 0 .. m>> \in Less
    BY <2>1, <2>2 DEF StrictSubsetOrdering
  <2> QED BY <1>4, <2>3
<1> QED BY <1>5

\* Every set of natural numbers has a least one.
LEMMA Least ==
  ASSUME NEW T \in SUBSET Nat, T # {}
  PROVE  \E m \in T : \A k \in T : m <= k
<1>1. PICK n \in T : TRUE
  OBVIOUS
<1> DEFINE U == {k \in T : k <= n}
<1>2. n \in Nat /\ U \subseteq 0 .. n /\ n \in U
  <2>1. \A k \in T : k \in Nat
    OBVIOUS
  <2>2. n \in Nat /\ \A k \in U : k \in Nat /\ k <= n
    BY <2>1
  <2>3. n \in U
    BY <2>2
  <2> HIDE DEF U
  <2> QED BY <2>2, <2>3
<1>3. PICK m \in U : \A k \in U : m <= k
  <2> HIDE DEF U
  <2>1. U \in SUBSET (0 .. n) /\ U # {}
    BY <1>2
  <2> QED BY <1>2, <2>1, LeastUpTo
<1> QED BY <1>2, <1>3

-----------------------------------------------------------------------------
(* Walking up the chain. *)

\* Nearest finds the first scope of the chain that is in S, or none if none is.
LEMMA NearestIs ==
  ASSUME PlaceInv, NEW from \in 1 .. Len(chain), NEW S
  PROVE  \/ /\ Nearest(from, S) = NoScope
            /\ \A i \in DOMAIN chain[from] : chain[from][i] \notin S
         \/ \E i \in DOMAIN chain[from] :
              /\ Nearest(from, S) = chain[from][i] /\ chain[from][i] \in S
              /\ Nearest(from, S) # NoScope
              /\ \A j \in DOMAIN chain[from] : chain[from][j] \in S => i <= j
<1> DEFINE at == {i \in DOMAIN chain[from] : chain[from][i] \in S}
<1>1. chain[from] \in Seq(Scopes) /\ DOMAIN chain[from] = 1 .. Len(chain[from])
  BY DEF PlaceInv
<1>2. CASE at = {}
  BY <1>2 DEF Nearest
<1>3. CASE at # {}
  <2>1. at \in SUBSET Nat
    BY <1>1
  <2> DEFINE n == CHOOSE i \in at : \A j \in at : i <= j
  <2>2. n \in at /\ \A j \in at : n <= j
    <3> HIDE DEF at
    <3> QED BY <1>3, <2>1, Least
  <2>3. Nearest(from, S) = chain[from][n]
    BY <1>3 DEF Nearest
  <2>4. chain[from][n] # NoScope
    <3>1. n \in 1 .. Len(chain[from])
      BY <1>1, <2>2
    <3>2. chain[from][n] \in 1 .. Len(chain)
      <4> HIDE DEF n
      <4> QED BY <3>1 DEF PlaceInv
    <3> HIDE DEF n
    <3> QED BY <3>2 DEF NoScope
  <2> HIDE DEF n
  <2> QED BY <2>2, <2>3, <2>4
<1> QED BY <1>2, <1>3

\* The nearest scope is a scope, and in the set.
LEMMA NearestIn ==
  ASSUME PlaceInv, NEW from \in 1 .. Len(chain), NEW S, Nearest(from, S) # NoScope
  PROVE  Nearest(from, S) \in S /\ Nearest(from, S) \in 1 .. Len(chain)
<1>1. PICK i \in DOMAIN chain[from] : Nearest(from, S) = chain[from][i] /\ chain[from][i] \in S
  BY NearestIs
<1>2. chain[from] \in Seq(Scopes)
  BY DEF PlaceInv
<1>3. i \in 1 .. Len(chain[from])
  BY <1>2
<1>4. chain[from][i] \in 1 .. Len(chain)
  BY <1>3 DEF PlaceInv
<1> QED BY <1>1, <1>4

\* Of a smaller set, the nearest is the same if it is still in, and there is none if there
\* was none.
LEMMA NearestWithin ==
  ASSUME PlaceInv, NEW from \in 1 .. Len(chain), NEW S, NEW T \in SUBSET S
  PROVE  /\ Nearest(from, S) = NoScope => Nearest(from, T) = NoScope
         /\ Nearest(from, S) \in T => Nearest(from, T) = Nearest(from, S)
<1>1. chain[from] \in Seq(Scopes) /\ DOMAIN chain[from] = 1 .. Len(chain[from])
  BY DEF PlaceInv
<1>2. CASE Nearest(from, S) = NoScope
  <2>1. \A i \in DOMAIN chain[from] : chain[from][i] \notin S
    BY <1>2, NearestIs
  <2>2. NoScope \notin T \/ Nearest(from, T) = NoScope
    BY <2>1, NearestIs
  <2>3. Nearest(from, T) = NoScope
    BY <2>1, NearestIs
  <2> QED BY <1>2, <2>3
<1>3. CASE Nearest(from, S) # NoScope /\ Nearest(from, S) \in T
  <2>1. PICK i \in DOMAIN chain[from] :
          /\ Nearest(from, S) = chain[from][i]
          /\ \A j \in DOMAIN chain[from] : chain[from][j] \in S => i <= j
    BY <1>3, NearestIs
  <2>2. PICK m \in DOMAIN chain[from] :
          /\ Nearest(from, T) = chain[from][m] /\ chain[from][m] \in T
          /\ \A j \in DOMAIN chain[from] : chain[from][j] \in T => m <= j
    BY <1>3, <2>1, NearestIs
  <2>3. i <= m /\ m <= i
    BY <1>3, <2>1, <2>2
  <2>4. i = m
    BY <1>1, <2>3
  <2> QED BY <1>3, <2>1, <2>2, <2>4
<1> QED BY <1>2, <1>3

-----------------------------------------------------------------------------
(* Bindings, and what the lookups make of them. *)

\* A binding offers its type and the Arc of it, is a key, and made of its three parts.
LEMMA BindingIs ==
  ASSUME NEW k \in Bindings
  PROVE  /\ k.type \in Produced /\ k.scope \in Scopes /\ k.private \in BOOLEAN /\ k.ordinal = 0
         /\ Offers(k) = {k.type, Arc[k.type]} /\ Offers(k) \subseteq Ids /\ k.type # Arc[k.type]
         /\ k \in Keys /\ k # None
         /\ k = Singleton(k.type, k.scope, k.private)
<1>1. k.type \in Produced /\ k.scope \in Scopes /\ k.private \in BOOLEAN /\ k.ordinal = 0
  BY DEF Bindings
<1>2. k.type \in Ids /\ Arc[k.type] \in Ids /\ k.type # Arc[k.type]
  BY <1>1, TypesAssumption DEF Ids
<1>3. Offers(k) = {k.type, Arc[k.type]}
  BY <1>1 DEF Offers
<1>4. k \in Keys /\ k # None
  BY NoneAssumption DEF Keys, Bindings
<1>5. k = Singleton(k.type, k.scope, k.private)
  BY DEF Bindings, Singleton, Key
<1> QED BY <1>1, <1>2, <1>3, <1>4, <1>5

\* Keys without ordinal are told apart by their three parts.
LEMMA SingletonParts ==
  ASSUME NEW t, NEW scope, NEW private
  PROVE  /\ Singleton(t, scope, private).type = t
         /\ Singleton(t, scope, private).scope = scope
         /\ Singleton(t, scope, private).private = private
         /\ Singleton(t, scope, private).ordinal = 0
  BY DEF Singleton, Key

\* The key of a private constructor, likewise.
LEMMA PrivateParts ==
  ASSUME NEW t, NEW scope
  PROVE  /\ Singleton(t, scope, TRUE).type = t
         /\ Singleton(t, scope, TRUE).scope = scope
         /\ Singleton(t, scope, TRUE).private = TRUE
         /\ Singleton(t, scope, TRUE).ordinal = 0
  BY DEF Singleton, Key

\* Singletons of produced types are bindings.
LEMMA SingletonIsBinding ==
  ASSUME NEW t \in Produced, NEW scope \in Scopes, NEW private \in BOOLEAN
  PROVE  Singleton(t, scope, private) \in Bindings
  BY DEF Singleton, Key, Bindings

\* So is the aggregate of a group, and no two groups share it.
LEMMA VirtualIsBinding ==
  ASSUME NEW e \in Elements
  PROVE  /\ VirtualKey(e) \in Bindings /\ GroupOf[e] \in Produced
         /\ VirtualKey(e).type = GroupOf[e] /\ VirtualKey(e).private = FALSE
         /\ VirtualKey(e).scope = Root /\ VirtualKey(e).ordinal = 0
         /\ Offers(VirtualKey(e)) = {GroupOf[e], Arc[GroupOf[e]]}
         /\ \A d \in Elements : VirtualKey(d) = VirtualKey(e) => d = e
<1>1. GroupOf[e] \in Produced /\ Root \in Scopes /\ FALSE \in BOOLEAN
  BY BoundsAssumption DEF Produced, Groups, Root, Scopes
<1>2. VirtualKey(e) \in Bindings
  BY <1>1, SingletonIsBinding DEF VirtualKey
<1>3. \A d \in Elements : VirtualKey(d).type = GroupOf[d]
  BY DEF VirtualKey, Singleton, Key
<1>4. VirtualKey(e).private = FALSE /\ VirtualKey(e).scope = Root /\ VirtualKey(e).ordinal = 0
  BY DEF VirtualKey, Singleton, Key
<1>5. \A d \in Elements : VirtualKey(d) = VirtualKey(e) => d = e
  BY <1>3, TypesAssumption
<1> QED BY <1>1, <1>2, <1>3, <1>4, <1>5, BindingIs

\* None is not the key of a constructor.
LEMMA NoneIsNoProvider ==
  ASSUME RegistryTypeOK PROVE None \notin DOMAIN providers
  BY NoneAssumption DEF RegistryTypeOK

\* In each place an id has one binding.
LEMMA OneBinding ==
  ASSUME KeysInv, OneBindingPerPlace, NEW id
  PROVE  /\ \A k, l \in PublicFor(id) : k = l
         /\ \A s : \A k, l \in PrivateFor(id, s) : k = l
<1>1. \A k \in accepted : k.private \in BOOLEAN
  BY BindingIs DEF KeysInv
<1>2. ASSUME NEW k \in PublicFor(id), NEW l \in PublicFor(id) PROVE k = l
  <2>1. k.private = FALSE /\ l.private = FALSE /\ id \in Offers(k) \cap Offers(l)
    BY <1>1 DEF PublicFor
  <2>2. k \in accepted /\ l \in accepted
    BY DEF PublicFor
  <2> QED BY <2>1, <2>2 DEF OneBindingPerPlace
<1>3. ASSUME NEW s, NEW k \in PrivateFor(id, s), NEW l \in PrivateFor(id, s) PROVE k = l
  <2>1. k.private = TRUE /\ l.private = TRUE /\ k.scope = l.scope
    BY <1>1 DEF PrivateFor, Binds
  <2>2. k \in accepted /\ l \in accepted /\ id \in Offers(k) \cap Offers(l)
    BY DEF PrivateFor, Binds
  <2> QED BY <2>1, <2>2 DEF OneBindingPerPlace
<1> QED BY <1>2, <1>3

\* A scope has a private constructor for id exactly if a private binding of id there has
\* a constructor, under its type or as an Arc of it.
LEMMA PrivateProviders ==
  ASSUME RInv, NEW id \in Ids, NEW s \in Scopes
  PROVE  HasPrivateProvider(id, s) <=> PrivateFor(id, s) \cap DOMAIN providers # {}
<1> DEFINE k == Singleton(id, s, TRUE)
<1>1. ASSUME k \in DOMAIN providers PROVE k \in PrivateFor(id, s)
  <2>1. k \in accepted /\ k \in Bindings
    BY <1>1, PrivateParts DEF RInv, KeysInv
  <2>2. k.type = id /\ k.scope = s /\ k.private = TRUE
    BY PrivateParts
  <2> HIDE DEF k
  <2>3. id \in Offers(k)
    BY <2>1, <2>2, BindingIs
  <2> QED BY <2>1, <2>2, <2>3 DEF PrivateFor, Binds
<1>2. ASSUME privateAlias[<<id, s>>] # None
      PROVE  PrivateFor(id, s) \cap DOMAIN providers # {}
  BY <1>2 DEF RInv, IndexInv
<1>3. ASSUME NEW l \in PrivateFor(id, s) \cap DOMAIN providers
      PROVE  k \in DOMAIN providers \/ privateAlias[<<id, s>>] # None
  <2>1. l \in accepted \cap DOMAIN providers /\ l \in Bindings /\ l.scope = s /\ id \in Offers(l)
    BY <1>3 DEF PrivateFor, Binds, RInv, KeysInv
  <2>2. l.private = TRUE
    BY <1>3, <2>1, BindingIs DEF PrivateFor, Binds
  <2>3. l = Singleton(l.type, s, TRUE) /\ Offers(l) = {l.type, Arc[l.type]}
    BY <2>1, <2>2, BindingIs
  <2>4. CASE id = l.type
    BY <2>1, <2>3, <2>4
  <2>5. CASE id = Arc[l.type]
    BY <2>1, <2>2, <2>5 DEF RInv, IndexInv
  <2> QED BY <2>1, <2>3, <2>4, <2>5
<1> QED BY <1>1, <1>2, <1>3 DEF HasPrivateProvider

\* The scopes with a private binding of id.
BindingScopes(id) == {p \in Scopes : \E k \in accepted : Binds(k, id, p)}

\* The scopes at which the lookups stop.
ValueScopes(id)    == {p \in privateScopes : valuesPrivate[<<id, p>>] # None}
ProviderScopes(id) == {p \in privateScopes : HasPrivateProvider(id, p)}
StopScopes(id)     == {p \in privateScopes :
                         valuesPrivate[<<id, p>>] # None \/ HasPrivateProvider(id, p)}

\* They are those with a binding: a scope that is passed has none.
LEMMA StopsAtBindings ==
  ASSUME RInv, NEW id \in Ids
  PROVE  /\ StopScopes(id) = BindingScopes(id)
         /\ ValueScopes(id) \subseteq BindingScopes(id)
         /\ ProviderScopes(id) \subseteq BindingScopes(id)
         /\ \A p \in Scopes :
              p \in ProviderScopes(id) <=> PrivateFor(id, p) \cap DOMAIN providers # {}
<1>1. privateScopes \subseteq Scopes
  BY BoundsAssumption DEF RInv, RegistryTypeOK, PlaceInv, Scopes
<1>2. ASSUME NEW p \in Scopes, valuesPrivate[<<id, p>>] # None
      PROVE  p \in BindingScopes(id)
  BY <1>2 DEF RInv, ValuesInv, PrivateFor, BindingScopes
<1>3. ASSUME NEW p \in Scopes, PrivateFor(id, p) \cap DOMAIN providers # {}
      PROVE  p \in BindingScopes(id)
  BY <1>3 DEF PrivateFor, BindingScopes
<1>4. ASSUME NEW p \in BindingScopes(id)
      PROVE  /\ p \in privateScopes /\ p \in Scopes
             /\ \/ valuesPrivate[<<id, p>>] # None
                \/ PrivateFor(id, p) \cap DOMAIN providers # {}
  <2>1. PICK k \in accepted : Binds(k, id, p)
    BY DEF BindingScopes
  <2>2. k.private /\ k.scope = p /\ id \in Offers(k) /\ p \in privateScopes
    BY <2>1 DEF Binds, RInv, KeysInv
  <2>3. CASE k \in DOMAIN providers
    BY <2>1, <2>2, <2>3, <1>1 DEF PrivateFor
  <2>4. CASE k \notin DOMAIN providers
    BY <2>2, <2>4, <1>1 DEF RInv, StockInv, Held
  <2> QED BY <2>3, <2>4
<1>5. \A p \in Scopes : PrivateFor(id, p) \cap DOMAIN providers # {} => p \in privateScopes
  BY <1>3, <1>4
<1>6. \A p \in Scopes :
        p \in ProviderScopes(id) <=> PrivateFor(id, p) \cap DOMAIN providers # {}
  BY <1>5, PrivateProviders DEF ProviderScopes
<1>7. StopScopes(id) = BindingScopes(id)
  <2>1. StopScopes(id) \subseteq BindingScopes(id)
    BY <1>1, <1>2, <1>3, PrivateProviders DEF StopScopes
  <2>2. BindingScopes(id) \subseteq StopScopes(id)
    BY <1>4, PrivateProviders DEF StopScopes
  <2> QED BY <2>1, <2>2
<1>8. ValueScopes(id) \subseteq BindingScopes(id) /\ ProviderScopes(id) \subseteq BindingScopes(id)
  BY <1>7 DEF ValueScopes, ProviderScopes, StopScopes
<1> QED BY <1>6, <1>7, <1>8

\* What the lookups find is what is visible: a value only of the visible binding, and that
\* one if it has one; the constructor of the visible binding, if it has one.
LEMMA LookupsFind ==
  ASSUME RInv, NEW id \in Ids, NEW from \in 1 .. Len(chain), NEW v, v = Visible(id, from)
  PROVE  /\ v # None => v \in accepted /\ id \in Offers(v)
         /\ LookupValue(id, from) \in {None, v}
         /\ v # None /\ Held(v) => LookupValue(id, from) = v
         /\ v \in DOMAIN providers => ResolveProvider(id, from) = v
         /\ v = None => ResolveProvider(id, from) = None
<1> DEFINE s == Nearest(from, BindingScopes(id))
           t == Nearest(from, ProviderScopes(id))
<1> USE DEF RInv
<1>1. /\ StopScopes(id) = BindingScopes(id) /\ ProviderScopes(id) \subseteq BindingScopes(id)
      /\ \A p \in Scopes :
           p \in ProviderScopes(id) <=> PrivateFor(id, p) \cap DOMAIN providers # {}
  BY StopsAtBindings
<1>2. LookupValue(id, from) = IF s = NoScope THEN valuesPublic[id] ELSE valuesPrivate[<<id, s>>]
  BY <1>1 DEF LookupValue, StopScopes
<1>3. v = LET in == IF s # NoScope THEN PrivateFor(id, s) ELSE PublicFor(id)
          IN IF in = {} THEN None ELSE CHOOSE k \in in : TRUE
  BY DEF Visible, BindingScopes, PrivateFor, PublicFor
<1>4. ASSUME s # NoScope PROVE s \in BindingScopes(id) /\ s \in Scopes
  <2>1. s \in BindingScopes(id)
    BY <1>4, NearestIn
  <2> QED BY <2>1 DEF BindingScopes
<1>5. /\ s = NoScope => t = NoScope
      /\ s \in ProviderScopes(id) => t = s
  BY <1>1, NearestWithin
<1>6. None \notin DOMAIN providers
  BY NoneIsNoProvider
<1>7. CASE s # NoScope
  <2>1. PrivateFor(id, s) # {}
    BY <1>4, <1>7 DEF BindingScopes, PrivateFor
  <2>2. v \in PrivateFor(id, s)
    BY <1>3, <1>7, <2>1
  <2>3. v \in accepted /\ id \in Offers(v) /\ v # None /\ v.private /\ v.scope = s
    BY <2>2, BindingIs DEF PrivateFor, Binds, KeysInv
  <2>4. \A k \in PrivateFor(id, s) : k = v
    BY <2>2, OneBinding
  <2>5. LookupValue(id, from) = valuesPrivate[<<id, s>>]
    BY <1>2, <1>7
  <2>6. LookupValue(id, from) \in {None, v}
    BY <1>4, <1>7, <2>4, <2>5 DEF ValuesInv
  <2>7. Held(v) => LookupValue(id, from) = v
    BY <2>3, <2>5, <2>6 DEF Held
  <2>8. ASSUME v \in DOMAIN providers PROVE ResolveProvider(id, from) = v
    <3>1. t = s
      BY <1>1, <1>4, <1>5, <1>7, <2>2, <2>8
    <3>2. HasPrivateProvider(id, s)
      BY <1>4, <1>7, <2>2, <2>8, PrivateProviders
    <3> DEFINE p == Singleton(id, s, TRUE)
    <3>3. CASE p \in DOMAIN providers
      <4>1. p \in accepted /\ p.type = id /\ p.scope = s /\ p.private = TRUE
        BY <3>3, PrivateParts DEF KeysInv
      <4>2. p \in PrivateFor(id, s)
        <5> HIDE DEF p
        <5> QED BY <4>1, BindingIs DEF KeysInv, PrivateFor, Binds
      <4>3. p = v
        BY <2>4, <4>2
      <4> QED BY <1>7, <2>8, <3>1, <4>3 DEF ResolveProvider, ProviderScopes
    <3>4. CASE p \notin DOMAIN providers
      <4>1. privateAlias[<<id, s>>] = v
        BY <1>4, <1>7, <2>4, <3>2, <3>4 DEF HasPrivateProvider, IndexInv
      <4> QED BY <1>7, <2>8, <3>1, <3>4, <4>1 DEF ResolveProvider, ProviderScopes
    <3> QED BY <3>3, <3>4
  <2> QED BY <2>3, <2>6, <2>7, <2>8
<1>8. CASE s = NoScope
  <2>1. v = IF PublicFor(id) = {} THEN None ELSE CHOOSE k \in PublicFor(id) : TRUE
    BY <1>3, <1>8
  <2>2. LookupValue(id, from) = valuesPublic[id] /\ t = NoScope
    BY <1>2, <1>5, <1>8
  <2>3. ASSUME NEW e \in ElementOf(id)
        PROVE  VirtualKey(e) \in PublicFor(id) \cap DOMAIN providers
    <3>1. e \in registered /\ e \in Elements /\ id \in {GroupOf[e], Arc[GroupOf[e]]}
      BY DEF ElementOf, RegistryTypeOK
    <3>2. VirtualKey(e) \in DOMAIN providers /\ VirtualKey(e) \in accepted
      BY <3>1, VirtualIsBinding DEF GroupInv, KeysInv
    <3> QED BY <3>1, <3>2, VirtualIsBinding DEF PublicFor
  <2>4. DEFINE k == IF ElementOf(id) # {} THEN VirtualKey(CHOOSE e \in ElementOf(id) : TRUE)
                    ELSE publicIndex[id]
  <2>5. ResolveProvider(id, from) = IF k \in DOMAIN providers THEN k ELSE None
    BY <2>2 DEF ResolveProvider, ProviderScopes
  <2>6. k \in (PublicFor(id) \cap DOMAIN providers) \cup {None}
    BY <2>3 DEF IndexInv
  <2>7. CASE PublicFor(id) = {}
    <3>1. v = None /\ valuesPublic[id] = None
      BY <2>1, <2>7 DEF ValuesInv
    <3>2. k = None
      BY <2>6, <2>7
    <3> HIDE DEF k
    <3> QED BY <1>6, <2>2, <2>5, <3>1, <3>2
  <2>8. CASE PublicFor(id) # {}
    <3>1. v \in PublicFor(id)
      BY <2>1, <2>8
    <3>2. v \in accepted /\ id \in Offers(v) /\ v # None /\ ~v.private
      BY <3>1, BindingIs DEF PublicFor, KeysInv
    <3>3. \A l \in PublicFor(id) : l = v
      BY <3>1, OneBinding
    <3>4. LookupValue(id, from) \in {None, v}
      BY <2>2, <3>3 DEF ValuesInv
    <3>5. Held(v) => LookupValue(id, from) = v
      BY <2>2, <3>2, <3>4 DEF Held
    <3>6. ASSUME v \in DOMAIN providers PROVE ResolveProvider(id, from) = v
      <4>1. publicIndex[id] # None
        BY <3>2, <3>6 DEF IndexInv
      <4>2. k # None
        BY <4>1, <2>3, <1>6
      <4> HIDE DEF k
      <4> QED BY <2>5, <2>6, <3>3, <4>2
    <3> QED BY <3>2, <3>4, <3>5, <3>6
  <2> QED BY <2>7, <2>8
<1> QED BY <1>7, <1>8

\* Nothing is visible exactly if there is no binding on the way up, nor a public one.
LEMMA NothingVisible ==
  ASSUME RInv, NEW id \in Ids, NEW from \in 1 .. Len(chain)
  PROVE  Visible(id, from) = None
           <=> Nearest(from, BindingScopes(id)) = NoScope /\ PublicFor(id) = {}
<1> DEFINE s == Nearest(from, BindingScopes(id))
           in == IF s # NoScope THEN PrivateFor(id, s) ELSE PublicFor(id)
<1>1. Visible(id, from) = IF in = {} THEN None ELSE CHOOSE k \in in : TRUE
  BY DEF Visible, BindingScopes, PrivateFor, PublicFor
<1>2. None \notin accepted
  BY BindingIs DEF RInv, KeysInv
<1>3. None \notin in
  BY <1>2 DEF PrivateFor, PublicFor
<1>4. s # NoScope => PrivateFor(id, s) # {}
  <2>1. ASSUME s # NoScope PROVE s \in BindingScopes(id)
    BY <2>1, NearestIn DEF RInv
  <2> QED BY <2>1 DEF BindingScopes, PrivateFor
<1>5. Visible(id, from) = None <=> in = {}
  <2> HIDE DEF in
  <2> QED BY <1>1, <1>3
<1> QED BY <1>4, <1>5

\* Before anything is built, the four lookups follow the rule.
LEMMA LookupsAgree ==
  ASSUME RInv, Unbuilt PROVE LookupsFollowVisibility
<1> SUFFICES ASSUME NEW from \in 1 .. Len(chain), NEW id \in Ids
             PROVE  LET k == Visible(id, from)
                        isConstructor == k \in DOMAIN providers
                    IN /\ CanResolve(id, from) <=> k # None
                       /\ ValueSatisfies(id, from) <=> k # None /\ ~isConstructor
                       /\ LookupValue(id, from) = IF isConstructor THEN None ELSE k
                       /\ isConstructor => ResolveProvider(id, from) = k
                       /\ k = None => ResolveProvider(id, from) = None
  <2>1. DOMAIN chain = 1 .. Len(chain)
    BY DEF RInv, PlaceInv
  <2> QED BY <2>1 DEF LookupsFollowVisibility
<1> DEFINE k == Visible(id, from)
           s == Nearest(from, StopScopes(id))
<1>1. /\ k # None => k \in accepted /\ id \in Offers(k)
      /\ LookupValue(id, from) \in {None, k}
      /\ k # None /\ Held(k) => LookupValue(id, from) = k
      /\ k \in DOMAIN providers => ResolveProvider(id, from) = k
      /\ k = None => ResolveProvider(id, from) = None
  BY LookupsFind
<1>2. None \notin DOMAIN providers
  BY NoneIsNoProvider DEF RInv
<1>3. /\ LookupValue(id, from) = IF s = NoScope THEN valuesPublic[id] ELSE valuesPrivate[<<id, s>>]
      /\ ValueSatisfies(id, from) <=> LookupValue(id, from) # None
  BY DEF LookupValue, ValueSatisfies, StopScopes
<1>4. s # NoScope => s \in Scopes /\ s \in StopScopes(id)
  <2>1. s # NoScope => s \in StopScopes(id)
    BY NearestIn DEF RInv
  <2> QED BY <2>1, StopsAtBindings DEF BindingScopes
<1>5. LookupValue(id, from) \notin DOMAIN providers
  BY <1>3, <1>4 DEF Unbuilt
<1> HIDE DEF k
<1>6. LookupValue(id, from) = IF k \in DOMAIN providers THEN None ELSE k
  <2>1. k # None /\ k \notin DOMAIN providers => Held(k)
    BY <1>1 DEF RInv, StockInv
  <2> QED BY <1>1, <1>5, <2>1
<1>7. ValueSatisfies(id, from) <=> k # None /\ k \notin DOMAIN providers
  BY <1>2, <1>3, <1>6
<1>8. CanResolve(id, from) <=> \/ Nearest(from, ValueScopes(id)) # NoScope
                               \/ valuesPublic[id] # None
                               \/ ResolveProvider(id, from) # None
  BY DEF CanResolve, ValueScopes
<1>9. CanResolve(id, from) => k # None
  <2>1. Nearest(from, ValueScopes(id)) # NoScope => k # None
    BY NearestWithin, StopsAtBindings, NothingVisible DEF RInv, k
  <2>2. valuesPublic[id] # None => k # None
    BY NothingVisible DEF RInv, ValuesInv, k
  <2> QED BY <1>1, <1>8, <2>1, <2>2
<1>10. k # None => CanResolve(id, from)
  <2>1. CASE k \in DOMAIN providers
    BY <1>1, <1>2, <1>8, <2>1
  <2>2. CASE k # None /\ k \notin DOMAIN providers /\ s = NoScope
    BY <1>3, <1>6, <1>8, <2>2
  <2>3. CASE k # None /\ k \notin DOMAIN providers /\ s # NoScope
    <3>1. s \in ValueScopes(id)
      BY <1>3, <1>4, <1>6, <2>3 DEF StopScopes, ValueScopes
    <3>2. ValueScopes(id) \subseteq StopScopes(id)
      BY DEF StopScopes, ValueScopes
    <3>3. Nearest(from, ValueScopes(id)) = s
      BY <3>1, <3>2, NearestWithin DEF RInv
    <3> QED BY <1>8, <2>3, <3>3
  <2> QED BY <2>1, <2>2, <2>3
<1> QED BY <1>1, <1>6, <1>7, <1>9, <1>10 DEF k

-----------------------------------------------------------------------------
(* What is claimed, and what is free. *)

\* ensure_absent finds a conflict exactly where a binding was accepted.
LEMMA Conflicts ==
  ASSUME RInv, NEW id \in Ids, NEW s \in Scopes
  PROVE  /\ Conflict(id, s, TRUE) <=> PrivateFor(id, s) # {}
         /\ Conflict(id, s, FALSE) <=> PublicFor(id) # {}
<1> USE DEF RInv
<1>1. Conflict(id, s, TRUE) <=> valuesPrivate[<<id, s>>] # None \/ HasPrivateProvider(id, s)
  BY DEF Conflict, HasPrivateProvider
<1>2. ASSUME NEW k \in PrivateFor(id, s), k \notin DOMAIN providers
      PROVE  valuesPrivate[<<id, s>>] # None
  BY <1>2 DEF PrivateFor, Binds, StockInv, Held
<1>3. valuesPrivate[<<id, s>>] # None => PrivateFor(id, s) # {}
  BY DEF ValuesInv
<1>4. Conflict(id, s, TRUE) <=> PrivateFor(id, s) # {}
  BY <1>1, <1>2, <1>3, PrivateProviders
<1>5. Conflict(id, s, FALSE) <=> valuesPublic[id] # None \/ publicIndex[id] # None
  BY DEF Conflict
<1>6. valuesPublic[id] # None \/ publicIndex[id] # None => PublicFor(id) # {}
  BY DEF ValuesInv, IndexInv
<1>7. ASSUME NEW k \in PublicFor(id) PROVE valuesPublic[id] # None \/ publicIndex[id] # None
  <2>1. CASE k \in DOMAIN providers
    BY <2>1 DEF PublicFor, IndexInv
  <2>2. CASE k \notin DOMAIN providers
    BY <2>2 DEF PublicFor, StockInv, Held
  <2> QED BY <2>1, <2>2
<1> QED BY <1>4, <1>5, <1>6, <1>7

\* The ids of a key may be bound in its place.
Absent(k) == \A id \in Offers(k) : ~Conflict(id, k.scope, k.private)

\* What is free there is new, and collides with no other binding of the place.
LEMMA AbsentIsNew ==
  ASSUME RInv, NEW k \in Bindings, Absent(k)
  PROVE  /\ k \notin accepted /\ k \notin DOMAIN providers
         /\ \A l \in accepted :
              l.private = k.private /\ (k.private => l.scope = k.scope)
                => Offers(k) \cap Offers(l) = {}
<1>1. k.scope \in Scopes /\ Offers(k) \subseteq Ids /\ k.type \in Offers(k) /\ k.ordinal = 0
  BY BindingIs
<1>2. ASSUME NEW l \in accepted, l.private = k.private, k.private => l.scope = k.scope
      PROVE  Offers(k) \cap Offers(l) = {}
  <2>1. CASE k.private = TRUE
    <3>1. \A id \in Offers(k) : PrivateFor(id, k.scope) = {}
      BY <1>1, <2>1, Conflicts DEF Absent
    <3> QED BY <1>2, <2>1, <3>1 DEF PrivateFor, Binds
  <2>2. CASE k.private = FALSE
    <3>1. \A id \in Offers(k) : PublicFor(id) = {}
      BY <1>1, <2>2, Conflicts DEF Absent
    <3> QED BY <1>2, <2>2, <3>1 DEF PublicFor
  <2> QED BY <2>1, <2>2, BindingIs
<1>3. k \notin accepted
  BY <1>1, <1>2
<1>4. k \notin DOMAIN providers
  BY <1>1, <1>3 DEF RInv, KeysInv
<1> QED BY <1>2, <1>3, <1>4

\* Storing under a type and its Arc, publicly or in a scope.
LEMMA StoredIs ==
  ASSUME NEW k \in Bindings, NEW vals, DOMAIN vals = Ids
  PROVE  \A id \in Ids : Stored(vals, k)[id] = IF id \in Offers(k) THEN k ELSE vals[id]
<1>1. k.type \in Ids /\ Arc[k.type] \in Ids /\ Offers(k) = {k.type, Arc[k.type]}
  BY BindingIs
<1> QED BY <1>1 DEF Stored

\* What is stored is of the type of what is there.
LEMMA StoredTypes ==
  ASSUME NEW V, NEW vals \in [Ids -> V], NEW k \in V
  PROVE  Stored(vals, k) \in [Ids -> V]
  BY DEF Stored

\* The same in a scope.
LEMMA StoredInIs ==
  ASSUME NEW k \in Bindings, NEW vals, DOMAIN vals = Ids \X Scopes
  PROVE  \A id \in Ids, s \in Scopes :
           StoredIn(vals, k)[<<id, s>>] =
             IF id \in Offers(k) /\ s = k.scope THEN k ELSE vals[<<id, s>>]
<1>1. /\ k.type \in Ids /\ Arc[k.type] \in Ids /\ Offers(k) = {k.type, Arc[k.type]}
      /\ k.scope \in Scopes
  BY BindingIs
<1> QED BY <1>1 DEF StoredIn

\* And its type.
LEMMA StoredInTypes ==
  ASSUME NEW V, NEW vals \in [Ids \X Scopes -> V], NEW k \in V
  PROVE  StoredIn(vals, k) \in [Ids \X Scopes -> V]
  BY DEF StoredIn

-----------------------------------------------------------------------------
(* What a new binding, or none, does to the indices. *)

\* A new binding for ids that were absent keeps one binding to a place.
LEMMA StaysUnique ==
  ASSUME RInv, NEW k \in Bindings, Absent(k), accepted' = accepted \cup {k}
  PROVE  OneBindingPerPlace'
  BY AbsentIsNew DEF RInv, OneBindingPerPlace

\* A constructor's binding, and members of groups, which bind nothing.
LEMMA BindsConstructor ==
  ASSUME RInv, NEW k \in Bindings, Absent(k), NEW M, \A m \in M : m.ordinal > 0,
         accepted' = accepted \cup {k}, UNCHANGED values,
         DOMAIN providers' = DOMAIN providers \cup {k} \cup M,
         \A id \in Ids : publicIndex'[id] =
           IF k.private = FALSE /\ id \in Offers(k) THEN k ELSE publicIndex[id],
         \A id \in Ids, s \in Scopes : privateAlias'[<<id, s>>] =
           IF k.private = TRUE /\ id = Arc[k.type] /\ s = k.scope THEN k
           ELSE privateAlias[<<id, s>>]
  PROVE  ValuesInv' /\ StockInv' /\ IndexInv' /\ OneBindingPerPlace'
<1>1. /\ k \notin accepted /\ k # None /\ k \in Keys /\ k.scope \in Scopes /\ k.private \in BOOLEAN
      /\ k.type \in Offers(k) /\ Arc[k.type] \in Offers(k) /\ Offers(k) \subseteq Ids
  BY AbsentIsNew, BindingIs
<1>2. UNCHANGED <<valuesPublic, valuesPrivate>>
  BY DEF values
<1>3. \A id \in Ids : PublicFor(id) \subseteq PublicFor(id)'
  BY DEF PublicFor
<1>4. \A id \in Ids, s \in Scopes : PrivateFor(id, s) \subseteq PrivateFor(id, s)'
  BY DEF PrivateFor, Binds
<1>5. ASSUME NEW l \in accepted PROVE l \notin M /\ l # k /\ l \in Bindings
  BY <1>1, BindingIs DEF RInv, KeysInv
<1>6. ValuesInv'
  BY <1>2, <1>3, <1>4 DEF RInv, ValuesInv
<1>7. StockInv'
  <2>1. ASSUME NEW l \in accepted', l \notin DOMAIN providers' PROVE Held(l)'
    <3>1. l \in accepted /\ l \notin DOMAIN providers
      BY <2>1
    <3> QED BY <1>2, <3>1 DEF RInv, StockInv, Held
  <2> QED BY <2>1 DEF StockInv
<1>8. ASSUME NEW id \in Ids
      PROVE  publicIndex'[id] = None \/ publicIndex'[id] \in PublicFor(id)' \cap DOMAIN providers'
  <2>1. CASE k.private = FALSE /\ id \in Offers(k)
    <3>1. publicIndex'[id] = k
      BY <2>1
    <3> QED BY <2>1, <3>1 DEF PublicFor
  <2>2. CASE ~(k.private = FALSE /\ id \in Offers(k))
    BY <1>3, <2>2 DEF RInv, IndexInv
  <2> QED BY <2>1, <2>2
<1>9. ASSUME NEW id \in Ids, NEW s \in Scopes
      PROVE  \/ privateAlias'[<<id, s>>] = None
             \/ privateAlias'[<<id, s>>] \in PrivateFor(id, s)' \cap DOMAIN providers'
  <2>1. CASE k.private = TRUE /\ id = Arc[k.type] /\ s = k.scope
    <3>1. privateAlias'[<<id, s>>] = k
      BY <2>1
    <3> QED BY <1>1, <2>1, <3>1 DEF PrivateFor, Binds
  <2>2. CASE ~(k.private = TRUE /\ id = Arc[k.type] /\ s = k.scope)
    <3>1. privateAlias'[<<id, s>>] = privateAlias[<<id, s>>]
      BY <2>2
    <3> QED BY <1>4, <3>1 DEF RInv, IndexInv
  <2> QED BY <2>1, <2>2
<1>10. ASSUME NEW l \in accepted' \cap DOMAIN providers'
       PROVE  /\ l.private => privateAlias'[<<Arc[l.type], l.scope>>] # None
              /\ ~l.private => \A id \in Offers(l) : publicIndex'[id] # None
  <2>1. CASE l = k
    <3>1. CASE k.private = TRUE
      BY <1>1, <2>1, <3>1
    <3>2. CASE k.private = FALSE
      BY <1>1, <2>1, <3>2
    <3> QED BY <1>1, <3>1, <3>2
  <2>2. CASE l \in accepted
    <3>1. l \in accepted \cap DOMAIN providers
      BY <1>5, <2>2
    <3>2. l.scope \in Scopes /\ Arc[l.type] \in Ids /\ Offers(l) \subseteq Ids
      BY <1>5, <2>2, BindingIs
    <3>3. l.private => privateAlias[<<Arc[l.type], l.scope>>] # None
      BY <3>1 DEF RInv, IndexInv
    <3>4. ~l.private => \A id \in Offers(l) : publicIndex[id] # None
      BY <3>1 DEF RInv, IndexInv
    <3> QED BY <1>1, <3>2, <3>3, <3>4
  <2> QED BY <2>1, <2>2
<1>11. IndexInv'
  BY <1>8, <1>9, <1>10 DEF IndexInv
<1> QED BY <1>6, <1>7, <1>11, StaysUnique

\* No binding, at most members of groups.
LEMMA BindsNothing ==
  ASSUME RInv, NEW M, \A m \in M : m.ordinal > 0,
         UNCHANGED <<values, publicIndex, privateAlias, accepted>>,
         DOMAIN providers' = DOMAIN providers \cup M
  PROVE  ValuesInv' /\ StockInv' /\ IndexInv' /\ OneBindingPerPlace'
<1>1. UNCHANGED <<valuesPublic, valuesPrivate>>
  BY DEF values
<1>2. /\ \A id \in Ids : PublicFor(id)' = PublicFor(id)
      /\ \A id \in Ids, s \in Scopes : PrivateFor(id, s)' = PrivateFor(id, s)
  BY DEF PublicFor, PrivateFor, Binds
<1>3. \A l \in accepted : l \in DOMAIN providers' <=> l \in DOMAIN providers
  BY BindingIs DEF RInv, KeysInv
<1>4. ValuesInv'
  BY <1>1, <1>2 DEF RInv, ValuesInv
<1>5. StockInv'
  BY <1>1, <1>3 DEF RInv, StockInv, Held
<1>6. IndexInv'
  <2>1. \A id \in Ids :
          \/ publicIndex'[id] = None
          \/ publicIndex'[id] \in PublicFor(id)' \cap DOMAIN providers'
    BY <1>2 DEF RInv, IndexInv
  <2>2. \A id \in Ids, s \in Scopes :
          \/ privateAlias'[<<id, s>>] = None
          \/ privateAlias'[<<id, s>>] \in PrivateFor(id, s)' \cap DOMAIN providers'
    BY <1>2 DEF RInv, IndexInv
  <2>3. ASSUME NEW l \in accepted' \cap DOMAIN providers'
        PROVE  /\ l.private => privateAlias'[<<Arc[l.type], l.scope>>] # None
               /\ ~l.private => \A id \in Offers(l) : publicIndex'[id] # None
    BY <1>3 DEF RInv, IndexInv
  <2> QED BY <2>1, <2>2, <2>3 DEF IndexInv
<1>7. OneBindingPerPlace'
  BY DEF RInv, OneBindingPerPlace
<1> QED BY <1>4, <1>5, <1>6, <1>7

\* A value's binding.
LEMMA BindsValue ==
  ASSUME RInv, NEW k \in Bindings, Absent(k), accepted' = accepted \cup {k}, UNCHANGED indices,
         \A id \in Ids : valuesPublic'[id] =
           IF k.private = FALSE /\ id \in Offers(k) THEN k ELSE valuesPublic[id],
         \A id \in Ids, s \in Scopes : valuesPrivate'[<<id, s>>] =
           IF k.private = TRUE /\ id \in Offers(k) /\ s = k.scope THEN k
           ELSE valuesPrivate[<<id, s>>]
  PROVE  ValuesInv' /\ StockInv' /\ IndexInv' /\ OneBindingPerPlace'
<1>1. /\ k \notin accepted /\ k # None /\ k \notin DOMAIN providers
      /\ k.scope \in Scopes /\ k.private \in BOOLEAN /\ Offers(k) \subseteq Ids
  BY AbsentIsNew, BindingIs
<1>2. UNCHANGED <<providers, publicIndex, privateAlias>>
  BY DEF indices
<1>3. \A id \in Ids : PublicFor(id) \subseteq PublicFor(id)'
  BY DEF PublicFor
<1>4. \A id \in Ids, s \in Scopes : PrivateFor(id, s) \subseteq PrivateFor(id, s)'
  BY DEF PrivateFor, Binds
<1>5. ASSUME NEW id \in Ids PROVE valuesPublic'[id] = None \/ valuesPublic'[id] \in PublicFor(id)'
  <2>1. CASE k.private = FALSE /\ id \in Offers(k)
    BY <2>1 DEF PublicFor
  <2>2. CASE ~(k.private = FALSE /\ id \in Offers(k))
    BY <1>3, <2>2 DEF RInv, ValuesInv
  <2> QED BY <2>1, <2>2
<1>6. ASSUME NEW id \in Ids, NEW s \in Scopes
      PROVE  \/ valuesPrivate'[<<id, s>>] = None
             \/ valuesPrivate'[<<id, s>>] \in PrivateFor(id, s)'
  <2>1. CASE k.private = TRUE /\ id \in Offers(k) /\ s = k.scope
    BY <2>1 DEF PrivateFor, Binds
  <2>2. CASE ~(k.private = TRUE /\ id \in Offers(k) /\ s = k.scope)
    <3>1. valuesPrivate'[<<id, s>>] = valuesPrivate[<<id, s>>]
      BY <2>2
    <3> QED BY <1>4, <3>1 DEF RInv, ValuesInv
  <2> QED BY <2>1, <2>2
<1>7. ValuesInv'
  BY <1>5, <1>6 DEF ValuesInv
<1>8. ASSUME NEW l \in accepted', l \notin DOMAIN providers' PROVE Held(l)'
  <2>1. CASE l = k
    <3>1. CASE k.private = TRUE
      BY <1>1, <2>1, <3>1 DEF Held
    <3>2. CASE k.private = FALSE
      BY <1>1, <2>1, <3>2 DEF Held
    <3> QED BY <1>1, <3>1, <3>2
  <2>2. CASE l \in accepted
    <3>1. Held(l) /\ Offers(l) \subseteq Ids /\ l.scope \in Scopes
      BY <1>2, <1>8, <2>2, BindingIs DEF RInv, StockInv, KeysInv
    <3>2. \A id \in Offers(l) : ~l.private => valuesPublic'[id] # None
      BY <1>1, <3>1 DEF Held
    <3>3. \A id \in Offers(l) : l.private => valuesPrivate'[<<id, l.scope>>] # None
      BY <1>1, <3>1 DEF Held
    <3> QED BY <3>2, <3>3 DEF Held
  <2> QED BY <2>1, <2>2
<1>9. StockInv'
  BY <1>8 DEF StockInv
<1>10. IndexInv'
  <2>1. \A id \in Ids :
          \/ publicIndex'[id] = None
          \/ publicIndex'[id] \in PublicFor(id)' \cap DOMAIN providers'
    BY <1>2, <1>3 DEF RInv, IndexInv
  <2>2. \A id \in Ids, s \in Scopes :
          \/ privateAlias'[<<id, s>>] = None
          \/ privateAlias'[<<id, s>>] \in PrivateFor(id, s)' \cap DOMAIN providers'
    BY <1>2, <1>4 DEF RInv, IndexInv
  <2>3. ASSUME NEW l \in accepted' \cap DOMAIN providers'
        PROVE  /\ l.private => privateAlias'[<<Arc[l.type], l.scope>>] # None
               /\ ~l.private => \A id \in Offers(l) : publicIndex'[id] # None
    BY <1>1, <1>2 DEF RInv, IndexInv
  <2> QED BY <2>1, <2>2, <2>3 DEF IndexInv
<1> QED BY <1>7, <1>9, <1>10, StaysUnique

\* New constructors leave no values until they run.
LEMMA StaysUnbuilt ==
  ASSUME RInv, Unbuilt, RegistryTypeOK', UNCHANGED values,
         \A l \in DOMAIN providers' : l \in DOMAIN providers \/ l \notin accepted
  PROVE  Unbuilt'
<1>1. None \notin DOMAIN providers'
  BY NoneAssumption DEF RegistryTypeOK
<1>2. UNCHANGED <<valuesPublic, valuesPrivate>>
  BY DEF values
<1>3. /\ \A id \in Ids : valuesPublic[id] = None \/ valuesPublic[id] \in accepted
      /\ \A id \in Ids, s \in Scopes :
           valuesPrivate[<<id, s>>] = None \/ valuesPrivate[<<id, s>>] \in accepted
  BY DEF RInv, ValuesInv, PublicFor, PrivateFor
<1> QED BY <1>1, <1>2, <1>3 DEF Unbuilt

\* The order of registration grows by what is not in it.
LEMMA Ordered ==
  ASSUME NEW s, s \in Seq(Range(s)), IsInjective(s), NEW x, x \notin Range(s),
         NEW t, t = Append(s, x)
  PROVE  t \in Seq(Range(t)) /\ Range(t) = Range(s) \cup {x} /\ IsInjective(t)
<1>1. /\ DOMAIN s = 1 .. Len(s) /\ DOMAIN t = 1 .. (Len(s) + 1) /\ Len(s) \in Nat
      /\ \A i \in 1 .. Len(s) : t[i] = s[i]
      /\ t[Len(s) + 1] = x /\ t \in Seq(Range(s) \cup {x})
  OBVIOUS
<1>2. \A i \in 1 .. Len(s) : s[i] # x
  BY <1>1 DEF Range
<1>3. \A i \in DOMAIN t : i \in 1 .. Len(s) \/ i = Len(s) + 1
  BY <1>1
<1>4. IsInjective(t)
  <2>1. \A i, j \in DOMAIN s : s[i] = s[j] => i = j
    BY DEF IsInjective
  <2>2. \A i, j \in DOMAIN t : t[i] = t[j] => i = j
    BY <1>1, <1>2, <1>3, <2>1
  <2> QED BY <2>2 DEF IsInjective
<1>5. Range(t) = Range(s) \cup {x}
  <2>1. \A i \in DOMAIN t : t[i] \in Range(s) \cup {x}
    BY <1>1, <1>3 DEF Range
  <2>2. \A i \in DOMAIN s : i \in DOMAIN t /\ t[i] = s[i]
    BY <1>1
  <2>3. Len(s) + 1 \in DOMAIN t
    BY <1>1
  <2> QED BY <1>1, <2>1, <2>2, <2>3 DEF Range
<1> QED BY <1>1, <1>4, <1>5

\* Two sequences of one element each.
LEMMA Pair ==
  ASSUME NEW x, NEW y PROVE <<x>> \o <<y>> = <<x, y>>
<1>1. PICK s : s = <<x>> \o <<y>>
  OBVIOUS
<1>2. PICK t : t = <<x, y>>
  OBVIOUS
<1>3. <<x>> \in Seq({x, y}) /\ <<y>> \in Seq({x, y})
  OBVIOUS
<1>4. s \in Seq({x, y}) /\ Len(s) = 2 /\ s[1] = x /\ s[2] = y
  BY <1>1, <1>3
<1>5. t \in Seq({x, y}) /\ Len(t) = 2 /\ t[1] = x /\ t[2] = y
  BY <1>2
<1>6. \A i \in 1 .. Len(s) : s[i] = t[i]
  BY <1>4, <1>5
<1>7. s = t
  BY <1>4, <1>5, <1>6, SeqEqual
<1> QED BY <1>1, <1>2, <1>7

\* What short sequences add to the end of one.
LEMMA Concats ==
  ASSUME NEW S, NEW s \in Seq(S), NEW x, NEW y
  PROVE  s \o <<x>> = Append(s, x) /\ s \o <<x, y>> = Append(Append(s, x), y)
<1>1. s \o <<x>> = Append(s, x)
  OBVIOUS
<1>2. s \o <<x, y>> = Append(Append(s, x), y)
  <2>1. s \in Seq(S \cup {x, y}) /\ <<x, y>> \in Seq(S \cup {x, y})
    OBVIOUS
  <2>2. /\ s \o <<x, y>> \in Seq(S \cup {x, y}) /\ Len(s \o <<x, y>>) = Len(s) + 2
        /\ Append(s, x) \in Seq(S \cup {x, y}) /\ Len(Append(s, x)) = Len(s) + 1
        /\ Append(Append(s, x), y) \in Seq(S \cup {x, y})
        /\ Len(Append(Append(s, x), y)) = Len(s) + 2 /\ Len(s) \in Nat
    BY <2>1
  <2>3. ASSUME NEW i \in 1 .. (Len(s) + 2)
        PROVE  (s \o <<x, y>>)[i] = Append(Append(s, x), y)[i]
    BY <2>1, <2>2
  <2> QED BY <2>2, <2>3
<1> QED BY <1>1, <1>2

-----------------------------------------------------------------------------
(* Every option that is applied. *)

\* What an option binds is a type of the program, in the scope that is being filled.
LEMMA OptionBinds ==
  ASSUME RInv, NEW o \in Options, o.kind \in {"provide", "supply"}, Free(o),
         NEW k, k = Singleton(o.type, current, o.private)
  PROVE  /\ k \in Bindings /\ Absent(k)
         /\ k.type = o.type /\ k.scope = current /\ k.private = o.private
         /\ o.private \in BOOLEAN /\ current \in 1 .. Len(chain)
<1>1. o.type \in Produced /\ o.private \in BOOLEAN
  BY OptionsAssumption DEF Produced
<1>2. current \in Scopes /\ current \in 1 .. Len(chain)
  BY BoundsAssumption DEF RInv, PlaceInv, Scopes
<1>3. k \in Bindings
  BY <1>1, <1>2, SingletonIsBinding
<1>4. k.type = o.type /\ k.scope = current /\ k.private = o.private
  BY SingletonParts
<1>5. Offers(k) = {o.type, Arc[o.type]}
  BY <1>3, <1>4, BindingIs
<1>6. Claim(o) = [ids |-> {o.type, Arc[o.type]}, scope |-> current, private |-> o.private]
  BY DEF Claim
<1>7. Absent(k)
  BY <1>4, <1>5, <1>6 DEF Free, Absent
<1> QED BY <1>1, <1>2, <1>3, <1>4, <1>7

\* A binding of the current scope, marked there, joins the accepted ones.
LEMMA KeysGrow ==
  ASSUME RInv, NEW k \in Bindings, k.scope = current, UNCHANGED <<placement, invokers>>,
         privateScopes' = Marked(k), accepted' = accepted \cup {k},
         DOMAIN providers' \subseteq DOMAIN providers \cup {k}
  PROVE  KeysInv'
<1>1. k.scope \in 1 .. Len(chain) /\ k.private \in BOOLEAN
  BY BindingIs DEF RInv, PlaceInv
<1>2. privateScopes \subseteq privateScopes' /\ (k.private => k.scope \in privateScopes')
  BY DEF Marked
<1>3. UNCHANGED <<chain, current>>
  BY DEF placement
<1>4. accepted' \subseteq Bindings
  BY DEF RInv, KeysInv
<1>5. \A l \in accepted' :
        l.scope \in 1 .. Len(chain') /\ (l.private => l.scope \in privateScopes')
  BY <1>1, <1>2, <1>3 DEF RInv, KeysInv
<1>6. \A l \in DOMAIN providers' : l.scope \in 1 .. Len(chain') /\ (l.ordinal = 0 => l \in accepted')
  BY <1>1, <1>3 DEF RInv, KeysInv
<1>7. \A n \in DOMAIN invokers' : invokers'[n].scope \in 1 .. Len(chain')
  BY <1>3 DEF RInv, KeysInv
<1> QED BY <1>4, <1>5, <1>6, <1>7 DEF KeysInv

\* ProvideOption.
LEMMA ProvideKeeps ==
  ASSUME RInv, PlaceInv', NEW o \in Options, Provide(o)
  PROVE  RInv' /\ (Unbuilt => Unbuilt')
<1> DEFINE k == Singleton(o.type, current, o.private)
<1>1. o.kind = "provide" /\ Free(o) /\ o.deps \in Seq(Ids)
  BY OptionsAssumption DEF Provide, Take
<1>2. /\ k \in Bindings /\ Absent(k) /\ k.scope = current /\ k.private = o.private
      /\ k.type = o.type /\ o.private \in BOOLEAN /\ current \in 1 .. Len(chain)
  BY <1>1, OptionBinds
<1>3. /\ k \notin accepted /\ k \notin DOMAIN providers /\ k \in Keys /\ k.ordinal = 0
      /\ k.type \in Ids /\ Arc[k.type] \in Ids /\ k.scope \in Scopes /\ k # None
      /\ Offers(k) = {k.type, Arc[k.type]}
  BY <1>2, AbsentIsNew, BindingIs
<1>4. /\ privateScopes' = Marked(k)
      /\ providers' = [q \in DOMAIN providers \cup {k} |->
                         IF q = k THEN o.deps ELSE providers[q]]
      /\ order' = Append(order, k) /\ accepted' = accepted \cup {k} /\ applied' = applied + 1
      /\ applied < MaxOptions
      /\ UNCHANGED <<values, groups, placement, invokers>>
      /\ \/ /\ k.private /\ UNCHANGED publicIndex
            /\ privateAlias' = [privateAlias EXCEPT ![<<Arc[k.type], k.scope>>] = k]
         \/ /\ ~k.private /\ UNCHANGED privateAlias
            /\ publicIndex' = Stored(publicIndex, k)
  BY <1>2 DEF Provide, Take
<1> HIDE DEF k
<1>5. /\ publicIndex \in [Ids -> DOMAIN providers \cup {None}]
      /\ privateAlias \in [Ids \X Scopes -> DOMAIN providers \cup {None}]
      /\ DOMAIN providers' = DOMAIN providers \cup {k}
  BY <1>4 DEF RInv, RegistryTypeOK
<1>6. /\ publicIndex' \in [Ids -> DOMAIN providers' \cup {None}]
      /\ \A id \in Ids : publicIndex'[id] =
           IF k.private = FALSE /\ id \in Offers(k) THEN k ELSE publicIndex[id]
  <2>1. CASE k.private = TRUE
    BY <1>4, <1>5, <2>1
  <2>2. CASE k.private = FALSE
    <3>1. publicIndex' = Stored(publicIndex, k)
      BY <1>4, <2>2
    <3>2. \A id \in Ids : publicIndex'[id] = IF id \in Offers(k) THEN k ELSE publicIndex[id]
      BY <1>2, <1>5, <3>1, StoredIs
    <3>3. publicIndex \in [Ids -> DOMAIN providers' \cup {None}] /\ k \in DOMAIN providers' \cup {None}
      BY <1>5
    <3>4. publicIndex' \in [Ids -> DOMAIN providers' \cup {None}]
      BY <3>1, <3>3, StoredTypes
    <3> QED BY <2>2, <3>2, <3>4
  <2> QED BY <1>2, <2>1, <2>2
<1>7. /\ privateAlias' \in [Ids \X Scopes -> DOMAIN providers' \cup {None}]
      /\ \A id \in Ids, s \in Scopes : privateAlias'[<<id, s>>] =
           IF k.private = TRUE /\ id = Arc[k.type] /\ s = k.scope THEN k
           ELSE privateAlias[<<id, s>>]
  <2>1. CASE k.private = FALSE
    BY <1>4, <1>5, <2>1
  <2>2. CASE k.private = TRUE
    <3>1. privateAlias' = [privateAlias EXCEPT ![<<Arc[k.type], k.scope>>] = k]
      BY <1>4, <2>2
    <3>2. privateAlias' \in [Ids \X Scopes -> DOMAIN providers' \cup {None}]
      BY <1>5, <3>1
    <3>3. \A id \in Ids, s \in Scopes : privateAlias'[<<id, s>>] =
            IF id = Arc[k.type] /\ s = k.scope THEN k ELSE privateAlias[<<id, s>>]
      BY <1>3, <1>5, <3>1
    <3> QED BY <2>2, <3>2, <3>3
  <2> QED BY <1>2, <2>1, <2>2
<1>8. ValuesInv' /\ StockInv' /\ IndexInv' /\ OneBindingPerPlace'
  <2> DEFINE M == {}
  <2>1. DOMAIN providers' = DOMAIN providers \cup {k} \cup M /\ \A m \in M : m.ordinal > 0
    BY <1>5
  <2> HIDE DEF M
  <2> QED BY <1>2, <1>4, <1>6, <1>7, <2>1, BindsConstructor
<1>9. KeysInv'
  BY <1>2, <1>4, <1>5, KeysGrow
<1>10. GroupInv'
  <2>1. UNCHANGED <<members, registered, nextMember>>
    BY <1>4 DEF groups
  <2> QED BY <1>3, <1>5, <2>1 DEF RInv, GroupInv
<1>11. OrderInv' /\ order' \in Seq(DOMAIN providers')
  <2>1. /\ Range(order) = DOMAIN providers /\ IsInjective(order) /\ order \in Seq(Range(order))
        /\ order' = Append(order, k) /\ k \notin Range(order)
    BY <1>3, <1>4 DEF RInv, RegistryTypeOK, OrderInv
  <2>2. /\ order' \in Seq(Range(order')) /\ Range(order') = Range(order) \cup {k}
        /\ IsInjective(order')
    BY <2>1, Ordered
  <2> QED BY <1>5, <2>1, <2>2 DEF OrderInv
<1>12. RegistryTypeOK'
  <2>1. chain' \in Seq(Seq(Scopes)) /\ Len(chain') \in Scopes /\ current' \in DOMAIN chain'
    BY DEF PlaceInv
  <2>2. UNCHANGED <<valuesPublic, valuesPrivate, members, registered, required, nextMember,
                    invokers, chain>>
    BY <1>4 DEF values, groups, placement
  <2>3. DOMAIN providers' \subseteq Keys /\ accepted' \subseteq Keys
    BY <1>3, <1>4, <1>5 DEF RInv, RegistryTypeOK
  <2>4. \A q \in DOMAIN providers' : providers'[q] \in Seq(Ids)
    BY <1>1, <1>4, <1>5 DEF RInv, RegistryTypeOK
  <2>5. privateScopes' \subseteq DOMAIN chain'
    BY <1>2, <1>4, <2>2 DEF RInv, RegistryTypeOK, Marked
  <2>6. members' \in [Elements -> Seq(DOMAIN providers')]
    <3>1. Seq(DOMAIN providers) \subseteq Seq(DOMAIN providers')
      BY <1>5
    <3> QED BY <2>2, <3>1 DEF RInv, RegistryTypeOK
  <2>7. applied' \in 0 .. MaxOptions /\ nextMember' \in 0 .. applied'
    BY <1>4, <2>2, BoundsAssumption DEF RInv, RegistryTypeOK
  <2>8. /\ valuesPublic' \in [Ids -> Keys \cup {None}]
        /\ valuesPrivate' \in [Ids \X Scopes -> Keys \cup {None}]
        /\ registered' \subseteq Elements /\ required' \subseteq registered'
        /\ invokers' \in Seq([scope : Scopes, deps : Seq(Ids)])
    BY <2>2 DEF RInv, RegistryTypeOK
  <2> QED BY <1>6, <1>7, <1>11, <2>1, <2>3, <2>4, <2>5, <2>6, <2>7, <2>8 DEF RegistryTypeOK
<1>13. Unbuilt => Unbuilt'
  BY <1>3, <1>4, <1>5, <1>12, StaysUnbuilt
<1> QED BY <1>8, <1>9, <1>10, <1>11, <1>12, <1>13 DEF RInv

\* SupplyOption.
LEMMA SupplyKeeps ==
  ASSUME RInv, PlaceInv', NEW o \in Options, Supply(o)
  PROVE  RInv' /\ (Unbuilt => Unbuilt')
<1> DEFINE k == Singleton(o.type, current, o.private)
<1>1. o.kind = "supply" /\ Free(o)
  BY DEF Supply, Take
<1>2. /\ k \in Bindings /\ Absent(k) /\ k.scope = current /\ k.private = o.private
      /\ k.type = o.type /\ o.private \in BOOLEAN /\ current \in 1 .. Len(chain)
  BY <1>1, OptionBinds
<1>3. /\ k \notin accepted /\ k \notin DOMAIN providers /\ k \in Keys /\ k # None
      /\ k.scope \in Scopes
  BY <1>2, AbsentIsNew, BindingIs
<1>4. /\ privateScopes' = Marked(k)
      /\ accepted' = accepted \cup {k} /\ applied' = applied + 1 /\ applied < MaxOptions
      /\ UNCHANGED <<indices, groups, placement, invokers>>
      /\ \/ k.private /\ valuesPrivate' = StoredIn(valuesPrivate, k) /\ UNCHANGED valuesPublic
         \/ ~k.private /\ valuesPublic' = Stored(valuesPublic, k) /\ UNCHANGED valuesPrivate
  BY <1>2 DEF Supply, Take
<1> HIDE DEF k
<1>5. /\ valuesPublic \in [Ids -> Keys \cup {None}]
      /\ valuesPrivate \in [Ids \X Scopes -> Keys \cup {None}]
      /\ k \in Keys \cup {None}
  BY <1>3 DEF RInv, RegistryTypeOK
<1>6. /\ valuesPublic' \in [Ids -> Keys \cup {None}]
      /\ \A id \in Ids : valuesPublic'[id] =
           IF k.private = FALSE /\ id \in Offers(k) THEN k ELSE valuesPublic[id]
  <2>1. CASE k.private = TRUE
    BY <1>4, <1>5, <2>1
  <2>2. CASE k.private = FALSE
    <3>1. valuesPublic' = Stored(valuesPublic, k)
      BY <1>4, <2>2
    <3>2. \A id \in Ids : valuesPublic'[id] = IF id \in Offers(k) THEN k ELSE valuesPublic[id]
      BY <1>2, <1>5, <3>1, StoredIs
    <3>3. valuesPublic' \in [Ids -> Keys \cup {None}]
      BY <1>5, <3>1, StoredTypes
    <3> QED BY <2>2, <3>2, <3>3
  <2> QED BY <1>2, <2>1, <2>2
<1>7. /\ valuesPrivate' \in [Ids \X Scopes -> Keys \cup {None}]
      /\ \A id \in Ids, s \in Scopes : valuesPrivate'[<<id, s>>] =
           IF k.private = TRUE /\ id \in Offers(k) /\ s = k.scope THEN k
           ELSE valuesPrivate[<<id, s>>]
  <2>1. CASE k.private = FALSE
    BY <1>4, <1>5, <2>1
  <2>2. CASE k.private = TRUE
    <3>1. valuesPrivate' = StoredIn(valuesPrivate, k)
      BY <1>4, <2>2
    <3>2. \A id \in Ids, s \in Scopes : valuesPrivate'[<<id, s>>] =
            IF id \in Offers(k) /\ s = k.scope THEN k ELSE valuesPrivate[<<id, s>>]
      <4>1. DOMAIN valuesPrivate = Ids \X Scopes
        BY <1>5
      <4>2. \A id \in Ids, s \in Scopes : StoredIn(valuesPrivate, k)[<<id, s>>] =
              IF id \in Offers(k) /\ s = k.scope THEN k ELSE valuesPrivate[<<id, s>>]
        BY <1>2, <4>1, StoredInIs, Zenon
      <4> QED BY <3>1, <4>2
    <3>3. valuesPrivate' \in [Ids \X Scopes -> Keys \cup {None}]
      BY <1>5, <3>1, StoredInTypes
    <3> QED BY <2>2, <3>2, <3>3
  <2> QED BY <1>2, <2>1, <2>2
<1>8. ValuesInv' /\ StockInv' /\ IndexInv' /\ OneBindingPerPlace'
  BY <1>2, <1>4, <1>6, <1>7, BindsValue
<1>9. UNCHANGED <<providers, publicIndex, privateAlias, order, members, registered, required,
                  nextMember, invokers, chain>>
  BY <1>4 DEF indices, groups, placement
<1>10. KeysInv'
  BY <1>2, <1>4, <1>9, KeysGrow
<1>11. GroupInv' /\ OrderInv'
  BY <1>9 DEF RInv, GroupInv, OrderInv
<1>12. RegistryTypeOK'
  <2>1. chain' \in Seq(Seq(Scopes)) /\ Len(chain') \in Scopes /\ current' \in DOMAIN chain'
    BY DEF PlaceInv
  <2>2. accepted' \subseteq Keys
    BY <1>3, <1>4 DEF RInv, RegistryTypeOK
  <2>3. privateScopes' \subseteq DOMAIN chain'
    BY <1>2, <1>4, <1>9 DEF RInv, RegistryTypeOK, Marked
  <2>4. applied' \in 0 .. MaxOptions /\ nextMember' \in 0 .. applied'
    BY <1>4, <1>9, BoundsAssumption DEF RInv, RegistryTypeOK
  <2>5. /\ DOMAIN providers' \subseteq Keys /\ \A q \in DOMAIN providers' : providers'[q] \in Seq(Ids)
        /\ publicIndex' \in [Ids -> DOMAIN providers' \cup {None}]
        /\ privateAlias' \in [Ids \X Scopes -> DOMAIN providers' \cup {None}]
        /\ order' \in Seq(DOMAIN providers') /\ members' \in [Elements -> Seq(DOMAIN providers')]
        /\ registered' \subseteq Elements /\ required' \subseteq registered'
        /\ invokers' \in Seq([scope : Scopes, deps : Seq(Ids)])
    BY <1>9 DEF RInv, RegistryTypeOK
  <2> QED BY <1>6, <1>7, <2>1, <2>2, <2>3, <2>4, <2>5 DEF RegistryTypeOK
<1>13. ASSUME Unbuilt PROVE Unbuilt'
  <2>1. None \notin DOMAIN providers'
    BY <1>12, NoneAssumption DEF RegistryTypeOK
  <2> QED BY <1>3, <1>6, <1>7, <1>9, <1>13, <2>1 DEF Unbuilt
<1> QED BY <1>8, <1>10, <1>11, <1>12, <1>13 DEF RInv

\* What a sequence holds after one more.
LEMMA RangeAppend ==
  ASSUME NEW S, NEW s, s \in Seq(S), NEW x
  PROVE  Range(Append(s, x)) = Range(s) \cup {x}
<1> DEFINE t == Append(s, x)
<1>1. /\ DOMAIN s = 1 .. Len(s) /\ DOMAIN t = 1 .. (Len(s) + 1) /\ Len(s) \in Nat
      /\ \A i \in 1 .. Len(s) : t[i] = s[i]
      /\ t[Len(s) + 1] = x
  OBVIOUS
<1> HIDE DEF t
<1>2. \A i \in DOMAIN t : t[i] \in Range(s) \cup {x}
  <2>1. \A i \in DOMAIN t : i \in 1 .. Len(s) \/ i = Len(s) + 1
    BY <1>1
  <2> QED BY <1>1, <2>1 DEF Range
<1>3. \A i \in DOMAIN s : i \in DOMAIN t /\ t[i] = s[i]
  BY <1>1
<1>4. Len(s) + 1 \in DOMAIN t
  BY <1>1
<1>5. Range(t) = Range(s) \cup {x}
  BY <1>1, <1>2, <1>3, <1>4 DEF Range
<1> QED BY <1>5 DEF t

\* The aggregate of a group that is new.
NewKeys(e) == IF e \in registered THEN {} ELSE {VirtualKey(e)}

\* The order and the constructors after a group has been registered with the constructors
\* of M, of which there is at most one.
LEMMA Registers ==
  ASSUME RInv, NEW e \in Elements, NEW m, NEW ks, NEW deps, NEW M,
         RegisterGroup(e, ks, deps),
         (M = {} /\ ks = << >>) \/ (M = {m} /\ ks = <<m>>),
         m \notin DOMAIN providers, m # VirtualKey(e),
         NewKeys(e) \cap DOMAIN providers = {}
  PROVE  /\ DOMAIN providers' = DOMAIN providers \cup NewKeys(e) \cup M
         /\ \A k \in DOMAIN providers' :
              providers'[k] = IF k \in M THEN deps
                              ELSE IF k \in DOMAIN providers THEN providers[k] ELSE << >>
         /\ order' \in Seq(DOMAIN providers') /\ OrderInv'
<1> DEFINE new == NewVirtual(e) \o ks
           v   == VirtualKey(e)
           N   == NewKeys(e)
<1> USE DEF NewKeys
<1>1. {new[i] : i \in DOMAIN new} = N \cup M /\ {ks[i] : i \in DOMAIN ks} = M
  <2>1. {ks[i] : i \in DOMAIN ks} = M
    <3>1. CASE ks = << >> /\ M = {}
      <4>1. DOMAIN ks = {}
        BY <3>1
      <4> QED BY <3>1, <4>1
    <3>2. CASE ks = <<m>> /\ M = {m}
      <4>1. DOMAIN ks = {1} /\ ks[1] = m
        BY <3>2
      <4> QED BY <3>2, <4>1
    <3> QED BY <3>1, <3>2
  <2>2. CASE e \in registered /\ ks = << >> /\ M = {}
    BY <2>2 DEF NewVirtual
  <2>3. CASE e \in registered /\ ks = <<m>> /\ M = {m}
    <3>1. new = <<m>> /\ N = {}
      BY <2>3 DEF NewVirtual
    <3> QED BY <2>1, <2>3, <3>1
  <2>4. CASE e \notin registered /\ ks = << >> /\ M = {}
    <3>1. new = <<v>> /\ N = {v}
      BY <2>4 DEF NewVirtual
    <3> HIDE DEF new, v
    <3> QED BY <2>1, <2>4, <3>1
  <2>5. CASE e \notin registered /\ ks = <<m>> /\ M = {m}
    <3>1. NewVirtual(e) = <<v>> /\ N = {v}
      BY <2>5 DEF NewVirtual
    <3>2. new = <<v>> \o <<m>>
      BY <2>5, <3>1
    <3> HIDE DEF new, v
    <3>3. new = <<v, m>>
      BY <3>2, Pair
    <3>4. {new[i] : i \in DOMAIN new} = {v, m}
      BY <3>3
    <3> QED BY <2>1, <2>5, <3>1, <3>4
  <2> QED BY <2>1, <2>2, <2>3, <2>4, <2>5
<1>2. DOMAIN providers' = DOMAIN providers \cup N \cup M
  BY <1>1 DEF RegisterGroup
<1>3. \A k \in DOMAIN providers' :
        providers'[k] = IF k \in M THEN deps
                        ELSE IF k \in DOMAIN providers THEN providers[k] ELSE << >>
  BY <1>1 DEF RegisterGroup
<1>4. /\ order \in Seq(Range(order)) /\ IsInjective(order) /\ Range(order) = DOMAIN providers
      /\ order' = order \o new
  BY DEF RInv, RegistryTypeOK, OrderInv, RegisterGroup
<1> HIDE DEF v
<1>5. order' \in Seq(Range(order')) /\ IsInjective(order') /\ Range(order') = DOMAIN providers'
  <2>1. CASE e \in registered /\ ks = << >> /\ M = {}
    <3>1. new = << >> /\ N = {}
      BY <2>1 DEF NewVirtual
    <3>2. order' = order /\ DOMAIN providers' = DOMAIN providers
      BY <1>2, <1>4, <2>1, <3>1
    <3> QED BY <1>4, <3>2
  <2>2. CASE e \in registered /\ ks = <<m>> /\ M = {m}
    <3>1. new = <<m>> /\ N = {}
      BY <2>2 DEF NewVirtual
    <3> HIDE DEF new
    <3>2. /\ order' = Append(order, m) /\ m \notin Range(order)
          /\ DOMAIN providers' = Range(order) \cup {m}
      <4>1. order' = Append(order, m)
        BY <1>4, <3>1, Concats
      <4> QED BY <1>2, <1>4, <2>2, <3>1, <4>1
    <3> QED BY <1>4, <3>2, Ordered
  <2>3. CASE e \notin registered /\ ks = << >> /\ M = {}
    <3>1. new = <<v>> /\ N = {v}
      BY <2>3 DEF NewVirtual, v
    <3> HIDE DEF new
    <3>2. /\ order' = Append(order, v) /\ v \notin Range(order)
          /\ DOMAIN providers' = Range(order) \cup {v}
      <4>1. order' = Append(order, v)
        BY <1>4, <3>1, Concats
      <4> QED BY <1>2, <1>4, <2>3, <3>1, <4>1
    <3> QED BY <1>4, <3>2, Ordered
  <2>4. CASE e \notin registered /\ ks = <<m>> /\ M = {m}
    <3>1. NewVirtual(e) = <<v>> /\ N = {v}
      BY <2>4 DEF NewVirtual, v
    <3>2. new = <<v>> \o <<m>>
      BY <2>4, <3>1
    <3> HIDE DEF new
    <3>3. order' = Append(Append(order, v), m)
      BY <1>4, <3>2, Pair, Concats
    <3>4. PICK s : s = Append(order, v)
      OBVIOUS
    <3>5. /\ s \in Seq(Range(s)) /\ Range(s) = Range(order) \cup {v} /\ IsInjective(s)
      BY <1>4, <3>1, <3>4, Ordered
    <3>6. /\ order' = Append(s, m) /\ m \notin Range(s)
          /\ DOMAIN providers' = Range(s) \cup {m}
      BY <1>2, <1>4, <2>4, <3>1, <3>3, <3>4, <3>5 DEF v
    <3> QED BY <3>5, <3>6, Ordered
  <2> QED BY <2>1, <2>2, <2>3, <2>4
<1> QED BY <1>2, <1>3, <1>5 DEF OrderInv

\* A group is registered, with at most one member, at the root or in a module.
LEMMA RegisterKeeps ==
  ASSUME RInv, PlaceInv', NEW e \in Elements, NEW m, NEW ks, NEW deps \in Seq(Ids), NEW M,
         RegisterGroup(e, ks, deps),
         (M = {} /\ ks = << >>) \/ (M = {m} /\ ks = <<m>>),
         m \in Keys, m.ordinal > 0, m \notin DOMAIN providers, m.scope \in 1 .. Len(chain),
         e \notin registered => Absent(VirtualKey(e))
  PROVE  /\ ValuesInv' /\ StockInv' /\ IndexInv' /\ OneBindingPerPlace' /\ KeysInv' /\ OrderInv'
         /\ VirtualKey(e) \in DOMAIN providers'
         /\ \A k \in DOMAIN providers' : k \in DOMAIN providers \/ k = VirtualKey(e) \/ k \in M
         /\ DOMAIN providers \subseteq DOMAIN providers' /\ M \subseteq DOMAIN providers'
         /\ \A l \in DOMAIN providers' : l \in DOMAIN providers \/ l \notin accepted
         /\ DOMAIN providers' \subseteq Keys
         /\ \A k \in DOMAIN providers' : providers'[k] \in Seq(Ids)
         /\ publicIndex' \in [Ids -> DOMAIN providers' \cup {None}]
         /\ privateAlias' \in [Ids \X Scopes -> DOMAIN providers' \cup {None}]
         /\ order' \in Seq(DOMAIN providers')
         /\ accepted' \subseteq Keys
<1> DEFINE v == VirtualKey(e)
           N == NewKeys(e)
<1>1. /\ v \in Bindings /\ v.private = FALSE /\ v.scope = Root /\ v.ordinal = 0
      /\ v \in Keys /\ Root \in 1 .. Len(chain)
  <2>1. Root \in 1 .. Len(chain)
    <3>1. Len(chain) \in 1 .. MaxScopes
      BY DEF RInv, PlaceInv, Scopes
    <3> QED BY <3>1, BoundsAssumption DEF Root
  <2> QED BY <2>1, VirtualIsBinding, BindingIs
<1>2. e \notin registered => v \notin accepted /\ v \notin DOMAIN providers
  BY <1>1, AbsentIsNew
<1>3. e \in registered => v \in DOMAIN providers
  BY DEF RInv, GroupInv
<1>4. /\ accepted' = accepted \cup N
      /\ publicIndex' = IF e \in registered THEN publicIndex ELSE Stored(publicIndex, v)
      /\ UNCHANGED <<values, privateAlias, privateScopes, placement, invokers>>
  BY DEF RegisterGroup, NewKeys
<1>5. m # v /\ N \cap DOMAIN providers = {}
  BY <1>1, <1>2 DEF NewKeys
<1> HIDE DEF v, N
<1>n. N = IF e \in registered THEN {} ELSE {v}
  BY DEF N, NewKeys, v
<1>6. /\ DOMAIN providers' = DOMAIN providers \cup N \cup M
      /\ \A k \in DOMAIN providers' :
           providers'[k] = IF k \in M THEN deps
                           ELSE IF k \in DOMAIN providers THEN providers[k] ELSE << >>
      /\ order' \in Seq(DOMAIN providers') /\ OrderInv'
  BY <1>5, Registers DEF v, N
<1>7. /\ publicIndex \in [Ids -> DOMAIN providers \cup {None}]
      /\ privateAlias \in [Ids \X Scopes -> DOMAIN providers \cup {None}]
      /\ DOMAIN publicIndex = Ids
  BY DEF RInv, RegistryTypeOK
<1>8. ValuesInv' /\ StockInv' /\ IndexInv' /\ OneBindingPerPlace'
  <2>1. \A k \in M : k.ordinal > 0
    OBVIOUS
  <2>2. CASE e \in registered
    <3>1. DOMAIN providers' = DOMAIN providers \cup M /\ accepted' = accepted
      BY <1>4, <1>6, <1>n, <2>2
    <3> QED BY <1>4, <2>1, <2>2, <3>1, BindsNothing
  <2>3. CASE e \notin registered
    <3>1. /\ DOMAIN providers' = DOMAIN providers \cup {v} \cup M
          /\ accepted' = accepted \cup {v} /\ Absent(v)
      BY <1>4, <1>6, <1>n, <2>3 DEF v
    <3>2. \A id \in Ids : publicIndex'[id] =
            IF v.private = FALSE /\ id \in Offers(v) THEN v ELSE publicIndex[id]
      BY <1>1, <1>4, <1>7, <2>3, StoredIs
    <3>3. \A id \in Ids, s \in Scopes : privateAlias'[<<id, s>>] =
            IF v.private = TRUE /\ id = Arc[v.type] /\ s = v.scope THEN v
            ELSE privateAlias[<<id, s>>]
      BY <1>1, <1>4
    <3> QED BY <1>1, <1>4, <2>1, <3>1, <3>2, <3>3, BindsConstructor
  <2> QED BY <2>2, <2>3
<1>9. \A k \in DOMAIN providers' : k \in DOMAIN providers \/ k = v \/ k \in M
  BY <1>6, <1>n
<1>10. UNCHANGED <<chain, current>>
  BY <1>4 DEF placement
<1>11. KeysInv'
  <2>1. accepted' \subseteq Bindings
    BY <1>1, <1>4, <1>n DEF RInv, KeysInv
  <2>2. \A l \in accepted' :
          l.scope \in 1 .. Len(chain') /\ (l.private => l.scope \in privateScopes')
    BY <1>1, <1>4, <1>10, <1>n DEF RInv, KeysInv
  <2>3. ASSUME NEW l \in DOMAIN providers'
        PROVE  l.scope \in 1 .. Len(chain') /\ (l.ordinal = 0 => l \in accepted')
    <3>1. CASE l \in DOMAIN providers
      BY <1>4, <1>10, <3>1 DEF RInv, KeysInv
    <3>2. CASE l \in M
      BY <1>10, <3>2
    <3>3. CASE l \in N
      BY <1>1, <1>4, <1>10, <1>n, <3>3
    <3> QED BY <1>6, <3>1, <3>2, <3>3
  <2>4. \A n \in DOMAIN invokers' : invokers'[n].scope \in 1 .. Len(chain')
    BY <1>4, <1>10 DEF RInv, KeysInv
  <2> QED BY <2>1, <2>2, <2>3, <2>4 DEF KeysInv
<1>12. \A l \in DOMAIN providers' : l \in DOMAIN providers \/ l \notin accepted
  <2>1. m \notin accepted
    BY BindingIs DEF RInv, KeysInv
  <2> QED BY <1>2, <1>6, <1>n, <2>1
<1>13. DOMAIN providers' \subseteq Keys /\ accepted' \subseteq Keys
  BY <1>1, <1>4, <1>6, <1>n DEF RInv, RegistryTypeOK
<1>14. \A k \in DOMAIN providers' : providers'[k] \in Seq(Ids)
  <2>1. << >> \in Seq(Ids)
    OBVIOUS
  <2>2. \A k \in DOMAIN providers : providers[k] \in Seq(Ids)
    BY DEF RInv, RegistryTypeOK
  <2> QED BY <1>6, <2>1, <2>2
<1>15. publicIndex' \in [Ids -> DOMAIN providers' \cup {None}]
  <2>1. publicIndex \in [Ids -> DOMAIN providers' \cup {None}]
    BY <1>6, <1>7
  <2>2. e \notin registered => v \in DOMAIN providers' \cup {None}
    BY <1>6, <1>n
  <2> QED BY <1>4, <2>1, <2>2, StoredTypes
<1>16. privateAlias' \in [Ids \X Scopes -> DOMAIN providers' \cup {None}]
  BY <1>4, <1>6, <1>7
<1>17. v \in DOMAIN providers' /\ DOMAIN providers \subseteq DOMAIN providers' /\ M \subseteq DOMAIN providers'
  BY <1>3, <1>6, <1>n DEF v
<1> QED
  BY <1>6, <1>8, <1>9, <1>11, <1>12, <1>13, <1>14, <1>15, <1>16, <1>17 DEF v

\* ProvideGroupOption, SupplyGroupOption, InitGroupOption, RequireGroupOption.
LEMMA GroupKeeps ==
  ASSUME RInv, PlaceInv', NEW o \in Options, AddMember(o) \/ InitGroup(o) \/ RequireGroup(o)
  PROVE  RInv' /\ (Unbuilt => Unbuilt')
<1> DEFINE e  == o.element
           m  == MemberKey(e)
           M  == IF AddMember(o) THEN {m} ELSE {}
           ks == IF AddMember(o) THEN <<m>> ELSE << >>
           deps == IF AddMember(o) THEN o.deps ELSE << >>
<1>1. /\ o.kind \in {"member", "init", "require"} /\ e \in Elements /\ Free(o)
      /\ AddMember(o) => o.kind = "member" /\ o.deps \in Seq(Ids)
      /\ ~AddMember(o) => o.kind # "member"
      /\ applied' = applied + 1 /\ applied < MaxOptions
  BY OptionsAssumption DEF AddMember, InitGroup, RequireGroup, Take
<1>2. nextMember \in Nat /\ nextMember \in 0 .. applied /\ applied \in Nat
  BY DEF RInv, RegistryTypeOK
<1>3. current \in Scopes /\ current \in 1 .. Len(chain)
  BY BoundsAssumption DEF RInv, PlaceInv, Scopes
<1>4. /\ m \in Keys /\ m.ordinal = nextMember + 1 /\ m.type = e /\ m.scope = current
      /\ m.private = FALSE
  BY <1>1, <1>2, <1>3 DEF MemberKey, Key, Keys
<1>5. m \notin DOMAIN providers /\ m.ordinal > 0
  BY <1>2, <1>4 DEF RInv, GroupInv
<1>6. RegisterGroup(e, ks, deps) /\ deps \in Seq(Ids)
  <2>1. CASE AddMember(o)
    BY <1>1, <2>1 DEF AddMember
  <2>2. CASE ~AddMember(o)
    <3>1. << >> \in Seq(Ids)
      OBVIOUS
    <3> QED BY <2>2, <3>1 DEF InitGroup, RequireGroup
  <2> QED BY <2>1, <2>2
<1>7. /\ nextMember' = IF AddMember(o) THEN nextMember + 1 ELSE nextMember
      /\ members' = IF AddMember(o) THEN [members EXCEPT ![e] = Append(@, m)] ELSE members
      /\ required' \subseteq required \cup {e} /\ registered' = registered \cup {e}
      /\ UNCHANGED <<values, privateScopes, placement, invokers>>
  <2>1. CASE AddMember(o)
    BY <2>1 DEF AddMember, RegisterGroup
  <2>2. CASE ~AddMember(o)
    <3>1. CASE InitGroup(o)
      BY <2>2, <3>1 DEF InitGroup, RegisterGroup
    <3>2. CASE RequireGroup(o)
      BY <2>2, <3>2 DEF RequireGroup, RegisterGroup
    <3> QED BY <2>2, <3>1, <3>2
  <2> QED BY <2>1, <2>2
<1>8. e \notin registered => Absent(VirtualKey(e))
  <2> SUFFICES ASSUME e \notin registered PROVE Absent(VirtualKey(e))
    OBVIOUS
  <2>2. \A id \in {GroupOf[e], Arc[GroupOf[e]]} : ~Conflict(id, Root, FALSE)
    <3>1. o.kind \notin {"provide", "supply"}
      BY <1>1
    <3> QED BY <1>1, <3>1 DEF Free, Claim
  <2>3. /\ Offers(VirtualKey(e)) = {GroupOf[e], Arc[GroupOf[e]]}
        /\ VirtualKey(e).scope = Root /\ VirtualKey(e).private = FALSE
    BY <1>1, VirtualIsBinding
  <2> QED BY <2>2, <2>3 DEF Absent
<1>9. (M = {} /\ ks = << >>) \/ (M = {m} /\ ks = <<m>>)
  OBVIOUS
<1>10. AddMember(o) => M = {m}
  OBVIOUS
<1>11. ~AddMember(o) => M = {}
  OBVIOUS
<1> HIDE DEF e, m, M, ks, deps
<1>12. /\ ValuesInv' /\ StockInv' /\ IndexInv' /\ OneBindingPerPlace' /\ KeysInv' /\ OrderInv'
       /\ VirtualKey(e) \in DOMAIN providers'
       /\ \A k \in DOMAIN providers' : k \in DOMAIN providers \/ k = VirtualKey(e) \/ k \in M
       /\ DOMAIN providers \subseteq DOMAIN providers' /\ M \subseteq DOMAIN providers'
       /\ \A l \in DOMAIN providers' : l \in DOMAIN providers \/ l \notin accepted
       /\ DOMAIN providers' \subseteq Keys
       /\ \A k \in DOMAIN providers' : providers'[k] \in Seq(Ids)
       /\ publicIndex' \in [Ids -> DOMAIN providers' \cup {None}]
       /\ privateAlias' \in [Ids \X Scopes -> DOMAIN providers' \cup {None}]
       /\ order' \in Seq(DOMAIN providers')
       /\ accepted' \subseteq Keys
  <2>1. m.scope \in 1 .. Len(chain)
    BY <1>3, <1>4
  <2> QED BY <1>1, <1>4, <1>5, <1>6, <1>8, <1>9, <2>1, RegisterKeeps
<1>13. members \in [Elements -> Seq(DOMAIN providers)] /\ registered \subseteq Elements
       /\ required \subseteq registered
  BY DEF RInv, RegistryTypeOK
<1>14. /\ members' \in [Elements -> Seq(DOMAIN providers')]
       /\ \A d \in Elements : Range(members'[d]) =
            IF d = e THEN Range(members[d]) \cup M ELSE Range(members[d])
  <2>0. \A d \in Elements : members[d] \in Seq(DOMAIN providers) /\ members[d] \in Seq(DOMAIN providers')
    BY <1>12, <1>13
  <2>1. CASE AddMember(o)
    <3>1. members' = [members EXCEPT ![e] = Append(members[e], m)] /\ M = {m}
      BY <1>7, <1>10, <2>1
    <3>2. \A d \in Elements : members'[d] = IF d = e THEN Append(members[e], m) ELSE members[d]
      BY <1>13, <3>1
    <3>3. Append(members[e], m) \in Seq(DOMAIN providers')
      BY <1>1, <1>12, <2>0, <3>1
    <3>4. Range(Append(members[e], m)) = Range(members[e]) \cup {m}
      BY <1>1, <2>0, RangeAppend
    <3>5. members' \in [Elements -> Seq(DOMAIN providers')]
      BY <1>13, <2>0, <3>1, <3>3
    <3> QED BY <3>1, <3>2, <3>4, <3>5
  <2>2. CASE ~AddMember(o)
    BY <1>7, <1>11, <1>13, <2>0, <2>2
  <2> QED BY <2>1, <2>2
<1>15. GroupInv'
  <2>1. \A d \in registered' : VirtualKey(d) \in DOMAIN providers'
    BY <1>7, <1>12 DEF RInv, GroupInv
  <2>2. ASSUME NEW k \in DOMAIN providers', k.ordinal > 0
        PROVE  /\ k.private = FALSE /\ k.ordinal <= nextMember'
               /\ k.type \in registered' /\ k \in Range(members'[k.type])
    <3>1. VirtualKey(e).ordinal = 0
      BY <1>1, VirtualIsBinding
    <3>2. CASE k \in DOMAIN providers
      <4>1. /\ k.private = FALSE /\ k.ordinal <= nextMember
            /\ k.type \in registered /\ k \in Range(members[k.type])
        BY <2>2, <3>2 DEF RInv, GroupInv
      <4>2. k.ordinal \in Nat /\ nextMember <= nextMember' /\ nextMember' \in Nat
        BY <1>2, <1>7, <3>2 DEF RInv, RegistryTypeOK, Keys
      <4>3. k.ordinal <= nextMember'
        BY <1>2, <4>1, <4>2
      <4> QED BY <1>7, <1>13, <1>14, <4>1, <4>3
    <3>3. CASE k \in M
      <4>1. AddMember(o) /\ k = m
        BY <1>10, <1>11, <3>3
      <4>2. k.private = FALSE /\ k.type = e /\ k.ordinal <= nextMember'
        BY <1>2, <1>4, <1>7, <4>1
      <4>3. Range(members'[e]) = Range(members[e]) \cup M
        BY <1>1, <1>14 DEF e
      <4>4. e \in registered'
        BY <1>7
      <4> QED BY <3>3, <4>2, <4>3, <4>4
    <3>4. k # VirtualKey(e)
      BY <2>2, <3>1
    <3> QED BY <1>12, <3>2, <3>3, <3>4
  <2>3. ASSUME NEW d \in Elements, NEW k \in Range(members'[d])
        PROVE  k \in DOMAIN providers' /\ k.ordinal > 0 /\ k.type = d
    <3>1. CASE k \in Range(members[d])
      BY <1>12, <3>1 DEF RInv, GroupInv
    <3>2. CASE d = e /\ k \in M
      <4>1. k = m
        BY <1>10, <1>11, <3>2
      <4> QED BY <1>4, <1>5, <1>12, <3>2, <4>1
    <3> QED BY <1>14, <3>1, <3>2
  <2> QED BY <2>1, <2>2, <2>3 DEF GroupInv
<1>16. RegistryTypeOK'
  <2>1. chain' \in Seq(Seq(Scopes)) /\ Len(chain') \in Scopes /\ current' \in DOMAIN chain'
    BY DEF PlaceInv
  <2>2. UNCHANGED <<valuesPublic, valuesPrivate, chain>>
    BY <1>7 DEF values, placement
  <2>3. applied' \in 0 .. MaxOptions /\ nextMember' \in 0 .. applied'
    BY <1>1, <1>2, <1>7, BoundsAssumption
  <2>4. registered' \subseteq Elements /\ required' \subseteq registered'
    BY <1>1, <1>7, <1>13
  <2>5. /\ valuesPublic' \in [Ids -> Keys \cup {None}]
        /\ valuesPrivate' \in [Ids \X Scopes -> Keys \cup {None}]
        /\ privateScopes' \subseteq DOMAIN chain'
        /\ invokers' \in Seq([scope : Scopes, deps : Seq(Ids)])
    BY <1>7, <2>2 DEF RInv, RegistryTypeOK
  <2> QED BY <1>12, <1>14, <2>1, <2>3, <2>4, <2>5 DEF RegistryTypeOK
<1>17. Unbuilt => Unbuilt'
  BY <1>7, <1>12, <1>16, StaysUnbuilt
<1> QED BY <1>12, <1>15, <1>16, <1>17 DEF RInv

\* An option that binds nothing, or none.
LEMMA OthersKeep ==
  ASSUME RInv, PlaceInv', [Apply]_registryVars,
         ~ \E o \in Options :
             Provide(o) \/ Supply(o) \/ AddMember(o) \/ InitGroup(o) \/ RequireGroup(o)
  PROVE  RInv' /\ (Unbuilt => Unbuilt')
<1>1. \/ OpenModule \/ CloseModule \/ UNCHANGED registryVars
      \/ \E o \in Options : AddInvoker(o) \/ Refuse(o)
  BY DEF Apply
<1>2. /\ UNCHANGED <<values, indices, groups, privateScopes, accepted>>
      /\ chain' = chain \/ OpenModule
      /\ applied' = applied \/ (applied' = applied + 1 /\ applied < MaxOptions)
      /\ UNCHANGED invokers \/ \E o \in Options : AddInvoker(o)
  BY <1>1 DEF OpenModule, CloseModule, AddInvoker, Refuse, Take, registryVars, container, placement
<1>3. UNCHANGED <<valuesPublic, valuesPrivate, providers, publicIndex, privateAlias, order,
                  members, registered, required, nextMember, privateScopes, accepted>>
  BY <1>2 DEF values, indices, groups
<1>4. 1 .. Len(chain) \subseteq 1 .. Len(chain')
  <2>1. CASE OpenModule
    <3>1. chain \in Seq(Seq(Scopes)) /\ chain' = Append(chain, <<Len(chain) + 1>> \o chain[current])
      BY <2>1 DEF OpenModule, RInv, PlaceInv
    <3>2. Len(chain') = Len(chain) + 1 /\ Len(chain) \in Nat
      BY <3>1
    <3> QED BY <3>2
  <2> QED BY <1>2, <2>1
<1>5. invokers' \in Seq([scope : Scopes, deps : Seq(Ids)])
      /\ \A n \in DOMAIN invokers' : invokers'[n].scope \in 1 .. Len(chain')
  <2>1. /\ invokers \in Seq([scope : Scopes, deps : Seq(Ids)])
        /\ \A n \in DOMAIN invokers : invokers[n].scope \in 1 .. Len(chain)
    BY DEF RInv, RegistryTypeOK, KeysInv
  <2>2. CASE UNCHANGED invokers
    BY <1>4, <2>1, <2>2
  <2>3. CASE \E o \in Options : AddInvoker(o)
    <3>1. PICK o \in Options : AddInvoker(o)
      BY <2>3
    <3> DEFINE i == [scope |-> current, deps |-> o.deps]
    <3>2. invokers' = Append(invokers, i) /\ o.deps \in Seq(Ids)
      BY <3>1, OptionsAssumption DEF AddInvoker, Take
    <3>3. i \in [scope : Scopes, deps : Seq(Ids)] /\ i.scope \in 1 .. Len(chain)
      BY <3>2, BoundsAssumption DEF RInv, PlaceInv, Scopes
    <3> HIDE DEF i
    <3>4. /\ invokers' \in Seq([scope : Scopes, deps : Seq(Ids)])
          /\ \A n \in DOMAIN invokers' :
               (n \in DOMAIN invokers /\ invokers'[n] = invokers[n]) \/ invokers'[n] = i
      BY <2>1, <3>2, <3>3
    <3> QED BY <1>4, <2>1, <3>3, <3>4
  <2> QED BY <1>2, <2>2, <2>3
<1>6. ValuesInv' /\ StockInv' /\ IndexInv' /\ OneBindingPerPlace'
  <2> DEFINE M == {}
  <2>1. DOMAIN providers' = DOMAIN providers \cup M /\ \A m \in M : m.ordinal > 0
    BY <1>3
  <2> HIDE DEF M
  <2> QED BY <1>2, <1>3, <2>1, BindsNothing
<1>7. KeysInv'
  BY <1>3, <1>4, <1>5 DEF RInv, KeysInv
<1>8. GroupInv' /\ OrderInv'
  BY <1>3 DEF RInv, GroupInv, OrderInv
<1>9. RegistryTypeOK'
  <2>1. chain' \in Seq(Seq(Scopes)) /\ Len(chain') \in Scopes /\ current' \in DOMAIN chain'
    BY DEF PlaceInv
  <2>2. DOMAIN chain = 1 .. Len(chain) /\ DOMAIN chain' = 1 .. Len(chain')
    BY DEF RInv, PlaceInv
  <2>3. privateScopes' \subseteq DOMAIN chain'
    BY <1>3, <1>4, <2>2 DEF RInv, RegistryTypeOK
  <2>4. applied' \in 0 .. MaxOptions /\ nextMember' \in 0 .. applied'
    BY <1>2, <1>3, BoundsAssumption DEF RInv, RegistryTypeOK
  <2>5. /\ valuesPublic' \in [Ids -> Keys \cup {None}]
        /\ valuesPrivate' \in [Ids \X Scopes -> Keys \cup {None}]
        /\ DOMAIN providers' \subseteq Keys /\ \A k \in DOMAIN providers' : providers'[k] \in Seq(Ids)
        /\ publicIndex' \in [Ids -> DOMAIN providers' \cup {None}]
        /\ privateAlias' \in [Ids \X Scopes -> DOMAIN providers' \cup {None}]
        /\ order' \in Seq(DOMAIN providers')
        /\ members' \in [Elements -> Seq(DOMAIN providers')]
        /\ registered' \subseteq Elements /\ required' \subseteq registered'
        /\ accepted' \subseteq Keys
    BY <1>3 DEF RInv, RegistryTypeOK
  <2> QED BY <1>5, <2>1, <2>3, <2>4, <2>5 DEF RegistryTypeOK
<1>10. Unbuilt => Unbuilt'
  BY <1>3 DEF Unbuilt
<1> QED BY <1>6, <1>7, <1>8, <1>9, <1>10 DEF RInv

\* The scope tree grows by children of the current scope; a module is left for its
\* parent.
LEMMA ApplyPlaces ==
  ASSUME PlaceInv, [Apply]_registryVars PROVE PlaceInv'
<1>1. CASE OpenModule
  <2> DEFINE n == Len(chain)
             new == <<n + 1>> \o chain[current]
  <2>1. n \in Nat /\ n >= 1 /\ n + 1 \in Scopes /\ chain[current] \in Seq(Scopes)
    BY <1>1, BoundsAssumption DEF OpenModule, PlaceInv, Scopes
  <2>2. /\ new \in Seq(Scopes) /\ Len(new) = Len(chain[current]) + 1 /\ new[1] = n + 1
        /\ \A m \in 2 .. Len(new) : new[m] = chain[current][m - 1]
    BY <2>1
  <2>3. \A m \in 1 .. Len(new) : new[m] \in 1 .. n + 1
    BY <2>1, <2>2 DEF PlaceInv
  <2>4. /\ chain' \in Seq(Seq(Scopes)) /\ Len(chain') = n + 1 /\ chain'[n + 1] = new
        /\ \A s \in 1 .. n : chain'[s] = chain[s]
    BY <1>1, <2>1, <2>2 DEF OpenModule, PlaceInv
  <2>5. current' = n + 1
    BY <1>1 DEF OpenModule
  <2>6. ASSUME NEW s \in 1 .. Len(chain')
        PROVE  /\ Len(chain'[s]) >= 1
               /\ s # Root => Len(chain'[s]) >= 2
               /\ \A m \in 1 .. Len(chain'[s]) : chain'[s][m] \in 1 .. Len(chain')
    <3> HIDE DEF new
    <3>1. CASE s = n + 1
      <4>1. chain'[s] = new /\ Len(chain') = n + 1
        BY <2>4, <3>1
      <4>2. Len(chain[current]) \in Nat /\ Len(chain[current]) >= 1
        BY <2>1 DEF PlaceInv
      <4> QED BY <2>2, <2>3, <4>1, <4>2
    <3>2. CASE s \in 1 .. n
      <4>1. chain'[s] = chain[s] /\ Len(chain') = n + 1 /\ s \in 1 .. Len(chain)
        BY <2>4, <3>2
      <4>2. \A m \in 1 .. Len(chain[s]) : chain[s][m] \in 1 .. n
        BY <4>1 DEF PlaceInv
      <4>3. \A m \in 1 .. Len(chain[s]) : chain[s][m] \in 1 .. n + 1
        BY <2>1, <4>2
      <4> QED BY <4>1, <4>3 DEF PlaceInv
    <3> QED BY <2>1, <2>4, <3>1, <3>2
  <2> HIDE DEF n, new
  <2> QED BY <2>1, <2>4, <2>5, <2>6 DEF PlaceInv
<1>2. CASE CloseModule
  BY <1>2 DEF CloseModule, PlaceInv
<1>3. CASE \E o \in Options : Refuse(o)
  BY <1>3 DEF Refuse, PlaceInv, Root, Scopes
<1>4. CASE UNCHANGED placement
  BY <1>4 DEF placement, PlaceInv
<1> QED
  BY <1>1, <1>2, <1>3, <1>4
  DEF Apply, Provide, Supply, AddMember, InitGroup, RequireGroup, RegisterGroup, AddInvoker,
      registryVars, container

\* What is refused collides with a binding; accepted bindings stay.
LEMMA ApplyRefuses ==
  ASSUME RInv, RefusalIsJustified, [Apply]_registryVars PROVE RefusalIsJustified'
<1>1. accepted \subseteq accepted'
  BY DEF Apply, OpenModule, CloseModule, Provide, Supply, AddMember, InitGroup, RequireGroup,
         RegisterGroup, AddInvoker, Refuse, registryVars
<1>2. CASE UNCHANGED refused
  BY <1>1, <1>2 DEF RefusalIsJustified
<1>3. CASE \E o \in Options : Refuse(o)
  <2>1. PICK o \in Options : Refuse(o)
    BY <1>3
  <2> DEFINE c == Claim(o)
  <2>2. refused' = c /\ UNCHANGED accepted /\ o.kind # "invoke"
    BY <2>1 DEF Refuse, Free, Claim
  <2>3. PICK id \in c.ids : Conflict(id, c.scope, c.private)
    BY <2>1 DEF Refuse, Free
  <2>4. id \in Ids /\ c.scope \in Scopes /\ c.private \in BOOLEAN
    <3>1. CASE o.kind \in {"provide", "supply"}
      <4>1. c.ids = {o.type, Arc[o.type]} /\ c.scope = current /\ c.private = o.private
        BY <3>1 DEF Claim
      <4>2. o.type \in Produced /\ o.private \in BOOLEAN
        BY <3>1, OptionsAssumption DEF Produced
      <4>3. current \in Scopes
        BY BoundsAssumption DEF RInv, PlaceInv, Scopes
      <4> QED BY <2>3, <4>1, <4>2, <4>3, TypesAssumption DEF Ids
    <3>2. CASE o.kind \in {"member", "init", "require"}
      <4>1. c.ids \subseteq {GroupOf[o.element], Arc[GroupOf[o.element]]}
        BY <3>2 DEF Claim
      <4>2. c.scope = Root /\ c.private = FALSE
        BY <3>2 DEF Claim
      <4>3. GroupOf[o.element] \in Produced /\ Root \in Scopes
        BY <3>2, OptionsAssumption, BoundsAssumption DEF Produced, Groups, Root, Scopes
      <4> QED BY <2>3, <4>1, <4>2, <4>3, TypesAssumption DEF Ids
    <3> QED BY <2>2, <3>1, <3>2, OptionsAssumption
  <2> HIDE DEF c
  <2>5. \E k \in accepted :
          k.private = c.private /\ (c.private => k.scope = c.scope) /\ id \in Offers(k)
    <3>1. CASE c.private = TRUE
      <4>1. PrivateFor(id, c.scope) # {}
        BY <2>3, <2>4, <3>1, Conflicts
      <4> QED BY <3>1, <4>1, BindingIs DEF PrivateFor, Binds, RInv, KeysInv
    <3>2. CASE c.private = FALSE
      <4>1. PublicFor(id) # {}
        BY <2>3, <2>4, <3>2, Conflicts
      <4> QED BY <3>2, <4>1, BindingIs DEF PublicFor, RInv, KeysInv
    <3> QED BY <2>4, <3>1, <3>2
  <2> QED BY <2>2, <2>3, <2>5 DEF RefusalIsJustified
<1> QED
  BY <1>2, <1>3
  DEF Apply, OpenModule, CloseModule, Provide, Supply, AddMember, InitGroup, RequireGroup,
      RegisterGroup, AddInvoker, registryVars

\* Whatever is applied.
LEMMA ApplyKeeps ==
  ASSUME RInv, [Apply]_registryVars
  PROVE  RInv' /\ (Unbuilt => Unbuilt')
<1>1. PlaceInv'
  BY ApplyPlaces DEF RInv
<1>2. CASE \E o \in Options :
            Provide(o) \/ Supply(o) \/ AddMember(o) \/ InitGroup(o) \/ RequireGroup(o)
  BY <1>1, <1>2, ProvideKeeps, SupplyKeeps, GroupKeeps
<1>3. CASE ~ \E o \in Options :
              Provide(o) \/ Supply(o) \/ AddMember(o) \/ InitGroup(o) \/ RequireGroup(o)
  BY <1>1, <1>3, OthersKeep
<1> QED BY <1>2, <1>3

\* The container with what the application supplies itself.
LEMMA InitHolds ==
  ASSUME RegistryInit PROVE RInv /\ Unbuilt /\ RefusalIsJustified
<1> USE DEF RegistryInit
<1>1. Root \in Scopes /\ Root = 1
  BY BoundsAssumption DEF Root, Scopes
<1>2. \A b \in Builtins : b \in Produced /\ b \in Ids /\ Arc[b] \in Ids
  BY TypesAssumption DEF Produced, Ids
<1>3. /\ chain = << <<1>> >> /\ chain \in Seq(Seq(Scopes)) /\ Len(chain) = 1
      /\ Len(chain[1]) = 1 /\ chain[1][1] = 1 /\ current = 1 /\ Len(chain) \in Scopes
  <2>1. <<1>> \in Seq(Scopes)
    BY <1>1
  <2> QED BY <1>1, <2>1
<1>4. PlaceInv
  <2>1. ASSUME NEW s \in 1 .. Len(chain)
        PROVE  /\ Len(chain[s]) >= 1 /\ s = 1
               /\ \A n \in 1 .. Len(chain[s]) : chain[s][n] \in 1 .. Len(chain)
    <3>1. s = 1
      BY <1>3
    <3>2. \A n \in 1 .. Len(chain[s]) : n = 1
      BY <1>3, <3>1
    <3> QED BY <1>3, <3>1, <3>2
  <2> HIDE DEF RegistryInit
  <2> QED BY <1>1, <1>3, <2>1 DEF PlaceInv
<1>5. ASSUME NEW b \in Builtins
      PROVE  /\ Singleton(b, Root, FALSE) \in Bindings /\ Singleton(b, Root, FALSE) \in Keys
             /\ Singleton(b, Root, FALSE) # None /\ Singleton(b, Root, FALSE).private = FALSE
             /\ Singleton(b, Root, FALSE).scope = 1
             /\ Offers(Singleton(b, Root, FALSE)) = {b, Arc[b]}
  <2>1. b \in Produced /\ FALSE \in BOOLEAN
    BY <1>2
  <2>2. Singleton(b, Root, FALSE) \in Bindings
    BY <1>1, <2>1, SingletonIsBinding
  <2>3. /\ Singleton(b, Root, FALSE).type = b /\ Singleton(b, Root, FALSE).private = FALSE
        /\ Singleton(b, Root, FALSE).scope = 1
    BY <1>1 DEF Singleton, Key
  <2> QED BY <2>2, <2>3, BindingIs
<1>6. /\ accepted = {Singleton(b, Root, FALSE) : b \in Builtins}
      /\ DOMAIN providers = {} /\ privateScopes = {} /\ registered = {} /\ required = {}
      /\ nextMember = 0 /\ applied = 0 /\ invokers = << >> /\ order = << >>
      /\ \A e \in Elements : members[e] = << >>
      /\ \A id \in Ids : publicIndex[id] = None
      /\ \A id \in Ids, s \in Scopes :
           privateAlias[<<id, s>>] = None /\ valuesPrivate[<<id, s>>] = None
  OBVIOUS
<1>7. ASSUME NEW id \in Ids
      PROVE  \/ valuesPublic[id] = None /\ \A b \in Builtins : id \notin {b, Arc[b]}
             \/ \E b \in Builtins : id \in {b, Arc[b]}
                                  /\ valuesPublic[id] = Singleton(b, Root, FALSE)
  <2> DEFINE c == CHOOSE b \in Builtins : id \in {b, Arc[b]}
  <2>1. valuesPublic[id] = IF \E b \in Builtins : id \in {b, Arc[b]}
                           THEN Singleton(c, Root, FALSE) ELSE None
    OBVIOUS
  <2>2. (\E b \in Builtins : id \in {b, Arc[b]}) => c \in Builtins /\ id \in {c, Arc[c]}
    OBVIOUS
  <2> HIDE DEF c, RegistryInit
  <2> QED BY <2>1, <2>2
<1>8. RegistryTypeOK
  <2>1. valuesPublic \in [Ids -> Keys \cup {None}]
    <3>1. \A id \in Ids : valuesPublic[id] \in Keys \cup {None}
      BY <1>5, <1>7
    <3>2. valuesPublic = [id \in Ids |-> valuesPublic[id]]
      OBVIOUS
    <3> HIDE DEF RegistryInit
    <3> QED BY <3>1, <3>2
  <2>2. accepted \subseteq Keys
    BY <1>5, <1>6
  <2>3. /\ valuesPrivate \in [Ids \X Scopes -> Keys \cup {None}]
        /\ publicIndex \in [Ids -> DOMAIN providers \cup {None}]
        /\ privateAlias \in [Ids \X Scopes -> DOMAIN providers \cup {None}]
    OBVIOUS
  <2>4. members \in [Elements -> Seq(DOMAIN providers)] /\ order \in Seq(DOMAIN providers)
    <3>1. << >> \in Seq(DOMAIN providers)
      OBVIOUS
    <3> QED BY <3>1
  <2>5. invokers \in Seq([scope : Scopes, deps : Seq(Ids)])
    OBVIOUS
  <2>6. nextMember \in 0 .. applied /\ applied \in 0 .. MaxOptions
    BY BoundsAssumption
  <2> HIDE DEF RegistryInit
  <2>7. DOMAIN chain = {1}
    BY <1>3
  <2>8. current \in DOMAIN chain /\ privateScopes \subseteq DOMAIN chain
    BY <1>3, <1>6, <2>7
  <2>9. /\ DOMAIN providers \subseteq Keys /\ \A k \in DOMAIN providers : providers[k] \in Seq(Ids)
        /\ registered \subseteq Elements /\ required \subseteq registered
    BY <1>6
  <2> QED BY <1>3, <2>1, <2>2, <2>3, <2>4, <2>5, <2>6, <2>8, <2>9 DEF RegistryTypeOK
<1> HIDE DEF RegistryInit
<1>9. KeysInv
  <2>1. \A k \in accepted : k \in Bindings /\ k.scope = 1 /\ k.private = FALSE
    BY <1>5, <1>6
  <2>2. 1 \in 1 .. Len(chain)
    BY <1>3
  <2>3. DOMAIN invokers = {}
    BY <1>6
  <2> QED BY <1>6, <2>1, <2>2, <2>3 DEF KeysInv
<1>10. ValuesInv
  <2>1. ASSUME NEW id \in Ids PROVE valuesPublic[id] = None \/ valuesPublic[id] \in PublicFor(id)
    BY <1>5, <1>6, <1>7 DEF PublicFor
  <2> QED BY <1>6, <2>1 DEF ValuesInv
<1>11. StockInv
  <2>1. ASSUME NEW b \in Builtins, NEW id \in {b, Arc[b]} PROVE valuesPublic[id] # None
    <3>1. id \in Ids
      BY <1>2
    <3>2. CASE \E c \in Builtins : id \in {c, Arc[c]} /\ valuesPublic[id] = Singleton(c, Root, FALSE)
      BY <1>5, <3>2
    <3>3. CASE \A c \in Builtins : id \notin {c, Arc[c]}
      BY <3>3
    <3> QED BY <1>7, <3>1, <3>2, <3>3
  <2>2. ASSUME NEW b \in Builtins PROVE Held(Singleton(b, Root, FALSE))
    <3>1. PICK k : k = Singleton(b, Root, FALSE)
      OBVIOUS
    <3>2. k.private = FALSE /\ Offers(k) = {b, Arc[b]}
      BY <1>5, <3>1
    <3>3. Held(k)
      BY <2>1, <3>2 DEF Held
    <3> QED BY <3>1, <3>3
  <2> QED BY <1>6, <2>2 DEF StockInv
<1>12. IndexInv
  BY <1>6 DEF IndexInv
<1>13. GroupInv
  <2>1. \A e \in Elements : Range(members[e]) = {}
    BY <1>6 DEF Range
  <2> QED BY <1>6, <2>1 DEF GroupInv
<1>14. OrderInv
  <2>1. DOMAIN order = {}
    BY <1>6
  <2> QED BY <1>6, <2>1 DEF OrderInv, IsInjective, Range
<1>15. OneBindingPerPlace
  <2> SUFFICES ASSUME NEW k \in accepted, NEW l \in accepted, k # l
               PROVE  Offers(k) \cap Offers(l) = {}
    BY DEF OneBindingPerPlace
  <2>1. PICK b \in Builtins : k = Singleton(b, Root, FALSE)
    BY <1>6
  <2>2. PICK c \in Builtins : l = Singleton(c, Root, FALSE)
    BY <1>6
  <2>3. Offers(k) = {b, Arc[b]} /\ Offers(l) = {c, Arc[c]}
    BY <1>5, <2>1, <2>2
  <2>4. b # c /\ Arc[b] # c /\ Arc[c] # b /\ Arc[b] # Arc[c]
    BY <1>2, <2>1, <2>2, TypesAssumption
  <2> QED BY <2>3, <2>4
<1>16. Unbuilt
  BY <1>6 DEF Unbuilt
<1>17. RefusalIsJustified
  BY DEF RefusalIsJustified, RegistryInit
<1> QED
  BY <1>4, <1>8, <1>9, <1>10, <1>11, <1>12, <1>13, <1>14, <1>15, <1>16, <1>17 DEF RInv

-----------------------------------------------------------------------------

\* What the container holds is typed, in its place, and what was accepted.
THEOREM Invariant == RegistrySpec => [](RInv /\ Unbuilt /\ RefusalIsJustified)
<1>1. RInv /\ Unbuilt /\ RefusalIsJustified /\ [Apply]_registryVars
        => RInv' /\ Unbuilt' /\ RefusalIsJustified'
  BY ApplyKeeps, ApplyRefuses
<1> QED BY <1>1, InitHolds, PTL DEF RegistrySpec

\* The tables of the container hold keys under ids and scopes of the program.
THEOREM RegistryTypes == RegistrySpec => []RegistryTypeOK
<1>1. RInv => RegistryTypeOK
  BY DEF RInv
<1> QED BY <1>1, Invariant, PTL

\* From every scope and for every id, the four lookups agree with the rule of visibility
\* and with each other: validate accepts what the build will find.
THEOREM LookupsAreVisible == RegistrySpec => []LookupsFollowVisibility
<1>1. RInv /\ Unbuilt => LookupsFollowVisibility
  BY LookupsAgree
<1> QED BY <1>1, Invariant, PTL

\* No two accepted bindings offer one id in one place, whatever is provided, supplied
\* or grouped, as T or as Arc<T>, in whatever nesting of modules.
THEOREM BindingsAreUnique == RegistrySpec => []OneBindingPerPlace
<1>1. RInv => OneBindingPerPlace
  BY DEF RInv
<1> QED BY <1>1, Invariant, PTL

\* Every refusal names a binding that is really there.
THEOREM RefusalsAreJust == RegistrySpec => []RefusalIsJustified
  BY Invariant, PTL

=============================================================================
