----------------------------- MODULE LayersProofs -----------------------------
(***************************************************************************)
(* Validation accepts a wiring exactly if nothing is wrong with it, and    *)
(* the layers that it freezes hold every constructor once, after all that  *)
(* it needs: for any types, options and nesting of modules.                *)
(***************************************************************************)
EXTENDS Layers, RegistryProofs

-----------------------------------------------------------------------------
(* Recursion. *)

\* Less orders D, and every part of D has a least element: there is no infinite descent.
WellFounded(D, Less) ==
  /\ \A x, y, z \in D : <<x, y>> \in Less /\ <<y, z>> \in Less => <<x, z>> \in Less
  /\ \A T \in SUBSET D : T # {} => \E x \in T : \A y \in T : <<y, x>> \notin Less

\* body computes a value in V at each place of D from the values at earlier places.
Determined(D, Less, V, body) ==
  /\ V # {} /\ body \in [D -> [[D -> V] -> V]]
  /\ \A x \in D : \A g, h \in [D -> V] :
       (\A y \in D : <<y, x>> \in Less => g[y] = h[y]) => body[x][g] = body[x][h]

\* A recursion on such an order has a solution.
LEMMA Recursion ==
  ASSUME NEW D, NEW Less, NEW V, NEW body, WellFounded(D, Less), Determined(D, Less, V, body)
  PROVE  \E f \in [D -> V] : \A x \in D : f[x] = body[x][f]
<1>a. PICK v0 \in V : TRUE
  BY DEF Determined
<1>b. /\ body \in [D -> [[D -> V] -> V]]
      /\ \A x \in D : \A g, h \in [D -> V] :
           (\A y \in D : <<y, x>> \in Less => g[y] = h[y]) => body[x][g] = body[x][h]
  BY DEF Determined
<1> USE <1>b
<1> DEFINE Upto(y, x) == y = x \/ <<y, x>> \in Less
           Solves(g, x) == \A y \in D : Upto(y, x) => g[y] = body[y][g]
           Solution(x) == CHOOSE g \in [D -> V] : Solves(g, x)
           Solved(x) == \E g \in [D -> V] : Solves(g, x)
<1>1. ASSUME NEW x \in D, NEW y \in D, NEW z \in D, <<z, y>> \in Less, Upto(y, x)
      PROVE  <<z, x>> \in Less
  BY <1>1 DEF WellFounded
<1>2. ASSUME NEW x \in D PROVE <<x, x>> \notin Less
  <2>1. {x} \in SUBSET D /\ {x} # {}
    OBVIOUS
  <2> QED BY <2>1 DEF WellFounded
<1>3. ASSUME NEW x \in D, NEW g \in [D -> V], NEW h \in [D -> V], Solves(g, x), Solves(h, x)
      PROVE  g[x] = h[x]
  <2> DEFINE T == {y \in D : Upto(y, x) /\ g[y] # h[y]}
  <2>1. SUFFICES ASSUME T # {} PROVE FALSE
    OBVIOUS
  <2>2. PICK y \in T : \A z \in T : <<z, y>> \notin Less
    <3> HIDE DEF Upto
    <3>1. T \in SUBSET D
      OBVIOUS
    <3> HIDE DEF T
    <3> QED BY <2>1, <3>1 DEF WellFounded
  <2>3. \A z \in D : <<z, y>> \in Less => g[z] = h[z]
    BY <1>1, <2>2
  <2>4. body[y][g] = body[y][h]
    BY <2>3
  <2> QED BY <1>3, <2>2, <2>4
<1>4. ASSUME NEW x \in D, Solved(x)
      PROVE  /\ Solution(x) \in [D -> V] /\ Solves(Solution(x), x)
             /\ \A y \in D : <<y, x>> \in Less => Solved(y) /\ Solution(x)[y] = Solution(y)[y]
  <2>1. Solution(x) \in [D -> V] /\ Solves(Solution(x), x)
    <3> HIDE DEF Solves
    <3> QED BY <1>4
  <2> HIDE DEF Solution
  <2>2. ASSUME NEW y \in D, <<y, x>> \in Less
        PROVE  Solved(y) /\ Solution(x)[y] = Solution(y)[y]
    <3>1. Solves(Solution(x), y)
      BY <1>1, <2>1, <2>2
    <3>2. Solved(y)
      BY <2>1, <3>1
    <3>3. Solution(y) \in [D -> V] /\ Solves(Solution(y), y)
      <4> HIDE DEF Solves
      <4> QED BY <3>2 DEF Solution
    <3> HIDE DEF Solves
    <3> QED BY <1>3, <2>1, <3>1, <3>2, <3>3
  <2> QED BY <2>1, <2>2
<1> HIDE DEF Solution
<1>5. ASSUME NEW x \in D, \A y \in D : <<y, x>> \in Less => Solved(y) PROVE Solved(x)
  <2> DEFINE G == [y \in D |-> IF <<y, x>> \in Less THEN Solution(y)[y] ELSE v0]
             H == [y \in D |-> IF y = x THEN body[x][G] ELSE G[y]]
  <2>1. G \in [D -> V]
    <3>1. \A y \in D : <<y, x>> \in Less => Solution(y)[y] \in V
      <4> HIDE DEF Solved, Solves
      <4>1. \A y \in D : <<y, x>> \in Less => Solution(y) \in [D -> V]
        BY <1>4, <1>5
      <4> QED BY <4>1
    <3> QED BY <3>1
  <2>2. H \in [D -> V] /\ H[x] = body[x][G] /\ \A y \in D : <<y, x>> \in Less => H[y] = Solution(y)[y]
    <3>1. \A y \in D : <<y, x>> \in Less => y # x
      BY <1>2
    <3> HIDE DEF G
    <3>2. body[x][G] \in V
      <4>1. body[x] \in [[D -> V] -> V]
        OBVIOUS
      <4> QED BY <2>1, <4>1
    <3>3. H \in [D -> V] /\ H[x] = body[x][G] /\ \A y \in D : <<y, x>> \in Less => H[y] = G[y]
      BY <2>1, <3>1, <3>2
    <3> QED BY <3>3 DEF G
  <2>3. ASSUME NEW y \in D, <<y, x>> \in Less PROVE H[y] = body[y][H]
    <3>1. \A z \in D : <<z, y>> \in Less => H[z] = Solution(y)[z]
      <4> HIDE DEF H, Solved, Solves
      <4> QED BY <1>1, <1>4, <1>5, <2>2, <2>3
    <3>2. Solution(y) \in [D -> V] /\ Solution(y)[y] = body[y][Solution(y)]
      BY <1>4, <1>5, <2>3
    <3> HIDE DEF H, Solved, Solves
    <3>3. body[y][H] = body[y][Solution(y)]
      BY <2>2, <3>1, <3>2
    <3> QED BY <2>2, <2>3, <3>2, <3>3
  <2>4. body[x][G] = body[x][H]
    <3>1. \A y \in D : <<y, x>> \in Less => H[y] = G[y]
      BY <2>2
    <3> HIDE DEF G, H
    <3> QED BY <2>1, <2>2, <3>1
  <2> HIDE DEF G, H
  <2> QED BY <2>2, <2>3, <2>4
<1>6. \A x \in D : Solved(x)
  <2> DEFINE T == {x \in D : ~Solved(x)}
  <2>1. SUFFICES ASSUME T # {} PROVE FALSE
    OBVIOUS
  <2> HIDE DEF Solved
  <2>2. PICK x \in T : \A y \in T : <<y, x>> \notin Less
    <3>1. T \in SUBSET D
      OBVIOUS
    <3> HIDE DEF T
    <3> QED BY <2>1, <3>1 DEF WellFounded
  <2> QED BY <1>5, <2>2
<1> DEFINE F == [x \in D |-> Solution(x)[x]]
<1>7. F \in [D -> V]
  BY <1>4, <1>6
<1>8. ASSUME NEW x \in D PROVE F[x] = body[x][F]
  <2>1. /\ Solution(x) \in [D -> V] /\ Solution(x)[x] = body[x][Solution(x)]
        /\ \A y \in D : <<y, x>> \in Less => Solution(x)[y] = F[y]
    BY <1>4, <1>6
  <2>2. body[x][F] = body[x][Solution(x)]
    <3> HIDE DEF F
    <3> QED BY <1>7, <2>1
  <2> QED BY <2>1, <2>2
<1> QED BY <1>7, <1>8

\* The pairs of D of which the first comes earlier by its rank r and, in the same rank, by t.
Earlier(D, r, t) ==
  {p \in D \X D : r[p[1]] < r[p[2]] \/ (r[p[1]] = r[p[2]] /\ t[p[1]] < t[p[2]])}

\* Ranks do not descend for ever.
LEMMA RanksAreWellFounded ==
  ASSUME NEW D, NEW r \in [D -> Nat], NEW t \in [D -> Nat]
  PROVE  WellFounded(D, Earlier(D, r, t))
<1>1. ASSUME NEW x \in D, NEW y \in D
      PROVE  <<x, y>> \in Earlier(D, r, t) <=> r[x] < r[y] \/ (r[x] = r[y] /\ t[x] < t[y])
  BY DEF Earlier
<1>2. ASSUME NEW x \in D, NEW y \in D, NEW z \in D,
             <<x, y>> \in Earlier(D, r, t), <<y, z>> \in Earlier(D, r, t)
      PROVE  <<x, z>> \in Earlier(D, r, t)
  BY <1>1, <1>2
<1>3. ASSUME NEW T \in SUBSET D, T # {}
      PROVE  \E x \in T : \A y \in T : <<y, x>> \notin Earlier(D, r, t)
  <2>1. PICK n \in {r[x] : x \in T} : \A m \in {r[x] : x \in T} : n <= m
    <3>1. {r[x] : x \in T} \in SUBSET Nat /\ {r[x] : x \in T} # {}
      BY <1>3
    <3> QED BY <3>1, Least
  <2> DEFINE U == {x \in T : r[x] = n}
  <2>2. PICK m \in {t[x] : x \in U} : \A k \in {t[x] : x \in U} : m <= k
    <3>1. {t[x] : x \in U} \in SUBSET Nat /\ {t[x] : x \in U} # {}
      BY <1>3, <2>1
    <3> QED BY <3>1, Least
  <2>3. PICK x \in U : t[x] = m
    BY <2>2
  <2>4. ASSUME NEW y \in T PROVE <<y, x>> \notin Earlier(D, r, t)
    <3>1. n <= r[y] /\ r[x] = n /\ x \in D /\ y \in D
      BY <2>1, <2>3
    <3>2. r[y] = n => t[x] <= t[y]
      BY <2>2, <2>3
    <3>3. r[x] \in Nat /\ r[y] \in Nat /\ t[x] \in Nat /\ t[y] \in Nat
      BY <3>1
    <3> QED BY <1>1, <3>1, <3>2, <3>3
  <2> QED BY <2>3, <2>4
<1> QED BY <1>2, <1>3 DEF WellFounded

-----------------------------------------------------------------------------
(* The edges. *)

\* The places of parameters and invokers.
LEMMA ParametersAre ==
  ASSUME RInv
  PROVE  /\ \A k \in DOMAIN providers :
              /\ k.scope \in 1 .. Len(chain)
              /\ \A i \in DOMAIN providers[k] : providers[k][i] \in Ids
         /\ \A n \in DOMAIN invokers :
              /\ invokers[n].scope \in 1 .. Len(chain)
              /\ \A i \in DOMAIN invokers[n].deps : invokers[n].deps[i] \in Ids
<1>1. ASSUME NEW k \in DOMAIN providers, NEW i \in DOMAIN providers[k] PROVE providers[k][i] \in Ids
  <2>1. providers[k] \in Seq(Ids)
    BY DEF RInv, RegistryTypeOK
  <2> QED BY <2>1
<1>2. ASSUME NEW n \in DOMAIN invokers, NEW i \in DOMAIN invokers[n].deps
      PROVE  invokers[n].deps[i] \in Ids
  <2> DEFINE R == [scope : Scopes, deps : Seq(Ids)]
  <2>1. invokers \in Seq(R)
    BY DEF RInv, RegistryTypeOK
  <2>2. invokers[n] \in R
    <3> HIDE DEF R
    <3> QED BY <2>1, ElementOfSeq
  <2>3. invokers[n].deps \in Seq(Ids)
    BY <2>2
  <2> QED BY <2>3
<1>3. /\ \A k \in DOMAIN providers : k.scope \in 1 .. Len(chain)
      /\ \A n \in DOMAIN invokers : invokers[n].scope \in 1 .. Len(chain)
  BY DEF RInv, KeysInv
<1> QED BY <1>1, <1>2, <1>3

\* The members that an aggregate collects are those of its group.
LEMMA MembersAre ==
  ASSUME RInv, NEW k
  PROVE  /\ \A d \in Range(MembersOf(k)) :
              /\ d \in DOMAIN providers /\ d.ordinal > 0
              /\ k = VirtualKey(d.type) /\ d.type \in registered
         /\ \A d \in DOMAIN providers :
              d.ordinal > 0 /\ k = VirtualKey(d.type) => d \in Range(MembersOf(k))
         /\ \A e \in registered : k = VirtualKey(e) => MembersOf(k) = members[e]
<1>1. registered \subseteq Elements
  BY DEF RInv, RegistryTypeOK
<1>2. ASSUME NEW e \in registered, k = VirtualKey(e) PROVE MembersOf(k) = members[e]
  <2> DEFINE c == CHOOSE d \in registered : VirtualKey(d) = k
  <2>1. c \in registered /\ VirtualKey(c) = k
    BY <1>2
  <2>2. c = e
    <3> HIDE DEF c
    <3> QED BY <1>1, <1>2, <2>1, VirtualIsBinding
  <2>3. MembersOf(k) = members[c]
    BY <1>2 DEF MembersOf
  <2> QED BY <2>2, <2>3
<1>3. ASSUME NEW d \in Range(MembersOf(k))
      PROVE  /\ d \in DOMAIN providers /\ d.ordinal > 0
             /\ k = VirtualKey(d.type) /\ d.type \in registered
  <2>1. PICK e \in registered : k = VirtualKey(e)
    <3>1. CASE k \notin {VirtualKey(e) : e \in registered}
      <4>1. MembersOf(k) = << >>
        BY <3>1 DEF MembersOf
      <4> QED BY <4>1 DEF Range
    <3> QED BY <3>1
  <2>2. d \in Range(members[e])
    BY <1>2, <2>1
  <2> QED BY <1>1, <2>1, <2>2 DEF RInv, GroupInv
<1>4. ASSUME NEW d \in DOMAIN providers, d.ordinal > 0, k = VirtualKey(d.type)
      PROVE  d \in Range(MembersOf(k))
  <2>1. d.type \in registered /\ d \in Range(members[d.type])
    BY <1>4 DEF RInv, GroupInv
  <2> QED BY <1>2, <1>4, <2>1
<1> QED BY <1>2, <1>3, <1>4

\* Both searches go on from an aggregate to the same members.
LEMMA SameMembers ==
  ASSUME NEW k PROVE VirtualEdges(k) = MembersOf(k)
<1>1. (\E e \in registered : VirtualKey(e) = k) <=> k \in {VirtualKey(e) : e \in registered}
  OBVIOUS
<1> QED BY <1>1 DEF VirtualEdges, MembersOf

\* There are as many constructors as places in the order of registration.
LEMMA ProvidersAre ==
  ASSUME RInv
  PROVE  /\ IsFiniteSet(DOMAIN providers) /\ Cardinality(DOMAIN providers) = Len(order)
         /\ Len(order) \in Nat /\ None \notin DOMAIN providers
<1>1. order \in Seq(DOMAIN providers) /\ IsInjective(order) /\ Range(order) = DOMAIN providers
  BY DEF RInv, RegistryTypeOK, OrderInv
<1>2. Len(order) \in Nat /\ DOMAIN order = 1 .. Len(order) /\ order \in [1 .. Len(order) -> DOMAIN providers]
  BY <1>1
<1>3. order \in Injection(1 .. Len(order), DOMAIN providers)
  BY <1>1, <1>2 DEF Injection
<1>4. order \in Surjection(1 .. Len(order), DOMAIN providers)
  BY <1>1, <1>2 DEF Surjection, Range
<1>5. IsFiniteSet(1 .. Len(order)) /\ Cardinality(1 .. Len(order)) = Len(order)
  BY <1>2, FS_Interval
<1>6. IsFiniteSet(DOMAIN providers) /\ Cardinality(DOMAIN providers) = Len(order)
  BY <1>3, <1>4, <1>5, FS_Surjection
<1> QED BY <1>2, <1>6, NoneIsNoProvider DEF RInv

\* The edges of a dependency are those of the rule of visibility.
LEMMA DependsOnIs ==
  ASSUME RInv, Unbuilt, NEW k \in DOMAIN providers, NEW id \in Ids
  PROVE  DependsOn(k, id) =
           IF Visible(id, k.scope) \in DOMAIN providers THEN Visible(id, k.scope) ELSE None
<1>1. k.scope \in DOMAIN chain
  <2>1. DOMAIN chain = 1 .. Len(chain)
    BY DEF RInv, PlaceInv
  <2> QED BY <2>1, ParametersAre
<1>2. LookupsFollowVisibility
  BY LookupsAgree
<1>3. None \notin DOMAIN providers
  BY ProvidersAre
<1> QED BY <1>1, <1>2, <1>3 DEF LookupsFollowVisibility, DependsOn

\* A constructor has the edges that freeze_layers counts, and visit follows the same, to
\* what it needs.
LEMMA EdgesAre ==
  ASSUME RInv, Unbuilt, NEW k \in DOMAIN providers
  PROVE  /\ Incoming(k) \in Seq(DOMAIN providers \cup {None}) /\ Below(k) = Incoming(k)
         /\ \A d \in DOMAIN providers :
              d \in Needs(k) <=> \E i \in DOMAIN Incoming(k) : Incoming(k)[i] = d
         /\ Needs(k) \subseteq DOMAIN providers
<1> DEFINE P == DOMAIN providers
           deps == Dependencies(k)
           mems == VirtualEdges(k)
<1>1. providers[k] \in Seq(Ids) /\ DOMAIN providers[k] = 1 .. Len(providers[k])
  BY DEF RInv, RegistryTypeOK
<1>2. \A i \in DOMAIN providers[k] :
        deps[i] = IF Visible(providers[k][i], k.scope) \in P THEN Visible(providers[k][i], k.scope) ELSE None
  <2>1. ASSUME NEW i \in DOMAIN providers[k]
        PROVE  deps[i] = IF Visible(providers[k][i], k.scope) \in P
                         THEN Visible(providers[k][i], k.scope) ELSE None
    <3>1. providers[k][i] \in Ids
      BY <1>1
    <3> QED BY <3>1, DependsOnIs DEF Dependencies
  <2> QED BY <2>1
<1>3. deps \in Seq(P \cup {None}) /\ DOMAIN deps = DOMAIN providers[k]
  <2>1. deps = [i \in 1 .. Len(providers[k]) |-> deps[i]] /\ DOMAIN deps = DOMAIN providers[k]
    BY <1>1 DEF Dependencies
  <2>2. \A i \in 1 .. Len(providers[k]) : deps[i] \in P \cup {None}
    BY <1>1, <1>2
  <2>3. Len(providers[k]) \in Nat
    BY <1>1
  <2> HIDE DEF deps, P
  <2> QED BY <2>1, <2>2, <2>3, SeqDef
<1>4. mems \in Seq(P \cup {None})
  <2>1. CASE \E e \in registered : VirtualKey(e) = k
    <3>1. PICK e \in registered : VirtualKey(e) = k
      BY <2>1
    <3>2. mems = members[e]
      BY <3>1, MembersAre, SameMembers
    <3>3. members[e] \in Seq(P)
      BY DEF RInv, RegistryTypeOK
    <3>4. members[e] \in Seq(P \cup {None})
      BY <3>3
    <3> QED BY <3>2, <3>4
  <2>2. CASE ~ \E e \in registered : VirtualKey(e) = k
    BY <2>2 DEF VirtualEdges
  <2> QED BY <2>1, <2>2
<1>5. Incoming(k) = deps \o mems /\ Below(k) = deps \o mems
  BY SameMembers DEF Incoming, Below
<1>6. /\ deps \o mems \in Seq(P \cup {None})
      /\ \A d \in P : (\E i \in DOMAIN (deps \o mems) : (deps \o mems)[i] = d)
                         <=> \/ \E i \in DOMAIN deps : deps[i] = d
                             \/ \E i \in DOMAIN mems : mems[i] = d
  <2> HIDE DEF deps, mems, P
  <2>1. deps \o mems \in Seq(P \cup {None})
    BY <1>3, <1>4
  <2>2. ASSUME NEW d \in P
        PROVE  (\E i \in DOMAIN (deps \o mems) : (deps \o mems)[i] = d)
                  <=> \/ \E i \in DOMAIN deps : deps[i] = d
                      \/ \E i \in DOMAIN mems : mems[i] = d
    <3>1. /\ Len(deps) \in Nat /\ Len(mems) \in Nat
          /\ DOMAIN deps = 1 .. Len(deps) /\ DOMAIN mems = 1 .. Len(mems)
          /\ DOMAIN (deps \o mems) = 1 .. (Len(deps) + Len(mems))
          /\ \A i \in 1 .. (Len(deps) + Len(mems)) :
               (deps \o mems)[i] = IF i <= Len(deps) THEN deps[i] ELSE mems[i - Len(deps)]
      BY <1>3, <1>4
    <3>2. ASSUME NEW i \in DOMAIN mems
          PROVE  i + Len(deps) \in DOMAIN (deps \o mems) /\ (deps \o mems)[i + Len(deps)] = mems[i]
      BY <3>1
    <3>3. ASSUME NEW i \in DOMAIN deps
          PROVE  i \in DOMAIN (deps \o mems) /\ (deps \o mems)[i] = deps[i]
      BY <3>1
    <3>4. ASSUME NEW i \in DOMAIN (deps \o mems), i > Len(deps)
          PROVE  i - Len(deps) \in DOMAIN mems /\ (deps \o mems)[i] = mems[i - Len(deps)]
      BY <3>1, <3>4
    <3>5. ASSUME NEW i \in DOMAIN (deps \o mems), ~(i > Len(deps))
          PROVE  i \in DOMAIN deps /\ (deps \o mems)[i] = deps[i]
      BY <3>1, <3>5
    <3> QED BY <3>2, <3>3, <3>4, <3>5
  <2> QED BY <2>1, <2>2
<1>7. ASSUME NEW d \in P
      PROVE  d \in Needs(k) <=> \/ \E i \in DOMAIN deps : deps[i] = d
                                \/ \E i \in DOMAIN mems : mems[i] = d
  <2>1. d # None
    BY ProvidersAre
  <2>2. (\E i \in DOMAIN deps : deps[i] = d)
          <=> \E i \in DOMAIN providers[k] : Visible(providers[k][i], k.scope) = d
    BY <1>2, <1>3, <2>1
  <2>3. (\E i \in DOMAIN mems : mems[i] = d) <=> d \in Range(MembersOf(k))
    BY SameMembers DEF Range
  <2>4. d \in Range(MembersOf(k)) <=> \E e \in registered : k = VirtualKey(e) /\ d.ordinal > 0 /\ d.type = e
    BY MembersAre
  <2> QED BY <2>2, <2>3, <2>4 DEF Needs
<1>8. Needs(k) \subseteq P
  BY DEF Needs
<1> QED BY <1>5, <1>6, <1>7, <1>8

-----------------------------------------------------------------------------
(* freeze_layers. *)

\* The number of edges from a set: none if and only if no edge is from there, and less by
\* those of a part that is taken away.
LEMMA EdgesCount ==
  ASSUME RInv, Unbuilt, NEW k \in DOMAIN providers, NEW S
  PROVE  /\ Edges(S, k) \in Nat
         /\ Edges(S, k) = 0 <=> \A i \in DOMAIN Incoming(k) : Incoming(k)[i] \notin S
         /\ \A T \in SUBSET S : Edges(S \ T, k) = Edges(S, k) - Edges(T, k)
<1> DEFINE in(U) == {i \in DOMAIN Incoming(k) : Incoming(k)[i] \in U}
<1>1. IsFiniteSet(DOMAIN Incoming(k))
  <2>1. Incoming(k) \in Seq(DOMAIN providers \cup {None})
    BY EdgesAre
  <2>2. DOMAIN Incoming(k) = 1 .. Len(Incoming(k)) /\ Len(Incoming(k)) \in Nat
    BY <2>1
  <2> QED BY <2>2, FS_Interval
<1>2. \A U : IsFiniteSet(in(U)) /\ Cardinality(in(U)) \in Nat
  <2>1. ASSUME NEW U PROVE IsFiniteSet(in(U)) /\ Cardinality(in(U)) \in Nat
    <3>1. in(U) \subseteq DOMAIN Incoming(k)
      OBVIOUS
    <3> HIDE DEF in
    <3>2. IsFiniteSet(in(U))
      BY <1>1, <3>1, FS_Subset
    <3> QED BY <3>2, FS_CardinalityType
  <2> QED BY <2>1
<1>3. \A U : Edges(U, k) = Cardinality(in(U))
  BY DEF Edges
<1>4. in(S) = {} <=> \A i \in DOMAIN Incoming(k) : Incoming(k)[i] \notin S
  OBVIOUS
<1>5. ASSUME NEW T \in SUBSET S PROVE Edges(S \ T, k) = Edges(S, k) - Edges(T, k)
  <2>1. in(S \ T) = in(S) \ in(T) /\ in(S) \cap in(T) = in(T)
    OBVIOUS
  <2> HIDE DEF in
  <2>2. Cardinality(in(S) \ in(T)) = Cardinality(in(S)) - Cardinality(in(S) \cap in(T))
    BY <1>2, FS_Difference
  <2> QED BY <1>3, <2>1, <2>2
<1>6. Cardinality(in(S)) = 0 <=> in(S) = {}
  <2> HIDE DEF in
  <2> QED BY <1>2, FS_EmptySet
<1> QED BY <1>2, <1>3, <1>4, <1>5, <1>6

\* What a round leaves.
Turns == [degree : [DOMAIN providers -> Int], ready : SUBSET DOMAIN providers, built : Int]

\* The loop's first round, and the round after one that left `last`.
FirstTurn ==
  LET degree == [k \in DOMAIN providers |-> Edges(DOMAIN providers, k)]
      ready  == {k \in DOMAIN providers : degree[k] = 0}
  IN [degree |-> degree, ready |-> ready, built |-> Cardinality(ready)]
NextTurn(last) ==
  LET degree == [k \in DOMAIN providers |-> last.degree[k] - Edges(last.ready, k)]
      ready  == {k \in DOMAIN providers : degree[k] = 0 /\ last.degree[k] > 0}
  IN [degree |-> degree, ready |-> ready, built |-> last.built + Cardinality(ready)]

\* Rounds are what the recursion says: the first, and each from the one before.
LEMMA RoundIs ==
  ASSUME RInv, Unbuilt
  PROVE  Round[0] = FirstTurn /\ \A n \in Nat : Round[n + 1] = NextTurn(Round[n])
<1> DEFINE Turn(r, n) == IF n = 0 THEN FirstTurn ELSE NextTurn(r[n - 1])
           rank == [n \in Nat |-> n]
           zero == [n \in Nat |-> 0]
           body == [n \in Nat |-> [r \in [Nat -> Turns] |-> Turn(r, n)]]
<1>1. WellFounded(Nat, Earlier(Nat, rank, zero))
  <2>1. rank \in [Nat -> Nat] /\ zero \in [Nat -> Nat]
    OBVIOUS
  <2> QED BY <2>1, RanksAreWellFounded
<1>2. \A m, n \in Nat : <<m, n>> \in Earlier(Nat, rank, zero) <=> m < n
  BY DEF Earlier
<1>3. \A R \in SUBSET DOMAIN providers : Cardinality(R) \in Int
  BY ProvidersAre, FS_Subset, FS_CardinalityType
<1>4. FirstTurn \in Turns
  <2>1. \A k \in DOMAIN providers : Edges(DOMAIN providers, k) \in Int
    BY EdgesCount
  <2> QED BY <1>3, <2>1 DEF FirstTurn, Turns
<1>5. ASSUME NEW last \in Turns PROVE NextTurn(last) \in Turns
  <2>1. \A k \in DOMAIN providers : last.degree[k] \in Int /\ Edges(last.ready, k) \in Int
    BY EdgesCount DEF Turns
  <2>2. last.built \in Int
    BY DEF Turns
  <2> DEFINE degree == [k \in DOMAIN providers |-> last.degree[k] - Edges(last.ready, k)]
             ready  == {k \in DOMAIN providers : degree[k] = 0 /\ last.degree[k] > 0}
  <2>3. degree \in [DOMAIN providers -> Int]
    BY <2>1
  <2>4. ready \in SUBSET DOMAIN providers
    OBVIOUS
  <2>5. NextTurn(last) = [degree |-> degree, ready |-> ready, built |-> last.built + Cardinality(ready)]
    BY DEF NextTurn
  <2> HIDE DEF degree, ready
  <2>6. last.built + Cardinality(ready) \in Int
    BY <1>3, <2>2, <2>4
  <2> QED BY <2>3, <2>4, <2>5, <2>6 DEF Turns
<1>6. body \in [Nat -> [[Nat -> Turns] -> Turns]]
  <2>1. ASSUME NEW n \in Nat, NEW r \in [Nat -> Turns] PROVE Turn(r, n) \in Turns
    <3>1. n # 0 => r[n - 1] \in Turns
      OBVIOUS
    <3> QED BY <1>4, <1>5, <3>1
  <2> HIDE DEF Turn
  <2> QED BY <2>1
<1>7. ASSUME NEW n \in Nat, NEW g \in [Nat -> Turns], NEW h \in [Nat -> Turns],
             \A m \in Nat : <<m, n>> \in Earlier(Nat, rank, zero) => g[m] = h[m]
      PROVE  body[n][g] = body[n][h]
  <2>1. n # 0 => g[n - 1] = h[n - 1]
    <3>1. SUFFICES ASSUME n # 0 PROVE g[n - 1] = h[n - 1]
      OBVIOUS
    <3>2. n - 1 \in Nat /\ n - 1 < n
      BY <3>1
    <3>3. <<n - 1, n>> \in Earlier(Nat, rank, zero)
      BY <1>2, <3>2
    <3> HIDE DEF rank, zero
    <3> QED BY <1>7, <3>2, <3>3
  <2>2. Turn(g, n) = Turn(h, n)
    BY <2>1
  <2> HIDE DEF Turn
  <2> QED BY <2>2
<1>8. PICK f \in [Nat -> Turns] : \A n \in Nat : f[n] = body[n][f]
  <2> DEFINE less == Earlier(Nat, rank, zero)
  <2>1. \A n \in Nat : \A g, h \in [Nat -> Turns] :
          (\A m \in Nat : <<m, n>> \in less => g[m] = h[m]) => body[n][g] = body[n][h]
    BY <1>7
  <2>2. Determined(Nat, less, Turns, body)
    <3> HIDE DEF body, less
    <3> QED BY <1>4, <1>6, <2>1 DEF Determined
  <2> HIDE DEF body, less
  <2>3. WellFounded(Nat, less)
    BY <1>1 DEF less
  <2> QED BY <2>2, <2>3, Recursion
<1>9. f = [n \in Nat |-> Turn(f, n)]
  <2>1. \A n \in Nat : f[n] = Turn(f, n)
    <3> HIDE DEF Turn
    <3> QED BY <1>8
  <2> HIDE DEF Turn, body
  <2> QED BY <1>8, <2>1
<1> DEFINE c == CHOOSE g : g = [n \in Nat |-> Turn(g, n)]
<1>10. c = [n \in Nat |-> Turn(c, n)]
  <2>1. \E g : g = [n \in Nat |-> Turn(g, n)]
    BY <1>9, Zenon
  <2> HIDE DEF Turn
  <2> QED BY <2>1, Zenon
<1>11. Round = c
  BY Zenon DEF Round, FirstTurn, NextTurn
<1>12. \A n \in Nat : Round[n] = Turn(Round, n)
  <2> HIDE DEF c, Turn
  <2> QED BY <1>10, <1>11
<1>13. Round[0] = Turn(Round, 0)
  BY <1>12
<1>14. ASSUME NEW n \in Nat PROVE Round[n + 1] = NextTurn(Round[n])
  <2>1. Round[n + 1] = Turn(Round, n + 1) /\ n + 1 # 0 /\ (n + 1) - 1 = n
    <3> HIDE DEF Turn
    <3> QED BY <1>12
  <2> QED BY <2>1
<1> QED BY <1>13, <1>14

\* Induction over the natural numbers, for a set of them.
LEMMA Induction ==
  ASSUME NEW S, 0 \in S, \A n \in Nat : n \in S => n + 1 \in S
  PROVE  \A n \in Nat : n \in S
<1> DEFINE T == {n \in Nat : n \notin S}
<1>1. SUFFICES ASSUME T # {} PROVE FALSE
  OBVIOUS
<1>2. PICK n \in T : \A m \in T : n <= m
  <2>1. T \in SUBSET Nat
    OBVIOUS
  <2> HIDE DEF T
  <2> QED BY <1>1, <2>1, Least
<1>3. n # 0 /\ n \in Nat
  BY <1>2
<1>4. n - 1 \in Nat /\ n - 1 \in S
  <2>1. n - 1 \in Nat /\ ~(n <= n - 1)
    BY <1>3
  <2>2. n - 1 \notin T
    BY <1>2, <2>1
  <2> QED BY <2>1, <2>2
<1>5. (n - 1) + 1 = n
  BY <1>3
<1>6. n \in S
  BY <1>4, <1>5
<1> QED BY <1>2, <1>6

\* What was ready before round n.
Past(n) == UNION {Round[m].ready : m \in 0 .. n - 1}

\* The indegrees of round n count the edges from constructors that were not ready before
\* it; what has none left was ready before or is now.
RoundInv(n) ==
  /\ Past(n) \subseteq DOMAIN providers /\ Round[n].ready \subseteq DOMAIN providers
  /\ Past(n) \cap Round[n].ready = {}
  /\ \A k \in DOMAIN providers :
       /\ Round[n].degree[k] = Edges(DOMAIN providers \ Past(n), k)
       /\ k \in Past(n) \cup Round[n].ready <=> Round[n].degree[k] = 0
  /\ Round[n].built = Cardinality(Past(n) \cup Round[n].ready)

LEMMA PastIs ==
  /\ Past(0) = {}
  /\ \A n \in Nat : Past(n + 1) = Past(n) \cup Round[n].ready
<1>1. Past(0) = {}
  BY DEF Past
<1>2. ASSUME NEW n \in Nat PROVE Past(n + 1) = Past(n) \cup Round[n].ready
  <2>1. 0 .. (n + 1) - 1 = (0 .. n - 1) \cup {n}
    OBVIOUS
  <2> QED BY <2>1 DEF Past
<1> QED BY <1>1, <1>2

LEMMA FirstRound ==
  ASSUME RInv, Unbuilt PROVE RoundInv(0)
<1> DEFINE P == DOMAIN providers
           degree == [k \in P |-> Edges(P, k)]
           ready == {k \in P : degree[k] = 0}
<1>1. Round[0] = [degree |-> degree, ready |-> ready, built |-> Cardinality(ready)]
  BY RoundIs DEF FirstTurn
<1>2. Past(0) = {} /\ P \ {} = P /\ {} \cup ready = ready
  BY PastIs
<1> QED BY <1>1, <1>2 DEF RoundInv

LEMMA NextRound ==
  ASSUME RInv, Unbuilt, NEW n \in Nat, RoundInv(n) PROVE RoundInv(n + 1)
<1> DEFINE P == DOMAIN providers
           last == Round[n]
           degree == [k \in P |-> last.degree[k] - Edges(last.ready, k)]
           ready == {k \in P : degree[k] = 0 /\ last.degree[k] > 0}
<1>1. Round[n + 1] = [degree |-> degree, ready |-> ready, built |-> last.built + Cardinality(ready)]
  BY RoundIs DEF NextTurn
<1>2. Past(n + 1) = Past(n) \cup last.ready
  BY PastIs
<1>3. /\ Past(n) \subseteq P /\ last.ready \subseteq P /\ Past(n) \cap last.ready = {}
      /\ \A k \in P : /\ last.degree[k] = Edges(P \ Past(n), k)
                      /\ k \in Past(n) \cup last.ready <=> last.degree[k] = 0
      /\ last.built = Cardinality(Past(n) \cup last.ready)
  BY DEF RoundInv
<1> HIDE DEF last
<1>4. ASSUME NEW k \in P
      PROVE  /\ degree[k] = Edges(P \ Past(n + 1), k) /\ degree[k] \in Nat /\ last.degree[k] \in Nat
             /\ k \in Past(n + 1) => degree[k] = 0
  <2>1. /\ last.ready \in SUBSET (P \ Past(n))
        /\ (P \ Past(n)) \ last.ready = P \ Past(n + 1)
    BY <1>2, <1>3
  <2>2. Edges((P \ Past(n)) \ last.ready, k) = Edges(P \ Past(n), k) - Edges(last.ready, k)
    BY <2>1, EdgesCount
  <2>3. degree[k] = Edges(P \ Past(n + 1), k)
    BY <1>3, <2>1, <2>2
  <2>4. degree[k] \in Nat /\ last.degree[k] \in Nat
    <3>1. Edges(P \ Past(n + 1), k) \in Nat /\ Edges(P \ Past(n), k) \in Nat
      BY EdgesCount
    <3> QED BY <1>3, <2>3, <3>1
  <2>5. ASSUME k \in Past(n + 1) PROVE degree[k] = 0
    <3>1. Edges(P \ Past(n), k) = 0
      BY <1>2, <1>3, <2>5
    <3>2. \A i \in DOMAIN Incoming(k) : Incoming(k)[i] \notin P \ Past(n)
      BY <3>1, EdgesCount
    <3>3. \A i \in DOMAIN Incoming(k) : Incoming(k)[i] \notin P \ Past(n + 1)
      BY <1>2, <3>2
    <3>4. Edges(P \ Past(n + 1), k) = 0
      BY <3>3, EdgesCount
    <3> QED BY <2>3, <3>4
  <2> QED BY <2>3, <2>4, <2>5
<1>5. ASSUME NEW k \in P
      PROVE  /\ k \in ready <=> degree[k] = 0 /\ k \notin Past(n + 1)
             /\ k \in Past(n + 1) \cup ready <=> degree[k] = 0
  BY <1>2, <1>3, <1>4
<1>6. ready \subseteq P /\ Past(n + 1) \subseteq P /\ Past(n + 1) \cap ready = {}
  BY <1>2, <1>3, <1>5
<1> HIDE DEF degree, ready
<1>7. last.built + Cardinality(ready) = Cardinality(Past(n + 1) \cup ready)
  <2>1. IsFiniteSet(P)
    BY ProvidersAre
  <2>2. IsFiniteSet(ready) /\ IsFiniteSet(Past(n + 1)) /\ IsFiniteSet({})
    BY <1>6, <2>1, FS_Subset, FS_EmptySet
  <2>3. Cardinality(Past(n + 1) \cup ready)
          = Cardinality(Past(n + 1)) + Cardinality(ready) - Cardinality(Past(n + 1) \cap ready)
    BY <2>2, FS_Union
  <2>4. Cardinality(Past(n + 1) \cap ready) = 0
    BY <1>6, FS_EmptySet
  <2>5. Cardinality(ready) \in Nat /\ Cardinality(Past(n + 1)) \in Nat
    BY <2>2, FS_CardinalityType
  <2>6. last.built = Cardinality(Past(n + 1))
    BY <1>2, <1>3
  <2> QED BY <2>3, <2>4, <2>5, <2>6
<1>8. /\ Round[n + 1].degree = degree /\ Round[n + 1].ready = ready
      /\ Round[n + 1].built = last.built + Cardinality(ready)
  BY <1>1
<1> QED BY <1>4, <1>5, <1>6, <1>7, <1>8 DEF RoundInv

LEMMA RoundsAre ==
  ASSUME RInv, Unbuilt PROVE \A n \in Nat : RoundInv(n)
<1> DEFINE S == {n \in Nat : RoundInv(n)}
<1>1. 0 \in S
  BY FirstRound
<1>2. \A n \in Nat : n \in S => n + 1 \in S
  BY NextRound
<1>3. \A n \in Nat : n \in S
  <2> HIDE DEF S
  <2> QED BY <1>1, <1>2, Induction
<1> QED BY <1>3

\* The loop ends within as many rounds as there are constructors.
LEMMA RoundsEnd ==
  ASSUME RInv, Unbuilt
  PROVE  /\ Rounds \in Nat /\ Round[Rounds].ready = {}
         /\ \A m \in 0 .. Rounds - 1 : Round[m].ready # {}
<1> DEFINE busy(n) == \A m \in 0 .. n - 1 : Round[m].ready # {}
           S == {n \in Nat : busy(n) => Cardinality(Past(n)) >= n}
<1>1. \A n \in Nat : IsFiniteSet(Past(n)) /\ Cardinality(Past(n)) \in Nat /\ Cardinality(Past(n)) <= Len(order)
  <2>1. \A n \in Nat : Past(n) \subseteq DOMAIN providers
    BY RoundsAre DEF RoundInv
  <2> QED BY <2>1, ProvidersAre, FS_Subset, FS_CardinalityType
<1>2. 0 \in S
  <2>1. Cardinality(Past(0)) = 0
    BY PastIs, FS_EmptySet
  <2> QED BY <2>1
<1>3. ASSUME NEW n \in Nat, n \in S PROVE n + 1 \in S
  <2>1. SUFFICES ASSUME busy(n + 1) PROVE Cardinality(Past(n + 1)) >= n + 1
    OBVIOUS
  <2>2. busy(n) /\ Round[n].ready # {}
    <3>1. n \in 0 .. (n + 1) - 1 /\ 0 .. n - 1 \subseteq 0 .. (n + 1) - 1
      OBVIOUS
    <3> QED BY <2>1, <3>1
  <2>3. Cardinality(Past(n)) >= n
    BY <1>3, <2>2
  <2>4. Past(n) \subseteq Past(n + 1) /\ Past(n) # Past(n + 1)
    <3>1. Past(n + 1) = Past(n) \cup Round[n].ready /\ Past(n) \cap Round[n].ready = {}
      BY PastIs, RoundsAre DEF RoundInv
    <3> QED BY <2>2, <3>1
  <2>5. Cardinality(Past(n)) <= Cardinality(Past(n + 1)) /\ Cardinality(Past(n)) # Cardinality(Past(n + 1))
    BY <1>1, <2>4, FS_Subset
  <2>6. Cardinality(Past(n)) \in Nat /\ Cardinality(Past(n + 1)) \in Nat
    BY <1>1
  <2> QED BY <2>3, <2>5, <2>6
<1>4. \A n \in Nat : n \in S
  <2> HIDE DEF S
  <2> QED BY <1>2, <1>3, Induction
<1>5. Len(order) \in Nat
  BY ProvidersAre
<1> DEFINE T == {n \in 0 .. Len(order) : Round[n].ready = {}}
<1>6. T # {}
  <2>1. SUFFICES ASSUME T = {} PROVE FALSE
    OBVIOUS
  <2>2. busy(Len(order) + 1) /\ Len(order) + 1 \in Nat
    BY <1>5, <2>1
  <2>3. Cardinality(Past(Len(order) + 1)) >= Len(order) + 1
    BY <1>4, <2>2
  <2>4. Cardinality(Past(Len(order) + 1)) <= Len(order) /\ Cardinality(Past(Len(order) + 1)) \in Nat
    BY <1>1, <2>2
  <2> QED BY <1>5, <2>3, <2>4
<1>7. PICK n \in T : \A m \in T : n <= m
  <2>1. T \in SUBSET Nat
    OBVIOUS
  <2> HIDE DEF T
  <2> QED BY <1>6, <2>1, Least
<1>8. n \in 0 .. Len(order) /\ Round[n].ready = {} /\ busy(n)
  <2>1. n \in 0 .. Len(order) /\ Round[n].ready = {}
    BY <1>7
  <2>2. ASSUME NEW m \in 0 .. n - 1 PROVE Round[m].ready # {}
    <3>1. m \in 0 .. Len(order) /\ ~(n <= m)
      BY <1>5, <2>1
    <3> QED BY <1>7, <3>1
  <2> QED BY <2>1, <2>2
<1>9. Rounds \in 0 .. Len(order) /\ Round[Rounds].ready = {} /\ busy(Rounds)
  BY <1>8 DEF Rounds
<1> QED BY <1>9

\* All constructors are built if and only if all were ready at some time.
LEMMA AllFrozenIs ==
  ASSUME RInv, Unbuilt PROVE AllFrozen <=> Past(Rounds) = DOMAIN providers
<1>1. /\ Past(Rounds) \subseteq DOMAIN providers /\ Past(Rounds) \cup {} = Past(Rounds)
      /\ Round[Rounds].built = Cardinality(Past(Rounds) \cup Round[Rounds].ready)
  BY RoundsAre, RoundsEnd DEF RoundInv
<1>2. Round[Rounds].built = Cardinality(Past(Rounds))
  BY <1>1, RoundsEnd
<1>3. Cardinality(Past(Rounds)) = Cardinality(DOMAIN providers) <=> Past(Rounds) = DOMAIN providers
  BY <1>1, ProvidersAre, FS_Subset
<1> QED BY <1>2, <1>3, ProvidersAre DEF AllFrozen

\* What is ready in a round needs only what was ready before, and what has no such need any
\* more is ready by then.
LEMMA ReadyNeeds ==
  ASSUME RInv, Unbuilt, NEW n \in Nat, NEW k \in DOMAIN providers
  PROVE  k \in Past(n) \cup Round[n].ready <=> Needs(k) \subseteq Past(n)
<1>1. k \in Past(n) \cup Round[n].ready <=> Edges(DOMAIN providers \ Past(n), k) = 0
  BY RoundsAre DEF RoundInv
<1>2. Edges(DOMAIN providers \ Past(n), k) = 0
        <=> \A i \in DOMAIN Incoming(k) : Incoming(k)[i] \notin DOMAIN providers \ Past(n)
  BY EdgesCount
<1>3. (\A i \in DOMAIN Incoming(k) : Incoming(k)[i] \notin DOMAIN providers \ Past(n))
        <=> Needs(k) \subseteq Past(n)
  BY EdgesAre
<1> QED BY <1>1, <1>2, <1>3

\* Where each constructor that was ready is.
LEMMA ReadyAt ==
  ASSUME RInv, Unbuilt, NEW n \in Nat
  PROVE  \A k \in Past(n) : \E m \in 0 .. n - 1 : k \in Round[m].ready
BY DEF Past

\* What is left when the loop is stuck is a cycle, and without that there is none.
LEMMA StuckIsCyclic ==
  ASSUME RInv, Unbuilt PROVE Cyclic <=> ~AllFrozen
<1> DEFINE P == DOMAIN providers
           C == P \ Past(Rounds)
<1>1. ASSUME ~AllFrozen PROVE Cyclic
  <2>1. C # {} /\ C \in SUBSET P
    BY <1>1, AllFrozenIs, RoundsAre, RoundsEnd DEF RoundInv
  <2>2. ASSUME NEW k \in C PROVE Needs(k) \cap C # {}
    <3>1. k \notin Past(Rounds) \cup Round[Rounds].ready /\ k \in P
      BY RoundsEnd
    <3>2. ~(Needs(k) \subseteq Past(Rounds))
      BY <3>1, ReadyNeeds, RoundsEnd
    <3>3. Needs(k) \subseteq P
      BY <3>1, EdgesAre
    <3> QED BY <3>2, <3>3
  <2> HIDE DEF C
  <2> QED BY <2>1, <2>2 DEF Cyclic
<1>2. ASSUME AllFrozen, Cyclic PROVE FALSE
  <2>1. PICK D \in SUBSET P : D # {} /\ \A k \in D : Needs(k) \cap D # {}
    BY <1>2, Zenon DEF Cyclic
  <2> DEFINE T == {n \in Nat : Round[n].ready \cap D # {}}
  <2>2. T # {}
    <3>1. PICK k \in D : k \in Past(Rounds)
      BY <1>2, <2>1, AllFrozenIs
    <3> QED BY <3>1, ReadyAt, RoundsEnd
  <2>3. PICK n \in T : \A m \in T : n <= m
    <3>1. T \in SUBSET Nat
      OBVIOUS
    <3> HIDE DEF T
    <3> QED BY <2>2, <3>1, Least
  <2>4. PICK k \in D : n \in Nat /\ k \in Round[n].ready
    BY <2>3
  <2>5. PICK d \in D : d \in Past(n)
    <3>1. Needs(k) \subseteq Past(n)
      BY <2>1, <2>4, ReadyNeeds
    <3> QED BY <2>1, <2>4, <3>1
  <2>6. PICK m \in 0 .. n - 1 : d \in Round[m].ready
    BY <2>4, <2>5, ReadyAt
  <2>7. m \in T /\ ~(n <= m)
    BY <2>4, <2>5, <2>6
  <2> QED BY <2>3, <2>7
<1> QED BY <1>1, <1>2

-----------------------------------------------------------------------------
(* visit. *)

\* Induction on an order without infinite descent, for a set.
LEMMA WellFoundedInductionOn ==
  ASSUME NEW D, NEW Less, WellFounded(D, Less), NEW S,
         \A x \in D : (\A y \in D : <<y, x>> \in Less => y \in S) => x \in S
  PROVE  D \subseteq S
<1> DEFINE T == {x \in D : x \notin S}
<1>1. SUFFICES ASSUME T # {} PROVE FALSE
  OBVIOUS
<1>2. PICK x \in T : \A y \in T : <<y, x>> \notin Less
  <2>1. T \in SUBSET D
    OBVIOUS
  <2> HIDE DEF T
  <2> QED BY <1>1, <2>1 DEF WellFounded
<1> QED BY <1>2

\* What a search finds, the search below its first key, the one after that key, and what
\* they add up to, if v says what searches find.
Found == [cycle : BOOLEAN, done : SUBSET DOMAIN providers]
Into(s) == [todo |-> Below(Head(s.todo)), path |-> s.path \cup {Head(s.todo)}, done |-> s.done]
FirstOf(v, s) ==
  IF Head(s.todo) \in s.done \cup {None} THEN [cycle |-> FALSE, done |-> s.done]
  ELSE IF Head(s.todo) \in s.path THEN [cycle |-> TRUE, done |-> s.done]
  ELSE [cycle |-> v[Into(s)].cycle, done |-> v[Into(s)].done \cup {Head(s.todo)}]
Onward(s, first) == [todo |-> Tail(s.todo), path |-> s.path, done |-> first.done]
FindsBy(v, s) ==
  IF s.todo = << >> THEN [cycle |-> FALSE, done |-> s.done]
  ELSE IF FirstOf(v, s).cycle THEN FirstOf(v, s) ELSE v[Onward(s, FirstOf(v, s))]

\* Whether the search goes into its first key.
Enters(s) == s.todo # << >> /\ Head(s.todo) \notin s.done \cup {None} \cup s.path

\* A search comes before another if its path is longer, or as long and it has less to do.
SearchOrder ==
  Earlier(Searches, [s \in Searches |-> Cardinality(DOMAIN providers \ s.path)],
                    [s \in Searches |-> Len(s.todo)])

\* What a search leads to comes before it.
LEMMA SearchesGoOn ==
  ASSUME RInv, Unbuilt
  PROVE  /\ WellFounded(Searches, SearchOrder)
         /\ \A s \in Searches : Enters(s) =>
              Head(s.todo) \in DOMAIN providers /\ Into(s) \in Searches /\ <<Into(s), s>> \in SearchOrder
         /\ \A s \in Searches, f \in Found : s.todo # << >> =>
              Onward(s, f) \in Searches /\ <<Onward(s, f), s>> \in SearchOrder
<1> DEFINE P == DOMAIN providers
           r == [s \in Searches |-> Cardinality(P \ s.path)]
           t == [s \in Searches |-> Len(s.todo)]
<1>1. IsFiniteSet(P)
  BY ProvidersAre
<1>2. ASSUME NEW s \in Searches
      PROVE  /\ s.todo \in Seq(P \cup {None}) /\ s.path \subseteq P /\ s.done \subseteq P
             /\ IsFiniteSet(P \ s.path) /\ Cardinality(P \ s.path) \in Nat /\ Len(s.todo) \in Nat
  <2>1. s.todo \in Seq(P \cup {None}) /\ s.path \subseteq P /\ s.done \subseteq P
    BY DEF Searches
  <2>2. IsFiniteSet(P \ s.path)
    BY <1>1, FS_Subset
  <2> QED BY <2>1, <2>2, FS_CardinalityType
<1>3. r \in [Searches -> Nat] /\ t \in [Searches -> Nat]
  BY <1>2
<1>4. SearchOrder = Earlier(Searches, r, t)
  BY DEF SearchOrder
<1>5. \A a, b \in Searches :
        <<a, b>> \in SearchOrder
          <=> \/ Cardinality(P \ a.path) < Cardinality(P \ b.path)
              \/ Cardinality(P \ a.path) = Cardinality(P \ b.path) /\ Len(a.todo) < Len(b.todo)
  BY <1>4 DEF Earlier
<1>6. WellFounded(Searches, SearchOrder)
  <2> HIDE DEF r, t
  <2> QED BY <1>3, <1>4, RanksAreWellFounded
<1>7. ASSUME NEW s \in Searches, Enters(s)
      PROVE  Head(s.todo) \in P /\ Into(s) \in Searches /\ <<Into(s), s>> \in SearchOrder
  <2> DEFINE k == Head(s.todo)
  <2>1. k \in P /\ k \notin s.path
    <3>1. k \in P \cup {None}
      <4> DEFINE Q == P \cup {None}
                 todo == s.todo
      <4>1. todo \in Seq(Q) /\ todo # << >>
        BY <1>2, <1>7 DEF Enters
      <4> HIDE DEF Q, todo
      <4>2. Head(todo) \in Q
        BY <4>1, HeadTailProperties
      <4> QED BY <4>2 DEF Q, todo
    <3> QED BY <1>7, <3>1 DEF Enters
  <2>2. Below(k) \in Seq(P \cup {None})
    BY <2>1, EdgesAre
  <2>3. Into(s) \in Searches /\ Into(s).path = s.path \cup {k}
    BY <1>2, <2>1, <2>2 DEF Into, Searches
  <2>4. Cardinality(P \ Into(s).path) = Cardinality(P \ s.path) - 1
    <3>1. P \ Into(s).path = (P \ s.path) \ {k} /\ k \in P \ s.path
      BY <2>1, <2>3
    <3> DEFINE U == P \ s.path
    <3>2. IsFiniteSet(U) /\ k \in U
      BY <1>2, <3>1
    <3> HIDE DEF k, U
    <3>3. Cardinality(U \ {k}) = Cardinality(U) - 1
      BY <3>2, FS_RemoveElement
    <3> QED BY <3>1, <3>3 DEF U
  <2>5. Cardinality(P \ Into(s).path) < Cardinality(P \ s.path)
    <3> DEFINE n == Cardinality(P \ s.path)
    <3>1. n \in Nat
      BY <1>2
    <3> HIDE DEF n
    <3>2. n - 1 < n
      BY <3>1
    <3> QED BY <2>4, <3>2 DEF n
  <2> QED BY <1>5, <2>1, <2>3, <2>5
<1>8. ASSUME NEW s \in Searches, NEW f \in Found, s.todo # << >>
      PROVE  Onward(s, f) \in Searches /\ <<Onward(s, f), s>> \in SearchOrder
  <2>1. Tail(s.todo) \in Seq(P \cup {None}) /\ Len(Tail(s.todo)) < Len(s.todo)
    <3> DEFINE Q == P \cup {None}
               todo == s.todo
    <3>1. todo \in Seq(Q) /\ todo # << >>
      BY <1>2, <1>8
    <3> HIDE DEF Q, todo
    <3>2. Tail(todo) \in Seq(Q) /\ Len(Tail(todo)) = Len(todo) - 1 /\ Len(todo) \in Nat
      BY <3>1, HeadTailProperties
    <3>3. Len(Tail(todo)) < Len(todo)
      BY <3>2
    <3> QED BY <3>2, <3>3 DEF Q, todo
  <2>2. /\ Onward(s, f) \in Searches /\ Onward(s, f).path = s.path
        /\ Onward(s, f).todo = Tail(s.todo)
    BY <1>2, <2>1 DEF Onward, Found, Searches
  <2> QED BY <1>5, <2>1, <2>2
<1> QED BY <1>6, <1>7, <1>8

\* What a search adds up to is a result if what it leads to are results, and depends on
\* nothing else.
LEMMA SearchesAreDetermined ==
  ASSUME RInv, Unbuilt, NEW s \in Searches
  PROVE  /\ \A v : /\ Enters(s) => v[Into(s)] \in Found
                   /\ \A f \in Found : s.todo # << >> => v[Onward(s, f)] \in Found
                   => FindsBy(v, s) \in Found /\ (s.todo # << >> => FirstOf(v, s) \in Found)
         /\ \A g, h \in [Searches -> Found] :
              (\A y \in Searches : <<y, s>> \in SearchOrder => g[y] = h[y])
                 => FindsBy(g, s) = FindsBy(h, s)
<1>1. s.todo \in Seq(DOMAIN providers \cup {None}) /\ s.done \subseteq DOMAIN providers
  BY DEF Searches
<1>2. Enters(s) => Head(s.todo) \in DOMAIN providers
  BY SearchesGoOn
<1>3. ASSUME NEW v, Enters(s) => v[Into(s)] \in Found, s.todo # << >>
      PROVE  FirstOf(v, s) \in Found
  <2>1. CASE Enters(s)
    <3>1. v[Into(s)].cycle \in BOOLEAN /\ v[Into(s)].done \subseteq DOMAIN providers
      BY <1>3, <2>1 DEF Found
    <3>2. FirstOf(v, s) = [cycle |-> v[Into(s)].cycle, done |-> v[Into(s)].done \cup {Head(s.todo)}]
      BY <2>1 DEF FirstOf, Enters
    <3>3. v[Into(s)].done \cup {Head(s.todo)} \subseteq DOMAIN providers
      BY <1>2, <2>1, <3>1
    <3> QED BY <3>1, <3>2, <3>3 DEF Found
  <2>2. CASE ~Enters(s)
    <3>1. FirstOf(v, s) = [cycle |-> FALSE, done |-> s.done] \/ FirstOf(v, s) = [cycle |-> TRUE, done |-> s.done]
      BY <1>3, <2>2 DEF FirstOf, Enters
    <3>2. [cycle |-> FALSE, done |-> s.done] \in Found /\ [cycle |-> TRUE, done |-> s.done] \in Found
      BY <1>1 DEF Found
    <3> QED BY <3>1, <3>2
  <2> QED BY <2>1, <2>2
<1>4. ASSUME NEW v, Enters(s) => v[Into(s)] \in Found,
             \A f \in Found : s.todo # << >> => v[Onward(s, f)] \in Found
      PROVE  FindsBy(v, s) \in Found
  <2>1. CASE s.todo = << >>
    BY <1>1, <2>1 DEF FindsBy, Found
  <2>2. CASE s.todo # << >>
    <3>1. FirstOf(v, s) \in Found
      BY <1>3, <1>4, <2>2
    <3> QED BY <1>4, <2>2, <3>1 DEF FindsBy
  <2> QED BY <2>1, <2>2
<1>5. ASSUME NEW g \in [Searches -> Found], NEW h \in [Searches -> Found],
             \A y \in Searches : <<y, s>> \in SearchOrder => g[y] = h[y]
      PROVE  FindsBy(g, s) = FindsBy(h, s)
  <2>1. CASE s.todo = << >>
    BY <2>1 DEF FindsBy
  <2>2. CASE s.todo # << >>
    <3>1. Enters(s) => g[Into(s)] = h[Into(s)] /\ g[Into(s)] \in Found
      BY <1>5, SearchesGoOn
    <3>2. FirstOf(g, s) = FirstOf(h, s)
      BY <2>2, <3>1 DEF FirstOf, Enters
    <3>3. FirstOf(g, s) \in Found
      BY <1>3, <2>2, <3>1
    <3>4. g[Onward(s, FirstOf(g, s))] = h[Onward(s, FirstOf(g, s))]
      BY <1>5, <2>2, <3>3, SearchesGoOn
    <3> QED BY <2>2, <3>2, <3>4 DEF FindsBy
  <2> QED BY <2>1, <2>2
<1> QED BY <1>3, <1>4, <1>5

\* Visit is what the recursion says, and its results are results.
LEMMA VisitIs ==
  ASSUME RInv, Unbuilt
  PROVE  \A s \in Searches : Visit[s] = FindsBy(Visit, s) /\ Visit[s] \in Found
<1> DEFINE body == [s \in Searches |-> [v \in [Searches -> Found] |-> FindsBy(v, s)]]
<1>1. Determined(Searches, SearchOrder, Found, body)
  <2>1. Found # {}
    <3>1. [cycle |-> TRUE, done |-> {}] \in Found
      BY DEF Found
    <3> QED BY <3>1
  <2>2. \A s \in Searches, v \in [Searches -> Found] : FindsBy(v, s) \in Found
    BY SearchesAreDetermined, SearchesGoOn
  <2>3. body \in [Searches -> [[Searches -> Found] -> Found]]
    BY <2>2
  <2>4. \A s \in Searches : \A g, h \in [Searches -> Found] :
          (\A y \in Searches : <<y, s>> \in SearchOrder => g[y] = h[y]) => body[s][g] = body[s][h]
    BY SearchesAreDetermined
  <2> HIDE DEF body
  <2> QED BY <2>1, <2>3, <2>4 DEF Determined
<1>2. PICK f \in [Searches -> Found] : \A s \in Searches : f[s] = body[s][f]
  <2> HIDE DEF body
  <2>1. WellFounded(Searches, SearchOrder)
    BY SearchesGoOn
  <2> QED BY <1>1, <2>1, Recursion
<1>3. f = [s \in Searches |-> FindsBy(f, s)]
  <2>1. \A s \in Searches : f[s] = FindsBy(f, s)
    BY <1>2
  <2> HIDE DEF body
  <2> QED BY <1>2, <2>1
<1> DEFINE c == CHOOSE g : g = [s \in Searches |-> FindsBy(g, s)]
<1>4. c = [s \in Searches |-> FindsBy(c, s)]
  <2>1. \E g : g = [s \in Searches |-> FindsBy(g, s)]
    BY <1>3, Zenon
  <2> QED BY <2>1, Zenon
<1>5. Visit = c
  BY Zenon DEF Visit, FindsBy, FirstOf, Into, Onward
<1>6. \A s \in Searches : Visit[s] = FindsBy(Visit, s)
  <2> HIDE DEF c
  <2> QED BY <1>4, <1>5
<1>7. \A s \in Searches : Visit[s] \in Found
  <2> DEFINE S == {s \in Searches : Visit[s] \in Found}
  <2>1. ASSUME NEW s \in Searches, \A y \in Searches : <<y, s>> \in SearchOrder => y \in S
        PROVE  s \in S
    <3>1. Enters(s) => Visit[Into(s)] \in Found
      BY <2>1, SearchesGoOn
    <3>2. \A g \in Found : s.todo # << >> => Visit[Onward(s, g)] \in Found
      BY <2>1, SearchesGoOn
    <3> QED BY <1>6, <3>1, <3>2, SearchesAreDetermined
  <2> HIDE DEF S
  <2>2. Searches \subseteq S
    BY <2>1, SearchesGoOn, WellFoundedInductionOn
  <2> QED BY <2>2 DEF S
<1> QED BY <1>6, <1>7

\* Constructors that need only one another, without a cycle.
Settled(done) ==
  /\ done \subseteq DOMAIN providers
  /\ \A k \in done : Needs(k) \subseteq done
  /\ \A C \in SUBSET done : C # {} => \E k \in C : Needs(k) \cap C = {}

\* One more, all needs of which are among them, makes no cycle.
LEMMA SettledGrows ==
  ASSUME NEW done, Settled(done), NEW k \in DOMAIN providers, Needs(k) \subseteq done
  PROVE  Settled(done \cup {k})
<1>1. CASE k \in done
  <2>1. done \cup {k} = done
    BY <1>1
  <2> QED BY <2>1
<1>2. CASE k \notin done
  <2>1. ASSUME NEW C \in SUBSET (done \cup {k}), C # {} PROVE \E d \in C : Needs(d) \cap C = {}
    <3> DEFINE D == C \ {k}
    <3>1. CASE D = {}
      <4>1. k \in C /\ C = {k}
        BY <2>1, <3>1
      <4>2. Needs(k) \cap C = {}
        BY <1>2, <4>1
      <4> QED BY <4>1, <4>2
    <3>2. CASE D # {}
      <4>1. PICK d \in D : Needs(d) \cap D = {}
        BY <3>2 DEF Settled
      <4>2. d \in done /\ Needs(d) \subseteq done
        BY <4>1 DEF Settled
      <4>3. Needs(d) \cap C = {}
        BY <1>2, <4>1, <4>2
      <4> QED BY <4>1, <4>3
    <3> QED BY <3>1, <3>2
  <2>2. \A d \in done \cup {k} : Needs(d) \subseteq done \cup {k}
    BY DEF Settled
  <2>3. done \cup {k} \subseteq DOMAIN providers
    BY DEF Settled
  <2> QED BY <2>1, <2>2, <2>3 DEF Settled
<1> QED BY <1>1, <1>2

\* A search without a cycle is done with all that it had to do, and with what that needs.
LEMMA SearchSettles ==
  ASSUME RInv, Unbuilt
  PROVE  \A s \in Searches : Settled(s.done) /\ ~Visit[s].cycle =>
           /\ Settled(Visit[s].done) /\ s.done \subseteq Visit[s].done
           /\ \A i \in DOMAIN s.todo : s.todo[i] \in Visit[s].done \cup {None}
<1> DEFINE Fine(s) == /\ Settled(Visit[s].done) /\ s.done \subseteq Visit[s].done
                      /\ \A i \in DOMAIN s.todo : s.todo[i] \in Visit[s].done \cup {None}
           S == {s \in Searches : Settled(s.done) /\ ~Visit[s].cycle => Fine(s)}
<1>1. ASSUME NEW s \in Searches, \A y \in Searches : <<y, s>> \in SearchOrder => y \in S
      PROVE  s \in S
  <2>1. SUFFICES ASSUME Settled(s.done), ~Visit[s].cycle PROVE Fine(s)
    OBVIOUS
  <2> DEFINE first == FirstOf(Visit, s)
             k == Head(s.todo)
             on == Onward(s, first)
  <2> HIDE DEF S, Fine
  <2>2. CASE s.todo = << >>
    <3>1. Visit[s].done = s.done
      <4>1. Visit[s] = [cycle |-> FALSE, done |-> s.done]
        BY <2>2, VisitIs, Zenon DEF FindsBy
      <4> QED BY <4>1
    <3>2. DOMAIN s.todo = {}
      BY <2>2
    <3> QED BY <2>1, <3>1, <3>2 DEF Fine
  <2>3. CASE s.todo # << >>
    <3>1. first \in Found
      <4>1. Enters(s) => Visit[Into(s)] \in Found
        BY SearchesGoOn, VisitIs
      <4>2. \A f \in Found : s.todo # << >> => Visit[Onward(s, f)] \in Found
        BY SearchesGoOn, VisitIs
      <4> QED BY <2>3, <4>1, <4>2, SearchesAreDetermined
    <3> HIDE DEF first
    <3>2. ~first.cycle /\ Visit[s] = Visit[on]
      <4>1. Visit[s] = IF first.cycle THEN first ELSE Visit[on]
        BY <2>3, VisitIs, Zenon DEF FindsBy, first
      <4> QED BY <2>1, <4>1
    <3>3. Settled(first.done) /\ s.done \subseteq first.done /\ k \in first.done \cup {None}
      <4>1. CASE Enters(s)
        <5>1. first = [cycle |-> Visit[Into(s)].cycle, done |-> Visit[Into(s)].done \cup {k}]
          BY <4>1 DEF first, FirstOf, Enters
        <5>2. k \in DOMAIN providers /\ Into(s) \in S /\ Into(s) \in Searches
          BY <1>1, <4>1, SearchesGoOn
        <5>3. Into(s).done = s.done /\ Into(s).todo = Below(k)
          BY DEF Into
        <5>4. Fine(Into(s))
          BY <2>1, <3>2, <5>1, <5>2, <5>3 DEF S
        <5>5. Needs(k) \subseteq Visit[Into(s)].done
          <6>1. \A i \in DOMAIN Incoming(k) : Incoming(k)[i] \in Visit[Into(s)].done \cup {None}
            BY <5>2, <5>3, <5>4, EdgesAre DEF Fine
          <6>2. \A d \in Needs(k) : d # None /\ \E i \in DOMAIN Incoming(k) : Incoming(k)[i] = d
            BY <5>2, EdgesAre, ProvidersAre
          <6> QED BY <6>1, <6>2
        <5>6. Settled(Visit[Into(s)].done \cup {k})
          BY <5>2, <5>4, <5>5, SettledGrows DEF Fine
        <5> QED BY <5>1, <5>3, <5>4, <5>6 DEF Fine
      <4>2. CASE ~Enters(s)
        <5>1. k \in s.done \cup {None}
          <6>1. k \notin s.done \cup {None} => k \in s.path
            BY <2>3, <4>2 DEF Enters
          <6>2. k \notin s.done \cup {None} /\ k \in s.path => first.cycle
            BY DEF first, FirstOf
          <6> QED BY <3>2, <6>1, <6>2
        <5>2. first.done = s.done
          BY <5>1 DEF first, FirstOf
        <5> QED BY <2>1, <5>1, <5>2
      <4> QED BY <4>1, <4>2
    <3>4. on \in S /\ on \in Searches /\ on.todo = Tail(s.todo) /\ on.done = first.done
      BY <1>1, <2>3, <3>1, SearchesGoOn DEF Onward
    <3>5. Fine(on)
      BY <2>1, <3>2, <3>3, <3>4 DEF S
    <3>6. \A i \in DOMAIN s.todo : s.todo[i] \in Visit[s].done \cup {None}
      <4> DEFINE Q == DOMAIN providers \cup {None}
                 todo == s.todo
      <4>1. todo \in Seq(Q) /\ todo # << >>
        BY <2>3 DEF Searches
      <4> HIDE DEF Q, todo
      <4>2. /\ Len(todo) \in Nat /\ DOMAIN todo = 1 .. Len(todo) /\ Head(todo) = todo[1]
            /\ Len(Tail(todo)) = Len(todo) - 1 /\ DOMAIN Tail(todo) = 1 .. Len(Tail(todo))
            /\ \A i \in 1 .. Len(Tail(todo)) : Tail(todo)[i] = todo[i + 1]
        BY <4>1, HeadTailProperties
      <4>3. ASSUME NEW i \in DOMAIN todo PROVE i = 1 \/ (i - 1 \in DOMAIN Tail(todo) /\ todo[i] = Tail(todo)[i - 1])
        <5>1. i \in Nat /\ 1 <= i /\ i <= Len(todo)
          BY <4>2
        <5>2. CASE i # 1
          <6>1. i - 1 \in 1 .. Len(Tail(todo)) /\ (i - 1) + 1 = i
            BY <4>2, <5>1, <5>2
          <6> QED BY <4>2, <6>1
        <5> QED BY <5>2
      <4>4. \A i \in DOMAIN todo : i = 1 \/ (i - 1 \in DOMAIN Tail(todo) /\ todo[i] = Tail(todo)[i - 1])
        BY <4>3
      <4>5. todo[1] \in Visit[s].done \cup {None}
        BY <3>2, <3>3, <3>4, <3>5, <4>2 DEF Fine, todo
      <4>6. \A i \in DOMAIN Tail(todo) : Tail(todo)[i] \in Visit[s].done \cup {None}
        BY <3>2, <3>4, <3>5 DEF Fine, todo
      <4>7. \A i \in DOMAIN todo : todo[i] \in Visit[s].done \cup {None}
        BY <4>4, <4>5, <4>6
      <4> QED BY <4>7 DEF todo
    <3> QED BY <3>2, <3>3, <3>4, <3>5, <3>6 DEF Fine
  <2> QED BY <2>2, <2>3
<1> HIDE DEF S
<1>2. Searches \subseteq S
  BY <1>1, SearchesGoOn, WellFoundedInductionOn
<1> QED BY <1>2 DEF S

\* If there is a cycle, detect_cycles finds one.
LEMMA CyclesAreDetected ==
  ASSUME RInv, Unbuilt, Cyclic PROVE DetectCycles
<1> DEFINE P == DOMAIN providers
           roots == [i \in DOMAIN order |-> IF order[i].ordinal = 0 THEN order[i] ELSE None]
           s == [todo |-> roots, path |-> {}, done |-> {}]
           D == Visit[s].done
<1>1. SUFFICES ASSUME ~Visit[s].cycle PROVE FALSE
  BY DEF DetectCycles
<1>2. DOMAIN order = 1 .. Len(order) /\ Len(order) \in Nat /\ \A i \in DOMAIN order : order[i] \in P
  BY DEF RInv, RegistryTypeOK
<1>3. roots \in Seq(P \cup {None}) /\ DOMAIN roots = DOMAIN order
  <2>1. roots = [i \in 1 .. Len(order) |-> roots[i]] /\ DOMAIN roots = DOMAIN order
    BY <1>2
  <2>2. \A i \in 1 .. Len(order) : roots[i] \in P \cup {None}
    BY <1>2
  <2> HIDE DEF roots, P
  <2> QED BY <1>2, <2>1, <2>2, SeqDef
<1>4. s \in Searches
  <2> HIDE DEF roots
  <2> QED BY <1>3 DEF Searches
<1>5. Settled(s.done)
  BY DEF Settled
<1>6. Settled(D) /\ \A i \in DOMAIN roots : roots[i] \in D \cup {None}
  <2>1. s.todo = roots
    BY Zenon
  <2> HIDE DEF s, roots
  <2> QED BY <1>1, <1>4, <1>5, <2>1, SearchSettles
<1> HIDE DEF D
<1>7. ASSUME NEW k \in P, k.ordinal = 0 PROVE k \in D
  <2>1. PICK i \in DOMAIN order : order[i] = k
    <3>1. k \in Range(order)
      BY DEF RInv, OrderInv
    <3> QED BY <3>1 DEF Range
  <2>2. roots[i] = k /\ i \in DOMAIN roots
    BY <1>3, <1>7, <2>1
  <2>3. k # None
    BY ProvidersAre
  <2> HIDE DEF roots
  <2> QED BY <1>6, <2>2, <2>3
<1>8. ASSUME NEW k \in P, k.ordinal # 0 PROVE k \in D
  <2> DEFINE v == VirtualKey(k.type)
  <2>1. k \in Keys
    BY DEF RInv, RegistryTypeOK
  <2>2. k.ordinal > 0
    BY <1>8, <2>1 DEF Keys
  <2>3. k.type \in registered
    BY <2>2 DEF RInv, GroupInv
  <2>4. v \in P /\ v.ordinal = 0
    BY <2>3 DEF RInv, GroupInv, VirtualKey, Singleton, Key
  <2>5. v \in D
    BY <1>7, <2>4
  <2>6. k \in Needs(v)
    BY <2>2, <2>3 DEF Needs
  <2> QED BY <1>6, <2>5, <2>6 DEF Settled
<1>9. P \subseteq D
  BY <1>7, <1>8
<1>10. PICK C \in SUBSET P : C # {} /\ \A k \in C : Needs(k) \cap C # {}
  BY Zenon DEF Cyclic
<1> QED BY <1>6, <1>9, <1>10 DEF Settled

-----------------------------------------------------------------------------
(* The verdict. *)

\* Nothing of the container changes.
LEMMA SameContainer ==
  ASSUME RInv, UNCHANGED <<container, applied, accepted>>
  PROVE  RInv'
<1> USE DEF container, values, indices, groups, placement
<1>1. RegistryTypeOK'
  BY DEF RInv, RegistryTypeOK
<1>2. PlaceInv'
  BY DEF RInv, PlaceInv
<1>3. KeysInv'
  BY DEF RInv, KeysInv
<1>4. ValuesInv'
  BY DEF RInv, ValuesInv, PublicFor, PrivateFor, Binds, Offers
<1>5. StockInv'
  BY DEF RInv, StockInv, Held, Offers
<1>6. IndexInv'
  BY DEF RInv, IndexInv, PublicFor, PrivateFor, Binds, Offers
<1>7. GroupInv'
  BY DEF RInv, GroupInv
<1>8. OrderInv'
  BY DEF RInv, OrderInv
<1>9. OneBindingPerPlace'
  BY DEF RInv, OneBindingPerPlace, Offers
<1> QED BY <1>1, <1>2, <1>3, <1>4, <1>5, <1>6, <1>7, <1>8, <1>9 DEF RInv

\* What is visible depends on the scopes and the bindings.
LEMMA SameSight ==
  ASSUME UNCHANGED <<chain, accepted>>
  PROVE  \A id, from : Visible(id, from)' = Visible(id, from)
  BY DEF Visible, Nearest, Binds, Offers

\* What constructors need, and what is wrong with them, depends on the wiring alone.
LEMMA SameVerdict ==
  ASSUME UNCHANGED <<chain, accepted, providers, registered, required, invokers, status, layers>>
  PROVE  (VerdictIsJust' <=> VerdictIsJust) /\ (LayersCoverNeeds' <=> LayersCoverNeeds)
<1>1. \A id, from : Visible(id, from)' = Visible(id, from)
  BY SameSight
<1>2. \A k : Needs(k)' = Needs(k)
  BY <1>1 DEF Needs
<1>3. \A deps, scope : Unbound(deps, scope)' <=> Unbound(deps, scope)
  BY <1>1 DEF Unbound
<1>4. Cyclic' <=> Cyclic
  BY <1>2 DEF Cyclic
<1>5. VerdictIsJust' <=> VerdictIsJust
  BY <1>3, <1>4 DEF VerdictIsJust
<1>6. LayersCoverNeeds' <=> LayersCoverNeeds
  BY <1>2 DEF LayersCoverNeeds
<1> QED BY <1>5, <1>6

\* The lookups of validate find unbound parameters, and only those.
LEMMA MissingIsUnbound ==
  ASSUME RInv, Unbuilt
  PROVE  /\ MissingDep <=> \E k \in DOMAIN providers : Unbound(providers[k], k.scope)
         /\ InvokerMissingDep
              <=> \E n \in DOMAIN invokers : Unbound(invokers[n].deps, invokers[n].scope)
<1>1. DOMAIN chain = 1 .. Len(chain)
  BY DEF RInv, PlaceInv
<1>2. \A from \in 1 .. Len(chain), id \in Ids : CanResolve(id, from) <=> Visible(id, from) # None
  BY <1>1, LookupsAgree DEF LookupsFollowVisibility
<1>3. ASSUME NEW k \in DOMAIN providers
      PROVE  (\E id \in Ids : (\E i \in DOMAIN providers[k] : providers[k][i] = id)
                                /\ ~CanResolve(id, k.scope))
               <=> Unbound(providers[k], k.scope)
  BY <1>2, ParametersAre DEF Unbound
<1>4. ASSUME NEW n \in DOMAIN invokers
      PROVE  (\E i \in DOMAIN invokers[n].deps :
                ~CanResolve(invokers[n].deps[i], invokers[n].scope))
               <=> Unbound(invokers[n].deps, invokers[n].scope)
  BY <1>2, ParametersAre DEF Unbound
<1> QED BY <1>3, <1>4 DEF MissingDep, InvokerMissingDep

\* A group is empty if no constructor is a member of it.
LEMMA EmptyIsEmpty ==
  ASSUME RInv
  PROVE  EmptyGroup
           <=> \E e \in required : \A k \in DOMAIN providers : ~(k.ordinal > 0 /\ k.type = e)
<1>1. required \subseteq Elements
  BY DEF RInv, RegistryTypeOK
<1>2. ASSUME NEW e \in Elements
      PROVE  members[e] = << >> <=> \A k \in DOMAIN providers : ~(k.ordinal > 0 /\ k.type = e)
  <2>1. members[e] \in Seq(DOMAIN providers)
    BY DEF RInv, RegistryTypeOK
  <2>2. ASSUME members[e] # << >>
        PROVE  \E k \in DOMAIN providers : k.ordinal > 0 /\ k.type = e
    <3>1. 1 \in DOMAIN members[e]
      BY <2>1, <2>2
    <3>2. members[e][1] \in Range(members[e])
      BY <3>1 DEF Range
    <3> QED BY <3>2 DEF RInv, GroupInv
  <2>3. ASSUME NEW k \in DOMAIN providers, k.ordinal > 0, k.type = e PROVE members[e] # << >>
    <3>1. k \in Range(members[e])
      BY <2>3 DEF RInv, GroupInv
    <3> QED BY <3>1 DEF Range
  <2> QED BY <2>2, <2>3
<1> QED BY <1>1, <1>2 DEF EmptyGroup

\* What validate finds is so, and it finds all.
LEMMA VerdictHolds ==
  ASSUME RInv, Unbuilt
  PROVE  /\ Verdict \in Verdicts
         /\ Verdict = "missing_dep" => \E k \in DOMAIN providers : Unbound(providers[k], k.scope)
         /\ Verdict = "invoker_missing_dep"
              => \E n \in DOMAIN invokers : Unbound(invokers[n].deps, invokers[n].scope)
         /\ Verdict = "empty_group"
              => \E e \in required : \A k \in DOMAIN providers : ~(k.ordinal > 0 /\ k.type = e)
         /\ Verdict = "cycle" => Cyclic
         /\ Verdict = "validated" =>
              /\ ~ \E k \in DOMAIN providers : Unbound(providers[k], k.scope)
              /\ ~ \E n \in DOMAIN invokers : Unbound(invokers[n].deps, invokers[n].scope)
              /\ ~ \E e \in required : \A k \in DOMAIN providers : ~(k.ordinal > 0 /\ k.type = e)
              /\ ~Cyclic /\ AllFrozen
<1>1. ~AllFrozen /\ DetectCycles <=> Cyclic
  BY StuckIsCyclic, CyclesAreDetected
<1>2. Verdict = IF MissingDep THEN "missing_dep"
                ELSE IF InvokerMissingDep THEN "invoker_missing_dep"
                ELSE IF EmptyGroup THEN "empty_group"
                ELSE IF Cyclic THEN "cycle" ELSE "validated"
  BY <1>1 DEF Verdict
<1>3. Verdict \in Verdicts
  BY <1>2 DEF Verdicts
<1>4. ~Cyclic => AllFrozen
  BY StuckIsCyclic
<1> QED BY <1>2, <1>3, <1>4, MissingIsUnbound, EmptyIsEmpty

-----------------------------------------------------------------------------
(* The layers. *)

\* Part of a layer or wave.
LEMMA PartIs ==
  ASSUME NEW f, NEW T, T \subseteq DOMAIN f
  PROVE  /\ DOMAIN Restrict(f, T) = T
         /\ \A n \in T : Restrict(f, T)[n] = f[n]
         /\ Range(Restrict(f, T)) \subseteq Range(f)
         /\ IsInjective(f) => IsInjective(Restrict(f, T))
<1>1. DOMAIN Restrict(f, T) = T /\ \A n \in T : Restrict(f, T)[n] = f[n]
  BY DEF Restrict
<1> DEFINE g == Restrict(f, T)
<1>2. DOMAIN g = T /\ \A n \in T : g[n] = f[n]
  BY <1>1
<1> HIDE DEF g
<1>3. Range(g) \subseteq Range(f)
  BY <1>2 DEF Range
<1>4. IsInjective(f) => IsInjective(g)
  BY <1>2 DEF IsInjective
<1> QED BY <1>1, <1>3, <1>4 DEF g


\* The constructors that a layer holds are those that its round found ready.
LEMMA FrozenIs ==
  ASSUME RInv, Unbuilt
  PROVE  /\ Frozen \in Seq(Range(Frozen)) /\ DOMAIN Frozen = 1 .. Rounds
         /\ \A n \in DOMAIN Frozen :
              /\ Range(Frozen[n]) \subseteq DOMAIN providers /\ IsInjective(Frozen[n])
              /\ Range(Frozen[n]) = Round[n - 1].ready
<1> DEFINE places(n) == {i \in DOMAIN order : order[i] \in Round[n - 1].ready}
<1>1. /\ DOMAIN Frozen = 1 .. Rounds
      /\ \A n \in 1 .. Rounds : Frozen[n] = Restrict(order, places(n))
  BY DEF Frozen
<1>2. IsInjective(order) /\ Range(order) = DOMAIN providers
  BY DEF RInv, OrderInv
<1>3. ASSUME NEW n \in DOMAIN Frozen
      PROVE  /\ Range(Frozen[n]) \subseteq DOMAIN providers /\ IsInjective(Frozen[n])
             /\ Range(Frozen[n]) = Round[n - 1].ready
  <2>1. PICK T : T = places(n)
    OBVIOUS
  <2>2. T \subseteq DOMAIN order /\ Frozen[n] = Restrict(order, T)
    BY <1>1, <1>3, <2>1
  <2>3. /\ Range(Restrict(order, T)) \subseteq Range(order) /\ IsInjective(Restrict(order, T))
        /\ DOMAIN Restrict(order, T) = T /\ \A i \in T : Restrict(order, T)[i] = order[i]
    BY <1>2, <2>2, PartIs
  <2>4. Round[n - 1].ready \subseteq Range(order)
    <3>1. n - 1 \in Nat
      BY <1>1, <1>3, RoundsEnd
    <3> QED BY <1>2, <3>1, RoundsAre DEF RoundInv
  <2>5. Range(Restrict(order, T)) = Round[n - 1].ready
    <3>1. Range(Restrict(order, T)) = {order[i] : i \in T}
      BY <2>3 DEF Range
    <3> QED BY <2>1, <2>4, <3>1 DEF Range
  <2> QED BY <1>2, <2>2, <2>3, <2>5
<1>4. Frozen \in Seq(Range(Frozen))
  <2>1. Frozen = [n \in 1 .. Rounds |-> Frozen[n]]
    BY DEF Frozen
  <2>2. \A n \in 1 .. Rounds : Frozen[n] \in Range(Frozen)
    BY <1>1 DEF Range
  <2> QED BY <2>1, <2>2, RoundsEnd, SeqDef
<1> QED BY <1>1, <1>3, <1>4

\* Each constructor is ready in one round, and what it needs in earlier ones.
LEMMA ReadyOnce ==
  ASSUME RInv, Unbuilt, AllFrozen, NEW k \in DOMAIN providers
  PROVE  \E n \in 0 .. Rounds - 1 :
           /\ \A m \in Nat : k \in Round[m].ready <=> m = n
           /\ Needs(k) \subseteq Past(n)
<1>1. k \in Past(Rounds)
  BY AllFrozenIs
<1>2. PICK n \in 0 .. Rounds - 1 : k \in Round[n].ready
  BY <1>1, ReadyAt, RoundsEnd
<1>3. n \in Nat
  BY RoundsEnd
<1>4. ASSUME NEW m \in Nat, NEW l \in Nat, l < m, k \in Round[m].ready, k \in Round[l].ready
      PROVE  FALSE
  <2>1. l \in 0 .. m - 1
    BY <1>4
  <2>2. k \in Past(m)
    BY <1>4, <2>1 DEF Past
  <2> QED BY <1>4, <2>2, RoundsAre DEF RoundInv
<1>5. \A m \in Nat : k \in Round[m].ready => m = n
  <2>1. ASSUME NEW m \in Nat, k \in Round[m].ready, m # n PROVE FALSE
    <3>1. m < n \/ n < m
      BY <1>3, <2>1
    <3> QED BY <1>2, <1>3, <1>4, <2>1, <3>1
  <2> QED BY <2>1
<1>6. Needs(k) \subseteq Past(n)
  BY <1>2, <1>3, ReadyNeeds
<1> QED BY <1>2, <1>5, <1>6

\* The layers that a complete freeze leaves.
LEMMA FrozenCovers ==
  ASSUME RInv, Unbuilt, AllFrozen
  PROVE  LET at(k) == {n \in DOMAIN Frozen : k \in Range(Frozen[n])}
         IN /\ \A n \in DOMAIN Frozen :
                 IsInjective(Frozen[n]) /\ Range(Frozen[n]) \subseteq DOMAIN providers
            /\ \A k \in DOMAIN providers :
                 /\ Cardinality(at(k)) = 1
                 /\ \A d \in Needs(k) : \A n \in at(k), m \in at(d) : m < n
<1> DEFINE at(k) == {n \in DOMAIN Frozen : k \in Range(Frozen[n])}
<1>1. ASSUME NEW k \in DOMAIN providers
      PROVE  \E n \in 0 .. Rounds - 1 :
               /\ at(k) = {n + 1} /\ k \in Round[n].ready
               /\ \A d \in Needs(k) : \E m \in 0 .. n - 1 : d \in Round[m].ready
  <2>1. PICK n \in 0 .. Rounds - 1 : /\ \A m \in Nat : k \in Round[m].ready <=> m = n
                                     /\ Needs(k) \subseteq Past(n)
    BY ReadyOnce
  <2>2. n \in Nat /\ n + 1 \in 1 .. Rounds /\ (n + 1) - 1 = n
    BY RoundsEnd
  <2>3. \A m \in 1 .. Rounds : m - 1 \in Nat /\ (m - 1 = n => m = n + 1)
    BY <2>2
  <2>4. \A m \in 1 .. Rounds : k \in Range(Frozen[m]) <=> k \in Round[m - 1].ready
    BY FrozenIs
  <2>5. \A m \in 1 .. Rounds : k \in Range(Frozen[m]) <=> m = n + 1
    BY <2>1, <2>2, <2>3, <2>4
  <2>6. at(k) = {n + 1}
    BY <2>2, <2>5, FrozenIs
  <2>7. \A d \in Needs(k) : \E m \in 0 .. n - 1 : d \in Round[m].ready
    BY <2>1, <2>2, ReadyAt
  <2> QED BY <2>1, <2>2, <2>6, <2>7
<1>2. ASSUME NEW k \in DOMAIN providers, NEW d \in Needs(k), NEW n \in at(k), NEW m \in at(d)
      PROVE  m < n
  <2>1. PICK i \in 0 .. Rounds - 1 :
          at(k) = {i + 1} /\ \A c \in Needs(k) : \E j \in 0 .. i - 1 : c \in Round[j].ready
    BY <1>1
  <2>2. PICK j \in 0 .. i - 1 : d \in Round[j].ready
    BY <2>1
  <2>3. d \in DOMAIN providers
    BY EdgesAre
  <2>4. PICK l \in 0 .. Rounds - 1 : at(d) = {l + 1} /\ d \in Round[l].ready
    BY <1>1, <2>3
  <2>5. j = l
    <3>1. j \in Nat /\ l \in Nat
      BY RoundsEnd
    <3>2. \E r \in 0 .. Rounds - 1 : \A q \in Nat : d \in Round[q].ready <=> q = r
      BY <2>3, ReadyOnce
    <3> QED BY <2>2, <2>4, <3>1, <3>2
  <2>6. n = i + 1 /\ m = l + 1
    BY <2>1, <2>4
  <2> HIDE DEF at
  <2> QED BY <2>2, <2>5, <2>6, RoundsEnd
<1>3. ASSUME NEW k \in DOMAIN providers PROVE Cardinality(at(k)) = 1
  <2>1. PICK n \in 0 .. Rounds - 1 : at(k) = {n + 1}
    BY <1>1
  <2> HIDE DEF at
  <2> QED BY <2>1, FS_Singleton
<1> HIDE DEF at
<1>4. \A k \in DOMAIN providers : \A d \in Needs(k) : \A n \in at(k), m \in at(d) : m < n
  BY <1>2
<1> QED BY <1>3, <1>4, FrozenIs DEF at

-----------------------------------------------------------------------------
(* The invariant. *)

\* While options are applied, nothing is built or frozen.
LInv == /\ RInv /\ VerdictIsJust /\ LayersCoverNeeds
        /\ status = "open" => Unbuilt /\ layers = << >>

\* Options are applied to an open container, and leave it open or refuse one.
LEMMA ApplyIsOpen ==
  ASSUME Apply PROVE status = "open" /\ status' \in {"open", "refused"}
  BY DEF Apply, OpenModule, CloseModule, Provide, Supply, AddMember, InitGroup, RequireGroup,
         RegisterGroup, AddInvoker, Refuse, Take

\* Validation comes to a just verdict, and freezes what it accepts.
LEMMA ValidateKeeps ==
  ASSUME RInv, Unbuilt, Validate
  PROVE  RInv' /\ VerdictIsJust' /\ LayersCoverNeeds' /\ status' # "open"
<1>1. /\ UNCHANGED <<container, applied, accepted>> /\ status' = Verdict
      /\ layers' = IF Verdict = "validated" /\ AllFrozen THEN Frozen ELSE << >>
  BY DEF Validate
<1>2. UNCHANGED <<chain, accepted, providers, registered, required, invokers>>
  BY <1>1 DEF container, indices, groups, placement
<1>3. RInv'
  BY <1>1, SameContainer
<1>4. \A id, from : Visible(id, from)' = Visible(id, from)
  BY <1>2, SameSight
<1>5. \A k : Needs(k)' = Needs(k)
  BY <1>2, <1>4 DEF Needs
<1>6. \A deps, scope : Unbound(deps, scope)' <=> Unbound(deps, scope)
  BY <1>4 DEF Unbound
<1>7. Cyclic' <=> Cyclic
  BY <1>2, <1>5 DEF Cyclic
<1>8. VerdictIsJust'
  BY <1>1, <1>2, <1>6, <1>7, VerdictHolds DEF VerdictIsJust
<1>9. LayersCoverNeeds'
  <2>1. SUFFICES ASSUME Verdict = "validated" PROVE LayersCoverNeeds'
    BY <1>1 DEF LayersCoverNeeds
  <2>2. AllFrozen
    BY <2>1, VerdictHolds
  <2>3. layers' = Frozen
    BY <1>1, <2>1, <2>2
  <2> QED BY <1>2, <1>5, <2>2, <2>3, FrozenCovers DEF LayersCoverNeeds
<1>10. status' # "open"
  BY <1>1, VerdictHolds DEF Verdicts
<1> QED BY <1>3, <1>8, <1>9, <1>10

LEMMA LayersStepKeeps ==
  ASSUME LInv, [LayersNext]_layersVars PROVE LInv'
<1>1. CASE Apply /\ UNCHANGED layers
  <2>1. status = "open" /\ status' \in {"open", "refused"} /\ Unbuilt /\ layers = << >>
    BY <1>1, ApplyIsOpen DEF LInv
  <2>2. RInv' /\ Unbuilt'
    BY <1>1, <2>1, ApplyKeeps DEF LInv
  <2>3. VerdictIsJust' /\ LayersCoverNeeds'
    BY <2>1 DEF VerdictIsJust, LayersCoverNeeds
  <2> QED BY <1>1, <2>1, <2>2, <2>3 DEF LInv
<1>2. CASE Validate
  <2>1. Unbuilt
    BY <1>2 DEF LInv, Validate
  <2> QED BY <1>2, <2>1, ValidateKeeps DEF LInv
<1>3. CASE UNCHANGED layersVars
  <2>1. /\ UNCHANGED registryVars
        /\ UNCHANGED <<chain, accepted, providers, registered, required, invokers, status, layers>>
    BY <1>3 DEF layersVars, registryVars, container, indices, groups, placement
  <2>2. VerdictIsJust' /\ LayersCoverNeeds'
    BY <2>1, SameVerdict DEF LInv
  <2>3. RInv' /\ (Unbuilt => Unbuilt')
    BY <2>1, ApplyKeeps DEF LInv
  <2> QED BY <2>1, <2>2, <2>3 DEF LInv
<1> QED BY <1>1, <1>2, <1>3 DEF LayersNext

THEOREM LayersInvariant == LayersSpec => []LInv
<1>1. LayersInit => LInv
  BY InitHolds DEF LayersInit, LInv, RegistryInit, VerdictIsJust, LayersCoverNeeds
<1>2. LInv /\ [LayersNext]_layersVars => LInv'
  BY LayersStepKeeps
<1> QED BY <1>1, <1>2, PTL DEF LayersSpec

\* Validation accepts a wiring if and only if nothing is wrong with it, and otherwise
\* names a fault that it has: the depth-first search of detect_cycles finds a cycle
\* whenever the counting of freeze_layers gets stuck.
THEOREM VerdictsAreJust == LayersSpec => []VerdictIsJust
<1>1. LInv => VerdictIsJust
  BY DEF LInv
<1> QED BY <1>1, LayersInvariant, PTL

\* The layers of an accepted wiring hold each constructor once, after all that it needs.
THEOREM LayersAreInOrder == LayersSpec => []LayersCoverNeeds
<1>1. LInv => LayersCoverNeeds
  BY DEF LInv
<1> QED BY <1>1, LayersInvariant, PTL

=============================================================================
