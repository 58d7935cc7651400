----------------------------- MODULE ProgramProofs -----------------------------
(***************************************************************************)
(* Proofs about the build and about the program that the build and the     *)
(* driver make, for any wiring and whatever constructors, invokers and     *)
(* hooks do.                                                               *)
(*                                                                         *)
(* First the build: it injects what the scopes see, calls what is needed   *)
(* and each constructor once, leaves no member of a group without its      *)
(* group, and never finds missing what validation promised.                *)
(*                                                                         *)
(* Then the program, which joins Build and App without changing either:    *)
(* each of its behaviours is one of both.  What is proved of each of them  *)
(* then holds of the whole, and together they give what neither can state: *)
(* the order of the hooks against that of the dependencies, and what       *)
(* becomes of a build that failed.                                         *)
(***************************************************************************)
EXTENDS Program, LayersProofs

-----------------------------------------------------------------------------
(* The build. *)

(***************************************************************************)
(* The inductive invariant.                                                *)
(***************************************************************************)

\* The constructors whose futures are awaited, or have finished and not been stored.
Awaited == inflight \cup finished

\* Each layer holds constructors, in places of their own.
LayersInv ==
  /\ layers \in Seq(Range(layers))
  /\ \A n \in DOMAIN layers : Range(layers[n]) \subseteq DOMAIN providers /\ IsInjective(layers[n])

\* Nothing is called or injected before the wiring is accepted; each constructor is
\* called in one place of one wave.
CallsInv ==
  /\ calls \in Seq(Range(calls)) /\ BuiltOnce
  /\ at = "wiring" => calls = << >> /\ injected = {}

\* Where the build is: what is pending has not been called, but for the futures of the
\* wave that runs.
PhaseInv ==
  /\ at = "wiring" => next = 1 /\ layer = 1 /\ layers = << >>
  /\ at = "layers" => pending \cap Called = {}
  /\ at = "join" => pending \cap Called = Awaited /\ layer <= Len(layers)
  /\ at \in {"wiring", "invoker", "call", "invoking"} => pending = {}
  /\ at \notin {"join", "end"} => Awaited = {} /\ constructing = {}
  /\ at \in {"layers", "join", "call", "invoking"} => next <= Len(invokers)

\* What was called and returned has left its value, for the types it offers.
HeldInv == at # "end" => \A k \in Called \ Awaited : k.ordinal = 0 => Held(k)

\* The members of a group are built for their aggregate: it is called with them, and
\* takes the values of all of them.
MembersInv ==
  at # "end" =>
    /\ \A m \in Called \cup pending :
         m.ordinal > 0 => VirtualKey(m.type) \in Called \cup pending
    /\ \A m \in memberValues :
         m \in Called /\ m \notin pending /\ VirtualKey(m.type) \notin Called
    /\ \A e \in registered :
         VirtualKey(e) \in Called => Range(members[e]) \subseteq Called \ pending

\* What is needed: every set that holds what was asked for and all that its
\* constructors need.
Needed(C) ==
  /\ C \subseteq DOMAIN providers /\ Asked \cap DOMAIN providers \subseteq C
  /\ \A k \in C : Needs(k) \subseteq C

NeedInv == \A C : Needed(C) => Called \cup pending \subseteq C

BInv == /\ RInv /\ BuildTypeOK /\ LayersInv /\ CallsInv /\ PhaseInv /\ HeldInv /\ MembersInv
        /\ NeedInv /\ InjectsWhatIsVisible

\* The build runs what was validated, and before that no constructor has left a value.
WiredInv ==
  /\ VerdictIsJust /\ LayersCoverNeeds
  /\ at = "wiring" => Unbuilt
  /\ at # "wiring" => status = "validated"

-----------------------------------------------------------------------------
(* What the lookups tell the build. *)

\* The binding that a scope sees, if it is there, and the constructor to run if not.
LEMMA Finds ==
  ASSUME RInv, NEW id \in Ids, NEW from \in 1 .. Len(chain)
  PROVE  /\ LookupValue(id, from) # None =>
              LookupValue(id, from) = Visible(id, from) /\ LookupValue(id, from) \in Keys
         /\ \A d \in PendingFor(id, from) :
              \/ d = None
              \/ d \in DOMAIN providers /\ d = Visible(id, from) /\ d.ordinal = 0 /\ ~Held(d)
<1>1. PICK v : v = Visible(id, from)
  OBVIOUS
<1>2. /\ v # None => v \in accepted /\ id \in Offers(v)
      /\ LookupValue(id, from) \in {None, v}
      /\ v # None /\ Held(v) => LookupValue(id, from) = v
      /\ v \in DOMAIN providers => ResolveProvider(id, from) = v
      /\ v = None => ResolveProvider(id, from) = None
  BY <1>1, LookupsFind
<1>3. v # None => v \in Keys /\ v.ordinal = 0
  BY <1>2, BindingIs DEF RInv, KeysInv
<1>4. ASSUME NEW d \in PendingFor(id, from), d # None
      PROVE  d \in DOMAIN providers /\ d = v /\ d.ordinal = 0 /\ ~Held(d)
  <2>1. LookupValue(id, from) = None /\ d = ResolveProvider(id, from)
    BY DEF PendingFor
  <2>2. v # None
    BY <1>2, <1>4, <2>1
  <2>3. ~Held(v)
    BY <1>2, <2>1, <2>2
  <2>4. v \in DOMAIN providers
    BY <1>2, <2>2, <2>3 DEF RInv, StockInv
  <2> QED BY <1>2, <1>3, <2>1, <2>2, <2>3, <2>4
<1> QED BY <1>1, <1>2, <1>3, <1>4

\* What a constructor waits for it needs, and has not left its value; a member it waits
\* for is of its group.
LEMMA WaitsAre ==
  ASSUME RInv, NEW k \in DOMAIN providers
  PROVE  \A d \in WaitsFor(k) :
           \/ d = None
           \/ /\ d \in DOMAIN providers /\ d \in Needs(k)
              /\ \/ d.ordinal = 0 /\ ~Held(d)
                 \/ d.ordinal > 0 /\ k = VirtualKey(d.type)
<1> SUFFICES ASSUME NEW d \in WaitsFor(k), d # None
             PROVE  /\ d \in DOMAIN providers /\ d \in Needs(k)
                    /\ \/ d.ordinal = 0 /\ ~Held(d)
                       \/ d.ordinal > 0 /\ k = VirtualKey(d.type)
  OBVIOUS
<1>1. d \in PendingOf(providers[k], k.scope) \/ d \in Range(MembersOf(k))
  <2>1. k # None
    BY NoneIsNoProvider DEF RInv
  <2> QED BY <2>1 DEF WaitsFor
<1>2. CASE d \in PendingOf(providers[k], k.scope)
  <2>1. PICK i \in DOMAIN providers[k] : d \in PendingFor(providers[k][i], k.scope)
    BY <1>2 DEF PendingOf
  <2>2. /\ d \in DOMAIN providers /\ d = Visible(providers[k][i], k.scope)
        /\ d.ordinal = 0 /\ ~Held(d)
    BY <2>1, ParametersAre, Finds
  <2> QED BY <2>2 DEF Needs
<1>3. CASE d \in Range(MembersOf(k))
  BY <1>3, MembersAre DEF Needs
<1> QED BY <1>1, <1>2, <1>3

\* The same of an invoker.
LEMMA InvokerWaits ==
  ASSUME RInv, NEW n \in DOMAIN invokers
  PROVE  \A d \in PendingOf(invokers[n].deps, invokers[n].scope) :
           \/ d = None
           \/ /\ d \in DOMAIN providers /\ d.ordinal = 0 /\ ~Held(d)
              /\ \E i \in DOMAIN invokers[n].deps :
                   d = Visible(invokers[n].deps[i], invokers[n].scope)
<1> SUFFICES ASSUME NEW d \in PendingOf(invokers[n].deps, invokers[n].scope), d # None
             PROVE  /\ d \in DOMAIN providers /\ d.ordinal = 0 /\ ~Held(d)
                    /\ \E i \in DOMAIN invokers[n].deps :
                         d = Visible(invokers[n].deps[i], invokers[n].scope)
  OBVIOUS
<1>1. PICK i \in DOMAIN invokers[n].deps : d \in PendingFor(invokers[n].deps[i], invokers[n].scope)
  BY DEF PendingOf
<1>2. /\ d \in DOMAIN providers /\ d = Visible(invokers[n].deps[i], invokers[n].scope)
      /\ d.ordinal = 0 /\ ~Held(d)
  BY <1>1, ParametersAre, Finds
<1> QED BY <1>2

-----------------------------------------------------------------------------
(* What is collected. *)

\* What is reached holds where it starts, is closed, and is within each closed set.
LEMMA ReachedIs ==
  ASSUME NEW to, NEW S, S \subseteq DOMAIN to, \A k \in DOMAIN to : to[k] \subseteq DOMAIN to
  PROVE  /\ Reached(S, to) \subseteq DOMAIN to
         /\ S \subseteq Reached(S, to)
         /\ \A k \in Reached(S, to) : to[k] \subseteq Reached(S, to)
         /\ \A D : D \subseteq DOMAIN to /\ S \subseteq D /\ (\A k \in D : to[k] \subseteq D)
                   => Reached(S, to) \subseteq D
<1> DEFINE closed == {C \in SUBSET DOMAIN to : S \subseteq C /\ \A k \in C : to[k] \subseteq C}
           R == Reached(S, to)
<1>1. R = {k \in DOMAIN to : \A C \in closed : k \in C}
  BY DEF Reached
<1>2. \A D : D \in closed <=>
        D \subseteq DOMAIN to /\ S \subseteq D /\ \A k \in D : to[k] \subseteq D
  OBVIOUS
<1> HIDE DEF closed, R
<1>3. R \subseteq DOMAIN to
  BY <1>1
<1>4. S \subseteq R
  BY <1>1, <1>2
<1>5. ASSUME NEW k \in R, NEW d \in to[k] PROVE d \in R
  <2>1. \A C \in closed : d \in C
    BY <1>1, <1>2
  <2>2. d \in DOMAIN to
    BY <1>3
  <2> QED BY <1>1, <2>1, <2>2
<1>6. ASSUME NEW D, D \subseteq DOMAIN to, S \subseteq D, \A k \in D : to[k] \subseteq D
      PROVE  R \subseteq D
  <2>1. D \in closed
    BY <1>2, <1>6
  <2> QED BY <1>1, <2>1
<1> QED BY <1>3, <1>4, <1>5, <1>6 DEF R

\* The same of what is collected.
LEMMA CollectedIs ==
  ASSUME NEW S, S \subseteq DOMAIN providers \cup {None},
         \A k \in DOMAIN providers \cup {None} : WaitsFor(k) \subseteq DOMAIN providers \cup {None}
  PROVE  /\ Collected(S) \subseteq DOMAIN providers \cup {None}
         /\ S \subseteq Collected(S)
         /\ \A k \in Collected(S) : WaitsFor(k) \subseteq Collected(S)
         /\ \A D : /\ D \subseteq DOMAIN providers \cup {None} /\ S \subseteq D
                   /\ \A k \in D : WaitsFor(k) \subseteq D
                   => Collected(S) \subseteq D
<1>1. PICK to : to = [k \in DOMAIN providers \cup {None} |-> WaitsFor(k)]
  OBVIOUS
<1>2. /\ DOMAIN to = DOMAIN providers \cup {None}
      /\ \A k \in DOMAIN providers \cup {None} : to[k] = WaitsFor(k)
      /\ Collected(S) = Reached(S, to)
  BY <1>1 DEF Collected
<1>3. /\ Reached(S, to) \subseteq DOMAIN to
      /\ S \subseteq Reached(S, to)
      /\ \A k \in Reached(S, to) : to[k] \subseteq Reached(S, to)
      /\ \A D : D \subseteq DOMAIN to /\ S \subseteq D /\ (\A k \in D : to[k] \subseteq D)
                => Reached(S, to) \subseteq D
  BY <1>2, ReachedIs
<1> QED BY <1>2, <1>3

-----------------------------------------------------------------------------
(* What a step of the build leaves alone. *)

\* What is needed depends on the wiring, and what was asked for grows with the invokers.
LEMMA SameNeeds ==
  ASSUME UNCHANGED <<chain, accepted, providers, registered, invokers>>, next <= next',
         next \in Nat, next' \in Nat, invokers \in Seq(Range(invokers)), NEW C, Needed(C)'
  PROVE  Needed(C)
<1>1. \A id, from : Visible(id, from)' = Visible(id, from)
  BY SameSight
<1>2. \A k : Needs(k)' = Needs(k)
  BY <1>1 DEF Needs
<1>3. Asked \subseteq Asked'
  <2> SUFFICES ASSUME NEW k \in Asked PROVE k \in Asked'
    OBVIOUS
  <2>1. PICK n \in DOMAIN invokers : n <= next /\ k \in {Visible(invokers[n].deps[i], invokers[n].scope) : i \in DOMAIN invokers[n].deps}
    BY DEF Asked
  <2>2. n \in Nat
    OBVIOUS
  <2>3. n <= next'
    BY <2>1, <2>2
  <2> QED BY <1>1, <2>1, <2>3 DEF Asked
<1> QED BY <1>2, <1>3 DEF Needed

\* What returns leaves its value, under what it offers in its place; the values that were
\* there stay.
LEMMA StoreKeeps ==
  ASSUME RInv, NEW S, S \subseteq DOMAIN providers, NEW held, StoreResults(S, held),
         UNCHANGED <<wiring, applied, accepted>>
  PROVE  /\ RInv'
         /\ \A k \in accepted : Held(k) => Held(k)'
         /\ \A k \in S : k.ordinal = 0 => Held(k)'
         /\ \A id \in Ids : valuesPublic'[id] \in S \cup {valuesPublic[id]}
         /\ \A id \in Ids, s \in Scopes :
              valuesPrivate'[<<id, s>>] \in S \cup {valuesPrivate[<<id, s>>]}
<1> DEFINE Pub(id)     == {k \in S : k.ordinal = 0 /\ k.private = FALSE /\ id \in Offers(k)}
           Priv(id, s) == {k \in S : k.ordinal = 0 /\ k.private = TRUE /\ k.scope = s
                                     /\ id \in Offers(k)}
<1>1. /\ valuesPublic' \in [Ids -> Keys \cup {None}]
      /\ \A id \in Ids :
           \/ valuesPublic'[id] \in Pub(id)
           \/ Pub(id) = {} /\ valuesPublic'[id] = valuesPublic[id]
  <2>1. valuesPublic' = [id \in Ids |->
          LET ks == {k \in S : k.ordinal = 0 /\ k.private = FALSE
                               /\ (FALSE => k.scope = Root) /\ id \in Offers(k)}
          IN IF ks = {} THEN valuesPublic[id] ELSE CHOOSE k \in ks : TRUE]
    BY DEF StoreResults
  <2>2. \A id \in Ids :
          Pub(id) = {k \in S : k.ordinal = 0 /\ k.private = FALSE
                               /\ (FALSE => k.scope = Root) /\ id \in Offers(k)}
    OBVIOUS
  <2>3. DOMAIN valuesPublic' = Ids
    BY <2>1
  <2>4. ASSUME NEW id \in Ids
        PROVE  \/ valuesPublic'[id] \in Pub(id)
               \/ Pub(id) = {} /\ valuesPublic'[id] = valuesPublic[id]
    <3>1. valuesPublic'[id] = IF Pub(id) = {} THEN valuesPublic[id] ELSE CHOOSE k \in Pub(id) : TRUE
      BY <2>1, <2>2
    <3> HIDE DEF Pub
    <3> QED BY <3>1
  <2>5. ASSUME NEW id \in Ids PROVE valuesPublic'[id] \in Keys \cup {None}
    <3>1. DOMAIN providers \subseteq Keys /\ valuesPublic[id] \in Keys \cup {None}
      BY DEF RInv, RegistryTypeOK
    <3> QED BY <2>4, <3>1
  <2>6. valuesPublic' = [id \in Ids |-> valuesPublic'[id]]
    BY <2>1
  <2> QED BY <2>4, <2>5, <2>6
<1>2. /\ valuesPrivate' \in [Ids \X Scopes -> Keys \cup {None}]
      /\ \A id \in Ids, s \in Scopes :
           \/ valuesPrivate'[<<id, s>>] \in Priv(id, s)
           \/ Priv(id, s) = {} /\ valuesPrivate'[<<id, s>>] = valuesPrivate[<<id, s>>]
  <2> DEFINE Q(p) == {k \in S : k.ordinal = 0 /\ k.private = TRUE
                                /\ (TRUE => k.scope = p[2]) /\ p[1] \in Offers(k)}
  <2>1. valuesPrivate' = [p \in Ids \X Scopes |->
          IF Q(p) = {} THEN valuesPrivate[p] ELSE CHOOSE k \in Q(p) : TRUE]
    BY DEF StoreResults
  <2>2. \A id \in Ids, s \in Scopes : Q(<<id, s>>) = Priv(id, s)
    OBVIOUS
  <2>3. DOMAIN valuesPrivate' = Ids \X Scopes
    BY <2>1
  <2>4. ASSUME NEW id \in Ids, NEW s \in Scopes
        PROVE  \/ valuesPrivate'[<<id, s>>] \in Priv(id, s)
               \/ Priv(id, s) = {} /\ valuesPrivate'[<<id, s>>] = valuesPrivate[<<id, s>>]
    <3> HIDE DEF Priv, Q
    <3>1. PICK p \in Ids \X Scopes : p = <<id, s>>
      OBVIOUS
    <3>2. \/ valuesPrivate'[p] \in Q(p)
          \/ Q(p) = {} /\ valuesPrivate'[p] = valuesPrivate[p]
      BY <2>1
    <3> QED BY <2>2, <3>1, <3>2
  <2>5. ASSUME NEW p \in Ids \X Scopes PROVE valuesPrivate'[p] \in Keys \cup {None}
    <3>1. DOMAIN providers \subseteq Keys /\ valuesPrivate[p] \in Keys \cup {None}
      BY DEF RInv, RegistryTypeOK
    <3>2. p = <<p[1], p[2]>> /\ p[1] \in Ids /\ p[2] \in Scopes
      OBVIOUS
    <3> QED BY <2>4, <3>1, <3>2
  <2>6. valuesPrivate' = [p \in Ids \X Scopes |-> valuesPrivate'[p]]
    BY <2>1
  <2> QED BY <2>4, <2>5, <2>6
<1>3. /\ privateScopes \subseteq privateScopes'
      /\ privateScopes' \subseteq privateScopes \cup {k.scope : k \in S}
  BY DEF StoreResults
<1>4. \A k \in S : k \in Keys /\ k.scope \in 1 .. Len(chain) /\ (k.ordinal = 0 => k \in accepted)
  BY DEF RInv, RegistryTypeOK, KeysInv
<1> HIDE DEF Pub, Priv
<1> USE DEF wiring, indices, groups, placement
<1>5. RegistryTypeOK'
  <2>1. privateScopes' \subseteq DOMAIN chain
    <3>1. DOMAIN chain = 1 .. Len(chain) /\ privateScopes \subseteq DOMAIN chain
      BY DEF RInv, RegistryTypeOK
    <3> QED BY <1>3, <1>4, <3>1
  <2> QED BY <1>1, <1>2, <2>1 DEF RInv, RegistryTypeOK
<1>6. PlaceInv'
  BY DEF RInv, PlaceInv
<1>7. KeysInv'
  BY <1>3 DEF RInv, KeysInv
<1>8. ValuesInv'
  <2>1. ASSUME NEW id \in Ids
        PROVE  valuesPublic'[id] = None \/ valuesPublic'[id] \in PublicFor(id)'
    <3>1. \A k \in Pub(id) : k \in PublicFor(id)
      BY <1>4 DEF Pub, PublicFor
    <3>2. PublicFor(id)' = PublicFor(id)
      BY DEF PublicFor, Offers
    <3> QED BY <1>1, <3>1, <3>2 DEF RInv, ValuesInv
  <2>2. ASSUME NEW id \in Ids, NEW s \in Scopes
        PROVE  valuesPrivate'[<<id, s>>] = None \/ valuesPrivate'[<<id, s>>] \in PrivateFor(id, s)'
    <3>1. \A k \in Priv(id, s) : k \in PrivateFor(id, s)
      BY <1>4 DEF Priv, PrivateFor, Binds
    <3>2. PrivateFor(id, s)' = PrivateFor(id, s)
      BY DEF PrivateFor, Binds, Offers
    <3> QED BY <1>2, <3>1, <3>2 DEF RInv, ValuesInv
  <2> QED BY <2>1, <2>2 DEF ValuesInv
<1>9. \A k \in accepted :
        k.private \in BOOLEAN /\ k.scope \in Scopes /\ Offers(k) \subseteq Ids /\ Offers(k)' = Offers(k)
  BY BindingIs DEF RInv, KeysInv, Offers
<1>10. None \notin S
  BY NoneIsNoProvider DEF RInv
<1>11. ASSUME NEW k \in accepted, Held(k) PROVE Held(k)'
  <2>1. ASSUME NEW id \in Offers(k), k.private PROVE valuesPrivate'[<<id, k.scope>>] # None
    <3>1. valuesPrivate[<<id, k.scope>>] # None
      BY <1>11, <2>1 DEF Held
    <3>2. \A l \in Priv(id, k.scope) : l # None
      BY <1>10 DEF Priv
    <3> QED BY <1>2, <1>9, <3>1, <3>2
  <2>2. ASSUME NEW id \in Offers(k), ~k.private PROVE valuesPublic'[id] # None
    <3>1. valuesPublic[id] # None
      BY <1>11, <2>2 DEF Held
    <3>2. \A l \in Pub(id) : l # None
      BY <1>10 DEF Pub
    <3> QED BY <1>1, <1>9, <3>1, <3>2
  <2> QED BY <1>9, <2>1, <2>2 DEF Held
<1>12. ASSUME NEW k \in S, k.ordinal = 0 PROVE Held(k)'
  <2>1. k \in accepted
    BY <1>4, <1>12
  <2>2. ASSUME NEW id \in Offers(k), k.private = TRUE PROVE valuesPrivate'[<<id, k.scope>>] # None
    <3>1. k \in Priv(id, k.scope)
      BY <1>12, <2>2 DEF Priv
    <3>2. \A l \in Priv(id, k.scope) : l # None
      BY <1>10 DEF Priv
    <3> QED BY <1>2, <1>9, <2>1, <3>1, <3>2
  <2>3. ASSUME NEW id \in Offers(k), k.private = FALSE PROVE valuesPublic'[id] # None
    <3>1. k \in Pub(id)
      BY <1>12, <2>3 DEF Pub
    <3>2. \A l \in Pub(id) : l # None
      BY <1>10 DEF Pub
    <3> QED BY <1>1, <1>9, <2>1, <3>1, <3>2
  <2> QED BY <1>9, <2>1, <2>2, <2>3 DEF Held
<1>13. StockInv'
  BY <1>11 DEF RInv, StockInv
<1>14. IndexInv'
  BY DEF RInv, IndexInv, PublicFor, PrivateFor, Binds, Offers
<1>15. GroupInv' /\ OrderInv'
  BY DEF RInv, GroupInv, OrderInv
<1>16. OneBindingPerPlace'
  BY DEF RInv, OneBindingPerPlace, Offers
<1>17. \A id \in Ids : valuesPublic'[id] \in S \cup {valuesPublic[id]}
  <2>1. \A id \in Ids : Pub(id) \subseteq S
    BY DEF Pub
  <2> QED BY <1>1, <2>1
<1>18. \A id \in Ids, s \in Scopes :
         valuesPrivate'[<<id, s>>] \in S \cup {valuesPrivate[<<id, s>>]}
  <2>1. \A id \in Ids, s \in Scopes : Priv(id, s) \subseteq S
    BY DEF Priv
  <2> QED BY <1>2, <2>1
<1> QED BY <1>5, <1>6, <1>7, <1>8, <1>11, <1>12, <1>13, <1>14, <1>15, <1>16, <1>17, <1>18 DEF RInv

-----------------------------------------------------------------------------
(* Waves and calls. *)

\* The wave holds constructors that are pending, each once.
LEMMA WaveIs ==
  ASSUME LayersInv, layer \in DOMAIN layers
  PROVE  /\ Range(Wave) \subseteq pending \cap DOMAIN providers
         /\ IsInjective(Wave)
<1> DEFINE T == {n \in DOMAIN layers[layer] : layers[layer][n] \in pending}
<1>1. Wave = Restrict(layers[layer], T)
  BY DEF Wave
<1>2. Range(layers[layer]) \subseteq DOMAIN providers /\ IsInjective(layers[layer])
  BY DEF LayersInv
<1>3. /\ DOMAIN Wave = T /\ \A n \in T : Wave[n] = layers[layer][n]
      /\ Range(Wave) \subseteq Range(layers[layer]) /\ IsInjective(Wave)
  <2>1. T \subseteq DOMAIN layers[layer]
    OBVIOUS
  <2> HIDE DEF T
  <2> QED BY <1>1, <1>2, <2>1, PartIs
<1>4. Range(Wave) \subseteq pending
  <2>1. \A n \in T : layers[layer][n] \in pending
    OBVIOUS
  <2> HIDE DEF T
  <2> QED BY <1>3, <2>1 DEF Range
<1> QED BY <1>2, <1>3, <1>4

\* A wave of constructors that were not called keeps each in its one place.
LEMMA Calls ==
  ASSUME calls \in Seq(Range(calls)), NEW w, calls' = Append(calls, w)
  PROVE  /\ calls' \in Seq(Range(calls'))
         /\ Called' = Called \cup Range(w)
         /\ BuiltOnce /\ IsInjective(w) /\ Range(w) \cap Called = {} => BuiltOnce'
<1> DEFINE L == Len(calls)
<1>1. L \in Nat /\ DOMAIN calls = 1 .. L
  OBVIOUS
<1>2. /\ Len(calls') = L + 1 /\ DOMAIN calls' = 1 .. (L + 1)
      /\ \A v \in 1 .. L : calls'[v] = calls[v]
      /\ calls'[L + 1] = w
  OBVIOUS
<1>3. calls' \in Seq(Range(calls'))
  <2>1. calls \in Seq(Range(calls) \cup {w}) /\ w \in Range(calls) \cup {w}
    OBVIOUS
  <2>2. calls' \in Seq(Range(calls) \cup {w})
    BY <2>1
  <2>3. Range(calls') = Range(calls) \cup {w}
    BY RangeAppend
  <2> QED BY <2>2, <2>3
<1> HIDE DEF L
<1>4. Called' = Called \cup Range(w)
  <2>1. ASSUME NEW k \in Called' PROVE k \in Called \cup Range(w)
    <3>1. PICK v \in 1 .. (L + 1) : k \in Range(calls'[v])
      BY <1>2 DEF Called
    <3>2. CASE v \in 1 .. L
      BY <1>1, <1>2, <3>1, <3>2 DEF Called
    <3>3. CASE v = L + 1
      BY <1>2, <3>1, <3>3
    <3> QED BY <1>1, <3>2, <3>3
  <2>2. ASSUME NEW k \in Called PROVE k \in Called'
    <3>1. PICK v \in 1 .. L : k \in Range(calls[v])
      BY <1>1 DEF Called
    <3>2. v \in DOMAIN calls' /\ k \in Range(calls'[v])
      BY <1>1, <1>2, <3>1
    <3> QED BY <3>2 DEF Called
  <2>3. ASSUME NEW k \in Range(w) PROVE k \in Called'
    <3>1. L + 1 \in DOMAIN calls' /\ k \in Range(calls'[L + 1])
      BY <1>1, <1>2, <2>3
    <3> QED BY <3>1 DEF Called
  <2> QED BY <2>1, <2>2, <2>3
<1>5. ASSUME BuiltOnce, IsInjective(w), Range(w) \cap Called = {} PROVE BuiltOnce'
  <2> SUFFICES ASSUME NEW u \in 1 .. (L + 1), NEW v \in 1 .. (L + 1),
                      NEW i \in DOMAIN calls'[u], NEW j \in DOMAIN calls'[v],
                      calls'[u][i] = calls'[v][j]
               PROVE  u = v /\ i = j
    BY <1>2 DEF BuiltOnce
  <2>1. CASE u \in 1 .. L /\ v \in 1 .. L
    BY <1>1, <1>2, <1>5, <2>1 DEF BuiltOnce
  <2>2. CASE u = L + 1 /\ v = L + 1
    BY <1>2, <1>5, <2>2 DEF IsInjective
  <2>3. ASSUME NEW x \in 1 .. L, NEW m \in DOMAIN calls[x], NEW n \in DOMAIN w, w[n] = calls[x][m]
        PROVE  FALSE
    <3>1. w[n] \in Range(w) /\ w[n] \in Range(calls[x])
      BY <2>3 DEF Range
    <3>2. w[n] \in Called
      BY <1>1, <3>1 DEF Called
    <3> QED BY <1>5, <3>1, <3>2
  <2>4. CASE u = L + 1 /\ v \in 1 .. L
    BY <1>2, <2>3, <2>4
  <2>5. CASE v = L + 1 /\ u \in 1 .. L
    BY <1>2, <2>3, <2>5
  <2> QED BY <1>1, <2>1, <2>2, <2>4, <2>5
<1> QED BY <1>3, <1>4, <1>5

\* What the container hands out is what its scope sees.
LEMMA GetsVisible ==
  ASSUME RInv, NEW deps, NEW scope \in 1 .. Len(chain), \A i \in DOMAIN deps : deps[i] \in Ids,
         CanGet(deps, scope)
  PROVE  \A g \in Got(deps, scope) : g \in Scopes \X Ids \X Keys /\ g[3] = Visible(g[2], g[1])
<1> SUFFICES ASSUME NEW i \in DOMAIN deps
             PROVE  /\ <<scope, deps[i], LookupValue(deps[i], scope)>> \in Scopes \X Ids \X Keys
                    /\ LookupValue(deps[i], scope) = Visible(deps[i], scope)
  BY DEF Got
<1>1. /\ LookupValue(deps[i], scope) = Visible(deps[i], scope)
      /\ LookupValue(deps[i], scope) \in Keys
  BY Finds DEF CanGet
<1>2. scope \in Scopes
  BY BoundsAssumption DEF RInv, PlaceInv, Scopes
<1> QED BY <1>1, <1>2

\* The same for constructors that are called.
LEMMA CalledGet ==
  ASSUME RInv, NEW ks, ks \subseteq DOMAIN providers, \A k \in ks : CanConstruct(k)
  PROVE  \A g \in GotBy(ks) : g \in Scopes \X Ids \X Keys /\ g[3] = Visible(g[2], g[1])
<1> SUFFICES ASSUME NEW k \in ks, NEW g \in Got(providers[k], k.scope)
             PROVE  g \in Scopes \X Ids \X Keys /\ g[3] = Visible(g[2], g[1])
  BY DEF GotBy
<1>1. CanGet(providers[k], k.scope)
  BY DEF CanConstruct
<1> QED BY <1>1, ParametersAre, GetsVisible

\* Values that scopes saw are values that they see.
LEMMA StaysVisible ==
  ASSUME InjectsWhatIsVisible, UNCHANGED <<chain, accepted>>, NEW G, injected' = injected \cup G,
         \A g \in G : g[3] = Visible(g[2], g[1])
  PROVE  InjectsWhatIsVisible'
<1>1. \A id, from : Visible(id, from)' = Visible(id, from)
  BY SameSight
<1> QED BY <1>1 DEF InjectsWhatIsVisible

-----------------------------------------------------------------------------
(* Steps that call no constructor. *)

\* The number of invokers, and the one that runs.
LEMMA InvokersAre ==
  ASSUME BInv
  PROVE  /\ Len(invokers) \in Nat /\ DOMAIN invokers = 1 .. Len(invokers)
         /\ invokers \in Seq(Range(invokers)) /\ next \in 1 .. Len(invokers) + 1
         /\ next <= Len(invokers) =>
              /\ Invoker.scope \in 1 .. Len(chain)
              /\ \A i \in DOMAIN Invoker.deps : Invoker.deps[i] \in Ids
<1>1. \E V : invokers \in Seq(V)
  BY DEF BInv, RInv, RegistryTypeOK
<1>2. /\ Len(invokers) \in Nat /\ DOMAIN invokers = 1 .. Len(invokers)
      /\ invokers \in Seq(Range(invokers))
  <2>1. PICK V : invokers \in Seq(V)
    BY <1>1
  <2>2. Len(invokers) \in Nat /\ DOMAIN invokers = 1 .. Len(invokers)
    BY <2>1
  <2>3. \A n \in 1 .. Len(invokers) : invokers[n] \in Range(invokers)
    BY <2>2 DEF Range
  <2> QED BY <2>1, <2>2, <2>3
<1>3. next \in 1 .. Len(invokers) + 1
  BY DEF BInv, BuildTypeOK
<1>4. ASSUME next <= Len(invokers)
      PROVE  /\ Invoker.scope \in 1 .. Len(chain)
             /\ \A i \in DOMAIN Invoker.deps : Invoker.deps[i] \in Ids
  <2>1. next \in DOMAIN invokers
    BY <1>2, <1>3, <1>4
  <2> QED BY <2>1, ParametersAre DEF BInv, Invoker
<1> QED BY <1>2, <1>3, <1>4

\* What holds after such a step, whatever it does to the place of the build.
LEMMA QuietKeeps ==
  ASSUME BInv, UNCHANGED <<container, verdict, calls>>, at # "wiring", at' # "wiring",
         pending' \subseteq pending, next' \in {next, next + 1},
         NEW G, injected' = injected \cup G,
         \A g \in G : g \in Scopes \X Ids \X Keys /\ g[3] = Visible(g[2], g[1])
  PROVE  /\ RInv' /\ LayersInv' /\ CallsInv' /\ NeedInv' /\ InjectsWhatIsVisible'
         /\ Called' = Called
         /\ UNCHANGED <<invokers, layers, calls, providers, registered, members>>
         /\ \A k : Held(k)' = Held(k)
         /\ injected' \subseteq Scopes \X Ids \X Keys
         /\ \A w \in DOMAIN calls : Range(calls[w]) \subseteq DOMAIN providers
<1> USE DEF container, values, indices, groups, placement, verdict
<1>1. RInv'
  BY SameContainer DEF BInv
<1>2. LayersInv'
  BY DEF BInv, LayersInv
<1>3. CallsInv'
  BY DEF BInv, CallsInv, BuiltOnce
<1>4. Called' = Called
  BY DEF Called
<1>5. NeedInv'
  <2>1. next \in Nat /\ next' \in Nat /\ next <= next' /\ invokers \in Seq(Range(invokers))
    BY InvokersAre
  <2>2. ASSUME NEW C, Needed(C)' PROVE Called' \cup pending' \subseteq C
    <3>1. Needed(C)
      BY <2>1, <2>2, SameNeeds
    <3>2. Called \cup pending \subseteq C
      BY <3>1 DEF BInv, NeedInv
    <3> QED BY <1>4, <3>2
  <2> QED BY <2>2 DEF NeedInv
<1>6. InjectsWhatIsVisible'
  BY StaysVisible DEF BInv
<1>7. /\ UNCHANGED <<invokers, layers, calls, providers, registered, members>>
      /\ \A k : Held(k)' = Held(k)
  BY DEF Held, Offers
<1>8. injected' \subseteq Scopes \X Ids \X Keys
  BY DEF BInv, BuildTypeOK
<1>9. \A w \in DOMAIN calls : Range(calls[w]) \subseteq DOMAIN providers
  BY DEF BInv, BuildTypeOK
<1> QED BY <1>1, <1>2, <1>3, <1>4, <1>5, <1>6, <1>7, <1>8, <1>9

\* The same if nothing is injected either.
LEMMA StillKeeps ==
  ASSUME BInv, UNCHANGED <<container, verdict, history>>, at # "wiring", at' # "wiring",
         pending' \subseteq pending, next' \in {next, next + 1}
  PROVE  /\ RInv' /\ LayersInv' /\ CallsInv' /\ NeedInv' /\ InjectsWhatIsVisible'
         /\ Called' = Called
         /\ UNCHANGED <<invokers, layers, calls, providers, registered, members>>
         /\ \A k : Held(k)' = Held(k)
         /\ injected' \subseteq Scopes \X Ids \X Keys
         /\ \A w \in DOMAIN calls : Range(calls[w]) \subseteq DOMAIN providers
<1>1. PICK G : G = {}
  OBVIOUS
<1>2. /\ injected' = injected \cup G
      /\ \A g \in G : g \in Scopes \X Ids \X Keys /\ g[3] = Visible(g[2], g[1])
  BY <1>1 DEF history
<1>3. UNCHANGED <<container, verdict, calls>>
  BY DEF history
<1> QED BY <1>2, <1>3, QuietKeeps

\* When the build has ended, nothing more is said of where it is.
LEMMA EndKeeps ==
  ASSUME at' = "end" PROVE PhaseInv' /\ HeldInv' /\ MembersInv'
  BY DEF PhaseInv, HeldInv, MembersInv

\* All invokers have run.
LEMMA AllInvokedKeeps ==
  ASSUME BInv, AllInvoked, UNCHANGED verdict PROVE BInv'
<1> USE DEF AllInvoked, End, progress, history
<1>1. /\ RInv' /\ LayersInv' /\ CallsInv' /\ NeedInv' /\ InjectsWhatIsVisible'
      /\ UNCHANGED <<invokers, layers, calls, providers>>
  BY StillKeeps
<1>2. BuildTypeOK'
  BY <1>1 DEF BInv, BuildTypeOK
<1> QED BY <1>1, <1>2, EndKeeps DEF BInv

\* The build is dropped, or one of its futures fails.
LEMMA AbandonKeeps ==
  ASSUME BInv, UNCHANGED verdict, at \in {"join", "invoking"}, AbandonWave,
         End("dropped") \/ End("failed"),
         UNCHANGED <<container, next, layer, pending, memberValues, history>>
  PROVE  BInv'
<1> USE DEF End, AbandonWave, history
<1>1. /\ RInv' /\ LayersInv' /\ CallsInv' /\ NeedInv' /\ InjectsWhatIsVisible'
      /\ UNCHANGED <<invokers, layers, calls, providers>>
  BY StillKeeps
<1>2. BuildTypeOK'
  BY <1>1 DEF BInv, BuildTypeOK
<1> QED BY <1>1, <1>2, EndKeeps DEF BInv

\* A layer that holds nothing pending is passed over.
LEMMA SkipLayerKeeps ==
  ASSUME BInv, SkipLayer, UNCHANGED verdict PROVE BInv'
<1> USE DEF SkipLayer, NextLayer, history
<1>1. /\ RInv' /\ LayersInv' /\ CallsInv' /\ NeedInv' /\ InjectsWhatIsVisible'
      /\ Called' = Called /\ \A k : Held(k)' = Held(k)
      /\ UNCHANGED <<invokers, layers, calls, providers, registered, members>>
  BY StillKeeps
<1>2. BuildTypeOK'
  <2>1. layers \in Seq(Range(layers)) /\ layer \in 1 .. Len(layers) + 1
    BY DEF BInv, BuildTypeOK, LayersInv
  <2>2. layer' \in 1 .. Len(layers') + 1
    BY <1>1, <2>1
  <2> QED BY <1>1, <2>2 DEF BInv, BuildTypeOK
<1>3. PhaseInv'
  BY <1>1 DEF BInv, PhaseInv, Awaited
<1>4. HeldInv'
  BY <1>1 DEF BInv, HeldInv, Awaited
<1>5. MembersInv'
  BY <1>1 DEF BInv, MembersInv, VirtualKey, Singleton, Key
<1> QED BY <1>1, <1>2, <1>3, <1>4, <1>5 DEF BInv

\* The loop over the layers ends.
LEMMA EndLayersKeeps ==
  ASSUME BInv, EndLayers, UNCHANGED verdict PROVE BInv'
<1> USE DEF EndLayers, End, progress, history
<1>1. /\ RInv' /\ LayersInv' /\ CallsInv' /\ NeedInv' /\ InjectsWhatIsVisible'
      /\ Called' = Called /\ \A k : Held(k)' = Held(k)
      /\ UNCHANGED <<invokers, layers, calls, providers, registered, members>>
  <2>1. at' # "wiring"
    OBVIOUS
  <2> QED BY <2>1, StillKeeps
<1>2. BuildTypeOK'
  BY <1>1 DEF BInv, BuildTypeOK
<1>3. PhaseInv'
  BY <1>1 DEF BInv, PhaseInv, Awaited
<1>4. HeldInv'
  BY <1>1 DEF BInv, HeldInv, Awaited
<1>5. MembersInv'
  BY <1>1 DEF BInv, MembersInv, VirtualKey, Singleton, Key
<1> QED BY <1>1, <1>2, <1>3, <1>4, <1>5 DEF BInv

\* A future of the wave ends.
LEMMA FutureEndsKeeps ==
  ASSUME BInv, NEW f, FutureEnds(f), UNCHANGED verdict PROVE BInv'
<1> USE DEF FutureEnds, history
<1>1. /\ RInv' /\ LayersInv' /\ CallsInv' /\ NeedInv' /\ InjectsWhatIsVisible'
      /\ Called' = Called /\ \A k : Held(k)' = Held(k)
      /\ UNCHANGED <<invokers, layers, calls, providers, registered, members>>
  BY StillKeeps
<1>2. BuildTypeOK' /\ Awaited' = Awaited
  BY <1>1 DEF BInv, BuildTypeOK, Awaited
<1>3. PhaseInv'
  BY <1>1, <1>2 DEF BInv, PhaseInv
<1>4. HeldInv'
  BY <1>1, <1>2 DEF BInv, HeldInv
<1>5. MembersInv'
  BY <1>1 DEF BInv, MembersInv, VirtualKey, Singleton, Key
<1> QED BY <1>1, <1>2, <1>3, <1>4, <1>5 DEF BInv

\* An invoker is called, and gets what its scope sees, or has ended.
LEMMA InvokersKeep ==
  ASSUME BInv, CallSync \/ CallAsync \/ InvokerEnds, UNCHANGED verdict PROVE BInv'
<1> USE DEF CallSync, CallAsync, InvokerEnds, InvokerResult, End, progress, history
<1>1. /\ at \in {"call", "invoking"} /\ at' # "wiring" /\ UNCHANGED <<container, calls, progress, memberValues>>
      /\ next' \in {next, next + 1}
      /\ \/ injected' = injected
         \/ /\ CanGet(Invoker.deps, Invoker.scope)
            /\ injected' = injected \cup Got(Invoker.deps, Invoker.scope)
  OBVIOUS
<1>2. next <= Len(invokers)
  BY <1>1 DEF BInv, PhaseInv
<1>3. PICK G : /\ injected' = injected \cup G
               /\ \A g \in G : g \in Scopes \X Ids \X Keys /\ g[3] = Visible(g[2], g[1])
  <2>1. CASE injected' = injected
    <3>1. PICK G : G = {}
      OBVIOUS
    <3>2. /\ injected' = injected \cup G
          /\ \A g \in G : g \in Scopes \X Ids \X Keys /\ g[3] = Visible(g[2], g[1])
      BY <2>1, <3>1
    <3> QED BY <3>2
  <2>2. CASE CanGet(Invoker.deps, Invoker.scope) /\ injected' = injected \cup Got(Invoker.deps, Invoker.scope)
    <3>1. \A g \in Got(Invoker.deps, Invoker.scope) :
            g \in Scopes \X Ids \X Keys /\ g[3] = Visible(g[2], g[1])
      BY <1>2, <2>2, InvokersAre, GetsVisible DEF BInv
    <3> QED BY <2>2, <3>1
  <2> QED BY <1>1, <2>1, <2>2
<1>4. /\ RInv' /\ LayersInv' /\ CallsInv' /\ NeedInv' /\ InjectsWhatIsVisible'
      /\ Called' = Called /\ \A k : Held(k)' = Held(k)
      /\ UNCHANGED <<invokers, layers, calls, providers, registered, members>>
      /\ injected' \subseteq Scopes \X Ids \X Keys
      /\ \A w \in DOMAIN calls : Range(calls[w]) \subseteq DOMAIN providers
  BY <1>1, <1>3, QuietKeeps DEF progress
<1>5. BuildTypeOK'
  <2>1. next' \in 1 .. Len(invokers') + 1
    BY <1>1, <1>2, <1>4, InvokersAre
  <2>2. at' \in {"invoker", "invoking", "end"} /\ outcome' \in {"none", "failed", "internal"}
        /\ (outcome' = "none" <=> at' # "end")
    BY <1>1 DEF BInv, BuildTypeOK
  <2> QED BY <1>1, <1>4, <2>1, <2>2 DEF BInv, BuildTypeOK
<1>6. PhaseInv'
  BY <1>1, <1>2, <1>4 DEF BInv, PhaseInv, Awaited
<1>7. HeldInv'
  BY <1>1, <1>4 DEF BInv, HeldInv, Awaited
<1>8. MembersInv'
  BY <1>1, <1>4 DEF BInv, MembersInv, VirtualKey, Singleton, Key
<1> QED BY <1>4, <1>5, <1>6, <1>7, <1>8 DEF BInv

-----------------------------------------------------------------------------
(* What the next invoker needs is collected. *)

\* What is collected for it has not been called, is needed, and holds a member only with
\* its aggregate.
LEMMA CollectsWhatIsMissing ==
  ASSUME BInv, at = "invoker", next <= Len(invokers),
         NEW needed, needed = Collected(PendingOf(Invoker.deps, Invoker.scope)), None \notin needed
  PROVE  /\ needed \subseteq DOMAIN providers /\ needed \cap Called = {}
         /\ \A C : Needed(C) => needed \subseteq C
         /\ \A m \in needed : m.ordinal > 0 => VirtualKey(m.type) \in needed
<1> DEFINE all == DOMAIN providers \cup {None}
           S   == PendingOf(Invoker.deps, Invoker.scope)
<1>1. /\ next \in DOMAIN invokers /\ RInv
      /\ pending = {} /\ Awaited = {}
  <2>1. next \in DOMAIN invokers
    BY InvokersAre
  <2> QED BY <2>1 DEF BInv, PhaseInv
<1>2. None \notin DOMAIN providers
  BY <1>1, NoneIsNoProvider DEF RInv
<1>3. \A d \in S :
        \/ d = None
        \/ /\ d \in DOMAIN providers /\ d.ordinal = 0 /\ ~Held(d)
           /\ \E i \in DOMAIN Invoker.deps : d = Visible(Invoker.deps[i], Invoker.scope)
  BY <1>1, InvokerWaits DEF Invoker
<1>4. \A k \in DOMAIN providers : \A d \in WaitsFor(k) :
        \/ d = None
        \/ /\ d \in DOMAIN providers /\ d \in Needs(k)
           /\ \/ d.ordinal = 0 /\ ~Held(d)
              \/ d.ordinal > 0 /\ k = VirtualKey(d.type)
  BY <1>1, WaitsAre
<1>5. WaitsFor(None) = {}
  BY DEF WaitsFor
<1> HIDE DEF S
<1>6. /\ needed \subseteq all /\ S \subseteq needed
      /\ \A k \in needed : WaitsFor(k) \subseteq needed
      /\ \A D : D \subseteq all /\ S \subseteq D /\ (\A k \in D : WaitsFor(k) \subseteq D)
                => needed \subseteq D
  <2>1. S \subseteq all /\ \A k \in all : WaitsFor(k) \subseteq all
    BY <1>3, <1>4, <1>5
  <2>2. needed = Collected(S)
    BY DEF S
  <2> QED BY <2>1, <2>2, CollectedIs
<1>7. \A d \in DOMAIN providers : d.ordinal = 0 /\ ~Held(d) => d \notin Called
  BY <1>1 DEF BInv, HeldInv
<1>8. \A d \in DOMAIN providers : d.ordinal > 0 /\ d \in Called => VirtualKey(d.type) \in Called
  BY <1>1 DEF BInv, MembersInv
<1>9. needed \cap Called = {}
  <2>1. None \notin Called
    <3>1. Called \subseteq DOMAIN providers
      BY DEF BInv, BuildTypeOK, Called
    <3> QED BY <1>2, <3>1
  <2>2. PICK D : D = {k \in all : k \notin Called}
    OBVIOUS
  <2>3. S \subseteq D
    BY <1>3, <1>7, <2>1, <2>2
  <2>4. ASSUME NEW k \in D, NEW d \in WaitsFor(k) PROVE d \in D
    BY <1>4, <1>5, <1>7, <1>8, <2>1, <2>2, <2>4
  <2>5. needed \subseteq D
    BY <1>6, <2>2, <2>3, <2>4
  <2> QED BY <2>2, <2>5
<1>10. ASSUME NEW C, Needed(C) PROVE needed \subseteq C
  <2>1. C \subseteq DOMAIN providers /\ \A k \in C : Needs(k) \subseteq C
    BY <1>10 DEF Needed
  <2>2. \A d \in S : d # None => d \in C
    <3>1. Asked \cap DOMAIN providers \subseteq C
      BY <1>10 DEF Needed
    <3>2. ASSUME NEW d \in S, d # None PROVE d \in Asked
      <4>1. PICK i \in DOMAIN Invoker.deps : d = Visible(Invoker.deps[i], Invoker.scope)
        BY <1>3, <3>2
      <4>2. next <= next
        BY InvokersAre
      <4> QED BY <1>1, <4>1, <4>2 DEF Asked, Invoker
    <3> QED BY <1>3, <3>1, <3>2
  <2>3. PICK D : D = C \cup {None}
    OBVIOUS
  <2>4. S \subseteq D /\ D \subseteq all
    BY <2>1, <2>2, <2>3
  <2>5. ASSUME NEW k \in D, NEW d \in WaitsFor(k) PROVE d \in D
    BY <1>4, <1>5, <2>1, <2>3, <2>5
  <2>6. needed \subseteq D
    BY <1>6, <2>4, <2>5
  <2> QED BY <2>3, <2>6
<1>11. ASSUME NEW m \in needed, m.ordinal > 0 PROVE VirtualKey(m.type) \in needed
  <2>1. PICK D : D = {k \in needed : k.ordinal > 0 => VirtualKey(k.type) \in needed}
    OBVIOUS
  <2>2. S \subseteq D
    <3>1. ASSUME NEW d \in S PROVE d \in needed /\ d.ordinal = 0
      BY <1>3, <1>6
    <3> QED BY <2>1, <3>1
  <2>3. ASSUME NEW k \in D, NEW d \in WaitsFor(k) PROVE d \in D
    <3>1. k \in needed /\ d \in needed /\ k \in DOMAIN providers /\ d # None
      BY <1>6, <2>1, <2>3
    <3>2. d.ordinal = 0 \/ (d.ordinal > 0 /\ k = VirtualKey(d.type))
      BY <1>4, <3>1
    <3> QED BY <2>1, <3>1, <3>2
  <2>4. needed \subseteq D
    BY <1>6, <2>1, <2>2, <2>3
  <2> QED BY <1>11, <2>1, <2>4
<1> QED BY <1>6, <1>9, <1>10, <1>11

\* Between invokers nothing is left of groups, and what is collected becomes pending.
LEMMA BeginInvokerKeeps ==
  ASSUME BInv, BeginInvoker, UNCHANGED verdict PROVE BInv'
<1> DEFINE needed == Collected(PendingOf(Invoker.deps, Invoker.scope))
<1>1. /\ at = "invoker" /\ next <= Len(invokers)
      /\ \/ End("internal") /\ UNCHANGED <<layer, pending>>
         \/ /\ None \notin needed
            /\ at' = "layers" /\ layer' = 1 /\ pending' = needed /\ UNCHANGED outcome
      /\ UNCHANGED <<container, next, constructing, inflight, finished, memberValues, history>>
  BY DEF BeginInvoker
<1>2. CASE End("internal") /\ UNCHANGED <<layer, pending>>
  <2>1. /\ RInv' /\ LayersInv' /\ CallsInv' /\ NeedInv' /\ InjectsWhatIsVisible'
        /\ UNCHANGED <<invokers, layers, calls, providers>>
        /\ injected' \subseteq Scopes \X Ids \X Keys
    BY <1>1, <1>2, StillKeeps DEF End
  <2>2. BuildTypeOK'
    BY <1>1, <1>2, <2>1 DEF BInv, BuildTypeOK, End
  <2> QED BY <1>2, <2>1, <2>2, EndKeeps DEF BInv, End
<1>3. CASE /\ None \notin needed
           /\ at' = "layers" /\ layer' = 1 /\ pending' = needed /\ UNCHANGED outcome
  <2>1. /\ needed \subseteq DOMAIN providers /\ needed \cap Called = {}
        /\ \A C : Needed(C) => needed \subseteq C
        /\ \A m \in needed : m.ordinal > 0 => VirtualKey(m.type) \in needed
    <3> HIDE DEF needed
    <3>1. needed = Collected(PendingOf(Invoker.deps, Invoker.scope))
      BY DEF needed
    <3> QED BY <1>1, <1>3, <3>1, CollectsWhatIsMissing
  <2> HIDE DEF needed
  <2> USE DEF container, values, indices, groups, placement, verdict, history
  <2>2. /\ UNCHANGED <<invokers, layers, calls, providers, registered, members, injected>>
        /\ Called' = Called
    BY <1>1 DEF Called
  <2>3. RInv'
    BY <1>1, SameContainer DEF BInv
  <2>4. LayersInv' /\ layers \in Seq(Range(layers))
    BY <2>2 DEF BInv, LayersInv
  <2>5. BuildTypeOK'
    <3>1. layer' \in 1 .. Len(layers') + 1
      BY <1>3, <2>2, <2>4
    <3>2. at' \in {"layers"} /\ outcome' = "none"
      BY <1>1, <1>3 DEF BInv, BuildTypeOK
    <3> QED BY <1>1, <1>3, <2>1, <2>2, <3>1, <3>2 DEF BInv, BuildTypeOK
  <2>6. CallsInv'
    BY <1>3, <2>2 DEF BInv, CallsInv, BuiltOnce
  <2>7. PhaseInv'
    BY <1>1, <1>3, <2>1, <2>2 DEF BInv, PhaseInv, Awaited
  <2>8. HeldInv'
    BY <1>1, <1>3, <2>2 DEF BInv, HeldInv, Awaited, Held, Offers
  <2>9. MembersInv'
    <3>1. pending = {}
      BY <1>1 DEF BInv, PhaseInv
    <3>2. \A m \in Called : m.ordinal > 0 => VirtualKey(m.type) \in Called
      BY <1>1, <3>1 DEF BInv, MembersInv
    <3>3. \A m \in memberValues : m.ordinal > 0
      BY DEF BInv, BuildTypeOK
    <3>4. memberValues = {}
      BY <1>1, <3>2, <3>3 DEF BInv, MembersInv
    <3>5. \A e \in registered : VirtualKey(e) \in Called => Range(members[e]) \subseteq Called
      BY <1>1 DEF BInv, MembersInv
    <3>6. \A k : VirtualKey(k)' = VirtualKey(k)
      BY DEF VirtualKey, Singleton, Key
    <3>7. memberValues' = {} /\ pending' = needed
      BY <1>1, <1>3, <3>4
    <3> QED BY <2>1, <2>2, <3>2, <3>5, <3>6, <3>7 DEF MembersInv
  <2>10. NeedInv'
    <3>1. next \in Nat /\ next' = next /\ invokers \in Seq(Range(invokers))
      BY <1>1, InvokersAre
    <3>2. ASSUME NEW C, Needed(C)' PROVE Called' \cup pending' \subseteq C
      <4>1. Needed(C)
        BY <1>1, <3>1, <3>2, SameNeeds
      <4>2. Called \subseteq C /\ needed \subseteq C
        BY <2>1, <4>1 DEF BInv, NeedInv
      <4> QED BY <1>3, <2>2, <4>2
    <3> QED BY <3>2 DEF NeedInv
  <2>11. InjectsWhatIsVisible'
    <3>1. PICK G : G = {}
      OBVIOUS
    <3>2. injected' = injected \cup G /\ \A g \in G : g[3] = Visible(g[2], g[1])
      BY <2>2, <3>1
    <3> QED BY <1>1, <3>2, StaysVisible DEF BInv
  <2> QED BY <2>3, <2>4, <2>5, <2>6, <2>7, <2>8, <2>9, <2>10, <2>11 DEF BInv
<1> QED BY <1>1, <1>2, <1>3

-----------------------------------------------------------------------------
(* Steps of waves. *)

\* What holds after constructors of the wave were called, whatever they return.
LEMMA WaveKeeps ==
  ASSUME BInv, UNCHANGED <<wiring, verdict, next>>, at = "layers", at' # "wiring",
         NEW w, Range(w) \subseteq pending, IsInjective(w), calls' = Append(calls, w),
         pending' \subseteq pending,
         NEW ks, ks \subseteq pending, \A k \in ks : CanConstruct(k),
         injected' = injected \cup GotBy(ks)
  PROVE  /\ LayersInv' /\ CallsInv' /\ NeedInv' /\ InjectsWhatIsVisible'
         /\ Called' = Called \cup Range(w) /\ Called' \subseteq DOMAIN providers
         /\ \A v \in DOMAIN calls' : Range(calls'[v]) \subseteq DOMAIN providers
         /\ injected' \subseteq Scopes \X Ids \X Keys
         /\ UNCHANGED <<invokers, layers, providers, registered, members>>
<1> USE DEF wiring, indices, groups, placement, verdict
<1>1. /\ UNCHANGED <<invokers, layers, providers, registered, members>>
      /\ pending \cap Called = {} /\ pending \subseteq DOMAIN providers
      /\ calls \in Seq(Range(calls)) /\ BuiltOnce
      /\ Called \subseteq DOMAIN providers
      /\ injected \subseteq Scopes \X Ids \X Keys
  BY DEF BInv, PhaseInv, BuildTypeOK, CallsInv, Called
<1>2. LayersInv'
  BY DEF BInv, LayersInv
<1>3. /\ calls' \in Seq(Range(calls')) /\ BuiltOnce'
      /\ Called' = Called \cup Range(w)
  <2>1. Range(w) \cap Called = {}
    BY <1>1
  <2> QED BY <1>1, <2>1, Calls
<1>4. CallsInv'
  BY <1>3 DEF CallsInv
<1>5. /\ Called' \subseteq DOMAIN providers
      /\ \A v \in DOMAIN calls' : Range(calls'[v]) \subseteq DOMAIN providers
  <2>1. Called' \subseteq DOMAIN providers
    BY <1>1, <1>3
  <2>2. \A v \in DOMAIN calls' : Range(calls'[v]) \subseteq Called'
    BY DEF Called
  <2> QED BY <2>1, <2>2
<1>6. NeedInv'
  <2>1. next \in Nat /\ next' = next /\ invokers \in Seq(Range(invokers))
    BY InvokersAre
  <2>2. ASSUME NEW C, Needed(C)' PROVE Called' \cup pending' \subseteq C
    <3>1. Needed(C)
      BY <2>1, <2>2, SameNeeds
    <3>2. Called \cup pending \subseteq C
      BY <3>1 DEF BInv, NeedInv
    <3> QED BY <1>3, <3>2
  <2> QED BY <2>2 DEF NeedInv
<1>7. \A g \in GotBy(ks) : g \in Scopes \X Ids \X Keys /\ g[3] = Visible(g[2], g[1])
  <2>1. RInv /\ ks \subseteq DOMAIN providers
    BY <1>1 DEF BInv
  <2> QED BY <2>1, CalledGet
<1>8. InjectsWhatIsVisible'
  <2>1. PICK G : G = GotBy(ks)
    OBVIOUS
  <2>2. injected' = injected \cup G /\ \A g \in G : g[3] = Visible(g[2], g[1])
    BY <1>7, <2>1
  <2> QED BY <2>2, StaysVisible DEF BInv
<1>9. injected' \subseteq Scopes \X Ids \X Keys
  BY <1>1, <1>7
<1> QED BY <1>1, <1>2, <1>3, <1>4, <1>5, <1>6, <1>8, <1>9

\* A wave in which a constructor fails ends the build.
LEMMA FailWaveKeeps ==
  ASSUME BInv, FailWave, UNCHANGED verdict PROVE BInv'
<1>1. /\ at = "layers" /\ layer <= Len(layers) /\ constructing' = {}
      /\ UNCHANGED <<wiring, values, privateScopes, next, layer, pending, inflight, finished>>
  BY DEF FailWave
<1>2. PICK n \in DOMAIN Wave :
        LET k == Wave[n]
            before == {Wave[i] : i \in {m \in DOMAIN Wave : m < n}}
            broken == ~CanConstruct(k) \/ k \in constructing
            called == Restrict(Wave, {m \in DOMAIN Wave : m < n \/ (m = n /\ ~broken)})
        IN /\ \A l \in before : CanConstruct(l)
           /\ broken \/ "error" \in Returns(k)
           /\ End(IF broken THEN "internal" ELSE "failed")
           /\ calls' = Append(calls, called)
           /\ injected' = injected \cup GotBy(Range(called))
           /\ memberValues' = memberValues \ Consumed(before)
  BY DEF FailWave
<1> DEFINE k == Wave[n]
           before == {Wave[i] : i \in {m \in DOMAIN Wave : m < n}}
           broken == ~CanConstruct(k) \/ k \in constructing
           T == {m \in DOMAIN Wave : m < n \/ (m = n /\ ~broken)}
           w == Restrict(Wave, T)
<1>3. /\ \A l \in before : CanConstruct(l)
      /\ at' = "end" /\ outcome' \in {"internal", "failed"}
      /\ calls' = Append(calls, w)
      /\ injected' = injected \cup GotBy(Range(w))
      /\ memberValues' = memberValues \ Consumed(before)
  BY <1>2 DEF End
<1>4. layer \in DOMAIN layers
  <2>1. layers \in Seq(Range(layers)) /\ layer \in 1 .. Len(layers) + 1
    BY DEF BInv, LayersInv, BuildTypeOK
  <2> QED BY <1>1, <2>1
<1>5. Range(Wave) \subseteq pending \cap DOMAIN providers /\ IsInjective(Wave)
  BY <1>4, WaveIs DEF BInv
<1>6. /\ DOMAIN w = T /\ \A m \in T : w[m] = Wave[m]
      /\ Range(w) \subseteq Range(Wave) /\ IsInjective(w)
  <2>1. T \subseteq DOMAIN Wave
    OBVIOUS
  <2> HIDE DEF T
  <2> QED BY <1>5, <2>1, PartIs
<1>7. \A l \in Range(w) : CanConstruct(l)
  <2> SUFFICES ASSUME NEW m \in T PROVE CanConstruct(Wave[m])
    BY <1>6 DEF Range
  <2>1. CASE m < n
    BY <1>3, <2>1
  <2>2. CASE m = n
    <3>1. CASE m < n
      BY <1>3, <3>1
    <3>2. CASE m = n /\ ~broken
      BY <3>2
    <3> QED BY <3>1, <3>2
  <2> QED BY <2>1, <2>2
<1> HIDE DEF w, T, before
<1>8. RInv'
  <2>1. UNCHANGED <<container, applied, accepted>>
    BY <1>1 DEF container, wiring, verdict
  <2> QED BY <2>1, SameContainer DEF BInv
<1>9. /\ LayersInv' /\ CallsInv' /\ NeedInv' /\ InjectsWhatIsVisible'
      /\ \A v \in DOMAIN calls' : Range(calls'[v]) \subseteq DOMAIN providers
      /\ injected' \subseteq Scopes \X Ids \X Keys
      /\ UNCHANGED <<invokers, layers, providers, registered, members>>
  <2>1. PICK u : u = w
    OBVIOUS
  <2>2. PICK ks : ks = Range(w)
    OBVIOUS
  <2>3. /\ Range(u) \subseteq pending /\ IsInjective(u) /\ calls' = Append(calls, u)
        /\ ks \subseteq pending /\ \A l \in ks : CanConstruct(l)
        /\ injected' = injected \cup GotBy(ks)
    BY <1>3, <1>5, <1>6, <1>7, <2>1, <2>2
  <2>4. pending' \subseteq pending /\ UNCHANGED <<wiring, verdict, next>> /\ at' # "wiring"
    BY <1>1, <1>3
  <2> QED BY <1>1, <2>3, <2>4, WaveKeeps
<1>10. BuildTypeOK'
  <2>1. Awaited = {}
    BY <1>1 DEF BInv, PhaseInv
  <2> QED BY <1>1, <1>3, <1>9, <2>1 DEF BInv, BuildTypeOK, Awaited
<1> QED BY <1>3, <1>8, <1>9, <1>10, EndKeeps DEF BInv

\* A wave whose constructors are all called.
LEMMA StartWaveKeeps ==
  ASSUME BInv, StartWave, UNCHANGED verdict PROVE BInv'
<1>1. PICK ks : ks = Range(Wave)
  OBVIOUS
<1>2. PICK fut \in SUBSET {k \in ks : "future" \in Returns(k)} :
        /\ inflight' = fut
        /\ StoreResults(ks \ fut, memberValues \ Consumed(ks))
        /\ pending' = pending \ (ks \ fut)
  BY <1>1 DEF StartWave
<1>3. /\ at = "layers" /\ layer <= Len(layers) /\ at' = "join"
      /\ \A k \in ks : CanConstruct(k)
      /\ constructing' = constructing \cup ks
      /\ calls' = Append(calls, Wave)
      /\ injected' = injected \cup GotBy(ks)
      /\ UNCHANGED <<wiring, next, layer, finished, outcome>>
  BY <1>1 DEF StartWave
<1>4. layer \in DOMAIN layers
  <2>1. layers \in Seq(Range(layers)) /\ layer \in 1 .. Len(layers) + 1
    BY DEF BInv, LayersInv, BuildTypeOK
  <2> QED BY <1>3, <2>1
<1>5. ks \subseteq pending \cap DOMAIN providers /\ IsInjective(Wave)
  BY <1>1, <1>4, WaveIs DEF BInv
<1>6. /\ LayersInv' /\ CallsInv' /\ NeedInv' /\ InjectsWhatIsVisible'
      /\ Called' = Called \cup ks /\ Called' \subseteq DOMAIN providers
      /\ \A v \in DOMAIN calls' : Range(calls'[v]) \subseteq DOMAIN providers
      /\ injected' \subseteq Scopes \X Ids \X Keys
      /\ UNCHANGED <<invokers, layers, providers, registered, members>>
  <2>1. PICK u : u = Wave
    OBVIOUS
  <2>2. /\ Range(u) \subseteq pending /\ IsInjective(u) /\ calls' = Append(calls, u)
        /\ Range(u) = ks
    BY <1>1, <1>3, <1>5, <2>1
  <2>3. /\ pending' \subseteq pending /\ UNCHANGED <<wiring, verdict, next>> /\ at' # "wiring"
        /\ ks \subseteq pending
    BY <1>2, <1>3, <1>5
  <2>4. /\ LayersInv' /\ CallsInv' /\ NeedInv' /\ InjectsWhatIsVisible'
        /\ Called' = Called \cup Range(u) /\ Called' \subseteq DOMAIN providers
        /\ \A v \in DOMAIN calls' : Range(calls'[v]) \subseteq DOMAIN providers
        /\ injected' \subseteq Scopes \X Ids \X Keys
        /\ UNCHANGED <<invokers, layers, providers, registered, members>>
    BY <1>3, <2>2, <2>3, WaveKeeps
  <2> QED BY <2>2, <2>4
<1>7. /\ pending \cap Called = {} /\ Awaited = {} /\ constructing = {} /\ finished = {}
      /\ Called \subseteq DOMAIN providers /\ pending \subseteq DOMAIN providers
  BY <1>3 DEF BInv, PhaseInv, Awaited, BuildTypeOK, Called
<1>8. PICK S : S = ks \ fut
  OBVIOUS
<1>9. /\ S \subseteq DOMAIN providers /\ S \subseteq ks /\ fut \subseteq ks
      /\ pending' = pending \ S /\ Awaited' = fut
      /\ memberValues' = (memberValues \ Consumed(ks)) \cup {k \in S : k.ordinal > 0}
  BY <1>2, <1>3, <1>5, <1>7, <1>8 DEF Awaited, StoreResults
<1>10. /\ RInv'
       /\ \A k \in accepted : Held(k) => Held(k)'
       /\ \A k \in S : k.ordinal = 0 => Held(k)'
  <2>1. PICK held : held = memberValues \ Consumed(ks)
    OBVIOUS
  <2>2. StoreResults(S, held)
    BY <1>2, <1>8, <2>1
  <2>3. UNCHANGED <<wiring, applied, accepted>>
    BY <1>3 DEF verdict
  <2> QED BY <1>9, <2>2, <2>3, StoreKeeps DEF BInv
<1>11. \A k \in DOMAIN providers : k.ordinal = 0 => k \in accepted
  BY DEF BInv, RInv, KeysInv
<1>12. BuildTypeOK'
  <2>1. memberValues' \subseteq {k \in DOMAIN providers : k.ordinal > 0}
    BY <1>9 DEF BInv, BuildTypeOK
  <2>2. outcome' = "none" /\ next' \in 1 .. Len(invokers') + 1 /\ layer' \in 1 .. Len(layers') + 1
    BY <1>3, <1>6 DEF BInv, BuildTypeOK
  <2>3. /\ pending' \cup constructing' \cup inflight' \cup finished' \subseteq DOMAIN providers'
        /\ inflight' \cup finished' \subseteq constructing'
    BY <1>2, <1>3, <1>5, <1>6, <1>7
  <2> QED BY <1>3, <1>6, <2>1, <2>2, <2>3 DEF BuildTypeOK
<1>13. PhaseInv'
  <2>1. pending' \cap Called' = Awaited'
    BY <1>5, <1>6, <1>7, <1>8, <1>9
  <2>2. layer' <= Len(layers') /\ next' <= Len(invokers')
    BY <1>3, <1>6 DEF BInv, PhaseInv
  <2> QED BY <1>3, <2>1, <2>2 DEF PhaseInv
<1>14. HeldInv'
  <2> SUFFICES ASSUME NEW k \in Called' \ Awaited', k.ordinal = 0 PROVE Held(k)'
    BY DEF HeldInv
  <2>1. CASE k \in S
    BY <1>10, <2>1
  <2>2. CASE k \in Called
    <3>1. Held(k)
      BY <1>3, <1>7, <2>2 DEF BInv, HeldInv
    <3> QED BY <1>7, <1>10, <1>11, <2>2, <3>1
  <2> QED BY <1>6, <1>8, <1>9, <2>1, <2>2
<1>15. MembersInv'
  <2>1. /\ \A m \in Called \cup pending :
             m.ordinal > 0 => VirtualKey(m.type) \in Called \cup pending
        /\ \A m \in memberValues :
             m \in Called /\ m \notin pending /\ VirtualKey(m.type) \notin Called
        /\ \A e \in registered :
             VirtualKey(e) \in Called => Range(members[e]) \subseteq Called \ pending
    BY <1>3 DEF BInv, MembersInv
  <2>2. Called' \cup pending' = Called \cup pending
    BY <1>5, <1>6, <1>8, <1>9
  <2>3. \A k \in ks : Range(MembersOf(k)) \subseteq memberValues
    BY <1>3 DEF CanConstruct
  <2>4. \A m \in DOMAIN providers :
          m.ordinal > 0 => m \in Range(MembersOf(VirtualKey(m.type))) /\ m.type \in registered
                           /\ m \in Range(members[m.type])
    <3>1. ASSUME NEW m \in DOMAIN providers, m.ordinal > 0
          PROVE  m \in Range(MembersOf(VirtualKey(m.type)))
      <4>1. PICK v : v = VirtualKey(m.type)
        OBVIOUS
      <4> QED BY <3>1, <4>1, MembersAre DEF BInv
    <3> QED BY <3>1 DEF BInv, RInv, GroupInv
  <2>5. ASSUME NEW e \in registered, VirtualKey(e) \in ks
        PROVE  Range(members[e]) \subseteq memberValues
    <3>1. MembersOf(VirtualKey(e)) = members[e]
      <4>1. PICK v : v = VirtualKey(e)
        OBVIOUS
      <4> QED BY <4>1, MembersAre DEF BInv
    <3> QED BY <2>3, <2>5, <3>1
  <2>6. ASSUME NEW e \in registered, VirtualKey(e) \in Called'
        PROVE  Range(members[e]) \subseteq Called' \ pending'
    <3>1. CASE VirtualKey(e) \in Called
      BY <1>6, <1>9, <2>1, <3>1
    <3>2. CASE VirtualKey(e) \in ks
      BY <1>6, <1>9, <2>1, <2>5, <3>2
    <3> QED BY <1>6, <2>6, <3>1, <3>2
  <2>7. ASSUME NEW m \in memberValues'
        PROVE  m \in Called' /\ m \notin pending' /\ VirtualKey(m.type) \notin Called'
    <3>1. CASE m \in memberValues /\ m \notin Consumed(ks)
      <4>1. m \in Called /\ m \notin pending /\ VirtualKey(m.type) \notin Called
        BY <2>1, <3>1
      <4>2. m \in DOMAIN providers /\ m.ordinal > 0
        BY <3>1 DEF BInv, BuildTypeOK
      <4>3. VirtualKey(m.type) \notin ks
        <5>1. m \in Range(MembersOf(VirtualKey(m.type)))
          BY <2>4, <4>2
        <5> QED BY <3>1, <5>1 DEF Consumed
      <4> QED BY <1>6, <1>9, <4>1, <4>3
    <3>2. CASE m \in S /\ m.ordinal > 0
      <4>1. m \in DOMAIN providers /\ m \in ks /\ m \notin Called /\ m \notin pending'
        BY <1>5, <1>7, <1>9, <3>2
      <4>2. m.type \in registered /\ m \in Range(members[m.type])
        BY <2>4, <3>2, <4>1
      <4>3. VirtualKey(m.type) \notin Called
        BY <2>1, <4>1, <4>2
      <4>4. VirtualKey(m.type) \notin ks
        BY <2>1, <2>5, <4>1, <4>2
      <4> QED BY <1>6, <4>1, <4>3, <4>4
    <3> QED BY <1>9, <3>1, <3>2
  <2>8. \A k : VirtualKey(k)' = VirtualKey(k)
    BY DEF VirtualKey, Singleton, Key
  <2> QED BY <1>6, <2>1, <2>2, <2>6, <2>7, <2>8 DEF MembersInv
<1> QED BY <1>6, <1>10, <1>12, <1>13, <1>14, <1>15 DEF BInv

\* The futures of the wave have all ended, and what they returned is stored.
LEMMA EndWaveKeeps ==
  ASSUME BInv, EndWave, UNCHANGED verdict PROVE BInv'
<1>1. /\ at = "join" /\ at' = "layers" /\ inflight = {} /\ inflight' = {}
      /\ StoreResults(finished, memberValues)
      /\ pending' = pending \ finished
      /\ constructing' = {} /\ finished' = {} /\ layer' = layer + 1
      /\ UNCHANGED <<wiring, next, outcome, history>>
  BY DEF EndWave, NextLayer
<1>2. /\ pending \cap Called = finished /\ layer <= Len(layers) /\ next <= Len(invokers)
      /\ Awaited = finished /\ Awaited' = {}
      /\ finished \subseteq DOMAIN providers /\ Called \subseteq DOMAIN providers
  BY <1>1 DEF BInv, PhaseInv, Awaited, BuildTypeOK, Called
<1>3. /\ UNCHANGED <<invokers, layers, providers, registered, members, chain, accepted, calls, injected>>
      /\ Called' = Called
  BY <1>1 DEF wiring, indices, groups, placement, verdict, history, Called
<1>4. /\ RInv'
      /\ \A k \in accepted : Held(k) => Held(k)'
      /\ \A k \in finished : k.ordinal = 0 => Held(k)'
  <2>1. PICK S : S = finished
    OBVIOUS
  <2>2. PICK held : held = memberValues
    OBVIOUS
  <2>3. StoreResults(S, held) /\ S \subseteq DOMAIN providers
    BY <1>1, <1>2, <2>1, <2>2
  <2>4. UNCHANGED <<wiring, applied, accepted>>
    BY <1>1 DEF verdict
  <2>5. /\ RInv'
        /\ \A k \in accepted : Held(k) => Held(k)'
        /\ \A k \in S : k.ordinal = 0 => Held(k)'
    BY <2>3, <2>4, StoreKeeps DEF BInv
  <2> QED BY <2>1, <2>5
<1>5. memberValues' = memberValues \cup {k \in finished : k.ordinal > 0}
  BY <1>1 DEF StoreResults
<1>6. LayersInv' /\ layers \in Seq(Range(layers))
  BY <1>3 DEF BInv, LayersInv
<1>7. BuildTypeOK'
  <2>1. layer' \in 1 .. Len(layers') + 1
    BY <1>1, <1>2, <1>3, <1>6 DEF BInv, BuildTypeOK
  <2>2. memberValues' \subseteq {k \in DOMAIN providers : k.ordinal > 0}
    BY <1>2, <1>5 DEF BInv, BuildTypeOK
  <2> QED BY <1>1, <1>3, <2>1, <2>2 DEF BInv, BuildTypeOK
<1>8. CallsInv'
  BY <1>1, <1>3 DEF BInv, CallsInv, BuiltOnce
<1>9. PhaseInv'
  BY <1>1, <1>2, <1>3 DEF PhaseInv
<1>10. HeldInv'
  <2>1. \A k \in DOMAIN providers : k.ordinal = 0 => k \in accepted
    BY DEF BInv, RInv, KeysInv
  <2>2. \A k \in Called : k \notin finished /\ k.ordinal = 0 => Held(k)
    BY <1>1, <1>2 DEF BInv, HeldInv
  <2> QED BY <1>2, <1>3, <1>4, <2>1, <2>2 DEF HeldInv
<1>11. MembersInv'
  <2>1. /\ \A m \in Called \cup pending :
             m.ordinal > 0 => VirtualKey(m.type) \in Called \cup pending
        /\ \A m \in memberValues :
             m \in Called /\ m \notin pending /\ VirtualKey(m.type) \notin Called
        /\ \A e \in registered :
             VirtualKey(e) \in Called => Range(members[e]) \subseteq Called \ pending
    BY <1>1 DEF BInv, MembersInv
  <2>2. Called \cup pending' = Called \cup pending
    BY <1>1, <1>2
  <2>3. ASSUME NEW m \in finished, m.ordinal > 0
        PROVE  m \in Called /\ m \notin pending' /\ VirtualKey(m.type) \notin Called
    <3>1. m \in Called /\ m \in pending /\ m \notin pending'
      BY <1>1, <1>2
    <3>2. m.type \in registered /\ m \in Range(members[m.type])
      BY <1>2, <2>3 DEF BInv, RInv, GroupInv
    <3> QED BY <2>1, <3>1, <3>2
  <2>4. \A k : VirtualKey(k)' = VirtualKey(k)
    BY DEF VirtualKey, Singleton, Key
  <2>5. \A e \in registered : VirtualKey(e) \in Called => Range(members[e]) \subseteq Called \ pending'
    BY <1>1, <2>1
  <2>6. \A m \in memberValues' :
          m \in Called /\ m \notin pending' /\ VirtualKey(m.type) \notin Called
    BY <1>1, <1>5, <2>1, <2>3
  <2> QED BY <1>3, <2>1, <2>2, <2>4, <2>5, <2>6 DEF MembersInv
<1>12. NeedInv'
  <2>1. next \in Nat /\ next' = next /\ invokers \in Seq(Range(invokers))
    BY <1>1, InvokersAre
  <2>2. ASSUME NEW C, Needed(C)' PROVE Called' \cup pending' \subseteq C
    <3>1. Needed(C)
      BY <1>3, <2>1, <2>2, SameNeeds
    <3>2. Called \cup pending \subseteq C
      BY <3>1 DEF BInv, NeedInv
    <3> QED BY <1>1, <1>3, <3>2
  <2> QED BY <2>2 DEF NeedInv
<1>13. InjectsWhatIsVisible'
  <2>1. PICK G : G = {}
    OBVIOUS
  <2>2. injected' = injected \cup G /\ \A g \in G : g[3] = Visible(g[2], g[1])
    BY <1>3, <2>1
  <2> QED BY <1>3, <2>2, StaysVisible DEF BInv
<1> QED BY <1>4, <1>6, <1>7, <1>8, <1>9, <1>10, <1>11, <1>12, <1>13 DEF BInv

-----------------------------------------------------------------------------
(* The wiring, and the invariant. *)

\* An option is applied, or the wiring validated.
LEMMA WireKeeps ==
  ASSUME BInv, WiredInv, Wire PROVE BInv' /\ WiredInv'
<1>1. /\ at = "wiring" /\ at' \in {"wiring", "invoker"}
      /\ UNCHANGED <<next, progress, memberValues, outcome, history>>
  BY DEF Wire
<1>2. /\ next = 1 /\ layer = 1 /\ pending = {} /\ Awaited = {} /\ constructing = {}
      /\ layers = << >> /\ calls = << >> /\ injected = {} /\ Called = {} /\ memberValues = {}
      /\ outcome = "none"
  <2>1. /\ next = 1 /\ layer = 1 /\ pending = {} /\ Awaited = {} /\ constructing = {}
        /\ layers = << >> /\ calls = << >> /\ injected = {} /\ outcome = "none"
    BY <1>1 DEF BInv, PhaseInv, CallsInv, BuildTypeOK
  <2>2. Called = {}
    BY <2>1 DEF Called
  <2>3. memberValues = {}
    BY <1>1, <2>2 DEF BInv, MembersInv
  <2> QED BY <2>1, <2>2, <2>3
<1>3. /\ next' = 1 /\ layer' = 1 /\ pending' = {} /\ Awaited' = {} /\ constructing' = {}
      /\ calls' = << >> /\ injected' = {} /\ Called' = {} /\ memberValues' = {}
      /\ outcome' = "none" /\ inflight' = {} /\ finished' = {}
  BY <1>1, <1>2 DEF progress, history, Awaited, Called
<1>4. /\ RInv' /\ LayersInv' /\ (at' = "wiring" => layers' = << >>)
  <2>1. CASE Apply /\ UNCHANGED layers
    <3>1. RInv'
      BY <2>1, ApplyKeeps DEF BInv
    <3>2. layers' = << >>
      BY <1>2, <2>1
    <3>3. LayersInv'
      BY <3>2 DEF LayersInv
    <3> QED BY <3>1, <3>2, <3>3
  <2>2. CASE Validate
    <3>1. UNCHANGED <<container, applied, accepted>> /\ status' = Verdict
      BY <2>2 DEF Validate
    <3>2. RInv'
      BY <3>1, SameContainer DEF BInv
    <3>3. layers' = IF Verdict = "validated" /\ AllFrozen THEN Frozen ELSE << >>
      BY <2>2 DEF Validate
    <3>4. providers' = providers
      BY <3>1 DEF container, indices
    <3>5. CASE layers' = << >>
      BY <3>2, <3>5 DEF LayersInv
    <3>6. CASE layers' = Frozen /\ Verdict = "validated"
      <4>1. LayersInv'
        BY <1>1, <3>4, <3>6, FrozenIs DEF LayersInv, BInv, WiredInv
      <4>2. at' = "invoker"
        BY <3>1, <3>6 DEF Wire
      <4> QED BY <3>2, <4>1, <4>2
    <3> QED BY <3>3, <3>5, <3>6
  <2> QED BY <2>1, <2>2 DEF Wire, LayersNext
<1>5. BuildTypeOK'
  <2>1. invokers' \in Seq([scope : Scopes, deps : Seq(Ids)]) /\ layers' \in Seq(Range(layers'))
    BY <1>4 DEF RInv, RegistryTypeOK, LayersInv
  <2>2. Len(invokers') \in Nat /\ Len(layers') \in Nat
    BY <2>1
  <2>3. next' \in 1 .. Len(invokers') + 1 /\ layer' \in 1 .. Len(layers') + 1
    BY <1>3, <2>2
  <2> QED BY <1>1, <1>3, <2>3 DEF BuildTypeOK
<1>6. CallsInv'
  BY <1>3 DEF CallsInv, BuiltOnce
<1>7. PhaseInv'
  BY <1>1, <1>3, <1>4 DEF PhaseInv
<1>8. HeldInv' /\ MembersInv'
  BY <1>3 DEF HeldInv, MembersInv
<1>9. NeedInv'
  BY <1>3 DEF NeedInv
<1>10. InjectsWhatIsVisible'
  BY <1>3 DEF InjectsWhatIsVisible
<1>11. WiredInv'
  <2>1. RInv /\ Unbuilt
    BY <1>1 DEF BInv, WiredInv
  <2>2. CASE Apply /\ UNCHANGED layers
    <3>1. status' \in {"open", "refused"} /\ Unbuilt'
      BY <2>1, <2>2, ApplyIsOpen, ApplyKeeps
    <3>2. at' = "wiring"
      BY <3>1 DEF Wire
    <3> QED BY <3>1, <3>2 DEF WiredInv, VerdictIsJust, LayersCoverNeeds
  <2>3. CASE Validate
    <3>1. VerdictIsJust' /\ LayersCoverNeeds'
      BY <2>1, <2>3, ValidateKeeps
    <3>2. Unbuilt'
      BY <2>1, <2>3 DEF Validate, Unbuilt, container, values, indices
    <3>3. at' # "wiring" => status' = "validated"
      BY DEF Wire
    <3> QED BY <3>1, <3>2, <3>3 DEF WiredInv
  <2> QED BY <2>2, <2>3 DEF Wire, LayersNext
<1> QED BY <1>4, <1>5, <1>6, <1>7, <1>8, <1>9, <1>10, <1>11 DEF BInv

\* The invariant holds of a container with the builtins alone.
LEMMA BuildInitHolds ==
  ASSUME BuildInit PROVE BInv /\ WiredInv
<1>1. /\ RegistryInit /\ layers = << >> /\ at = "wiring" /\ next = 1 /\ layer = 1
      /\ pending = {} /\ constructing = {} /\ inflight = {} /\ finished = {}
      /\ memberValues = {} /\ outcome = "none" /\ calls = << >> /\ injected = {}
  BY DEF BuildInit, LayersInit
<1>2. RInv
  BY <1>1, InitHolds
<1>3. Called = {} /\ Awaited = {}
  BY <1>1 DEF Called, Awaited
<1>4. LayersInv /\ CallsInv /\ InjectsWhatIsVisible
  BY <1>1 DEF LayersInv, CallsInv, BuiltOnce, InjectsWhatIsVisible
<1>5. BuildTypeOK
  <2>1. invokers = << >>
    BY <1>1 DEF RegistryInit
  <2> QED BY <1>1, <2>1 DEF BuildTypeOK
<1>6. PhaseInv /\ HeldInv /\ MembersInv /\ NeedInv
  BY <1>1, <1>3 DEF PhaseInv, HeldInv, MembersInv, NeedInv
<1>7. WiredInv
  <2>1. status = "open" /\ Unbuilt
    BY <1>1, InitHolds DEF RegistryInit
  <2> QED BY <1>1, <2>1 DEF WiredInv, VerdictIsJust, LayersCoverNeeds
<1> QED BY <1>2, <1>4, <1>5, <1>6, <1>7 DEF BInv

\* What runs after the wiring leaves it as it is.
LEMMA RunLeavesWiring ==
  ASSUME UNCHANGED verdict,
         Run \/ InvokerEnds \/ DropBuild \/ \E k \in inflight : FutureEnds(k) \/ FutureFails(k)
  PROVE  at \notin {"wiring", "end"} /\ at' # "wiring" /\ UNCHANGED wiring
<1> USE DEF container, End
<1>1. CASE BeginInvoker \/ AllInvoked \/ SkipLayer \/ EndLayers
  BY <1>1 DEF BeginInvoker, AllInvoked, SkipLayer, EndLayers, wiring
<1>2. CASE StartWave \/ EndWave
  BY <1>2 DEF StartWave, EndWave
<1>3. CASE FailWave
  BY <1>3 DEF FailWave
<1>4. CASE CallSync \/ CallAsync \/ InvokerEnds
  BY <1>4 DEF CallSync, CallAsync, InvokerEnds, InvokerResult, wiring
<1>5. CASE DropBuild \/ \E k \in inflight : FutureEnds(k) \/ FutureFails(k)
  BY <1>5 DEF DropBuild, FutureEnds, FutureFails, wiring
<1> QED BY <1>1, <1>2, <1>3, <1>4, <1>5 DEF Run

\* Every step keeps what holds of the wiring.
LEMMA WiringStays ==
  ASSUME BInv, WiredInv, [BuildNext]_buildVars PROVE WiredInv'
<1>1. CASE Wire
  BY <1>1, WireKeeps
<1>2. CASE UNCHANGED verdict
           /\ (Run \/ InvokerEnds \/ DropBuild \/ \E k \in inflight : FutureEnds(k) \/ FutureFails(k))
  <2>1. at # "wiring" /\ at' # "wiring" /\ UNCHANGED <<wiring, verdict>>
    BY <1>2, RunLeavesWiring
  <2>2. UNCHANGED <<chain, accepted, providers, registered, required, invokers, status, layers>>
    BY <2>1 DEF wiring, verdict, indices, groups, placement
  <2> QED BY <2>1, <2>2, SameVerdict DEF WiredInv
<1>3. CASE UNCHANGED buildVars
  <2>1. UNCHANGED <<chain, accepted, providers, registered, required, invokers, status, layers,
                    valuesPublic, valuesPrivate, at>>
    BY <1>3 DEF buildVars, layersVars, registryVars, container, values, indices, groups, placement
  <2> QED BY <2>1, SameVerdict DEF WiredInv, Unbuilt
<1> QED BY <1>1, <1>2, <1>3 DEF BuildNext

\* Every step keeps it.
LEMMA BuildStepKeeps ==
  ASSUME BInv, WiredInv, [BuildNext]_buildVars PROVE BInv'
<1>1. CASE Wire
  BY <1>1, WireKeeps
<1>2. CASE UNCHANGED verdict /\ Run
  BY <1>2, BeginInvokerKeeps, AllInvokedKeeps, SkipLayerKeeps, EndLayersKeeps, StartWaveKeeps,
     FailWaveKeeps, EndWaveKeeps, InvokersKeep DEF Run
<1>3. CASE UNCHANGED verdict /\ InvokerEnds
  BY <1>3, InvokersKeep
<1>4. CASE UNCHANGED verdict /\ DropBuild
  BY <1>4, AbandonKeeps DEF DropBuild
<1>5. CASE UNCHANGED verdict /\ \E k \in inflight : FutureEnds(k) \/ FutureFails(k)
  <2>1. PICK k \in inflight : FutureEnds(k) \/ FutureFails(k)
    BY <1>5
  <2>2. CASE FutureEnds(k)
    BY <1>5, <2>2, FutureEndsKeeps
  <2>3. CASE FutureFails(k)
    BY <1>5, <2>3, AbandonKeeps DEF FutureFails
  <2> QED BY <2>1, <2>2, <2>3
<1>6. CASE UNCHANGED buildVars
  <2> USE DEF buildVars, layersVars, registryVars, progress, history
  <2>1. /\ UNCHANGED <<container, applied, accepted, layers, calls, injected, at, next, progress,
                       memberValues, outcome>>
        /\ UNCHANGED <<providers, invokers, registered, members, chain>>
    BY <1>6 DEF container, indices, groups, placement
  <2>2. RInv'
    BY <2>1, SameContainer DEF BInv
  <2>3. LayersInv' /\ CallsInv' /\ BuildTypeOK'
    BY <2>1 DEF BInv, LayersInv, CallsInv, BuiltOnce, BuildTypeOK
  <2>4. Called' = Called /\ Awaited' = Awaited
    BY <2>1 DEF Called, Awaited
  <2>5. PhaseInv'
    BY <2>1, <2>4 DEF BInv, PhaseInv
  <2>6. HeldInv'
    BY <2>1, <2>4 DEF BInv, HeldInv, Held, Offers, container, values
  <2>7. MembersInv'
    BY <2>1, <2>4 DEF BInv, MembersInv, VirtualKey, Singleton, Key
  <2>8. NeedInv'
    <3>1. ASSUME NEW C, Needed(C)' PROVE Called' \cup pending' \subseteq C
      <4>1. Needed(C)
        BY <2>1, <3>1, InvokersAre, SameNeeds
      <4> QED BY <2>1, <2>4, <4>1 DEF BInv, NeedInv
    <3> QED BY <3>1 DEF NeedInv
  <2>9. InjectsWhatIsVisible'
    BY <2>1, SameSight DEF BInv, InjectsWhatIsVisible
  <2> QED BY <2>2, <2>3, <2>5, <2>6, <2>7, <2>8, <2>9 DEF BInv
<1> QED BY <1>1, <1>2, <1>3, <1>4, <1>5, <1>6 DEF BuildNext

\* The invariant of the build.
THEOREM BuildInvariant == BuildSpec => [](BInv /\ WiredInv)
<1>1. BuildInit => BInv /\ WiredInv
  BY BuildInitHolds
<1>2. BInv /\ WiredInv /\ [BuildNext]_buildVars => BInv' /\ WiredInv'
  BY BuildStepKeeps, WiringStays
<1> QED BY <1>1, <1>2, PTL DEF BuildSpec

\* The types of the build's state: BuildTypeOK.
THEOREM BuildTypes == BuildSpec => []BuildTypeOK
<1>1. BInv => BuildTypeOK
  BY DEF BInv
<1> QED BY <1>1, BuildInvariant, PTL

\* Whoever needs a constructor and however often, it is called once: BuiltOnce, of
\* collect_pending and run_wave in src/container/build.rs.
THEOREM ConstructorsAreBuiltOnce == BuildSpec => []BuiltOnce
<1>1. BInv => BuiltOnce
  BY DEF BInv, CallsInv
<1> QED BY <1>1, BuildInvariant, PTL

\* What constructors and invokers get is what their scope sees: InjectsWhatIsVisible, of
\* Container::get and lookup_value_ref_from.
THEOREM ScopesGetWhatTheySee == BuildSpec => []InjectsWhatIsVisible
<1>1. BInv => InjectsWhatIsVisible
  BY DEF BInv
<1> QED BY <1>1, BuildInvariant, PTL

\* No constructor is called that no invoker needs: OnlyWhatIsNeeded, of collect_pending.
THEOREM OnlyNeededAreBuilt == BuildSpec => []OnlyWhatIsNeeded
<1>1. ASSUME BInv PROVE OnlyWhatIsNeeded
  <2>1. PICK to : to = [k \in DOMAIN providers |-> Needs(k)]
    OBVIOUS
  <2>2. PICK S : S = Asked \cap DOMAIN providers
    OBVIOUS
  <2>3. S \subseteq DOMAIN to /\ \A k \in DOMAIN to : to[k] = Needs(k) /\ to[k] \subseteq DOMAIN to
    BY <2>1, <2>2 DEF Needs
  <2>4. PICK C : C = Reached(S, to)
    OBVIOUS
  <2>5. C \subseteq DOMAIN to /\ S \subseteq C /\ \A k \in C : to[k] \subseteq C
    BY <2>3, <2>4, ReachedIs
  <2>6. Needed(C)
    BY <2>1, <2>2, <2>3, <2>5 DEF Needed
  <2>7. Called \subseteq C
    BY <1>1, <2>6 DEF BInv, NeedInv
  <2> QED BY <2>1, <2>2, <2>4, <2>7 DEF OnlyWhatIsNeeded
<1> QED BY <1>1, BuildInvariant, PTL

\* No member of a group is left without its group: MembersAreConsumed, of aggregate and
\* store_group_member in src/container/group.rs.
THEOREM GroupsTakeTheirMembers == BuildSpec => []MembersAreConsumed
<1>1. ASSUME BInv, at \in {"invoker", "call", "invoking"} PROVE memberValues = {}
  <2>1. pending = {}
    BY <1>1 DEF BInv, PhaseInv
  <2>2. /\ \A m \in Called : m.ordinal > 0 => VirtualKey(m.type) \in Called
        /\ \A m \in memberValues : m \in Called /\ VirtualKey(m.type) \notin Called
    BY <1>1, <2>1 DEF BInv, MembersInv
  <2>3. \A m \in memberValues : m.ordinal > 0
    BY <1>1 DEF BInv, BuildTypeOK
  <2> QED BY <2>2, <2>3
<1>2. BInv => MembersAreConsumed
  BY <1>1 DEF MembersAreConsumed
<1> QED BY <1>2, BuildInvariant, PTL

-----------------------------------------------------------------------------
(***************************************************************************)
(* Constructors and invokers follow what they need.                        *)
(***************************************************************************)

\* The constructors that have returned a value, which was stored.
Complete == Called \ pending

\* The constructors that the parameters are bound to.
GivenTo(deps, scope) == {Visible(deps[i], scope) : i \in DOMAIN deps} \cap DOMAIN providers

\* Values of constructors are those of complete ones; what was called came after all that
\* it needs, and so did the invoker that is awaited.
FollowInv ==
  /\ \A id \in Ids : valuesPublic[id] \in DOMAIN providers => valuesPublic[id] \in Complete
  /\ \A id \in Ids, s \in Scopes :
       valuesPrivate[<<id, s>>] \in DOMAIN providers => valuesPrivate[<<id, s>>] \in Complete
  /\ \A k \in Called : Needs(k) \subseteq Complete
  /\ at = "invoking" => GivenTo(Invoker.deps, Invoker.scope) \subseteq Complete

\* A lookup returns a value of some place.
LEMMA LooksUp ==
  ASSUME RInv, NEW id, NEW from \in 1 .. Len(chain)
  PROVE  \/ LookupValue(id, from) = valuesPublic[id]
         \/ \E s \in Scopes : LookupValue(id, from) = valuesPrivate[<<id, s>>]
<1> DEFINE S == {p \in privateScopes : valuesPrivate[<<id, p>>] # None \/ HasPrivateProvider(id, p)}
<1>1. PICK s : s = Nearest(from, S)
  OBVIOUS
<1>2. LookupValue(id, from) = IF s = NoScope THEN valuesPublic[id] ELSE valuesPrivate[<<id, s>>]
  BY <1>1 DEF LookupValue
<1>3. s # NoScope => s \in privateScopes
  <2> HIDE DEF S
  <2>1. s # NoScope => s \in S
    BY <1>1, NearestIs DEF RInv
  <2> QED BY <2>1 DEF S
<1>4. privateScopes \subseteq Scopes
  <2>1. DOMAIN chain = 1 .. Len(chain) /\ Len(chain) \in Scopes /\ privateScopes \subseteq DOMAIN chain
    BY DEF RInv, RegistryTypeOK
  <2> QED BY <2>1, BoundsAssumption DEF Scopes
<1> QED BY <1>2, <1>3, <1>4

\* Who finds its parameters needs only what is complete.
LEMMA GetsComplete ==
  ASSUME RInv, FollowInv, NEW deps, NEW scope \in 1 .. Len(chain),
         \A i \in DOMAIN deps : deps[i] \in Ids, CanGet(deps, scope)
  PROVE  GivenTo(deps, scope) \subseteq Complete
<1> SUFFICES ASSUME NEW i \in DOMAIN deps, NEW d, d = Visible(deps[i], scope), d \in DOMAIN providers
             PROVE  d \in Complete
  BY DEF GivenTo
<1>1. LookupValue(deps[i], scope) = d
  BY Finds DEF CanGet
<1>2. \/ d = valuesPublic[deps[i]]
      \/ \E s \in Scopes : d = valuesPrivate[<<deps[i], s>>]
  BY <1>1, LooksUp
<1> QED BY <1>2 DEF FollowInv

\* The same of a constructor and, in an aggregate, of its members.
LEMMA NeedsComplete ==
  ASSUME BInv, FollowInv, at # "end", NEW k \in DOMAIN providers, CanConstruct(k)
  PROVE  Needs(k) \subseteq Complete
<1>1. RInv
  BY DEF BInv
<1>2. GivenTo(providers[k], k.scope) \subseteq Complete
  BY <1>1, ParametersAre, GetsComplete DEF CanConstruct
<1>3. \A m \in memberValues : m \in Complete
  BY DEF BInv, MembersInv, Complete
<1>4. \A d \in DOMAIN providers :
        d.ordinal > 0 /\ k = VirtualKey(d.type) => d \in Range(MembersOf(k))
  BY <1>1, MembersAre
<1> SUFFICES ASSUME NEW d \in Needs(k) PROVE d \in Complete
  OBVIOUS
<1>5. d \in DOMAIN providers
  BY DEF Needs
<1>6. CASE \E i \in DOMAIN providers[k] : Visible(providers[k][i], k.scope) = d
  BY <1>2, <1>5, <1>6 DEF GivenTo
<1>7. CASE \E e \in registered : k = VirtualKey(e) /\ d.ordinal > 0 /\ d.type = e
  <2>1. d \in Range(MembersOf(k))
    BY <1>4, <1>5, <1>7
  <2> QED BY <1>3, <2>1 DEF CanConstruct
<1> QED BY <1>6, <1>7 DEF Needs

\* What is needed by whom does not change after the wiring.
LEMMA SameGiven ==
  ASSUME UNCHANGED <<chain, accepted, providers, registered>>
  PROVE  /\ \A k : Needs(k)' = Needs(k)
         /\ \A deps, scope : GivenTo(deps, scope)' = GivenTo(deps, scope)
<1>1. \A id, from : Visible(id, from)' = Visible(id, from)
  BY SameSight
<1> QED BY <1>1 DEF Needs, GivenTo

\* A step that stores the values of S, all of them complete after it, and calls the
\* constructors in ks.
LEMMA FollowStep ==
  ASSUME BInv, FollowInv, at # "end", UNCHANGED <<chain, accepted, providers, registered>>,
         NEW S, S \subseteq Complete',
         \A id \in Ids : valuesPublic'[id] \in S \cup {valuesPublic[id]},
         \A id \in Ids, s \in Scopes : valuesPrivate'[<<id, s>>] \in S \cup {valuesPrivate[<<id, s>>]},
         NEW ks, ks \subseteq DOMAIN providers, \A k \in ks : CanConstruct(k),
         Called' = Called \cup ks, pending' \cap Called \subseteq pending,
         at' = "invoking" => GivenTo(Invoker.deps, Invoker.scope)' \subseteq Complete'
  PROVE  FollowInv' /\ Complete \subseteq Complete'
<1>1. Complete \subseteq Complete'
  BY DEF Complete
<1>2. /\ \A id \in Ids : valuesPublic'[id] \in DOMAIN providers => valuesPublic'[id] \in Complete'
      /\ \A id \in Ids, s \in Scopes :
           valuesPrivate'[<<id, s>>] \in DOMAIN providers => valuesPrivate'[<<id, s>>] \in Complete'
  BY <1>1 DEF FollowInv
<1>3. \A k \in Called' : Needs(k)' \subseteq Complete'
  <2>1. \A k \in ks : Needs(k) \subseteq Complete
    BY NeedsComplete
  <2>2. \A k \in Called : Needs(k) \subseteq Complete
    BY DEF FollowInv
  <2>3. \A k : Needs(k)' = Needs(k)
    BY SameGiven
  <2> QED BY <1>1, <2>1, <2>2, <2>3
<1> QED BY <1>1, <1>2, <1>3 DEF FollowInv

\* A step that stores and calls nothing.
LEMMA FollowStill ==
  ASSUME BInv, FollowInv, at # "end", UNCHANGED <<chain, accepted, providers, registered, values>>,
         Called' = Called, pending' \cap Called \subseteq pending,
         at' = "invoking" => GivenTo(Invoker.deps, Invoker.scope)' \subseteq Complete'
  PROVE  FollowInv' /\ Complete \subseteq Complete'
<1>1. PICK S : S = {}
  OBVIOUS
<1>2. /\ S \subseteq Complete' /\ S \subseteq DOMAIN providers /\ \A k \in S : CanConstruct(k)
      /\ Called' = Called \cup S
      /\ \A id \in Ids : valuesPublic'[id] \in S \cup {valuesPublic[id]}
      /\ \A id \in Ids, s \in Scopes : valuesPrivate'[<<id, s>>] \in S \cup {valuesPrivate[<<id, s>>]}
  BY <1>1 DEF values
<1> QED BY <1>2, FollowStep

\* A wave that is called, whole or in part, or whose values are stored.
LEMMA WavesFollow ==
  ASSUME BInv, BInv', FollowInv, UNCHANGED verdict, StartWave \/ FailWave \/ EndWave
  PROVE  FollowInv' /\ Complete \subseteq Complete'
<1>1. CASE StartWave
  <2>1. PICK ks : ks = Range(Wave)
    OBVIOUS
  <2>2. PICK fut \in SUBSET {k \in ks : "future" \in Returns(k)} :
          /\ StoreResults(ks \ fut, memberValues \ Consumed(ks))
          /\ pending' = pending \ (ks \ fut)
    BY <1>1, <2>1 DEF StartWave
  <2>3. /\ at = "layers" /\ layer <= Len(layers) /\ at' = "join"
        /\ \A k \in ks : CanConstruct(k)
        /\ calls' = Append(calls, Wave) /\ UNCHANGED wiring
    BY <1>1, <2>1 DEF StartWave
  <2>4. layer \in DOMAIN layers
    <3>1. layers \in Seq(Range(layers)) /\ layer \in 1 .. Len(layers) + 1
      BY DEF BInv, LayersInv, BuildTypeOK
    <3> QED BY <2>3, <3>1
  <2>5. ks \subseteq pending \cap DOMAIN providers
    BY <2>1, <2>4, WaveIs DEF BInv
  <2>6. Called' = Called \cup ks
    <3>1. PICK w : w = Wave
      OBVIOUS
    <3>2. calls \in Seq(Range(calls)) /\ calls' = Append(calls, w)
      BY <2>3, <3>1 DEF BInv, CallsInv
    <3>3. Called' = Called \cup Range(w)
      BY <3>2, Calls
    <3> QED BY <2>1, <3>1, <3>3
  <2>7. PICK S : S = ks \ fut
    OBVIOUS
  <2>8. S \subseteq Complete' /\ S \subseteq DOMAIN providers /\ pending' \subseteq pending
    BY <2>2, <2>5, <2>6, <2>7 DEF Complete
  <2>9. /\ \A id \in Ids : valuesPublic'[id] \in S \cup {valuesPublic[id]}
        /\ \A id \in Ids, s \in Scopes : valuesPrivate'[<<id, s>>] \in S \cup {valuesPrivate[<<id, s>>]}
    <3>1. PICK held : held = memberValues \ Consumed(ks)
      OBVIOUS
    <3>2. StoreResults(S, held) /\ UNCHANGED <<wiring, applied, accepted>>
      BY <2>2, <2>3, <2>7, <3>1 DEF verdict
    <3> QED BY <2>8, <3>2, StoreKeeps DEF BInv
  <2>10. UNCHANGED <<chain, accepted, providers, registered>>
    BY <2>3 DEF wiring, indices, groups, placement, verdict
  <2> QED BY <2>3, <2>5, <2>6, <2>8, <2>9, <2>10, FollowStep
<1>2. CASE FailWave
  <2>1. /\ at = "layers" /\ layer <= Len(layers)
        /\ UNCHANGED <<wiring, values, pending>>
    BY <1>2 DEF FailWave
  <2>2. PICK n \in DOMAIN Wave :
          LET k == Wave[n]
              before == {Wave[i] : i \in {m \in DOMAIN Wave : m < n}}
              broken == ~CanConstruct(k) \/ k \in constructing
              called == Restrict(Wave, {m \in DOMAIN Wave : m < n \/ (m = n /\ ~broken)})
          IN /\ \A l \in before : CanConstruct(l)
             /\ at' = "end"
             /\ calls' = Append(calls, called)
    BY <1>2 DEF FailWave, End
  <2> DEFINE k == Wave[n]
             before == {Wave[i] : i \in {m \in DOMAIN Wave : m < n}}
             broken == ~CanConstruct(k) \/ k \in constructing
             T == {m \in DOMAIN Wave : m < n \/ (m = n /\ ~broken)}
  <2>3. PICK w : w = Restrict(Wave, T)
    OBVIOUS
  <2>4. (\A l \in before : CanConstruct(l)) /\ at' = "end" /\ calls' = Append(calls, w)
    BY <2>2, <2>3
  <2>5. layer \in DOMAIN layers
    <3>1. layers \in Seq(Range(layers)) /\ layer \in 1 .. Len(layers) + 1
      BY DEF BInv, LayersInv, BuildTypeOK
    <3> QED BY <2>1, <3>1
  <2>6. Range(Wave) \subseteq pending \cap DOMAIN providers
    BY <2>5, WaveIs DEF BInv
  <2>7. DOMAIN w = T /\ (\A m \in T : w[m] = Wave[m]) /\ Range(w) \subseteq Range(Wave)
    <3>1. T \subseteq DOMAIN Wave
      OBVIOUS
    <3> HIDE DEF T
    <3> QED BY <2>3, <3>1, PartIs
  <2>8. \A l \in Range(w) : CanConstruct(l)
    <3> SUFFICES ASSUME NEW m \in T PROVE CanConstruct(Wave[m])
      BY <2>7 DEF Range
    <3>1. CASE m < n
      BY <2>4, <3>1
    <3>2. CASE m = n /\ ~broken
      BY <3>2
    <3> QED BY <3>1, <3>2
  <2>9. PICK ks : ks = Range(w)
    OBVIOUS
  <2> HIDE DEF T, before
  <2>10. Called' = Called \cup ks
    <3>1. calls \in Seq(Range(calls))
      BY DEF BInv, CallsInv
    <3>2. Called' = Called \cup Range(w)
      BY <2>4, <3>1, Calls
    <3> QED BY <2>9, <3>2
  <2>11. PICK S : S = {}
    OBVIOUS
  <2>12. /\ S \subseteq Complete'
         /\ \A id \in Ids : valuesPublic'[id] \in S \cup {valuesPublic[id]}
         /\ \A id \in Ids, s \in Scopes : valuesPrivate'[<<id, s>>] \in S \cup {valuesPrivate[<<id, s>>]}
    BY <2>1, <2>11 DEF values
  <2>13. UNCHANGED <<chain, accepted, providers, registered>>
    BY <2>1 DEF wiring, indices, groups, placement, verdict
  <2>14. ks \subseteq DOMAIN providers /\ (\A l \in ks : CanConstruct(l))
         /\ pending' \cap Called \subseteq pending
    BY <2>1, <2>6, <2>7, <2>8, <2>9
  <2> QED BY <2>1, <2>4, <2>10, <2>12, <2>13, <2>14, FollowStep
<1>3. CASE EndWave
  <2>1. /\ at = "join" /\ at' = "layers" /\ inflight = {} /\ StoreResults(finished, memberValues)
        /\ pending' = pending \ finished /\ UNCHANGED <<wiring, calls>>
    BY <1>3 DEF EndWave, history
  <2>2. PICK S : S = finished
    OBVIOUS
  <2>3. PICK held : held = memberValues
    OBVIOUS
  <2>4. StoreResults(S, held) /\ UNCHANGED <<wiring, applied, accepted>> /\ S \subseteq DOMAIN providers
    BY <2>1, <2>2, <2>3 DEF verdict, BInv, BuildTypeOK
  <2>5. /\ \A id \in Ids : valuesPublic'[id] \in S \cup {valuesPublic[id]}
        /\ \A id \in Ids, s \in Scopes : valuesPrivate'[<<id, s>>] \in S \cup {valuesPrivate[<<id, s>>]}
    BY <2>4, StoreKeeps DEF BInv
  <2>6. UNCHANGED <<chain, accepted, providers, registered>>
    BY <2>1 DEF wiring, indices, groups, placement, verdict
  <2>7. PICK ks : ks = {}
    OBVIOUS
  <2>8. ks \subseteq DOMAIN providers /\ (\A k \in ks : CanConstruct(k)) /\ Called' = Called \cup ks
    BY <2>1, <2>7 DEF Called
  <2>9. S \subseteq Complete' /\ pending' \cap Called \subseteq pending
    <3>1. pending \cap Called = finished
      BY <2>1 DEF BInv, PhaseInv, Awaited
    <3> QED BY <2>1, <2>2, <2>7, <2>8, <3>1 DEF Complete
  <2> QED BY <2>1, <2>5, <2>6, <2>8, <2>9, FollowStep
<1> QED BY <1>1, <1>2, <1>3

\* Every other step after the wiring leaves the values and the calls.
LEMMA OthersFollow ==
  ASSUME BInv, BInv', FollowInv, UNCHANGED verdict,
         \/ BeginInvoker \/ AllInvoked \/ SkipLayer \/ EndLayers \/ CallSync \/ CallAsync
         \/ InvokerEnds \/ DropBuild \/ (\E k \in inflight : FutureEnds(k) \/ FutureFails(k))
  PROVE  FollowInv' /\ Complete \subseteq Complete'
<1>1. /\ at # "end" /\ UNCHANGED <<container, calls>>
      /\ at \in {"layers", "join", "invoking", "call"} => pending' \subseteq pending
      /\ at' = "invoking" => (CallAsync \/ at = "invoking") /\ next' = next
  <2> USE DEF End, progress, history, InvokerResult
  <2>1. CASE BeginInvoker \/ AllInvoked \/ SkipLayer \/ EndLayers
    BY <2>1 DEF BeginInvoker, AllInvoked, SkipLayer, EndLayers
  <2>2. CASE CallSync \/ CallAsync \/ InvokerEnds
    BY <2>2 DEF CallSync, CallAsync, InvokerEnds
  <2>3. CASE DropBuild \/ \E k \in inflight : FutureEnds(k) \/ FutureFails(k)
    BY <2>3 DEF DropBuild, FutureEnds, FutureFails
  <2> QED BY <2>1, <2>2, <2>3
<1>2. UNCHANGED <<chain, accepted, providers, registered, values, invokers>> /\ Called' = Called
  BY <1>1 DEF container, indices, groups, placement, verdict, Called
<1>3. pending' \cap Called \subseteq pending
  <2>1. CASE at = "invoker"
    <3>1. pending' = pending \/ at' = "layers"
      BY <2>1 DEF BeginInvoker, AllInvoked, SkipLayer, EndLayers, CallSync, CallAsync, InvokerEnds,
                  DropBuild, FutureEnds, FutureFails, progress
    <3>2. at' = "layers" => pending' \cap Called' = {}
      BY DEF BInv, PhaseInv
    <3> QED BY <1>2, <3>1, <3>2
  <2>2. CASE at \in {"layers", "join", "invoking", "call"}
    BY <1>1, <2>2
  <2>3. at # "wiring"
    BY DEF BeginInvoker, AllInvoked, SkipLayer, EndLayers, CallSync, CallAsync, InvokerEnds,
           DropBuild, FutureEnds, FutureFails
  <2> QED BY <1>1, <2>1, <2>2, <2>3 DEF BInv, BuildTypeOK
<1>4. Complete \subseteq Complete'
  BY <1>2, <1>3 DEF Complete
<1>5. ASSUME at' = "invoking"
      PROVE  GivenTo(Invoker.deps, Invoker.scope)' \subseteq Complete'
  <2>1. GivenTo(Invoker.deps, Invoker.scope) \subseteq Complete
    <3>1. CASE CallAsync
      <4>1. CanGet(Invoker.deps, Invoker.scope) /\ next <= Len(invokers)
        BY <3>1 DEF CallAsync, BInv, PhaseInv
      <4> QED BY <4>1, InvokersAre, GetsComplete DEF BInv
    <3>2. CASE at = "invoking"
      BY <3>2 DEF FollowInv
    <3> QED BY <1>1, <1>5, <3>1, <3>2
  <2>2. Invoker' = Invoker
    BY <1>1, <1>2, <1>5 DEF Invoker
  <2>3. \A deps, scope : GivenTo(deps, scope)' = GivenTo(deps, scope)
    BY <1>2, SameGiven
  <2>4. GivenTo(Invoker.deps, Invoker.scope)' = GivenTo(Invoker.deps, Invoker.scope)
    BY <1>2, <2>2, SameSight DEF GivenTo
  <2> QED BY <1>4, <2>1, <2>4
<1> QED BY <1>1, <1>2, <1>3, <1>5, FollowStill

\* While options are applied nothing is called and no constructor has a value.
LEMMA WiringFollows ==
  ASSUME BInv, BInv', FollowInv, Wire
  PROVE  FollowInv' /\ Complete \subseteq Complete'
<1>1. at = "wiring" /\ at' \in {"wiring", "invoker"} /\ UNCHANGED <<calls, pending>>
  BY DEF Wire, progress, history
<1>2. Called = {} /\ Called' = {} /\ Complete = {} /\ Complete' = {}
  <2>1. calls = << >>
    BY <1>1 DEF BInv, CallsInv
  <2> QED BY <1>1, <2>1 DEF Called, Complete
<1>3. Unbuilt
  BY <1>2 DEF FollowInv, Unbuilt
<1>4. Unbuilt'
  <2>1. CASE Apply
    BY <1>3, <2>1, ApplyKeeps DEF BInv
  <2>2. CASE Validate
    BY <1>3, <2>2 DEF Validate, Unbuilt, container, values, indices
  <2> QED BY <2>1, <2>2 DEF Wire, LayersNext
<1> QED BY <1>1, <1>2, <1>4 DEF FollowInv, Unbuilt

\* Every step keeps it, and what is complete stays so.
LEMMA FollowKeeps ==
  ASSUME BInv, BInv', FollowInv, [BuildNext]_buildVars
  PROVE  FollowInv' /\ Complete \subseteq Complete'
<1>1. CASE Wire
  BY <1>1, WiringFollows
<1>2. CASE UNCHANGED verdict /\ (Run \/ InvokerEnds \/ DropBuild
                                 \/ \E k \in inflight : FutureEnds(k) \/ FutureFails(k))
  BY <1>2, WavesFollow, OthersFollow DEF Run
<1>3. CASE UNCHANGED buildVars
  <2>1. /\ UNCHANGED <<valuesPublic, valuesPrivate, providers, chain, accepted, registered, invokers, next,
                       at, pending, calls>>
    BY <1>3 DEF buildVars, layersVars, registryVars, progress, history, container, values, indices,
                groups, placement
  <2>2. Complete' = Complete /\ Called' = Called
    BY <2>1 DEF Complete, Called
  <2>3. \A k : Needs(k)' = Needs(k)
    BY <2>1, SameGiven
  <2>4. GivenTo(Invoker.deps, Invoker.scope)' = GivenTo(Invoker.deps, Invoker.scope)
    BY <2>1, SameSight DEF GivenTo, Invoker
  <2> QED BY <2>1, <2>2, <2>3, <2>4 DEF FollowInv
<1> QED BY <1>1, <1>2, <1>3 DEF BuildNext

\* Values and calls follow what they need, in every reachable state.
LEMMA ValuesFollowTheirNeeds == BuildSpec => []FollowInv
<1>1. BuildInit => FollowInv
  <2> SUFFICES ASSUME BuildInit PROVE FollowInv
    OBVIOUS
  <2>1. RegistryInit /\ calls = << >> /\ at = "wiring"
    BY DEF BuildInit, LayersInit
  <2>2. Unbuilt
    BY <2>1, InitHolds
  <2>3. Called = {}
    BY <2>1 DEF Called
  <2> QED BY <2>1, <2>2, <2>3 DEF FollowInv, Unbuilt
<1>2. BInv /\ BInv' /\ FollowInv /\ [BuildNext]_buildVars => FollowInv'
  BY FollowKeeps
<1> QED BY <1>1, <1>2, BuildInvariant, PTL DEF BuildSpec

\* A constructor runs when all that it needs has returned and left its value, in this wave
\* or an earlier one of any invoker: run_wave and store_constructed of build.rs.
THEOREM ConstructorsFollowTheirNeeds == BuildSpec => [](\A k \in Called : Needs(k) \subseteq Complete)
<1>1. FollowInv => \A k \in Called : Needs(k) \subseteq Complete
  BY DEF FollowInv
<1> QED BY <1>1, ValuesFollowTheirNeeds, PTL

-----------------------------------------------------------------------------
(***************************************************************************)
(* An accepted wiring builds: nothing is missing, and nothing left over.   *)
(***************************************************************************)

\* What is pending lies in this layer or a later one, and what it needs was called or is
\* pending with it, as is what the invoker is given; what of the layer is pending while
\* futures are awaited is in the wave; the value of a member is there until its aggregate
\* is called.
ReadyInv ==
  /\ outcome # "internal"
  /\ at \in {"layers", "join"} =>
       /\ \A k \in pending : \E n \in DOMAIN layers : n >= layer /\ k \in Range(layers[n])
       /\ \A k \in pending : Needs(k) \subseteq Called \cup pending
  /\ at \in {"layers", "join", "call"} =>
       GivenTo(Invoker.deps, Invoker.scope) \subseteq Called \cup pending
  /\ at = "join" => pending \cap Range(layers[layer]) \subseteq Awaited
  /\ at # "end" => \A m \in Called \ Awaited :
       m.ordinal > 0 /\ VirtualKey(m.type) \notin Called => m \in memberValues

\* After the wiring every parameter is bound, and each constructor lies in one layer, after
\* all that it needs.
LEMMA AcceptedIs ==
  ASSUME BInv, WiredInv, at # "wiring"
  PROVE  /\ \A k \in DOMAIN providers : \A i \in DOMAIN providers[k] :
              Visible(providers[k][i], k.scope) # None
         /\ \A n \in DOMAIN invokers : \A i \in DOMAIN invokers[n].deps :
              Visible(invokers[n].deps[i], invokers[n].scope) # None
         /\ \A k \in DOMAIN providers : \E n \in DOMAIN layers : k \in Range(layers[n])
         /\ \A k \in DOMAIN providers : \A d \in Needs(k) : \A m, n \in DOMAIN layers :
              k \in Range(layers[n]) /\ d \in Range(layers[m]) => m < n
<1>1. status = "validated"
  BY DEF WiredInv
<1>2. /\ \A k \in DOMAIN providers : ~Unbound(providers[k], k.scope)
      /\ \A n \in DOMAIN invokers : ~Unbound(invokers[n].deps, invokers[n].scope)
  BY <1>1 DEF WiredInv, VerdictIsJust
<1> DEFINE place(k) == {n \in DOMAIN layers : k \in Range(layers[n])}
<1>3. \A k \in DOMAIN providers :
        Cardinality(place(k)) = 1 /\ \A d \in Needs(k) : \A n \in place(k), m \in place(d) : m < n
  BY <1>1 DEF WiredInv, LayersCoverNeeds
<1>4. ASSUME NEW k \in DOMAIN providers PROVE place(k) # {}
  <2>1. Cardinality(place(k)) # 0
    BY <1>3
  <2> QED BY <2>1, FS_EmptySet
<1> QED BY <1>2, <1>3, <1>4 DEF Unbound

\* A parameter that is bound leads to the constructor to run, or finds its value.
LEMMA BoundIsFound ==
  ASSUME RInv, FollowInv, NEW id \in Ids, NEW from \in 1 .. Len(chain), Visible(id, from) # None
  PROVE  /\ None \notin PendingFor(id, from)
         /\ Visible(id, from) \in DOMAIN providers =>
              Visible(id, from) \in Complete \/ Visible(id, from) \in PendingFor(id, from)
         /\ (Visible(id, from) \in DOMAIN providers => Held(Visible(id, from)))
              => LookupValue(id, from) # None
<1>1. PICK v : v = Visible(id, from)
  OBVIOUS
<1>2. /\ v \in accepted /\ LookupValue(id, from) \in {None, v}
      /\ Held(v) => LookupValue(id, from) = v
      /\ v \in DOMAIN providers => ResolveProvider(id, from) = v
  BY <1>1, LookupsFind
<1>3. v \notin DOMAIN providers => Held(v)
  BY <1>2 DEF RInv, StockInv
<1>4. None \notin DOMAIN providers
  BY NoneIsNoProvider DEF RInv
<1>5. None \notin PendingFor(id, from)
  BY <1>1, <1>2, <1>3, <1>4 DEF PendingFor
<1>6. ASSUME v \in DOMAIN providers PROVE v \in Complete \/ v \in PendingFor(id, from)
  <2>1. CASE LookupValue(id, from) = None
    BY <1>2, <1>6, <2>1 DEF PendingFor
  <2>2. CASE LookupValue(id, from) # None
    <3>1. LookupValue(id, from) = v
      BY <1>2, <2>2
    <3>2. v = valuesPublic[id] \/ \E s \in Scopes : v = valuesPrivate[<<id, s>>]
      BY <3>1, LooksUp
    <3> QED BY <1>6, <3>2 DEF FollowInv
  <2> QED BY <2>1, <2>2
<1>7. (v \in DOMAIN providers => Held(v)) => LookupValue(id, from) # None
  BY <1>1, <1>2, <1>3
<1> QED BY <1>1, <1>5, <1>6, <1>7

\* What was called and is not awaited has left its value for those who see it.
LEMMA CalledIsFound ==
  ASSUME BInv, FollowInv, at # "end", NEW deps, NEW scope \in 1 .. Len(chain),
         \A i \in DOMAIN deps : deps[i] \in Ids /\ Visible(deps[i], scope) # None,
         GivenTo(deps, scope) \subseteq Called \ Awaited
  PROVE  CanGet(deps, scope)
<1> SUFFICES ASSUME NEW i \in DOMAIN deps PROVE LookupValue(deps[i], scope) # None
  BY DEF CanGet
<1>1. PICK v : v = Visible(deps[i], scope)
  OBVIOUS
<1>2. v \in accepted /\ v.ordinal = 0
  <2>1. v \in accepted
    BY <1>1, LookupsFind DEF BInv
  <2> QED BY <2>1, BindingIs DEF BInv, RInv, KeysInv
<1>3. v \in DOMAIN providers => Held(v)
  <2>1. v \in DOMAIN providers => v \in Called \ Awaited
    BY <1>1 DEF GivenTo
  <2> QED BY <1>2, <2>1 DEF BInv, HeldInv
<1> QED BY <1>1, <1>3, BoundIsFound DEF BInv

\* The wave holds what of the layer is pending.
LEMMA WaveHolds ==
  ASSUME layer \in DOMAIN layers
  PROVE  Range(Wave) = pending \cap Range(layers[layer])
<1>1. PICK T : T = {n \in DOMAIN layers[layer] : layers[layer][n] \in pending}
  OBVIOUS
<1>2. T \subseteq DOMAIN layers[layer] /\ Wave = Restrict(layers[layer], T)
  BY <1>1 DEF Wave
<1>3. DOMAIN Wave = T /\ \A n \in T : Wave[n] = layers[layer][n]
  BY <1>2, PartIs
<1> QED BY <1>1, <1>3 DEF Range

\* The next constructors in line find all that they need.
LEMMA WaveCanConstruct ==
  ASSUME BInv, WiredInv, FollowInv, ReadyInv, at = "layers", layer \in DOMAIN layers,
         NEW k \in Range(Wave)
  PROVE  CanConstruct(k) /\ k \notin constructing
<1>1. k \in pending /\ k \in DOMAIN providers /\ k \in Range(layers[layer])
  BY WaveIs, WaveHolds DEF BInv
<1>2. Awaited = {} /\ constructing = {} /\ pending \cap Called = {}
  BY DEF BInv, PhaseInv
<1>3. Needs(k) \subseteq Called
  <2> SUFFICES ASSUME NEW d \in Needs(k), d \in pending PROVE FALSE
    BY <1>1 DEF ReadyInv
  <2>1. PICK m \in DOMAIN layers : m >= layer /\ d \in Range(layers[m])
    BY DEF ReadyInv
  <2>2. m < layer
    BY <1>1, <2>1, AcceptedIs
  <2>3. m \in Nat /\ layer \in Nat
    <3>1. layers \in Seq(Range(layers))
      BY DEF BInv, LayersInv
    <3> QED BY <3>1
  <2> QED BY <2>1, <2>2, <2>3
<1>4. CanGet(providers[k], k.scope)
  <2>1. /\ k.scope \in 1 .. Len(chain)
        /\ \A i \in DOMAIN providers[k] :
             providers[k][i] \in Ids /\ Visible(providers[k][i], k.scope) # None
    BY <1>1, ParametersAre, AcceptedIs DEF BInv
  <2>2. GivenTo(providers[k], k.scope) \subseteq Needs(k)
    BY DEF GivenTo, Needs
  <2> QED BY <1>2, <1>3, <2>1, <2>2, CalledIsFound
<1>5. ASSUME NEW m \in Range(MembersOf(k)) PROVE m \in memberValues
  <2>1. m \in DOMAIN providers /\ m.ordinal > 0 /\ k = VirtualKey(m.type) /\ m.type \in registered
    BY <1>5, MembersAre DEF BInv
  <2>2. m \in Needs(k)
    BY <2>1 DEF Needs
  <2>3. m \in Called \ Awaited /\ VirtualKey(m.type) \notin Called
    BY <1>1, <1>2, <1>3, <2>1, <2>2
  <2> QED BY <2>1, <2>3 DEF ReadyInv
<1> QED BY <1>2, <1>4, <1>5 DEF CanConstruct

\* An invoker finds all parameters when nothing is pending any more.
LEMMA InvokerCanGet ==
  ASSUME BInv, WiredInv, FollowInv, ReadyInv, at = "call"
  PROVE  CanGet(Invoker.deps, Invoker.scope)
<1>1. next <= Len(invokers) /\ pending = {} /\ Awaited = {}
  BY DEF BInv, PhaseInv
<1>2. next \in DOMAIN invokers
  BY <1>1, InvokersAre
<1>3. \A i \in DOMAIN Invoker.deps : Visible(Invoker.deps[i], Invoker.scope) # None
  BY <1>2, AcceptedIs DEF Invoker
<1>4. GivenTo(Invoker.deps, Invoker.scope) \subseteq Called \ Awaited
  BY <1>1 DEF ReadyInv
<1> QED BY <1>1, <1>3, <1>4, InvokersAre, CalledIsFound

\* What is collected for an invoker is all there, and all that it needs.
LEMMA CollectsAll ==
  ASSUME BInv, WiredInv, FollowInv, at = "invoker", next <= Len(invokers),
         NEW needed, needed = Collected(PendingOf(Invoker.deps, Invoker.scope))
  PROVE  /\ None \notin needed /\ needed \subseteq DOMAIN providers
         /\ \A k \in needed : Needs(k) \subseteq Called \cup needed
         /\ GivenTo(Invoker.deps, Invoker.scope) \subseteq Called \cup needed
<1> DEFINE P == DOMAIN providers
           S == PendingOf(Invoker.deps, Invoker.scope)
<1>1. RInv /\ next \in DOMAIN invokers /\ None \notin P
  <2>1. RInv
    BY DEF BInv
  <2> QED BY <2>1, InvokersAre, NoneIsNoProvider DEF RInv
<1>2. /\ Invoker.scope \in 1 .. Len(chain)
      /\ \A i \in DOMAIN Invoker.deps :
           Invoker.deps[i] \in Ids /\ Visible(Invoker.deps[i], Invoker.scope) # None
  BY <1>1, InvokersAre, AcceptedIs DEF Invoker
<1>3. \A k \in P : /\ k.scope \in 1 .. Len(chain)
                   /\ \A i \in DOMAIN providers[k] :
                        providers[k][i] \in Ids /\ Visible(providers[k][i], k.scope) # None
  BY <1>1, ParametersAre, AcceptedIs
<1>4. S \subseteq P
  <2> SUFFICES ASSUME NEW d \in S PROVE d \in P
    OBVIOUS
  <2>1. PICK i \in DOMAIN Invoker.deps : d \in PendingFor(Invoker.deps[i], Invoker.scope)
    BY DEF PendingOf
  <2>2. d # None
    BY <1>1, <1>2, <2>1, BoundIsFound
  <2> QED BY <1>1, <1>2, <2>1, <2>2, Finds
<1>5. ASSUME NEW k \in P PROVE WaitsFor(k) \subseteq P
  <2> SUFFICES ASSUME NEW d \in WaitsFor(k) PROVE d \in P
    OBVIOUS
  <2>1. k # None /\ d \in PendingOf(providers[k], k.scope) \cup Range(MembersOf(k))
    BY <1>1 DEF WaitsFor
  <2>2. CASE d \in PendingOf(providers[k], k.scope)
    <3>1. PICK i \in DOMAIN providers[k] : d \in PendingFor(providers[k][i], k.scope)
      BY <2>2 DEF PendingOf
    <3>2. d # None
      BY <1>1, <1>3, <3>1, BoundIsFound
    <3> QED BY <1>1, <1>3, <3>1, <3>2, Finds
  <2>3. CASE d \in Range(MembersOf(k))
    BY <1>1, <2>3, MembersAre
  <2> QED BY <2>1, <2>2, <2>3
<1>6. /\ S \subseteq needed /\ needed \subseteq P
      /\ \A k \in needed : WaitsFor(k) \subseteq needed
  <2>1. WaitsFor(None) = {}
    BY DEF WaitsFor
  <2>2. S \subseteq P \cup {None} /\ \A k \in P \cup {None} : WaitsFor(k) \subseteq P \cup {None}
    BY <1>4, <1>5, <2>1
  <2>3. /\ S \subseteq needed /\ \A k \in needed : WaitsFor(k) \subseteq needed
        /\ \A D : D \subseteq P \cup {None} /\ S \subseteq D /\ (\A k \in D : WaitsFor(k) \subseteq D)
                    => needed \subseteq D
    <3> HIDE DEF S
    <3>1. needed = Collected(S)
      BY DEF S
    <3> QED BY <2>2, <3>1, CollectedIs
  <2> QED BY <1>4, <1>5, <2>3
<1>7. ASSUME NEW k \in needed, NEW d \in Needs(k) PROVE d \in Called \cup needed
  <2>1. k \in P /\ d \in P /\ k # None
    BY <1>1, <1>6 DEF Needs
  <2>2. PendingOf(providers[k], k.scope) \cup Range(MembersOf(k)) \subseteq needed
    BY <1>6, <2>1 DEF WaitsFor
  <2>3. CASE \E i \in DOMAIN providers[k] : Visible(providers[k][i], k.scope) = d
    <3>1. PICK i \in DOMAIN providers[k] : Visible(providers[k][i], k.scope) = d
      BY <2>3
    <3>2. d \in Complete \/ d \in PendingFor(providers[k][i], k.scope)
      BY <1>1, <1>3, <2>1, <3>1, BoundIsFound
    <3> QED BY <2>2, <3>2 DEF Complete, PendingOf
  <2>4. CASE \E e \in registered : k = VirtualKey(e) /\ d.ordinal > 0 /\ d.type = e
    BY <1>1, <2>1, <2>2, <2>4, MembersAre
  <2> QED BY <2>3, <2>4 DEF Needs
<1>8. ASSUME NEW d \in GivenTo(Invoker.deps, Invoker.scope) PROVE d \in Called \cup needed
  <2>1. PICK i \in DOMAIN Invoker.deps : d = Visible(Invoker.deps[i], Invoker.scope) /\ d \in P
    BY DEF GivenTo
  <2>2. d \in Complete \/ d \in PendingFor(Invoker.deps[i], Invoker.scope)
    BY <1>1, <1>2, <2>1, BoundIsFound
  <2> QED BY <1>6, <2>2 DEF Complete, PendingOf
<1> QED BY <1>1, <1>6, <1>7, <1>8

\* A step that calls nothing, and leaves nothing more to wait for.
LEMMA StillReady ==
  ASSUME ReadyInv, at # "end", UNCHANGED <<wiring, verdict>>, Called' = Called,
         outcome' # "internal", pending' \subseteq pending, pending \ pending' \subseteq Called,
         at' \in {"layers", "join"} => at \in {"layers", "join"},
         at' \in {"layers", "join", "call"} =>
           at \in {"layers", "join", "call"} /\ UNCHANGED next,
         at' \in {"layers", "join"} =>
           \A k \in pending' : \A n \in DOMAIN layers :
             n >= layer /\ k \in Range(layers[n]) => n >= layer',
         at' = "join" => at = "join" /\ layer' = layer,
         at' # "end" => Awaited' = Awaited /\ UNCHANGED memberValues
  PROVE  ReadyInv'
<1>1. UNCHANGED <<layers, chain, accepted, providers, registered, invokers>>
  BY DEF wiring, verdict, indices, groups, placement
<1>2. /\ \A k : Needs(k)' = Needs(k)
      /\ \A deps, scope : GivenTo(deps, scope)' = GivenTo(deps, scope)
  BY <1>1, SameGiven
<1>3. ASSUME at' \in {"layers", "join"}
      PROVE  /\ \A k \in pending' : \E n \in DOMAIN layers' : n >= layer' /\ k \in Range(layers'[n])
             /\ \A k \in pending' : Needs(k)' \subseteq Called' \cup pending'
  <2>1. /\ \A k \in pending' : \E n \in DOMAIN layers : n >= layer /\ k \in Range(layers[n])
        /\ \A k \in pending' : Needs(k) \subseteq Called \cup pending
    BY <1>3 DEF ReadyInv
  <2> QED BY <1>1, <1>2, <1>3, <2>1
<1>4. ASSUME at' \in {"layers", "join", "call"}
      PROVE  GivenTo(Invoker.deps, Invoker.scope)' \subseteq Called' \cup pending'
  <2>1. GivenTo(Invoker.deps, Invoker.scope) \subseteq Called \cup pending
    BY <1>4 DEF ReadyInv
  <2>2. GivenTo(Invoker.deps, Invoker.scope)' = GivenTo(Invoker.deps, Invoker.scope)
    BY <1>1, <1>4, SameSight DEF GivenTo, Invoker
  <2> QED BY <2>1, <2>2
<1>5. at' = "join" => pending' \cap Range(layers'[layer']) \subseteq Awaited'
  BY <1>1 DEF ReadyInv
<1>6. at' # "end" => \A m \in Called' \ Awaited' :
        m.ordinal > 0 /\ VirtualKey(m.type) \notin Called' => m \in memberValues'
  BY DEF ReadyInv
<1> QED BY <1>3, <1>4, <1>5, <1>6 DEF ReadyInv, VirtualKey, Singleton, Key

\* Nothing else is said of a build that has ended.
LEMMA EndIsReady ==
  ASSUME at' = "end", outcome' # "internal" PROVE ReadyInv'
  BY DEF ReadyInv

\* The next invoker.
LEMMA BeginIsReady ==
  ASSUME BInv, WiredInv, FollowInv, ReadyInv, BeginInvoker, UNCHANGED verdict
  PROVE  ReadyInv'
<1>1. PICK needed : needed = Collected(PendingOf(Invoker.deps, Invoker.scope))
  OBVIOUS
<1>2. at = "invoker" /\ next <= Len(invokers) /\ constructing = {}
  BY DEF BeginInvoker, BInv, PhaseInv
<1>3. /\ None \notin needed /\ needed \subseteq DOMAIN providers
      /\ \A k \in needed : Needs(k) \subseteq Called \cup needed
      /\ GivenTo(Invoker.deps, Invoker.scope) \subseteq Called \cup needed
  BY <1>1, <1>2, CollectsAll
<1>4. /\ at' = "layers" /\ layer' = 1 /\ pending' = needed /\ UNCHANGED outcome
      /\ UNCHANGED <<container, next, inflight, finished, memberValues, calls>>
  BY <1>1, <1>2, <1>3 DEF BeginInvoker, history
<1>5. UNCHANGED <<layers, chain, accepted, providers, registered, invokers>>
  BY <1>4 DEF container, verdict, indices, groups, placement
<1>6. \A k : Needs(k)' = Needs(k)
  BY <1>5, SameGiven
<1>7. GivenTo(Invoker.deps, Invoker.scope)' = GivenTo(Invoker.deps, Invoker.scope)
  BY <1>4, <1>5, SameSight DEF GivenTo, Invoker
<1>8. Called' = Called /\ Awaited' = Awaited
  BY <1>4 DEF Called, Awaited
<1>9. \A k \in pending' : \E n \in DOMAIN layers' : n >= layer' /\ k \in Range(layers'[n])
  <2> SUFFICES ASSUME NEW k \in needed PROVE \E n \in DOMAIN layers : n >= 1 /\ k \in Range(layers[n])
    BY <1>4, <1>5
  <2>1. PICK n \in DOMAIN layers : k \in Range(layers[n])
    BY <1>2, <1>3, AcceptedIs
  <2>2. n >= 1
    <3>1. layers \in Seq(Range(layers))
      BY DEF BInv, LayersInv
    <3> QED BY <3>1
  <2> QED BY <2>1, <2>2
<1>10. \A m \in Called' \ Awaited' :
         m.ordinal > 0 /\ VirtualKey(m.type) \notin Called' => m \in memberValues'
  BY <1>2, <1>4, <1>8 DEF ReadyInv
<1> QED BY <1>3, <1>4, <1>6, <1>7, <1>8, <1>9, <1>10 DEF ReadyInv, VirtualKey, Singleton, Key

\* The walk through the layers goes on, or has nothing left to do.
LEMMA LayersAreReady ==
  ASSUME BInv, ReadyInv, SkipLayer \/ EndLayers, UNCHANGED verdict
  PROVE  ReadyInv'
<1>1. layers \in Seq(Range(layers)) /\ layer \in 1 .. Len(layers) + 1
  BY DEF BInv, LayersInv, BuildTypeOK
<1>2. DOMAIN layers = 1 .. Len(layers) /\ Len(layers) \in Nat
  BY <1>1
<1>3. /\ UNCHANGED <<container, next, pending, inflight, finished, memberValues, calls>>
      /\ at = "layers"
  BY DEF SkipLayer, EndLayers, progress, history
<1>4. /\ UNCHANGED wiring /\ Called' = Called /\ Awaited' = Awaited
  BY <1>3 DEF container, wiring, Called, Awaited
<1>5. CASE SkipLayer
  <2>1. layer \in DOMAIN layers /\ Range(Wave) = {} /\ layer' = layer + 1 /\ at' = "layers"
        /\ outcome' = outcome
    BY <1>1, <1>2, <1>5 DEF SkipLayer, NextLayer, Range
  <2>2. pending \cap Range(layers[layer]) = {}
    BY <2>1, WaveHolds
  <2>3. ASSUME NEW k \in pending, NEW n \in DOMAIN layers, n >= layer, k \in Range(layers[n])
        PROVE  n >= layer'
    <3>1. n # layer
      BY <2>2, <2>3
    <3> QED BY <1>2, <2>1, <2>3, <3>1
  <2>4. outcome' # "internal"
    BY <2>1 DEF ReadyInv
  <2>5. \A k \in pending' : \A n \in DOMAIN layers :
          n >= layer /\ k \in Range(layers[n]) => n >= layer'
    BY <1>3, <2>3
  <2> QED BY <1>3, <1>4, <2>1, <2>4, <2>5, StillReady
<1>6. CASE EndLayers
  <2>1. pending = {}
    <3> SUFFICES ASSUME NEW k \in pending PROVE FALSE
      OBVIOUS
    <3>1. PICK n \in DOMAIN layers : n >= layer
      BY <1>3 DEF ReadyInv
    <3>2. layer > Len(layers)
      BY <1>6 DEF EndLayers
    <3> QED BY <1>1, <1>2, <3>1, <3>2
  <2>2. at' = "call" /\ outcome' = outcome
    BY <1>6, <2>1 DEF EndLayers
  <2>3. outcome' # "internal"
    BY <2>2 DEF ReadyInv
  <2> QED BY <1>3, <1>4, <2>2, <2>3, StillReady
<1> QED BY <1>5, <1>6

\* A wave is called: whatever its constructors return, none of them asks for too much.
LEMMA StartIsReady ==
  ASSUME BInv, ReadyInv, StartWave, UNCHANGED verdict
  PROVE  ReadyInv'
<1>1. PICK ks : ks = Range(Wave)
  OBVIOUS
<1>2. PICK fut \in SUBSET ks :
        /\ inflight' = fut /\ pending' = pending \ (ks \ fut)
        /\ memberValues' = (memberValues \ Consumed(ks)) \cup {k \in ks \ fut : k.ordinal > 0}
  BY <1>1 DEF StartWave, StoreResults
<1>3. /\ at = "layers" /\ layer <= Len(layers) /\ calls' = Append(calls, Wave) /\ at' = "join"
      /\ UNCHANGED <<wiring, next, layer, finished, outcome>>
  BY DEF StartWave
<1>4. layer \in DOMAIN layers /\ Awaited = {} /\ finished = {}
  <2>1. layers \in Seq(Range(layers)) /\ layer \in 1 .. Len(layers) + 1 /\ Awaited = {}
    BY <1>3 DEF BInv, LayersInv, BuildTypeOK, PhaseInv
  <2> QED BY <1>3, <2>1 DEF Awaited
<1>5. Called' = Called \cup ks
  <2>1. calls \in Seq(Range(calls))
    BY DEF BInv, CallsInv
  <2>2. PICK w : w = Wave
    OBVIOUS
  <2>3. Called' = Called \cup Range(w)
    BY <1>3, <2>1, <2>2, Calls
  <2> QED BY <1>1, <2>2, <2>3
<1>6. ks = pending \cap Range(layers[layer])
  BY <1>1, <1>4, WaveHolds
<1>7. Awaited' = fut
  BY <1>2, <1>3, <1>4 DEF Awaited
<1>8. UNCHANGED <<layers, chain, accepted, providers, registered, invokers>>
  BY <1>3 DEF wiring, verdict, indices, groups, placement
<1>9. \A k : Needs(k)' = Needs(k)
  BY <1>8, SameGiven
<1>10. GivenTo(Invoker.deps, Invoker.scope)' = GivenTo(Invoker.deps, Invoker.scope)
  BY <1>3, <1>8, SameSight DEF GivenTo, Invoker
<1>11. /\ \A k \in pending' : \E n \in DOMAIN layers' : n >= layer' /\ k \in Range(layers'[n])
       /\ \A k \in pending' : Needs(k)' \subseteq Called' \cup pending'
       /\ GivenTo(Invoker.deps, Invoker.scope)' \subseteq Called' \cup pending'
  <2>1. /\ \A k \in pending : \E n \in DOMAIN layers : n >= layer /\ k \in Range(layers[n])
        /\ \A k \in pending : Needs(k) \subseteq Called \cup pending
        /\ GivenTo(Invoker.deps, Invoker.scope) \subseteq Called \cup pending
    BY <1>3 DEF ReadyInv
  <2>2. pending' \subseteq pending /\ Called \cup pending \subseteq Called' \cup pending'
    BY <1>2, <1>5
  <2> QED BY <1>3, <1>8, <1>9, <1>10, <2>1, <2>2
<1>12. pending' \cap Range(layers'[layer']) \subseteq Awaited'
  BY <1>2, <1>3, <1>6, <1>7, <1>8
<1>13. ASSUME NEW m \in Called' \ Awaited', m.ordinal > 0, VirtualKey(m.type) \notin Called'
       PROVE  m \in memberValues'
  <2>1. CASE m \in ks
    BY <1>2, <1>7, <1>13, <2>1
  <2>2. CASE m \notin ks
    <3>1. m \in Called /\ VirtualKey(m.type) \notin Called
      BY <1>5, <1>13, <2>2
    <3>2. m \in memberValues
      BY <1>3, <1>4, <1>13, <3>1 DEF ReadyInv
    <3>3. m \notin Consumed(ks)
      BY <1>5, <1>13, MembersAre DEF BInv, Consumed
    <3> QED BY <1>2, <3>2, <3>3
  <2> QED BY <2>1, <2>2
<1>14. \A m \in Called' \ Awaited' :
         m.ordinal > 0 /\ VirtualKey(m.type) \notin Called' => m \in memberValues'
  BY <1>13
<1> QED BY <1>3, <1>11, <1>12, <1>14 DEF ReadyInv, VirtualKey, Singleton, Key

\* If a wave fails, it is by the error of a constructor.
LEMMA FailIsReady ==
  ASSUME BInv, WiredInv, FollowInv, ReadyInv, FailWave
  PROVE  ReadyInv'
<1>1. at = "layers" /\ layer \in DOMAIN layers
  <2>1. at = "layers" /\ layer <= Len(layers)
    BY DEF FailWave
  <2>2. layers \in Seq(Range(layers)) /\ layer \in 1 .. Len(layers) + 1
    BY DEF BInv, LayersInv, BuildTypeOK
  <2> QED BY <2>1, <2>2
<1>2. \A n \in DOMAIN Wave : CanConstruct(Wave[n]) /\ Wave[n] \notin constructing
  <2>1. \A n \in DOMAIN Wave : Wave[n] \in Range(Wave)
    BY DEF Range
  <2> QED BY <1>1, <2>1, WaveCanConstruct
<1>3. at' = "end" /\ outcome' = "failed"
  BY <1>2 DEF FailWave, End
<1> QED BY <1>3, EndIsReady

\* The wave's futures are stored, and the next layer's turn comes.
LEMMA EndWaveIsReady ==
  ASSUME BInv, ReadyInv, EndWave, UNCHANGED verdict
  PROVE  ReadyInv'
<1>1. /\ at = "join" /\ at' = "layers" /\ inflight = {} /\ finished' = {} /\ layer' = layer + 1
      /\ pending' = pending \ finished /\ UNCHANGED <<wiring, next, inflight, outcome, calls>>
      /\ memberValues' = memberValues \cup {k \in finished : k.ordinal > 0}
  BY DEF EndWave, NextLayer, StoreResults, history
<1>2. Called' = Called /\ Awaited = finished /\ Awaited' = {} /\ pending \cap Called = finished
  BY <1>1 DEF Called, Awaited, BInv, PhaseInv
<1>3. UNCHANGED <<layers, chain, accepted, providers, registered, invokers>>
  BY <1>1 DEF wiring, verdict, indices, groups, placement
<1>4. \A k : Needs(k)' = Needs(k)
  BY <1>3, SameGiven
<1>5. GivenTo(Invoker.deps, Invoker.scope)' = GivenTo(Invoker.deps, Invoker.scope)
  BY <1>1, <1>3, SameSight DEF GivenTo, Invoker
<1>6. \A k \in pending' : \E n \in DOMAIN layers' : n >= layer' /\ k \in Range(layers'[n])
  <2> SUFFICES ASSUME NEW k \in pending' PROVE \E n \in DOMAIN layers : n >= layer + 1 /\ k \in Range(layers[n])
    BY <1>1, <1>3
  <2>1. PICK n \in DOMAIN layers : n >= layer /\ k \in Range(layers[n])
    BY <1>1 DEF ReadyInv
  <2>2. n # layer
    BY <1>1, <1>2, <2>1 DEF ReadyInv
  <2>3. n \in Nat /\ layer \in Nat
    <3>1. layers \in Seq(Range(layers)) /\ layer \in 1 .. Len(layers) + 1
      BY DEF BInv, LayersInv, BuildTypeOK
    <3> QED BY <3>1
  <2> QED BY <2>1, <2>2, <2>3
<1>7. /\ \A k \in pending' : Needs(k)' \subseteq Called' \cup pending'
      /\ GivenTo(Invoker.deps, Invoker.scope)' \subseteq Called' \cup pending'
  <2>1. /\ \A k \in pending : Needs(k) \subseteq Called \cup pending
        /\ GivenTo(Invoker.deps, Invoker.scope) \subseteq Called \cup pending
    BY <1>1 DEF ReadyInv
  <2>2. pending' \subseteq pending /\ Called \cup pending \subseteq Called' \cup pending'
    BY <1>1, <1>2
  <2> QED BY <1>4, <1>5, <2>1, <2>2
<1>8. \A m \in Called' \ Awaited' :
        m.ordinal > 0 /\ VirtualKey(m.type) \notin Called' => m \in memberValues'
  <2>1. \A m \in Called \ finished :
          m.ordinal > 0 /\ VirtualKey(m.type) \notin Called => m \in memberValues
    BY <1>1, <1>2 DEF ReadyInv
  <2> QED BY <1>1, <1>2, <2>1
<1> QED BY <1>1, <1>6, <1>7, <1>8 DEF ReadyInv, VirtualKey, Singleton, Key

\* Steps in the wave and of invokers.
LEMMA OthersAreReady ==
  ASSUME BInv, WiredInv, FollowInv, ReadyInv, UNCHANGED verdict,
         \/ AllInvoked \/ CallSync \/ CallAsync \/ InvokerEnds \/ DropBuild
         \/ \E k \in inflight : FutureEnds(k) \/ FutureFails(k)
  PROVE  ReadyInv'
<1>1. CASE AllInvoked \/ DropBuild \/ \E k \in inflight : FutureFails(k)
  BY <1>1, EndIsReady DEF AllInvoked, DropBuild, FutureFails, End
<1>2. ASSUME NEW k \in inflight, FutureEnds(k) PROVE ReadyInv'
  <2>1. /\ at = "join" /\ UNCHANGED <<wiring, at, next, layer, pending, memberValues, outcome, calls>>
        /\ inflight' = inflight \ {k} /\ finished' = finished \cup {k}
    BY <1>2 DEF FutureEnds, wiring, container, history
  <2>2. Called' = Called /\ Awaited' = Awaited
    BY <2>1 DEF Called, Awaited
  <2>3. outcome' # "internal"
    BY <2>1 DEF ReadyInv
  <2> QED BY <2>1, <2>2, <2>3, StillReady
<1>3. CASE CallSync \/ CallAsync \/ InvokerEnds
  <2>1. /\ at \in {"call", "invoking"} /\ at' \in {"invoker", "invoking", "end"}
        /\ UNCHANGED <<wiring, layer, pending, inflight, finished, memberValues, calls>>
    BY <1>3 DEF CallSync, CallAsync, InvokerEnds, InvokerResult, End, wiring, container, progress, history
  <2>2. Called' = Called /\ Awaited' = Awaited
    BY <2>1 DEF Called, Awaited
  <2>3. outcome' # "internal"
    <3>1. at = "call" => CanGet(Invoker.deps, Invoker.scope)
      BY InvokerCanGet
    <3>2. outcome # "internal"
      BY DEF ReadyInv
    <3> QED BY <1>3, <3>1, <3>2 DEF CallSync, CallAsync, InvokerEnds, InvokerResult, End
  <2> QED BY <2>1, <2>2, <2>3, StillReady
<1> QED BY <1>1, <1>2, <1>3

\* Every step keeps it.
LEMMA ReadyKeeps ==
  ASSUME BInv, BInv', WiredInv, FollowInv, ReadyInv, [BuildNext]_buildVars
  PROVE  ReadyInv'
<1>1. CASE Wire
  <2>1. at = "wiring" /\ at' \in {"wiring", "invoker"} /\ UNCHANGED <<calls, outcome>>
    BY <1>1 DEF Wire, history
  <2>2. Called' = {}
    BY <2>1 DEF BInv, CallsInv, Called
  <2> QED BY <2>1, <2>2 DEF ReadyInv
<1>2. CASE UNCHANGED verdict
           /\ (Run \/ InvokerEnds \/ DropBuild \/ \E k \in inflight : FutureEnds(k) \/ FutureFails(k))
  BY <1>2, BeginIsReady, LayersAreReady, StartIsReady, FailIsReady, EndWaveIsReady, OthersAreReady DEF Run
<1>3. CASE UNCHANGED buildVars
  <2>1. /\ UNCHANGED <<wiring, verdict, at, next, layer, pending, inflight, finished, memberValues,
                       outcome, calls>>
        /\ UNCHANGED <<layers, chain, accepted, providers, registered, invokers>>
    BY <1>3 DEF buildVars, layersVars, registryVars, progress, history, container, wiring, verdict,
                indices, groups, placement
  <2>2. Called' = Called /\ Awaited' = Awaited
    BY <2>1 DEF Called, Awaited
  <2>3. /\ \A k : Needs(k)' = Needs(k)
        /\ GivenTo(Invoker.deps, Invoker.scope)' = GivenTo(Invoker.deps, Invoker.scope)
    BY <2>1, SameGiven, SameSight DEF GivenTo, Invoker
  <2> QED BY <2>1, <2>2, <2>3 DEF ReadyInv, VirtualKey, Singleton, Key
<1> QED BY <1>1, <1>2, <1>3 DEF BuildNext

LEMMA BuildsAreReady == BuildSpec => []ReadyInv
<1>1. BuildInit => ReadyInv
  <2> SUFFICES ASSUME BuildInit PROVE ReadyInv
    OBVIOUS
  <2>1. at = "wiring" /\ outcome = "none" /\ calls = << >>
    BY DEF BuildInit
  <2>2. Called = {}
    BY <2>1 DEF Called
  <2> QED BY <2>1, <2>2 DEF ReadyInv
<1>2. BInv /\ BInv' /\ WiredInv /\ FollowInv /\ ReadyInv /\ [BuildNext]_buildVars => ReadyInv'
  BY ReadyKeeps
<1> QED BY <1>1, <1>2, BuildInvariant, ValuesFollowTheirNeeds, PTL DEF BuildSpec

\* After validation the build cannot fail by itself: no lookup of build.rs comes back
\* empty, no constructor is left when the layers are used up, whatever users' code returns.
THEOREM AcceptedWiringsBuild == BuildSpec => []NoInternalError
<1>1. ReadyInv => NoInternalError
  BY DEF ReadyInv, NoInternalError
<1> QED BY <1>1, BuildsAreReady, PTL

-----------------------------------------------------------------------------
(* The program. *)

\* What every step is to the build.
LEMMA BuildSteps == [ProgramNext]_programVars => [BuildNext]_buildVars
<1> SUFFICES ASSUME [ProgramNext]_programVars PROVE [BuildNext]_buildVars
  OBVIOUS
<1>1. CASE ApplyOption \/ EndSetup
  BY <1>1 DEF ApplyOption, EndSetup, BuildNext
<1>2. CASE BuildRuns \/ BuildGoesOn
  BY <1>2 DEF BuildRuns, BuildGoesOn, BuildNext
<1>3. CASE InstallFails \/ BuildYields \/ BuildReturns \/ Returned
  BY <1>3 DEF InstallFails, BuildYields, BuildReturns, Returned
<1>4. CASE ConstructorAppends \/ InvokerAppends \/ OtherAppends
  BY <1>4 DEF ConstructorAppends, InvokerAppends, OtherAppends, AppendsAs
<1>5. CASE DriverStep
  BY <1>5 DEF DriverStep, BuildNext
<1>6. CASE UNCHANGED programVars
  BY <1>6 DEF programVars
<1> QED BY <1>1, <1>2, <1>3, <1>4, <1>5, <1>6 DEF ProgramNext

\* What every step is to the driver.
LEMMA DriverSteps == [ProgramNext]_programVars => [A!AppNext]_driverVars
<1> SUFFICES ASSUME [ProgramNext]_programVars PROVE [A!AppNext]_driverVars
  OBVIOUS
<1>1. CASE ApplyOption \/ BuildRuns \/ BuildGoesOn
  BY <1>1 DEF ApplyOption, BuildRuns, BuildGoesOn
<1>2. CASE EndSetup \/ InstallFails \/ BuildYields \/ BuildReturns
  BY <1>2 DEF EndSetup, InstallFails, BuildYields, BuildReturns, A!AppNext, A!Poll
<1>3. CASE ConstructorAppends \/ InvokerAppends \/ OtherAppends
  BY <1>3 DEF ConstructorAppends, InvokerAppends, OtherAppends, AppendsAs, A!AppNext
<1>4. CASE DriverStep
  BY <1>4 DEF DriverStep, DriverPoll, Environment, A!AppNext, A!Poll
<1>5. CASE Returned
  BY <1>5 DEF Returned, A!Returned, A!AppNext
<1>6. CASE UNCHANGED programVars
  BY <1>6 DEF programVars
<1> QED BY <1>1, <1>2, <1>3, <1>4, <1>5, <1>6 DEF ProgramNext

\* The whole program builds as Build does: what its runs show of every accepted
\* wiring holds under run() and start(), whenever the build is dropped.
THEOREM ProgramBuilds == ProgramSpec => BuildSpec
<1>1. ProgramInit => BuildInit
  BY DEF ProgramInit
<1> QED BY <1>1, BuildSteps, PTL DEF ProgramSpec, BuildSpec

\* The whole program is driven as App says: with its build spelt out, it still
\* is what App abstracts it to.
THEOREM ProgramIsApp == ProgramSpec => A!AppSpec
<1>1. ProgramInit => A!AppInit
  BY DEF ProgramInit
<1>2. [ProgramNext]_programVars => [A!AppNext]_<<A!vars, A!appVars>>
  <2>1. driverVars' = driverVars => <<A!vars, A!appVars>>' = <<A!vars, A!appVars>>
    BY DEF driverVars, lifecycleVars, A!vars, A!appVars, A!registry, A!driver, A!history,
           A!shutdowner, A!ending
  <2> QED BY <2>1, DriverSteps
<1> QED BY <1>1, <1>2, PTL DEF ProgramSpec, A!AppSpec

-----------------------------------------------------------------------------
(* What is proved of the parts, for the whole. *)

\* The registry and the driver, as module App proves of them.
LEMMA DriverHolds ==
  ProgramSpec => [](A!IInv /\ A!OwnTypes /\ A!DriverInv /\ A!EndInv /\ A!UnstartedInv
                  /\ A!StartsInOrder)
<1>1. A!AppSpec => []A!IInv
  BY HooksAssumption, A!AppInvariant
<1>2. A!AppSpec => []A!AppTypeOK
  BY HooksAssumption, A!AppTypeCorrect
<1>3. A!AppSpec => [](A!DriverInv /\ A!Outcome)
  BY HooksAssumption, A!DriverInvariant
<1>4. A!AppSpec => []A!EndInv
  BY HooksAssumption, A!EndOwesNothing
<1>5. A!AppSpec => A!Spec
  BY HooksAssumption, A!AppDrivesLifecycle
<1>6. A!Spec => []A!StartsInOrder
  BY HooksAssumption, A!StartsFollowRegistration
<1>7. A!AppTypeOK => A!OwnTypes
  BY DEF A!AppTypeOK
<1>8. A!AppSpec => []A!UnstartedInv
  BY HooksAssumption, A!OverdueBuildsStartNothing
<1> QED BY <1>1, <1>2, <1>3, <1>4, <1>5, <1>6, <1>7, <1>8, ProgramIsApp, PTL

\* The build, as module Build proves of it.
LEMMA BuildHolds == ProgramSpec => [](BInv /\ FollowInv)
  BY ProgramBuilds, BuildInvariant, ValuesFollowTheirNeeds, PTL

\* The order of the driver's phases, in the words of the program.
LEMMA DriverPhases ==
  ASSUME A!OwnTypes, A!DriverInv, [A!AppNext]_driverVars
  PROVE  /\ stage' = "start" => stage \in {"start", "build"}
         /\ stage' = "steady" => stage \in {"start", "steady"}
         /\ stage' = "stop" => stage \in {"steady", "stop"}
         /\ stage' = "setup" => stage = "setup"
         /\ stage' = "build" => stage \in {"setup", "build"}
         /\ stage \in {"setup", "build"} /\ stage' \in {"setup", "build", "start"} => cause' = cause
         /\ stage # "start" => onStart' = onStart
<1>1. [A!AppNext]_<<A!vars, A!appVars>>
  BY DEF driverVars, lifecycleVars, A!vars, A!appVars, A!registry, A!driver, A!history,
         A!shutdowner, A!ending
<1>2. A!LookInv
  BY DEF A!DriverInv
<1> QED BY <1>1, <1>2, HooksAssumption, A!PhasesFollow, A!StartsInStart

-----------------------------------------------------------------------------
(* Who has appended a hook rests on what has appended earlier ones. *)

\* The constructors whose values o was given.
Given(o) ==
  IF o[1] = "constructor" THEN Needs(o[2])
  ELSE IF o[1] = "invoker" THEN GivenTo(invokers[o[2]].deps, invokers[o[2]].scope)
  ELSE {}

\* Each hook has an owner; what that was given was complete, and the constructors behind
\* it appended before it did.
OwnersInv ==
  /\ owners \in Seq(Range(owners)) /\ Len(owners) = Len(hooks)
  /\ \A i \in DOMAIN owners : Given(owners[i]) \subseteq Complete
  /\ \A i, j \in DOMAIN owners : RestsOn(i, j) => j < i

\* What is behind a hook's owner is complete if what the owner was given is.
LEMMA BehindIsComplete ==
  ASSUME FollowInv, RInv, BuildTypeOK, NEW o, Given(o) \subseteq Complete
  PROVE  Behind(o) \subseteq Complete
<1>1. PICK to : to = [k \in DOMAIN providers |-> Needs(k)]
  OBVIOUS
<1>2. PICK S : S = Given(o)
  OBVIOUS
<1>3. Behind(o) = Reached(S, to)
  BY <1>1, <1>2 DEF Behind, Given, GivenTo
<1>4. Complete \subseteq DOMAIN providers
  BY DEF Complete, Called, BuildTypeOK
<1>5. S \subseteq DOMAIN to /\ \A k \in DOMAIN to : to[k] \subseteq DOMAIN to
  BY <1>1, <1>2, <1>4 DEF Needs
<1>6. \A k \in Complete : to[k] \subseteq Complete
  BY <1>1, <1>4 DEF FollowInv, Complete
<1>7. Reached(S, to) \subseteq Complete
  <2>1. PICK D : D = Complete
    OBVIOUS
  <2>2. D \subseteq DOMAIN to /\ S \subseteq D /\ \A k \in D : to[k] \subseteq D
    BY <1>1, <1>2, <1>4, <1>6, <2>1
  <2>3. Reached(S, to) \subseteq D
    BY <1>5, <2>2, ReachedIs
  <2> QED BY <2>1, <2>3
<1> QED BY <1>3, <1>7

\* What a hook rests on does not change after the wiring.
LEMMA SameBehind ==
  ASSUME UNCHANGED <<chain, accepted, providers, registered, invokers>>
  PROVE  \A o : Given(o)' = Given(o) /\ Behind(o)' = Behind(o)
<1>1. /\ \A k : Needs(k)' = Needs(k)
      /\ \A deps, scope : GivenTo(deps, scope)' = GivenTo(deps, scope)
  BY SameGiven
<1>2. \A id, from : Visible(id, from)' = Visible(id, from)
  BY SameSight
<1> SUFFICES ASSUME NEW o PROVE Given(o)' = Given(o) /\ Behind(o)' = Behind(o)
  OBVIOUS
<1>3. Given(o)' = Given(o)
  BY <1>1, <1>2 DEF Given, GivenTo
<1>4. PICK to : to = [k \in DOMAIN providers |-> Needs(k)]
  OBVIOUS
<1>5. [k \in DOMAIN providers |-> Needs(k)]' = to
  BY <1>1, <1>4
<1>6. PICK S : S = Given(o)
  OBVIOUS
<1>7. Behind(o) = Reached(S, to)
  BY <1>4, <1>6 DEF Behind, Given, GivenTo
<1>8. Behind(o)' = Reached(S, to)
  <2>1. Given(o)' = S
    BY <1>3, <1>6
  <2>2. Behind(o)' = Reached(Given(o)', [k \in DOMAIN providers |-> Needs(k)]')
    BY DEF Behind, Given, GivenTo
  <2> QED BY <1>5, <2>1, <2>2
<1> QED BY <1>3, <1>7, <1>8

\* A step in which nobody appends.
LEMMA NobodyAppends ==
  ASSUME OwnersInv, BInv, BInv', FollowInv, [BuildNext]_buildVars, UNCHANGED <<hooks, owners>>,
         \/ UNCHANGED <<chain, accepted, providers, registered, invokers>>
         \/ hooks = << >>
  PROVE  OwnersInv'
<1>1. CASE hooks = << >>
  <2>1. Len(owners) = 0 /\ DOMAIN owners = {}
    BY <1>1 DEF OwnersInv
  <2> QED BY <2>1 DEF OwnersInv
<1>2. CASE UNCHANGED <<chain, accepted, providers, registered, invokers>>
  <2>1. Complete \subseteq Complete'
    BY FollowKeeps
  <2>2. \A i \in DOMAIN owners : Given(owners[i])' = Given(owners[i])
    BY <1>2, SameBehind
  <2>3. \A i, j \in DOMAIN owners : RestsOn(i, j)' = RestsOn(i, j)
    BY <1>2, SameBehind DEF RestsOn
  <2> QED BY <2>1, <2>2, <2>3 DEF OwnersInv
<1> QED BY <1>1, <1>2

\* A step in which o appends: o was given what is complete, and is not complete itself.
LEMMA OwnerAppends ==
  ASSUME OwnersInv, BInv, FollowInv, NEW o, AppendsAs(o), Given(o) \subseteq Complete,
         o[1] = "constructor" => o[2] \notin Complete
  PROVE  OwnersInv'
<1>1. /\ owners' = Append(owners, o) /\ Len(hooks') = Len(hooks) + 1
      /\ UNCHANGED buildVars
  BY DEF AppendsAs, A!SomeoneAppends, A!AppendHook
<1> DEFINE L == Len(owners)
<1>2. /\ L \in Nat /\ DOMAIN owners = 1 .. L /\ L = Len(hooks)
      /\ DOMAIN owners' = 1 .. (L + 1) /\ Len(owners') = L + 1
      /\ \A i \in 1 .. L : owners'[i] = owners[i]
      /\ owners'[L + 1] = o
  BY <1>1 DEF OwnersInv
<1>3. owners' \in Seq(Range(owners'))
  <2>1. owners \in Seq(Range(owners) \cup {o}) /\ o \in Range(owners) \cup {o}
    BY DEF OwnersInv
  <2>2. owners' \in Seq(Range(owners) \cup {o})
    BY <1>1, <2>1
  <2>3. Range(owners') = Range(owners) \cup {o}
    BY <1>1, RangeAppend DEF OwnersInv
  <2> QED BY <2>2, <2>3
<1>4. UNCHANGED <<chain, accepted, providers, registered, invokers, calls, pending>>
  BY <1>1 DEF buildVars, layersVars, registryVars, progress, history, container, indices, groups,
              placement
<1>5. Complete' = Complete
  BY <1>4 DEF Complete, Called
<1>6. \A p : Given(p)' = Given(p) /\ Behind(p)' = Behind(p)
  BY <1>4, SameBehind
<1> HIDE DEF L
<1>7. \A i \in 1 .. (L + 1) : Given(owners'[i]) \subseteq Complete
  BY <1>2 DEF OwnersInv
<1>8. \A i \in 1 .. (L + 1) : Behind(owners'[i]) \subseteq Complete
  BY <1>7, BehindIsComplete DEF BInv
<1>9. ASSUME NEW i \in 1 .. (L + 1), NEW j \in 1 .. (L + 1), RestsOn(i, j)'
      PROVE  j < i
  <2>1. owners'[j][1] = "constructor" /\ owners'[j][2] \in Behind(owners'[i])
    BY <1>6, <1>9 DEF RestsOn
  <2>2. j # L + 1
    BY <1>2, <1>8, <2>1
  <2>3. CASE i = L + 1
    BY <1>2, <2>2, <2>3
  <2>4. CASE i \in 1 .. L
    <3>1. RestsOn(i, j) /\ j \in 1 .. L
      BY <1>2, <2>1, <2>2, <2>4 DEF RestsOn
    <3> QED BY <1>2, <2>4, <3>1 DEF OwnersInv
  <2> QED BY <1>2, <2>3, <2>4
<1>10. \A i \in DOMAIN owners' : (Given(owners[i]) \subseteq Complete)'
  <2>1. \A i \in 1 .. (L + 1) : Given(owners[i])' \subseteq Complete
    <3> SUFFICES ASSUME NEW i \in 1 .. (L + 1) PROVE Given(owners[i])' \subseteq Complete
      OBVIOUS
    <3>1. PICK p : p = owners'[i]
      OBVIOUS
    <3>2. Given(p)' = Given(p) /\ Given(p) \subseteq Complete
      BY <1>6, <1>7, <3>1
    <3>3. Given(owners[i])' = Given(p)'
      BY <3>1 DEF Given
    <3> QED BY <3>2, <3>3
  <2> QED BY <1>2, <1>5, <2>1
<1> QED BY <1>1, <1>2, <1>3, <1>9, <1>10 DEF OwnersInv

\* The wiring is fixed once it is accepted.
LEMMA WiringIsFixed ==
  ASSUME UNCHANGED verdict,
         Run \/ InvokerEnds \/ DropBuild \/ \E k \in inflight : FutureEnds(k) \/ FutureFails(k)
  PROVE  UNCHANGED <<chain, accepted, providers, registered, invokers>>
<1> USE DEF verdict, wiring, container, indices, groups, placement
<1>1. CASE BeginInvoker \/ AllInvoked \/ SkipLayer \/ EndLayers
  BY <1>1 DEF BeginInvoker, AllInvoked, SkipLayer, EndLayers
<1>2. CASE StartWave \/ FailWave \/ EndWave
  BY <1>2 DEF StartWave, FailWave, EndWave
<1>3. CASE CallSync \/ CallAsync \/ InvokerEnds
  BY <1>3 DEF CallSync, CallAsync, InvokerEnds
<1>4. CASE DropBuild \/ \E k \in inflight : FutureEnds(k) \/ FutureFails(k)
  BY <1>4 DEF DropBuild, FutureEnds, FutureFails
<1> QED BY <1>1, <1>2, <1>3, <1>4 DEF Run

\* A constructor that appends was called or can be, and has not returned.
LEMMA ConstructorsAppend ==
  ASSUME OwnersInv, BInv, FollowInv, ConstructorAppends
  PROVE  OwnersInv'
<1>1. CASE at = "layers" /\ layer <= Len(layers)
           /\ \E n \in DOMAIN Wave : CanConstruct(Wave[n]) /\ AppendsAs(<<"constructor", Wave[n]>>)
  <2>1. PICK n \in DOMAIN Wave : CanConstruct(Wave[n]) /\ AppendsAs(<<"constructor", Wave[n]>>)
    BY <1>1
  <2>2. PICK k : k = Wave[n]
    OBVIOUS
  <2>3. layer \in DOMAIN layers
    <3>1. layers \in Seq(Range(layers)) /\ layer \in 1 .. Len(layers) + 1
      BY DEF BInv, LayersInv, BuildTypeOK
    <3> QED BY <1>1, <3>1
  <2>4. k \in pending /\ k \in DOMAIN providers
    <3>1. Range(Wave) \subseteq pending \cap DOMAIN providers
      BY <2>3, WaveIs DEF BInv
    <3> QED BY <2>2, <3>1 DEF Range
  <2>5. Needs(k) \subseteq Complete /\ k \notin Complete
    BY <1>1, <2>1, <2>2, <2>4, NeedsComplete DEF Complete
  <2>6. PICK o : o = <<"constructor", k>>
    OBVIOUS
  <2>7. AppendsAs(o) /\ Given(o) \subseteq Complete /\ o[2] \notin Complete
    BY <2>1, <2>2, <2>5, <2>6 DEF Given
  <2> QED BY <2>7, OwnerAppends
<1>2. CASE at = "join" /\ \E k \in inflight : AppendsAs(<<"constructor", k>>)
  <2>1. PICK k \in inflight : AppendsAs(<<"constructor", k>>)
    BY <1>2
  <2>2. k \in pending \cap Called
    BY <1>2 DEF BInv, PhaseInv, Awaited
  <2>3. Needs(k) \subseteq Complete /\ k \notin Complete
    BY <2>2 DEF FollowInv, Complete
  <2>4. PICK o : o = <<"constructor", k>>
    OBVIOUS
  <2>5. AppendsAs(o) /\ Given(o) \subseteq Complete /\ o[2] \notin Complete
    BY <2>1, <2>3, <2>4 DEF Given
  <2> QED BY <2>5, OwnerAppends
<1> QED BY <1>1, <1>2 DEF ConstructorAppends

\* An invoker that appends has what it was given.
LEMMA InvokersAppend ==
  ASSUME OwnersInv, BInv, FollowInv, InvokerAppends
  PROVE  OwnersInv'
<1>1. GivenTo(Invoker.deps, Invoker.scope) \subseteq Complete
  <2>1. CASE at = "invoking"
    BY <2>1 DEF FollowInv
  <2>2. CASE at = "call" /\ CanGet(Invoker.deps, Invoker.scope)
    <3>1. next <= Len(invokers)
      BY <2>2 DEF BInv, PhaseInv
    <3> QED BY <2>2, <3>1, InvokersAre, GetsComplete DEF BInv
  <2> QED BY <2>1, <2>2 DEF InvokerAppends
<1>2. PICK o : o = <<"invoker", next>>
  OBVIOUS
<1>3. AppendsAs(o) /\ Given(o) \subseteq Complete /\ o[1] # "constructor"
  BY <1>1, <1>2 DEF InvokerAppends, Given, Invoker
<1> QED BY <1>3, OwnerAppends

\* Every step of the program keeps it.
LEMMA OwnersStep ==
  ASSUME OwnersInv, BInv, BInv', FollowInv, A!DriverInv, [ProgramNext]_programVars
  PROVE  OwnersInv'
<1>1. [BuildNext]_buildVars
  BY BuildSteps
<1>2. CASE ApplyOption \/ EndSetup \/ InstallFails
  <2>1. stage = "setup" /\ UNCHANGED <<hooks, owners>>
    BY <1>2 DEF ApplyOption, EndSetup, InstallFails, A!Setup, A!vars, A!registry, driverVars,
                lifecycleVars
  <2>2. hooks = << >>
    BY <2>1 DEF A!DriverInv, A!SetupInv
  <2> QED BY <1>1, <2>1, <2>2, NobodyAppends
<1>3. CASE BuildRuns \/ BuildGoesOn
  <2>1. UNCHANGED <<hooks, owners>>
    BY <1>3 DEF BuildRuns, BuildGoesOn, driverVars, lifecycleVars
  <2>2. UNCHANGED <<chain, accepted, providers, registered, invokers>>
    BY <1>3, WiringIsFixed DEF BuildRuns, BuildGoesOn
  <2> QED BY <1>1, <2>1, <2>2, NobodyAppends
<1>4. CASE BuildYields \/ BuildReturns \/ DriverStep \/ Returned
  <2>1. UNCHANGED <<hooks, owners>>
    <3>1. CASE BuildYields \/ BuildReturns
      BY <3>1 DEF BuildYields, BuildReturns, A!Build, A!vars, A!registry
    <3>2. CASE DriverStep
      <4>1. hooks' = hooks
        BY <3>2, HooksAssumption, A!HooksStay DEF DriverStep, DriverPoll, Environment, A!Poll
      <4> QED BY <3>2, <4>1 DEF DriverStep
    <3>3. CASE Returned
      BY <3>3 DEF Returned, A!Returned, A!vars, A!registry
    <3> QED BY <1>4, <3>1, <3>2, <3>3
  <2>2. UNCHANGED <<chain, accepted, providers, registered, invokers>>
    <3>1. CASE UNCHANGED buildVars
      BY <3>1 DEF buildVars, layersVars, registryVars, container, indices, groups, placement
    <3>2. CASE DropBuild /\ UNCHANGED verdict
      BY <3>2, WiringIsFixed
    <3> QED BY <1>4, <3>1, <3>2 DEF BuildYields, BuildReturns, DriverStep, Returned
  <2> QED BY <1>1, <2>1, <2>2, NobodyAppends
<1>5. CASE ConstructorAppends \/ InvokerAppends
  BY <1>5, ConstructorsAppend, InvokersAppend
<1>6. CASE OtherAppends
  <2>1. PICK o : o = <<"other">>
    OBVIOUS
  <2>2. AppendsAs(o) /\ Given(o) \subseteq Complete /\ o[1] # "constructor"
    BY <1>6, <2>1 DEF OtherAppends, Given
  <2> QED BY <2>2, OwnerAppends
<1>7. CASE UNCHANGED programVars
  <2>1. /\ UNCHANGED <<hooks, owners>>
        /\ UNCHANGED <<chain, accepted, providers, registered, invokers>>
    BY <1>7 DEF programVars, driverVars, lifecycleVars, buildVars, layersVars, registryVars,
                container, indices, groups, placement
  <2> QED BY <1>1, <2>1, NobodyAppends
<1> QED BY <1>2, <1>3, <1>4, <1>5, <1>6, <1>7 DEF ProgramNext

\* Hooks are registered in the order of what their owners need.
LEMMA OwnersHold == ProgramSpec => []OwnersInv
<1>1. ProgramInit => OwnersInv
  BY DEF ProgramInit, A!AppInit, A!Init, OwnersInv
<1>2. BInv /\ BInv' /\ FollowInv /\ A!DriverInv /\ OwnersInv /\ [ProgramNext]_programVars => OwnersInv'
  BY OwnersStep
<1> QED BY <1>1, <1>2, BuildHolds, DriverHolds, PTL DEF ProgramSpec

\* A hook rests on earlier ones only.
LEMMA RestsOnEarlier ==
  ASSUME OwnersInv, A!IInv
  PROVE  /\ DOMAIN hooks = 1 .. Len(hooks)
         /\ \A i, j \in DOMAIN hooks : RestsOn(i, j) => j < i
<1>1. DOMAIN hooks = 1 .. Len(hooks)
  BY DEF A!IInv, A!TypeOK
<1>2. DOMAIN owners = 1 .. Len(hooks)
  BY DEF OwnersInv
<1> QED BY <1>1, <1>2 DEF OwnersInv

\* A hook is started after those of all that its owner was built from: the order of
\* registration is an order of the dependencies.
THEOREM HooksStartInOrder == ProgramSpec => []StartsAfterWhatItNeeds
<1>1. ASSUME OwnersInv, A!IInv, A!StartsInOrder PROVE StartsAfterWhatItNeeds
  BY <1>1, RestsOnEarlier DEF A!StartsInOrder, StartsAfterWhatItNeeds
<1> QED BY <1>1, OwnersHold, DriverHolds, PTL

\* ... and stopped before them, for all drops, failures and retries.
THEOREM HooksStopInOrder == ProgramSpec => []StopsBeforeWhatItNeeds
<1>1. ASSUME OwnersInv, A!IInv PROVE StopsBeforeWhatItNeeds
  <2>1. A!StopsInReverse
    BY <1>1 DEF A!IInv
  <2> QED BY <1>1, <2>1, RestsOnEarlier DEF A!StopsInReverse, StopsBeforeWhatItNeeds
<1> QED BY <1>1, OwnersHold, DriverHolds, PTL

-----------------------------------------------------------------------------
(* A build that did not return Ok. *)

\* Until the start nothing is started and no error is in hand; a build that did not
\* return Ok is not followed by the start.
UnbuiltInv ==
  /\ stage \in {"setup", "build"} => cause = {}
  /\ stage \in {"setup", "build"} \/ outcome \notin {"none", "ok"} =>
       \A i \in A!Index : onStart[i] = "no"
  /\ outcome \notin {"none", "ok"} => stage \notin {"setup", "start", "steady", "stop"}

\* The build ends only while the driver is in it.
LEMMA EndsInBuild ==
  ASSUME [ProgramNext]_programVars, outcome' # outcome
  PROVE  stage = "build"
<1>1. CASE ApplyOption \/ EndSetup \/ InstallFails
  BY <1>1 DEF ApplyOption, EndSetup, InstallFails, Wire, buildVars
<1>2. CASE BuildRuns \/ BuildGoesOn
  BY <1>2 DEF BuildRuns, BuildGoesOn, Polled
<1>3. CASE BuildYields \/ BuildReturns \/ Returned \/ UNCHANGED programVars
  BY <1>3 DEF BuildYields, BuildReturns, Returned, programVars, buildVars
<1>4. CASE ConstructorAppends \/ InvokerAppends \/ OtherAppends
  BY <1>4 DEF ConstructorAppends, InvokerAppends, OtherAppends, AppendsAs, buildVars
<1>5. CASE DriverStep
  BY <1>5 DEF DriverStep, buildVars
<1> QED BY <1>1, <1>2, <1>3, <1>4, <1>5 DEF ProgramNext

\* The start follows a build that has returned Ok.
LEMMA StartFollowsOk ==
  ASSUME [ProgramNext]_programVars, A!DriverInv, A!OwnTypes, UnbuiltInv,
         stage # "start", stage' = "start"
  PROVE  outcome' = "ok"
<1>1. stage = "build"
  BY DriverSteps, DriverPhases
<1>2. CASE ApplyOption \/ EndSetup \/ InstallFails \/ Returned
  BY <1>1, <1>2 DEF ApplyOption, EndSetup, InstallFails, Returned, A!Returned
<1>3. CASE BuildRuns \/ BuildGoesOn \/ UNCHANGED programVars
  BY <1>1, <1>3 DEF BuildRuns, BuildGoesOn, programVars, driverVars
<1>4. CASE BuildYields
  BY <1>1, <1>4 DEF BuildYields, A!Build, A!Enter, A!Rollback, A!Yields, A!KeepPhase
<1>5. CASE BuildReturns
  <2>1. cause' = {} /\ UNCHANGED buildVars
    BY <1>1, <1>5, DriverSteps, DriverPhases DEF BuildReturns, UnbuiltInv
  <2> QED BY <1>5, <2>1 DEF BuildReturns, BuildDone, buildVars
<1>6. CASE ConstructorAppends \/ InvokerAppends \/ OtherAppends
  BY <1>1, <1>6 DEF ConstructorAppends, InvokerAppends, OtherAppends, AppendsAs, A!SomeoneAppends,
                    A!appVars
<1>7. CASE DriverStep
  BY <1>1, <1>7, HooksAssumption, A!OnlyBuildStarts DEF DriverStep, DriverPoll, Environment
<1> QED BY <1>2, <1>3, <1>4, <1>5, <1>6, <1>7 DEF ProgramNext

\* Every step of the program keeps it.
LEMMA UnbuiltStep ==
  ASSUME UnbuiltInv, A!DriverInv, A!OwnTypes, [ProgramNext]_programVars
  PROVE  UnbuiltInv'
<1>1. /\ stage' = "start" => stage \in {"start", "build"}
      /\ stage' = "steady" => stage \in {"start", "steady"}
      /\ stage' = "stop" => stage \in {"steady", "stop"}
      /\ stage' = "setup" => stage = "setup"
      /\ stage' = "build" => stage \in {"setup", "build"}
      /\ stage \in {"setup", "build"} /\ stage' \in {"setup", "build", "start"} => cause' = cause
      /\ stage # "start" => onStart' = onStart
  BY DriverSteps, DriverPhases
<1>2. outcome' # outcome => stage = "build"
  BY EndsInBuild
<1>3. stage # "start" /\ stage' = "start" => outcome' = "ok"
  BY StartFollowsOk
<1>4. stage' \in {"setup", "build"} => cause' = {}
  BY <1>1 DEF UnbuiltInv
<1>5. stage' \in {"setup", "build"} => \A i \in A!Index : onStart'[i] = "no"
  BY <1>1 DEF UnbuiltInv
<1>6. ASSUME outcome' \notin {"none", "ok"}
      PROVE  /\ \A i \in A!Index : onStart'[i] = "no"
             /\ stage' \notin {"setup", "start", "steady", "stop"}
  <2>1. CASE outcome' = outcome
    BY <1>1, <1>3, <1>6, <2>1 DEF UnbuiltInv
  <2>2. CASE outcome' # outcome
    BY <1>1, <1>2, <1>3, <1>6, <2>2 DEF UnbuiltInv
  <2> QED BY <2>1, <2>2
<1>7. A!Index' = A!Index
  BY DEF A!Index
<1> QED BY <1>4, <1>5, <1>6, <1>7 DEF UnbuiltInv

\* What a build that failed, was dropped or went over its budget has registered is not
\* started, and what needs no start is stopped, whoever registered it, when run() and
\* start() return: rollback and unwind_lifecycle of src/app.rs.
THEOREM FailedBuildsAreUnwound == ProgramSpec => []FailedBuildIsUnwound
<1>1. ProgramInit => UnbuiltInv
  BY DEF ProgramInit, BuildInit, A!AppInit, A!Init, UnbuiltInv
<1>2. UnbuiltInv /\ A!DriverInv /\ A!OwnTypes /\ [ProgramNext]_programVars => UnbuiltInv'
  BY UnbuiltStep
<1>3. ASSUME UnbuiltInv, A!IInv, A!EndInv, A!UnstartedInv PROVE FailedBuildIsUnwound
  <2> SUFFICES ASSUME stage = "done",
                      outcome \notin {"none", "ok"} \/ A!Plain("BuildTimeout") \in result, NEW i \in DOMAIN hooks
               PROVE  /\ onStart[i] = "no"
                      /\ hooks[i] \in StopKinds \ StartKinds => A!Settled(i) \/ A!TimedOut
    BY DEF FailedBuildIsUnwound
  <2>1. i \in 1 .. Len(hooks) /\ i \in A!Index
    BY <1>3, HooksAssumption DEF A!IInv, A!TypeOK, A!Index
  <2>2. onStart[i] = "no"
    BY <1>3, <2>1 DEF UnbuiltInv, A!UnstartedInv
  <2>3. A!TimedOut \/ ~A!Owed(i)
    BY <1>3, <2>1 DEF A!EndInv
  <2>4. hooks[i] \in StopKinds \ StartKinds => A!Settled(i) \/ A!TimedOut
    BY <2>3 DEF A!Owed, A!HasStop, A!Active, A!HasStart
  <2> QED BY <2>2, <2>4
<1> QED BY <1>1, <1>2, <1>3, DriverHolds, PTL DEF ProgramSpec

=============================================================================
