-------------------------- MODULE BootRouterProofs --------------------------
(***************************************************************************)
(* Theorems about BootRouter, for every set of paths, segments and chunks, *)
(* any number of navigations under way, and every bound.                   *)
(***************************************************************************)
EXTENDS BootRouter, SequenceTheorems, FiniteSetTheorems, TLAPS

-----------------------------------------------------------------------------
(* The inductive invariant                                                 *)

Of(x) == {r \in flying : r.name = x}
Extra(x) == IF pending[x] = None THEN 0 ELSE 1
Names(R) == {r.name : r \in R}

\* A promise of the maps is of a request under way.  Each call of clear may have left one
\* request for a thing behind; the one in the maps comes on top of these.
Counted ==
  \A x \in Things :
    /\ pending[x] # None => [name |-> x, id |-> pending[x]] \in flying
    /\ Cardinality(Of(x)) <= clears + Extra(x)

LoaderInv ==
  /\ have \subseteq Things
  /\ pending \in [Things -> Ids \cup {None}]
  /\ flying \subseteq Promises
  /\ clears \in 0..MaxClears /\ evaluated \subseteq Chunks
  /\ have \cap Chunks \subseteq evaluated
  /\ Counted

\* A navigation awaits requests under way; past matchPath it has a route, and once it has
\* asked for the route's chunks each of them is loaded or awaited.
NavRight(n, F, E) ==
  /\ n.awaits \subseteq F
  /\ n.phase \in {"again", "load"} => Needs[n.path] # None
  /\ n.phase = "load" /\ ~n.null => Needs[n.path] \subseteq E \cup Names(n.awaits)

NavsInv ==
  \A s \in Slots :
    navs[s] # None => navs[s] \in Navs /\ NavRight(navs[s], flying, evaluated)

Entered == [path : Paths, match : BOOLEAN]

\* An entry with a match is of a path that has a route.
BrowserInv ==
  /\ current \in Paths \cup {None}
  /\ entries \in Seq(Entered) /\ index \in 1..Len(entries)
  /\ \A i \in 1..Len(entries) : entries[i].match => Needs[entries[i].path] # None
  /\ leaving \in [path : Paths, reload : BOOLEAN] \cup {None}

HoverInv ==
  /\ timers \in [Paths -> 0..MaxTimers] /\ mapped \subseteq Paths
  /\ \A p \in mapped : timers[p] > 0

IInv == LoaderInv /\ (navs \in [Slots -> Navs \cup {None}] /\ NavsInv) /\ BrowserInv /\ HoverInv

-----------------------------------------------------------------------------
(* Requests                                                                *)

LEMMA IdsFacts ==
  /\ MaxClears \in Nat /\ Ids \subseteq Nat \ {0} /\ 1 \in Ids /\ None \notin Ids
  /\ IsFiniteSet(Ids) /\ Cardinality(Ids) = MaxClears + 2
  <1>1. MaxClears \in Nat /\ None \notin Ids
    BY BootRouterAssumption
  <1>2. /\ IsFiniteSet(1..(MaxClears + 2))
        /\ Cardinality(1..(MaxClears + 2)) =
             IF 1 > MaxClears + 2 THEN 0 ELSE (MaxClears + 2) - 1 + 1
    BY <1>1, FS_Interval
  <1> QED
    BY <1>1, <1>2 DEF Ids

LEMMA PromiseFields ==
  /\ \A x \in Things, i \in Ids : [name |-> x, id |-> i] \in Promises
  /\ \A r \in Promises : r.name \in Things /\ r.id \in Ids /\ r = [name |-> r.name, id |-> r.id]
  BY DEF Promises

\* The requests for a thing are finite in number.
LEMMA OfFinite ==
  ASSUME NEW x \in Things, NEW F \in SUBSET Promises
  PROVE  LET T == {r \in F : r.name = x}
         IN  IsFiniteSet(T) /\ Cardinality(T) \in Nat
  <1> DEFINE T == {r \in F : r.name = x}
             f == [r \in T |-> r.id]
  <1>1. f \in Injection(T, Ids)
    BY PromiseFields DEF Injection, IsInjective
  <1>2. IsFiniteSet(T)
    BY <1>1, IdsFacts, FS_Injection
  <1> QED
    BY <1>2, FS_CardinalityType

\* There is a number left for a new request.
LEMMA NumberLeft ==
  ASSUME LoaderInv, NEW x \in Things, pending[x] = None
  PROVE  \E i \in Ids : [name |-> x, id |-> i] \notin flying
  <1> SUFFICES ASSUME \A i \in Ids : [name |-> x, id |-> i] \in flying
               PROVE  FALSE
    OBVIOUS
  <1> DEFINE f == [i \in Ids |-> [name |-> x, id |-> i]]
  <1>1. f \in Injection(Ids, Of(x))
    BY DEF Injection, IsInjective, Of
  <1>2. IsFiniteSet(Of(x)) /\ Cardinality(Of(x)) \in Nat
    BY OfFinite DEF LoaderInv, Of
  <1>3. Cardinality(Ids) <= Cardinality(Of(x))
    BY <1>1, <1>2, FS_Injection
  <1>4. Cardinality(Of(x)) <= clears + Extra(x) /\ clears \in 0..MaxClears
    BY DEF LoaderInv, Counted
  <1>5. Extra(x) = 0
    BY DEF Extra
  <1> QED
    BY <1>2, <1>3, <1>4, <1>5, IdsFacts

LEMMA NumberFacts ==
  ASSUME LoaderInv, NEW x \in Things
  PROVE  /\ Number(x) \in Ids /\ Promise(x) \in Promises /\ Promise(x).name = x
         /\ pending[x] # None => Promise(x) \in flying
         /\ pending[x] = None => Promise(x) \notin flying
  <1>1. CASE pending[x] = None
    <2>1. /\ Number(x) \in Ids
          /\ [name |-> x, id |-> Number(x)] \notin flying
      BY <1>1, NumberLeft DEF Number
    <2> QED
      BY <1>1, <2>1, PromiseFields DEF Promise
  <1>2. CASE pending[x] # None
    <2>1. Number(x) = pending[x] /\ pending[x] \in Ids
      BY <1>2 DEF Number, LoaderInv
    <2> QED
      BY <1>2, <2>1, PromiseFields DEF Promise, LoaderInv, Counted
  <1> QED
    BY <1>1, <1>2

\* What a request for the things of X leaves.
LEMMA RequestFacts ==
  ASSUME LoaderInv, NEW X \in SUBSET Things, Request(X)
  PROVE  /\ LoaderInv'
         /\ flying \subseteq flying' /\ evaluated' = evaluated
         /\ Missing(X) \subseteq flying' /\ Missing(X) \subseteq Promises
         /\ Names(Missing(X)) = X \ have
  <1>1. /\ have' = have /\ clears' = clears /\ evaluated' = evaluated
        /\ pending' = [x \in Things |-> IF x \in X \ have THEN Number(x) ELSE pending[x]]
        /\ flying' = flying \cup Missing(X)
    BY DEF Request
  <1>2. \A x \in X \ have : /\ Number(x) \in Ids
                            /\ Promise(x) \in Promises /\ Promise(x).name = x
    BY NumberFacts
  <1>3. Missing(X) \subseteq Promises /\ Names(Missing(X)) = X \ have
    BY <1>2 DEF Missing, Names
  <1>4. pending' \in [Things -> Ids \cup {None}]
    BY <1>1, <1>2 DEF LoaderInv
  <1>5. ASSUME NEW x \in Things
        PROVE  /\ pending'[x] # None => [name |-> x, id |-> pending'[x]] \in flying'
               /\ Cardinality(Of(x)') <= clears' + Extra(x)'
    <2>1. IsFiniteSet(Of(x)) /\ Cardinality(Of(x)) \in Nat
      BY OfFinite DEF LoaderInv, Of
    <2>2. /\ pending[x] # None => [name |-> x, id |-> pending[x]] \in flying
          /\ Cardinality(Of(x)) <= clears + Extra(x)
          /\ clears \in Nat
      BY IdsFacts DEF LoaderInv, Counted
    <2>3. CASE x \in X \ have
      <3>1. pending'[x] = Number(x) /\ Number(x) # None
        BY <1>1, <1>2, <2>3, IdsFacts
      <3>2. Promise(x) \in flying' /\ Promise(x) = [name |-> x, id |-> pending'[x]]
        BY <1>1, <2>3, <3>1 DEF Missing, Promise
      <3>3. Of(x)' = Of(x) \cup {Promise(x)}
        BY <1>1, <1>2, <2>3 DEF Of, Missing
      <3>4. Extra(x)' = 1
        BY <3>1 DEF Extra
      <3>5. CASE pending[x] = None
        <4>1. Cardinality(Of(x)') <= Cardinality(Of(x)) + 1
          BY <2>1, <3>3, FS_AddElement
        <4>2. Cardinality(Of(x)) <= clears
          BY <2>1, <2>2, <3>5 DEF Extra
        <4>3. Cardinality(Of(x)') \in Nat
          BY <2>1, <3>3, FS_AddElement, FS_CardinalityType
        <4>4. clears' = clears
          BY <1>1
        <4>5. Cardinality(Of(x)') <= clears' + Extra(x)'
          BY <2>1, <2>2, <3>4, <4>1, <4>2, <4>3, <4>4
        <4> QED
          BY <3>2, <4>5
      <3>6. CASE pending[x] # None
        <4>1. Promise(x) \in Of(x)
          BY <1>2, <2>3, <3>6, NumberFacts DEF Of
        <4>2. Of(x)' = Of(x)
          BY <3>3, <4>1
        <4> QED
          BY <1>1, <2>2, <3>2, <3>4, <3>6, <4>2 DEF Extra
      <3> QED
        BY <3>5, <3>6
    <2>4. CASE x \notin X \ have
      <3>1. pending'[x] = pending[x]
        BY <1>1, <2>4
      <3>2. Of(x)' = Of(x)
        BY <1>1, <1>2, <2>4 DEF Of, Missing
      <3> QED
        BY <1>1, <2>2, <3>1, <3>2 DEF Extra
    <2> QED
      BY <2>3, <2>4
  <1>6. Counted'
    BY <1>5 DEF Counted
  <1> QED
    BY <1>1, <1>3, <1>4, <1>6 DEF LoaderInv

\* What a request that succeeds or fails leaves of the loader.
LEMMA SettleFacts ==
  ASSUME LoaderInv, NEW r \in flying,
         flying' = flying \ {r}, pending' = [pending EXCEPT ![r.name] = None],
         have' = have \/ have' = have \cup {r.name},
         evaluated' = evaluated \cup ({r.name} \cap Chunks) \/ (have' = have /\ evaluated' = evaluated),
         clears' = clears
  PROVE  LoaderInv'
  <1>1. r \in Promises /\ r.name \in Things /\ r = [name |-> r.name, id |-> r.id]
    BY PromiseFields DEF LoaderInv
  <1>2. pending' \in [Things -> Ids \cup {None}]
    BY DEF LoaderInv
  <1>3. ASSUME NEW x \in Things
        PROVE  /\ pending'[x] # None => [name |-> x, id |-> pending'[x]] \in flying'
               /\ Cardinality(Of(x)') <= clears' + Extra(x)'
    <2>1. IsFiniteSet(Of(x)) /\ Cardinality(Of(x)) \in Nat
      BY OfFinite DEF LoaderInv, Of
    <2>2. /\ pending[x] # None => [name |-> x, id |-> pending[x]] \in flying
          /\ Cardinality(Of(x)) <= clears + Extra(x)
          /\ clears \in Nat
      BY IdsFacts DEF LoaderInv, Counted
    <2>3. CASE x = r.name
      <3>1. pending'[x] = None /\ Extra(x)' = 0
        BY <2>3 DEF LoaderInv, Extra
      <3>2. Of(x)' = Of(x) \ {r} /\ r \in Of(x)
        BY <2>3 DEF Of
      <3>3. Cardinality(Of(x)') = Cardinality(Of(x)) - 1
        BY <2>1, <3>2, FS_RemoveElement
      <3>4. Extra(x) \in {0, 1}
        BY DEF Extra
      <3> QED
        BY <2>1, <2>2, <3>1, <3>3, <3>4
    <2>4. CASE x # r.name
      <3>1. pending'[x] = pending[x] /\ Extra(x)' = Extra(x)
        BY <2>4 DEF LoaderInv, Extra
      <3>2. Of(x)' = Of(x)
        BY <2>4 DEF Of
      <3>3. [name |-> x, id |-> pending[x]] # r
        BY <1>1, <2>4
      <3> QED
        BY <2>2, <3>1, <3>2, <3>3
    <2> QED
      BY <2>3, <2>4
  <1>4. Counted'
    BY <1>3 DEF Counted
  <1> QED
    BY <1>1, <1>2, <1>4 DEF LoaderInv

\* The loader of a new document, which has asked for the things of X.
LEMMA FreshFacts ==
  ASSUME NEW X \in SUBSET Things, clears' \in 0..MaxClears,
         have' = {}, pending' = [x \in Things |-> IF x \in X THEN 1 ELSE None],
         flying' = [name : X, id : {1}], evaluated' = {}
  PROVE  LoaderInv'
  <1>1. pending' \in [Things -> Ids \cup {None}] /\ flying' \subseteq Promises
    BY IdsFacts, PromiseFields DEF Promises
  <1>2. ASSUME NEW x \in Things
        PROVE  /\ pending'[x] # None => [name |-> x, id |-> pending'[x]] \in flying'
               /\ Cardinality(Of(x)') <= clears' + Extra(x)'
    <2>1. CASE x \in X
      <3>1. Of(x)' = {[name |-> x, id |-> 1]} /\ pending'[x] = 1
        BY <2>1 DEF Of
      <3>2. Extra(x)' = 1
        BY <3>1, IdsFacts DEF Extra
      <3>3. Cardinality(Of(x)') = 1
        BY <3>1, FS_Singleton
      <3>4. \A c \in 0..MaxClears : 1 <= c + 1
        BY IdsFacts
      <3>5. 1 <= clears' + 1
        BY <3>4
      <3>6. Cardinality(Of(x)') <= clears' + Extra(x)'
        BY <3>2, <3>3, <3>5
      <3>7. [name |-> x, id |-> 1] \in flying'
        BY <2>1
      <3> QED
        BY <3>1, <3>6, <3>7
    <2>2. CASE x \notin X
      <3>1. Of(x)' = {} /\ pending'[x] = None
        BY <2>2 DEF Of
      <3>2. Extra(x)' = 0 /\ Cardinality(Of(x)') = 0
        BY <3>1, FS_EmptySet DEF Extra
      <3> QED
        BY <3>1, <3>2, IdsFacts
    <2> QED
      BY <2>1, <2>2
  <1>3. Counted'
    BY <1>2 DEF Counted
  <1> QED
    BY <1>1, <1>3 DEF LoaderInv

LEMMA ClearFacts ==
  ASSUME LoaderInv, Clear
  PROVE  LoaderInv' /\ flying' = flying /\ evaluated' = evaluated
  <1>1. /\ clears' = clears + 1 /\ clears' \in 0..MaxClears /\ clears \in Nat
        /\ have' = {} /\ pending' = [x \in Things |-> None]
        /\ flying' = flying /\ evaluated' = evaluated
    BY IdsFacts DEF Clear, LoaderInv
  <1>2. ASSUME NEW x \in Things
        PROVE  pending'[x] = None /\ Cardinality(Of(x)') <= clears' + Extra(x)'
    <2>1. pending'[x] = None /\ Extra(x)' = 0 /\ Of(x)' = Of(x)
      BY <1>1 DEF Extra, Of
    <2>2. Cardinality(Of(x)) \in Nat /\ Cardinality(Of(x)) <= clears + Extra(x)
      BY OfFinite DEF LoaderInv, Counted, Of
    <2>3. Extra(x) \in {0, 1}
      BY DEF Extra
    <2> QED
      BY <1>1, <2>1, <2>2, <2>3
  <1>3. Counted'
    BY <1>2 DEF Counted
  <1>4. pending' \in [Things -> Ids \cup {None}]
    BY <1>1
  <1> QED
    BY <1>1, <1>3, <1>4 DEF LoaderInv
-----------------------------------------------------------------------------
(* Navigations                                                             *)

Typed == navs \in [Slots -> Navs \cup {None}]

LEMMA NavFields ==
  /\ \A n \in Navs : /\ n.path \in Paths /\ n.kind \in Kinds /\ n.phase \in Phases
                     /\ n.awaits \subseteq Promises /\ n.null \in BOOLEAN
  /\ \A p \in Paths, kind \in Kinds, phase \in Phases, R \in SUBSET Promises :
       LET n == Nav(p, kind, phase, R)
       IN  /\ n \in Navs /\ n.path = p /\ n.kind = kind /\ n.phase = phase
           /\ n.awaits = R /\ n.null = FALSE
  BY DEF Navs, Nav

\* The segment of a path and the chunks of its route can be asked for.
LEMMA ThingsOf ==
  ASSUME NEW p \in Paths
  PROVE  /\ SegmentsOf(p) \in SUBSET Things /\ SegmentsOf(p) \in SUBSET Segments
         /\ Needs[p] # None => Needs[p] \in SUBSET Things /\ Needs[p] \in SUBSET Chunks
  BY BootRouterAssumption DEF SegmentsOf, Things

LEMMA NavKeep ==
  ASSUME NEW n, NEW F, NEW E, NEW F2, NEW E2, NavRight(n, F, E), F \subseteq F2, E \subseteq E2
  PROVE  NavRight(n, F2, E2)
  BY DEF NavRight

\* A step of one navigation.
LEMMA NavStep ==
  ASSUME Typed, NavsInv, flying \subseteq flying', evaluated \subseteq evaluated',
         NEW s \in Slots, NEW m, navs' = [navs EXCEPT ![s] = m],
         m = None \/ (m \in Navs /\ NavRight(m, flying', evaluated'))
  PROVE  Typed' /\ NavsInv'
  <1>1. Typed'
    BY DEF Typed
  <1>2. ASSUME NEW t \in Slots, navs'[t] # None
        PROVE  navs'[t] \in Navs /\ NavRight(navs'[t], flying', evaluated')
    <2>1. CASE t = s
      BY <1>2, <2>1 DEF Typed
    <2>2. CASE t # s
      <3>1. navs'[t] = navs[t]
        BY <2>2 DEF Typed
      <3>2. navs[t] \in Navs /\ NavRight(navs[t], flying, evaluated)
        BY <1>2, <3>1 DEF NavsInv
      <3> QED
        BY <3>1, <3>2, NavKeep
    <2> QED
      BY <2>1, <2>2
  <1> QED
    BY <1>1, <1>2 DEF NavsInv

LEMMA NavsKept ==
  ASSUME Typed, NavsInv, flying \subseteq flying', evaluated \subseteq evaluated', navs' = navs
  PROVE  Typed' /\ NavsInv'
  <1>1. Typed'
    BY DEF Typed
  <1>2. ASSUME NEW t \in Slots, navs'[t] # None
        PROVE  navs'[t] \in Navs /\ NavRight(navs'[t], flying', evaluated')
    BY <1>2, NavKeep DEF NavsInv
  <1> QED
    BY <1>1, <1>2 DEF NavsInv

\* A navigation that has asked for its segment, or again for it.
LEMMA BeginRight ==
  ASSUME NEW p \in Paths, NEW kind \in Kinds, NEW phase \in {"match", "again"},
         NEW R \in SUBSET Promises, NEW F, NEW E, R \subseteq F,
         phase = "again" => Needs[p] # None
  PROVE  Nav(p, kind, phase, R) \in Navs /\ NavRight(Nav(p, kind, phase, R), F, E)
  <1>1. phase \in Phases /\ phase # "load"
    BY DEF Phases
  <1> QED
    BY <1>1, NavFields DEF NavRight

LEMMA BeginFacts ==
  ASSUME LoaderInv, Typed, NavsInv, NEW s \in Slots, NEW p \in Paths, NEW kind \in Kinds,
         Begin(s, p, kind)
  PROVE  LoaderInv' /\ Typed' /\ NavsInv' /\ evaluated' = evaluated
  <1> DEFINE m == Nav(p, kind, "match", Missing(SegmentsOf(p)))
  <1>1. Request(SegmentsOf(p)) /\ navs' = [navs EXCEPT ![s] = m]
    BY DEF Begin
  <1>2. /\ LoaderInv' /\ flying \subseteq flying' /\ evaluated' = evaluated
        /\ Missing(SegmentsOf(p)) \subseteq flying' /\ Missing(SegmentsOf(p)) \in SUBSET Promises
    BY <1>1, ThingsOf, RequestFacts
  <1>3. m \in Navs /\ NavRight(m, flying', evaluated')
    BY <1>2, BeginRight
  <1> HIDE DEF m
  <1> QED
    BY <1>1, <1>2, <1>3, NavStep

\* A request succeeds: its thing is no longer awaited, and a chunk is loaded.
LEMMA SucceedNavs ==
  ASSUME LoaderInv, Typed, NavsInv, NEW r \in flying, Succeed(r)
  PROVE  Typed' /\ NavsInv'
  <1>1. /\ flying' = flying \ {r} /\ evaluated' = evaluated \cup ({r.name} \cap Chunks)
        /\ \A s \in Slots : navs'[s] = IF navs[s] = None THEN None
                                       ELSE [navs[s] EXCEPT !.awaits = @ \ {r}]
    BY DEF Succeed
  <1>2. ASSUME NEW s \in Slots, navs[s] # None
        PROVE  navs'[s] \in Navs /\ NavRight(navs'[s], flying', evaluated')
    <2> DEFINE n == navs[s]
    <2>1. n \in Navs /\ NavRight(n, flying, evaluated)
      BY <1>2 DEF NavsInv
    <2>2. navs'[s] = [n EXCEPT !.awaits = @ \ {r}]
      BY <1>1, <1>2
    <2> HIDE DEF n
    <2>3. /\ navs'[s] \in Navs /\ navs'[s].awaits = n.awaits \ {r}
          /\ navs'[s].path = n.path /\ navs'[s].phase = n.phase /\ navs'[s].null = n.null
      BY <2>1, <2>2 DEF Navs
    <2>4. navs'[s].awaits \subseteq flying'
      BY <1>1, <2>1, <2>3 DEF NavRight
    <2>5. ASSUME n.phase = "load", ~n.null
          PROVE  Needs[n.path] \subseteq evaluated' \cup Names(n.awaits \ {r})
      <3>1. /\ Needs[n.path] \subseteq evaluated \cup Names(n.awaits)
            /\ Needs[n.path] \subseteq Chunks
        BY <2>1, <2>5, NavFields, ThingsOf DEF NavRight
      <3>2. Names(n.awaits) \subseteq Names(n.awaits \ {r}) \cup {r.name}
        BY DEF Names
      <3> QED
        BY <1>1, <3>1, <3>2
    <2>6. n.phase \in {"again", "load"} => Needs[n.path] # None
      BY <2>1 DEF NavRight
    <2> QED
      BY <2>3, <2>4, <2>5, <2>6 DEF NavRight
  <1>3. navs' = [s \in Slots |-> IF navs[s] = None THEN None
                                 ELSE [navs[s] EXCEPT !.awaits = @ \ {r}]]
    BY DEF Succeed
  <1>4. \A s \in Slots : navs[s] = None => navs'[s] = None
    BY <1>1
  <1>5. Typed'
    BY <1>2, <1>3, <1>4 DEF Typed
  <1> QED
    BY <1>2, <1>4, <1>5 DEF NavsInv

\* A request fails: who awaits it is over, if it is of a chunk, or goes on without.
LEMMA FailedNavs ==
  ASSUME LoaderInv, Typed, NavsInv, NEW r \in flying, Failed(r)
  PROVE  Typed' /\ NavsInv'
  <1> DEFINE N(s) == IF navs[s] = None \/ r \notin navs[s].awaits THEN navs[s]
                     ELSE IF r.name \in Chunks THEN None
                     ELSE [navs[s] EXCEPT !.awaits = @ \ {r}, !.null = TRUE]
  <1>1. /\ flying' = flying \ {r} /\ evaluated' = evaluated
        /\ navs' = [s \in Slots |-> N(s)]
    BY DEF Failed, Rejected
  <1>2. ASSUME NEW s \in Slots, N(s) # None
        PROVE  N(s) \in Navs /\ NavRight(N(s), flying', evaluated')
    <2>1. navs[s] # None
      BY <1>2
    <2>2. navs[s] \in Navs /\ NavRight(navs[s], flying, evaluated)
      BY <2>1 DEF NavsInv
    <2>3. CASE r \notin navs[s].awaits
      <3>1. N(s) = navs[s]
        BY <2>3
      <3> QED
        BY <1>1, <2>2, <2>3, <3>1 DEF NavRight
    <2>4. CASE r \in navs[s].awaits
      <3>1. N(s) = [navs[s] EXCEPT !.awaits = @ \ {r}, !.null = TRUE]
        BY <1>2, <2>1, <2>4
      <3> DEFINE n == navs[s]
                 m == N(s)
      <3>2. n \in Navs /\ m = [n EXCEPT !.awaits = @ \ {r}, !.null = TRUE]
        BY <2>2, <3>1
      <3> HIDE DEF n, m, N
      <3>3. /\ m \in Navs /\ m.awaits = n.awaits \ {r}
            /\ m.path = n.path /\ m.phase = n.phase /\ m.null = TRUE
        BY <3>2 DEF Navs
      <3>4. NavRight(n, flying, evaluated)
        BY <2>2 DEF n
      <3>5. NavRight(m, flying', evaluated')
        BY <1>1, <3>3, <3>4 DEF NavRight
      <3> QED
        BY <3>3, <3>5 DEF m
    <2> QED
      BY <2>3, <2>4
  <1> HIDE DEF N
  <1>3. Typed'
    BY <1>1, <1>2 DEF Typed
  <1>4. ASSUME NEW s \in Slots, navs'[s] # None
        PROVE  navs'[s] \in Navs /\ NavRight(navs'[s], flying', evaluated')
    BY <1>1, <1>2, <1>4
  <1> QED
    BY <1>3, <1>4 DEF NavsInv

\* A navigation asks for the things of X and goes on to a later phase.
LEMMA ContinueFacts ==
  ASSUME LoaderInv, Typed, NavsInv, NEW s \in Slots, navs[s] # None,
         NEW X \in SUBSET Things, Request(X), NEW phase \in {"again", "load"},
         navs' = [navs EXCEPT ![s].phase = phase, ![s].awaits = Missing(X)],
         Needs[navs[s].path] # None,
         phase = "load" /\ ~navs[s].null => X = Needs[navs[s].path]
  PROVE  LoaderInv' /\ Typed' /\ NavsInv' /\ evaluated' = evaluated
  <1> DEFINE n == navs[s]
             m == [n EXCEPT !.phase = phase, !.awaits = Missing(X)]
  <1>1. /\ LoaderInv' /\ flying \subseteq flying' /\ evaluated' = evaluated
        /\ Missing(X) \subseteq flying' /\ Missing(X) \subseteq Promises
        /\ Names(Missing(X)) = X \ have
    BY RequestFacts
  <1>2. n \in Navs /\ phase \in Phases
    BY DEF NavsInv, Phases
  <1>3. navs' = [navs EXCEPT ![s] = m]
    BY DEF Typed
  <1>4. Needs[n.path] # None /\ (phase = "load" /\ ~n.null => X = Needs[n.path])
    OBVIOUS
  <1> HIDE DEF n
  <1>5. /\ m \in Navs /\ m.phase = phase /\ m.awaits = Missing(X)
        /\ m.path = n.path /\ m.null = n.null
    BY <1>1, <1>2 DEF Navs
  <1> HIDE DEF m
  <1>6. have \cap Chunks \subseteq evaluated /\ Needs[n.path] \subseteq Chunks
    BY <1>2, <1>4, NavFields, ThingsOf DEF LoaderInv
  <1>7. NavRight(m, flying', evaluated')
    BY <1>1, <1>4, <1>5, <1>6 DEF NavRight
  <1> QED
    BY <1>1, <1>3, <1>5, <1>7, NavStep

\* A document begins.
LEMMA StartFacts ==
  ASSUME NEW p \in Paths, NEW t \in Slots, navs' = StartedIn(p, t),
         flying' = AskedFor(p), evaluated' = {}
  PROVE  Typed' /\ NavsInv'
  <1>1. Started(p) = None \/ (Started(p) \in Navs /\ NavRight(Started(p), flying', evaluated'))
    <2>1. CASE p \in Routed
      <3>1. Started(p) = Nav(p, "start", "render", {})
        BY <2>1 DEF Started
      <3>2. "start" \in Kinds /\ "render" \in Phases /\ {} \in SUBSET Promises
        BY DEF Kinds, Phases
      <3> QED
        BY <3>1, <3>2, NavFields DEF NavRight
    <2>2. CASE p \notin Routed /\ Fallback # None
      <3>1. Started(p) = Nav(Fallback, "replace", "match", AskedFor(p)) /\ Fallback \in Paths
        BY <2>2, BootRouterAssumption DEF Started
      <3>2. AskedFor(p) \in SUBSET Promises
        BY <3>1, ThingsOf, IdsFacts DEF AskedFor, Asked, Promises
      <3> QED
        BY <3>1, <3>2, BeginRight, "replace" \in Kinds DEF Kinds
    <2>3. CASE p \notin Routed /\ Fallback = None
      BY <2>3 DEF Started
    <2> QED
      BY <2>1, <2>2, <2>3
  <1>2. \A s \in Slots : navs'[s] = IF s = t THEN Started(p) ELSE None
    BY DEF StartedIn
  <1>3. Typed'
    BY <1>1 DEF Typed, StartedIn
  <1> QED
    BY <1>1, <1>2, <1>3 DEF NavsInv

LEMMA LoadFacts ==
  ASSUME NEW p \in Paths, Loaded(p), clears' \in 0..MaxClears
  PROVE  LoaderInv' /\ Typed' /\ NavsInv'
  <1>1. Asked(p) \in SUBSET Things
    BY ThingsOf, BootRouterAssumption DEF Asked
  <1>2. LoaderInv'
    BY <1>1, FreshFacts DEF Loaded, AskedFor
  <1>3. PICK t \in Slots : navs' = StartedIn(p, t)
    BY DEF Loaded
  <1>4. flying' = AskedFor(p) /\ evaluated' = {}
    BY DEF Loaded
  <1> QED
    BY <1>2, <1>3, <1>4, StartFacts
-----------------------------------------------------------------------------
(* The session history                                                     *)

LEMMA EnteredFields ==
  /\ \A e \in Entered : e.path \in Paths /\ e.match \in BOOLEAN
  /\ \A p \in Paths, b \in BOOLEAN :
       LET e == [path |-> p, match |-> b] IN e \in Entered /\ e.path = p /\ e.match = b
  BY DEF Entered

LEMMA EnterFacts ==
  ASSUME BrowserInv, NEW p \in Paths, NEW kind \in Kinds, Needs[p] # None, Enter(p, kind)
  PROVE  /\ entries' \in Seq(Entered) /\ index' \in 1..Len(entries')
         /\ \A i \in 1..Len(entries') : entries'[i].match => Needs[entries'[i].path] # None
  <1> DEFINE e == [path |-> p, match |-> TRUE]
             Right(x) == x.match => Needs[x.path] # None
  <1>1. e \in Entered /\ Right(e)
    BY EnteredFields
  <1>2. /\ entries \in Seq(Entered) /\ Len(entries) \in Nat /\ index \in 1..Len(entries)
        /\ index \in Nat /\ MaxEntries \in Nat
        /\ \A i \in 1..Len(entries) : entries[i] \in Entered /\ Right(entries[i])
    BY LenProperties, ElementOfSeq, BootRouterAssumption DEF BrowserInv
  <1>3. CASE kind = "push"
    <2> DEFINE m == IF index = MaxEntries THEN 2 ELSE 1
               q == SubSeq(entries, m, index)
               t == Append(q, e)
    <2>1. entries' = t /\ index' = IF index = MaxEntries THEN index ELSE index + 1
      BY <1>3 DEF Enter
    <2> HIDE DEF e, Right
    <2>2. m \in {1, 2} /\ m \in Int /\ (m = 2 <=> index = MaxEntries)
      OBVIOUS
    <2> HIDE DEF m
    <2>3. \A i \in m..index : i \in 1..Len(entries)
      BY <1>2, <2>2
    <2>4. /\ q \in Seq(Entered)
          /\ Len(q) = IF m <= index THEN index - m + 1 ELSE 0
          /\ \A i \in 1..(index - m + 1) : q[i] = entries[m + i - 1]
      BY <1>2, <2>2, <2>3, SubSeqProperties
    <2>5. Len(q) = index - m + 1 /\ Len(q) \in Nat
      BY <1>2, <2>2, <2>4
    <2>6. ASSUME NEW i \in 1..Len(q)
          PROVE  Right(q[i])
      <3>1. m + i - 1 \in m..index
        BY <1>2, <2>2, <2>5
      <3> QED
        BY <1>2, <2>3, <2>4, <2>5, <3>1
    <2> HIDE DEF q
    <2>7. /\ t \in Seq(Entered) /\ Len(t) = Len(q) + 1
          /\ \A i \in 1..Len(q) : t[i] = q[i]
          /\ t[Len(q) + 1] = e
      BY <1>1, <2>4, AppendProperties
    <2> HIDE DEF t
    <2>8. \A i \in 1..Len(t) : i \in 1..Len(q) \/ i = Len(q) + 1
      BY <2>5, <2>7
    <2>9. \A i \in 1..Len(t) : Right(t[i])
      BY <1>1, <2>6, <2>7, <2>8
    <2>10. index' \in 1..Len(t)
      BY <1>2, <2>1, <2>2, <2>5, <2>7
    <2> QED
      BY <2>1, <2>7, <2>9, <2>10 DEF Right
  <1>4. CASE kind = "replace"
    <2>1. entries' = [entries EXCEPT ![index] = e] /\ index' = index
      BY <1>4 DEF Enter
    <2> HIDE DEF e, Right
    <2>2. /\ entries' \in Seq(Entered) /\ Len(entries') = Len(entries)
          /\ \A i \in 1..Len(entries) : entries'[i] = IF i = index THEN e ELSE entries[i]
      BY <1>1, <1>2, <2>1, ExceptSeq
    <2>3. \A i \in 1..Len(entries') : Right(entries'[i])
      BY <1>1, <1>2, <2>2
    <2> QED
      BY <1>2, <2>1, <2>2, <2>3 DEF Right
  <1>5. CASE kind \notin {"push", "replace"}
    BY <1>5 DEF Enter, BrowserInv
  <1> QED
    BY <1>3, <1>4, <1>5
-----------------------------------------------------------------------------
(* Steps                                                                   *)

Inv == LoaderInv /\ Typed /\ NavsInv

LEMMA InitHolds == Init => IInv
  <1> SUFFICES ASSUME Init
               PROVE  IInv
    OBVIOUS
  <1>1. LoaderInv
    <2>1. \A x \in Things : pending[x] = None /\ Of(x) = {} /\ Cardinality(Of(x)) = 0
      BY FS_EmptySet DEF Init, Of
    <2>2. Counted
      BY <2>1, IdsFacts DEF Counted, Extra, Init
    <2> QED
      BY <2>2, IdsFacts DEF Init, LoaderInv
  <1>2. PICK p \in Routed, t \in Slots :
          entries = <<[path |-> p, match |-> FALSE]>> /\ navs = StartedIn(p, t)
    BY DEF Init
  <1>3. p \in Paths
    BY BootRouterAssumption
  <1>4. navs \in [Slots -> Navs \cup {None}] /\ NavsInv
    <2>1. Started(p) = Nav(p, "start", "render", {})
      BY DEF Started
    <2>2. "start" \in Kinds /\ "render" \in Phases /\ {} \in SUBSET Promises
      BY DEF Kinds, Phases
    <2>3. Started(p) \in Navs /\ NavRight(Started(p), flying, evaluated)
      BY <1>3, <2>1, <2>2, NavFields DEF NavRight
    <2> QED
      BY <1>2, <2>3 DEF StartedIn, NavsInv
  <1>5. BrowserInv
    <2> DEFINE e == [path |-> p, match |-> FALSE]
    <2>1. e \in Entered /\ e.match = FALSE
      BY <1>3, EnteredFields
    <2> HIDE DEF e
    <2>2. <<e>> \in Seq(Entered) /\ Len(<<e>>) = 1 /\ <<e>>[1] = e /\ 1..1 = {1}
      BY <2>1
    <2> QED
      BY <1>2, <2>1, <2>2 DEF Init, BrowserInv, e
  <1>6. HoverInv
    BY BootRouterAssumption DEF Init, HoverInv
  <1> QED
    BY <1>1, <1>4, <1>5, <1>6 DEF IInv

LEMMA NavsStep == IInv /\ [Next]_vars => Inv'
  <1> SUFFICES ASSUME IInv, [Next]_vars
               PROVE  Inv'
    OBVIOUS
  <1> USE DEF Inv
  <1>1. LoaderInv /\ Typed /\ NavsInv /\ BrowserInv
    BY DEF IInv, Typed
  <1>2. \A s \in Slots : navs[s] # None => navs[s] \in Navs /\ navs[s].path \in Paths
    BY <1>1, NavFields DEF NavsInv
  <1>3. /\ flying \subseteq flying /\ evaluated \subseteq evaluated
    OBVIOUS
  <1>4. ASSUME NEW r \in flying, Succeed(r)
        PROVE  Inv'
    <2>1. LoaderInv'
      BY <1>1, <1>4, SettleFacts DEF Succeed
    <2> QED
      BY <1>1, <1>4, <2>1, SucceedNavs
  <1>5. ASSUME NEW r \in flying, Failed(r)
        PROVE  Inv'
    <2>1. LoaderInv'
      BY <1>1, <1>5, SettleFacts DEF Failed, Answered
    <2> QED
      BY <1>1, <1>5, <2>1, FailedNavs
  <1>6. CASE Clear
    <2>1. navs' = navs
      BY <1>6 DEF Clear
    <2> QED
      BY <1>1, <1>6, <2>1, ClearFacts, NavsKept
  <1>7. ASSUME NEW s \in Slots, NEW p \in Paths, NEW kind \in {"push", "replace"},
               Click(s, p, kind)
        PROVE  Inv'
    <2>1. kind \in Kinds /\ Begin(s, p, kind)
      BY <1>7 DEF Click, Kinds
    <2> QED
      BY <1>1, <2>1, BeginFacts
  <1>8. ASSUME NEW s \in Slots, NEW i \in 1..Len(entries), PopState(s, i)
        PROVE  Inv'
    <2>1. entries[i] \in Entered /\ (entries[i].match => Needs[entries[i].path] # None)
      BY <1>1, ElementOfSeq DEF BrowserInv
    <2>2. entries[i].path \in Paths /\ "pop" \in Kinds
      BY <2>1, EnteredFields DEF Kinds
    <2>3. CASE ~entries[i].match
      <3>1. Begin(s, entries[i].path, "pop")
        BY <1>8, <2>3 DEF PopState
      <3> QED
        BY <1>1, <2>2, <3>1, BeginFacts
    <2>4. CASE entries[i].match
      <3> DEFINE p == entries[i].path
                 m == Nav(p, "pop", "again", Missing(SegmentsOf(p)))
      <3>1. Request(SegmentsOf(p)) /\ navs' = [navs EXCEPT ![s] = m]
        BY <1>8, <2>4 DEF PopState
      <3>2. p \in Paths /\ SegmentsOf(p) \in SUBSET Things /\ Needs[p] # None
        BY <2>1, <2>2, <2>4, ThingsOf
      <3> HIDE DEF p
      <3>3. /\ LoaderInv' /\ flying \subseteq flying' /\ evaluated \subseteq evaluated'
            /\ Missing(SegmentsOf(p)) \subseteq flying'
            /\ Missing(SegmentsOf(p)) \in SUBSET Promises
        BY <1>1, <3>1, <3>2, RequestFacts
      <3>4. m \in Navs /\ NavRight(m, flying', evaluated')
        BY <2>2, <3>2, <3>3, BeginRight
      <3> HIDE DEF m
      <3> QED
        BY <1>1, <3>1, <3>3, <3>4, NavStep
    <2> QED
      BY <2>3, <2>4
  <1>9. ASSUME NEW s \in Slots, Matched(s)
        PROVE  Inv'
    <2>1. navs[s] # None /\ navs[s].path \in Paths
      BY <1>2, <1>9 DEF Matched, Continues
    <2>2. CASE NoMatch(s)
      <3>1. navs' = [navs EXCEPT ![s] = None] /\ UNCHANGED loader
        BY <1>9, <2>2 DEF Matched
      <3> QED
        BY <1>1, <3>1, NavStep DEF loader, LoaderInv, Counted, Of, Extra
    <2>3. CASE ~NoMatch(s)
      <3> DEFINE p == navs[s].path
                 again == navs[s].kind = "pop"
                 X == IF again THEN SegmentsOf(p) ELSE Needs[p]
                 phase == IF again THEN "again" ELSE "load"
      <3>1. /\ navs' = [navs EXCEPT ![s].phase = phase, ![s].awaits = Missing(X)]
            /\ Request(X)
        BY <1>9, <2>3 DEF Matched
      <3>2. Needs[p] # None /\ ~navs[s].null
        BY <2>3 DEF NoMatch
      <3>3. X \in SUBSET Things /\ phase \in {"again", "load"} /\ (phase = "load" => X = Needs[p])
        BY <2>1, <3>2, ThingsOf
      <3> QED
        BY <1>1, <2>1, <3>1, <3>2, <3>3, ContinueFacts
    <2> QED
      BY <2>2, <2>3
  <1>10. ASSUME NEW s \in Slots, LoadForPath(s)
         PROVE  Inv'
    <2> DEFINE p == navs[s].path
               X == IF NoMatch(s) THEN {} ELSE Needs[p]
    <2>1. navs[s] # None /\ p \in Paths /\ navs[s].phase = "again" /\ Needs[p] # None
      BY <1>1, <1>2, <1>10 DEF LoadForPath, Continues, NavsInv, NavRight
    <2>2. /\ navs' = [navs EXCEPT ![s].phase = "load", ![s].awaits = Missing(X)]
          /\ Request(X)
      BY <1>10 DEF LoadForPath
    <2>3. X \in SUBSET Things /\ (~navs[s].null => X = Needs[p])
      <3>1. navs[s].null \in BOOLEAN
        BY <1>2, <2>1, NavFields
      <3> QED
        BY <2>1, <3>1, ThingsOf DEF NoMatch
    <2> QED
      BY <1>1, <2>1, <2>2, <2>3, ContinueFacts
  <1>11. ASSUME NEW s \in Slots, Notify(s)
         PROVE  Inv'
    <2>1. navs[s] # None /\ navs[s] \in Navs /\ NavRight(navs[s], flying, evaluated)
      BY <1>1, <1>11 DEF Notify, Continues, NavsInv
    <2>2. CASE navs' = [navs EXCEPT ![s].phase = "render"] /\ UNCHANGED loader
      <3> DEFINE n == navs[s]
                 m == [n EXCEPT !.phase = "render"]
      <3>1. navs' = [navs EXCEPT ![s] = m]
        BY <1>1, <2>2 DEF Typed
      <3>2. n \in Navs /\ NavRight(n, flying, evaluated)
        BY <2>1
      <3> HIDE DEF n
      <3>3. m \in Navs /\ m.phase = "render" /\ m.awaits = n.awaits
        BY <3>2 DEF Navs, Phases
      <3>4. NavRight(m, flying, evaluated)
        BY <3>2, <3>3 DEF NavRight
      <3> HIDE DEF m
      <3> QED
        BY <1>1, <2>2, <3>1, <3>3, <3>4, NavStep DEF loader, LoaderInv, Counted, Of, Extra
    <2>3. CASE Begin(s, Fallback, "replace") /\ Fallback # None
      <3>1. Fallback \in Paths /\ "replace" \in Kinds
        BY <2>3, BootRouterAssumption DEF Kinds
      <3> QED
        BY <1>1, <2>3, <3>1, BeginFacts
    <2>4. CASE navs' = [navs EXCEPT ![s] = None] /\ UNCHANGED loader
      BY <1>1, <2>4, NavStep DEF loader, LoaderInv, Counted, Of, Extra
    <2> QED
      BY <1>11, <2>2, <2>3, <2>4 DEF Notify
  <1>12. ASSUME NEW s \in Slots, Rendered(s)
         PROVE  Inv'
    <2>1. navs' = [navs EXCEPT ![s] = None] /\ UNCHANGED loader
      BY <1>12 DEF Rendered
    <2> QED
      BY <1>1, <2>1, NavStep DEF loader, LoaderInv, Counted, Of, Extra
  <1>13. ASSUME NEW p \in Paths, Hover(p) \/ Leave(p)
         PROVE  Inv'
    <2>1. navs' = navs /\ UNCHANGED loader
      BY <1>13 DEF Hover, Leave
    <2> QED
      BY <1>1, <2>1, NavsKept DEF loader, LoaderInv, Counted, Of, Extra
  <1>14. ASSUME NEW p \in Paths, Prefetch(p)
         PROVE  Inv'
    <2> DEFINE X == {x \in SegmentsOf(p) : pending[x] = None}
    <2>1. Request(X) /\ navs' = navs
      BY <1>14 DEF Prefetch
    <2>2. X \in SUBSET Things
      BY ThingsOf
    <2> HIDE DEF X
    <2>3. LoaderInv' /\ flying \subseteq flying' /\ evaluated \subseteq evaluated'
      BY <1>1, <2>1, <2>2, RequestFacts
    <2> QED
      BY <1>1, <2>1, <2>3, NavsKept
  <1>15. CASE Load
    <2> DEFINE p == IF leaving.reload THEN entries[index].path ELSE leaving.path
    <2>1. p \in Paths
      <3>1. leaving.reload \in BOOLEAN /\ leaving.path \in Paths
        BY <1>1, <1>15 DEF Load, BrowserInv
      <3>2. entries[index].path \in Paths
        BY <1>1, ElementOfSeq, EnteredFields DEF BrowserInv
      <3> QED
        BY <3>1, <3>2
    <2>2. Loaded(p) /\ clears' \in 0..MaxClears
      BY <1>1, <1>15 DEF Load, LoaderInv
    <2> QED
      BY <2>1, <2>2, LoadFacts
  <1>16. CASE UNCHANGED vars
    <2>1. navs' = navs /\ UNCHANGED loader
      BY <1>16 DEF vars
    <2> QED
      BY <1>1, <2>1, NavsKept DEF loader, LoaderInv, Counted, Of, Extra
  <1> QED
    BY <1>4, <1>5, <1>6, <1>7, <1>8, <1>9, <1>10, <1>11, <1>12, <1>13, <1>14, <1>15, <1>16
    DEF Next

LEMMA BrowserStep == IInv /\ [Next]_vars => BrowserInv'
  <1> SUFFICES ASSUME IInv, [Next]_vars
               PROVE  BrowserInv'
    OBVIOUS
  <1>1. Typed /\ NavsInv /\ BrowserInv
    BY DEF IInv, Typed
  <1>2. ASSUME NEW s \in Slots, navs[s] # None
        PROVE  /\ navs[s] \in Navs /\ navs[s].path \in Paths /\ navs[s].kind \in Kinds
               /\ navs[s].phase = "load" => Needs[navs[s].path] # None
    BY <1>1, <1>2, NavFields DEF NavsInv, NavRight
  <1>3. CASE UNCHANGED <<current, browser>>
    BY <1>1, <1>3 DEF browser, BrowserInv
  <1>4. ASSUME NEW s \in Slots, NEW i \in 1..Len(entries), PopState(s, i)
        PROVE  BrowserInv'
    <2>1. entries[i].path \in Paths
      BY <1>1, ElementOfSeq, EnteredFields DEF BrowserInv
    <2>2. current' \in Paths \cup {None}
      BY <1>1, <1>4, <2>1 DEF PopState, BrowserInv
    <2>3. index' = i /\ UNCHANGED <<entries, leaving>>
      BY <1>4 DEF PopState
    <2> QED
      BY <1>1, <2>2, <2>3 DEF BrowserInv
  <1>5. ASSUME NEW s \in Slots, Matched(s)
        PROVE  BrowserInv'
    <2>1. navs[s].path \in Paths /\ UNCHANGED <<entries, index>>
      BY <1>2, <1>5 DEF Matched, Continues
    <2>2. current' \in Paths \cup {None}
      BY <1>1, <1>5, <2>1 DEF Matched, BrowserInv
    <2>3. leaving' = leaving \/ \E b \in BOOLEAN : leaving' = [path |-> navs[s].path, reload |-> b]
      BY <1>5 DEF Matched
    <2>4. leaving' \in [path : Paths, reload : BOOLEAN] \cup {None}
      BY <1>1, <2>1, <2>3 DEF BrowserInv
    <2> QED
      BY <1>1, <2>1, <2>2, <2>4 DEF BrowserInv
  <1>6. ASSUME NEW s \in Slots, Notify(s)
        PROVE  BrowserInv'
    <2>1. /\ navs[s].path \in Paths /\ navs[s].kind \in Kinds /\ Needs[navs[s].path] # None
          /\ Enter(navs[s].path, navs[s].kind) /\ UNCHANGED <<current, leaving>>
      BY <1>2, <1>6 DEF Notify, Continues
    <2>2. /\ entries' \in Seq(Entered) /\ index' \in 1..Len(entries')
          /\ \A i \in 1..Len(entries') : entries'[i].match => Needs[entries'[i].path] # None
      BY <1>1, <2>1, EnterFacts
    <2> QED
      BY <1>1, <2>1, <2>2 DEF BrowserInv
  <1>7. CASE Load
    <2>1. current' = None /\ leaving' = None
      BY <1>7 DEF Load, Loaded
    <2>2. CASE leaving.reload
      BY <1>1, <1>7, <2>1, <2>2 DEF Load, BrowserInv
    <2>3. CASE ~leaving.reload
      <3> DEFINE e == [path |-> leaving.path, match |-> FALSE]
      <3>1. entries' = <<e>> /\ index' = 1
        BY <1>7, <2>3 DEF Load
      <3>2. leaving.path \in Paths
        BY <1>1, <1>7 DEF Load, BrowserInv
      <3>3. e \in Entered /\ e.match = FALSE
        BY <3>2, EnteredFields
      <3> HIDE DEF e
      <3>4. <<e>> \in Seq(Entered) /\ Len(<<e>>) = 1 /\ <<e>>[1] = e /\ 1..1 = {1}
        BY <3>3
      <3> QED
        BY <2>1, <3>1, <3>3, <3>4 DEF BrowserInv
    <2> QED
      BY <2>2, <2>3
  <1> QED
    BY <1>3, <1>4, <1>5, <1>6, <1>7
    DEF Next, vars, Succeed, Failed, Clear, Click, LoadForPath, Rendered, Hover, Leave, Prefetch

LEMMA HoverStep == IInv /\ [Next]_vars => HoverInv'
  <1> SUFFICES ASSUME IInv, [Next]_vars
               PROVE  HoverInv'
    OBVIOUS
  <1>1. HoverInv /\ MaxTimers \in Nat
    BY BootRouterAssumption DEF IInv
  <1>2. CASE UNCHANGED hover
    BY <1>1, <1>2 DEF hover, HoverInv
  <1>3. ASSUME NEW p \in Paths, Hover(p)
        PROVE  HoverInv'
    BY <1>1, <1>3 DEF Hover, HoverInv
  <1>4. ASSUME NEW p \in Paths, Leave(p) \/ Prefetch(p)
        PROVE  HoverInv'
    <2>1. /\ timers[p] > 0 /\ timers' = [timers EXCEPT ![p] = @ - 1]
          /\ mapped' = mapped \ {p}
      BY <1>1, <1>4 DEF Leave, Prefetch, Dropped, HoverInv
    <2> QED
      BY <1>1, <2>1 DEF HoverInv
  <1>5. CASE Load
    BY <1>1, <1>5 DEF Load, Loaded, HoverInv
  <1> QED
    BY <1>2, <1>3, <1>4, <1>5
    DEF Next, vars, Succeed, Failed, Clear, Click, PopState, Matched, LoadForPath, Notify, Rendered

-----------------------------------------------------------------------------
(* Theorems                                                                *)

\* The inductive invariant holds in every reachable state.
THEOREM Invariance == Spec => []IInv
  <1>1. Init => IInv
    BY InitHolds
  <1>2. IInv /\ [Next]_vars => IInv'
    BY NavsStep, BrowserStep, HoverStep DEF IInv, Inv, Typed
  <1> QED
    BY <1>1, <1>2, PTL DEF Spec

\* Every variable keeps its type, and every entry of prefetchTimers has a timer.
THEOREM TypeCorrect == Spec => []TypeOK
  <1>1. IInv => TypeOK
    BY DEF IInv, LoaderInv, BrowserInv, HoverInv, Entered, TypeOK
  <1> QED
    BY <1>1, Invariance, PTL

\* Promises in the maps, and those awaited, will be settled; of a thing there is one
\* request under way, and one more for each call of clear.
THEOREM RequestsShared == Spec => []Requests
  <1>1. ASSUME IInv
        PROVE  Requests
    <2>1. Answerable
      BY <1>1 DEF IInv, LoaderInv, Counted, NavsInv, NavRight, Answerable
    <2>2. ASSUME NEW x \in Things
          PROVE  Cardinality(Of(x)) <= 1 + clears
      <3>1. Cardinality(Of(x)) <= clears + Extra(x) /\ clears \in Nat
        <4>1. LoaderInv /\ Counted
          BY <1>1 DEF IInv, LoaderInv
        <4>2. clears \in Nat
          BY <4>1, IdsFacts DEF LoaderInv
        <4> QED
          BY <4>1, <4>2 DEF Counted
      <3>2. Cardinality(Of(x)) \in Nat
        BY <1>1, OfFinite DEF IInv, LoaderInv, Of
      <3>3. Extra(x) \in {0, 1}
        BY DEF Extra
      <3> QED
        BY <3>1, <3>2, <3>3
    <2>3. SingleFlight
      BY <2>2 DEF SingleFlight, Of
    <2> QED
      BY <2>1, <2>3 DEF Requests
  <1> QED
    BY <1>1, Invariance, PTL

\* A navigation that goes from its chunks to its handler has all of them.
LEMMA CallsHandler ==
  ASSUME IInv, Next, NEW s \in Slots,
         navs[s] # None, navs[s].phase = "load",
         navs'[s] # None, navs'[s].phase = "render", navs'[s].kind # "start"
  PROVE  navs[s].awaits = {}
  <1>1. Typed /\ navs[s] \in Navs /\ navs'[s] # navs[s]
    BY DEF IInv, NavsInv, Typed
  <1>2. ASSUME NEW r \in flying, Succeed(r) \/ Failed(r)
        PROVE  FALSE
    <2>1. CASE Succeed(r)
      <3>1. navs'[s] = [navs[s] EXCEPT !.awaits = @ \ {r}]
        BY <2>1 DEF Succeed
      <3>2. navs'[s].phase = navs[s].phase
        BY <1>1, <3>1 DEF Navs
      <3> QED
        BY <3>2
    <2>2. CASE Failed(r)
      <3>1. navs'[s] = [navs[s] EXCEPT !.awaits = @ \ {r}, !.null = TRUE]
        BY <1>1, <2>2 DEF Failed, Rejected
      <3>2. navs'[s].phase = navs[s].phase
        BY <1>1, <3>1 DEF Navs
      <3> QED
        BY <3>2
    <2> QED
      BY <1>2, <2>1, <2>2
  <1>3. CASE navs' = navs
    BY <1>1, <1>3
  <1>4. ASSUME NEW t \in Slots, NEW m, navs' = [navs EXCEPT ![t] = m]
        PROVE  t = s
    BY <1>1, <1>4 DEF Typed
  <1>5. ASSUME NEW t \in Slots, NEW p \in Paths, NEW kind \in {"push", "replace"}, Click(t, p, kind)
        PROVE  FALSE
    BY <1>4, <1>5 DEF Click, Begin
  <1>6. ASSUME NEW t \in Slots, NEW i \in 1..Len(entries), PopState(t, i)
        PROVE  FALSE
    BY <1>4, <1>6 DEF PopState, Begin
  <1>7. ASSUME NEW t \in Slots, Matched(t) \/ LoadForPath(t)
        PROVE  FALSE
    <2>1. t # s
      BY <1>7 DEF Matched, LoadForPath
    <2>2. navs'[s] = navs[s]
      BY <1>1, <1>7, <2>1 DEF Matched, LoadForPath, Typed
    <2> QED
      BY <1>1, <2>2
  <1>8. ASSUME NEW t \in Slots, Notify(t)
        PROVE  navs[s].awaits = {}
    <2>1. CASE t = s
      BY <1>8, <2>1 DEF Notify, Continues
    <2>2. CASE t # s
      <3>1. navs'[s] = navs[s]
        BY <1>1, <1>8, <2>2 DEF Notify, Begin, Typed
      <3> QED
        BY <1>1, <3>1
    <2> QED
      BY <2>1, <2>2
  <1>9. ASSUME NEW t \in Slots, Rendered(t)
        PROVE  FALSE
    BY <1>4, <1>9 DEF Rendered
  <1>10. CASE Load
    <2> DEFINE p == IF leaving.reload THEN entries[index].path ELSE leaving.path
    <2>1. PICK t \in Slots : navs' = StartedIn(p, t)
      BY <1>10 DEF Load, Loaded
    <2> HIDE DEF p
    <2>2. navs'[s] = Started(p)
      BY <2>1 DEF StartedIn
    <2>3. CASE p \in Routed
      <3>1. navs'[s].kind = "start"
        BY <2>2, <2>3 DEF Started, Nav
      <3> QED
        BY <3>1
    <2>4. CASE p \notin Routed /\ Fallback # None
      <3>1. navs'[s].phase = "match"
        BY <2>2, <2>4 DEF Started, Nav
      <3> QED
        BY <3>1
    <2>5. CASE p \notin Routed /\ Fallback = None
      BY <2>2, <2>5 DEF Started
    <2> QED
      BY <2>3, <2>4, <2>5
  <1> QED
    BY <1>2, <1>3, <1>5, <1>6, <1>7, <1>8, <1>9, <1>10 DEF Next, Clear, Hover, Leave, Prefetch

\* When the handler is called the chunks of the route are loaded, unless it is for a
\* popstate without the manifest of its segment.
THEOREM ChunksBeforeHandler == Spec => ChunksFirst
  <1>1. ASSUME IInv, Next, NEW s \in Slots,
               navs[s] # None, navs[s].phase = "load",
               navs'[s] # None, navs'[s].phase = "render", navs'[s].kind # "start"
        PROVE  navs[s].null \/ Needs[navs[s].path] \subseteq evaluated
    <2>1. NavRight(navs[s], flying, evaluated) /\ navs[s].null \in BOOLEAN
      BY <1>1, NavFields DEF IInv, NavsInv
    <2>2. Names(navs[s].awaits) = {}
      BY <1>1, CallsHandler DEF Names
    <2> QED
      BY <1>1, <2>1, <2>2 DEF NavRight
  <1>2. IInv /\ [Next]_vars =>
          [\A s \in Slots :
             navs[s] # None /\ navs[s].phase = "load" /\ navs'[s] # None
             /\ navs'[s].phase = "render" /\ navs'[s].kind # "start"
               => navs[s].null \/ Needs[navs[s].path] \subseteq evaluated]_vars
    BY <1>1
  <1> QED
    BY <1>2, Invariance, PTL DEF Spec, ChunksFirst
=============================================================================
