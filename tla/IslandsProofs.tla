---------------------------- MODULE IslandsProofs ----------------------------
(***************************************************************************)
(* Theorems about Islands, for every document, any names and triggers, and *)
(* any number of updates.                                                  *)
(*                                                                         *)
(* What protects an element of the document is its name: while it is held  *)
(* as loaded, a trigger of another element of this name does nothing, and  *)
(* only an update and a navigation let go of it, of an island they hydrate *)
(* again or replace.  An island with a namesake in the document is not     *)
(* protected, because they do so to the other one; the history twins names *)
(* these.                                                                  *)
(***************************************************************************)
EXTENDS Islands, SequenceTheorems, FiniteSetTheorems, TLAPS

-----------------------------------------------------------------------------
(* The inductive invariant                                                 *)

Distinct(E) == \A e, f \in E : Name[e] = Name[f] => e = f

\* There is nothing to do for an update that has not come, and an update awaits one
\* hydration at a time.
UpdatesOK ==
  /\ \A u \in 1..MaxUpdates : u > built => updates[u] = Done
  /\ \A h, g \in imports : h.update = g.update /\ h.update # 0 => h = g

\* What waits for an idle callback was in the document.
IdleOK == idle \in Seq((SUBSET used) \ {{}})

\* The elements of the document that share their name with no other one there.
Alone == doc \ twins

\* One of them whose import is under way holds its name, and the state map has its state.
HeldOK ==
  \A h \in imports :
    /\ h.el \in used
    /\ h.el \in Alone => Name[h.el] \in loaded /\ S[Name[h.el]] = h.el

\* One that was hydrated by a trigger was so once, and holds its name.
OnceOK ==
  /\ \A e \in Alone : begun[e] <= 1 /\ (begun[e] = 1 => Name[e] \in loaded)
  /\ \A e \in Elements \ used : begun[e] = 0

IInv ==
  /\ TypeOK /\ UpdatesOK /\ IdleOK /\ HeldOK /\ OnceOK
  /\ OwnState

-----------------------------------------------------------------------------
(* hydrate                                                                 *)

\* The types of what hydrate assigns.
HydrateType ==
  /\ S \in [Names -> Elements \cup {None}] /\ loaded \subseteq Names
  /\ imports \subseteq Hydration /\ begun \in [Elements -> Nat]

LEMMA NamesFacts ==
  /\ \A e \in Elements : Name[e] \in Names
  /\ \A E \in SUBSET Elements : NamesOf(E) \subseteq Names
  /\ \A E, e : e \in E => Name[e] \in NamesOf(E)
  /\ \A E, n : n \in NamesOf(E) => \E e \in E : Name[e] = n
  BY DEF Names, NamesOf

\* The elements in document order are as many as there are: the number of those before
\* an element is different for each.
LEMMA OrderedSeq ==
  ASSUME NEW E \in SUBSET Elements
  PROVE  Ordered(E) \in Seq(E)
  <1> DEFINE Below(e) == {f \in E : f < e}
             n == Cardinality(E)
             I == 0..n - 1
             rank == [e \in E |-> Cardinality(Below(e))]
  <1>1. IsFiniteSet(E) /\ n \in Nat /\ E \subseteq Nat
    BY IslandsAssumption, FS_Subset, FS_CardinalityType
  <1>2. ASSUME NEW e \in E
        PROVE  IsFiniteSet(Below(e)) /\ Cardinality(Below(e)) \in I
    <2>1. Below(e) \in SUBSET E /\ Below(e) # E
      BY <1>1
    <2> HIDE DEF Below
    <2>2. IsFiniteSet(Below(e)) /\ Cardinality(Below(e)) <= n /\ Cardinality(Below(e)) # n
      BY <1>1, <2>1, FS_Subset
    <2>3. Cardinality(Below(e)) \in Nat
      BY <2>2, FS_CardinalityType
    <2> QED BY <1>1, <2>2, <2>3
  <1>3. ASSUME NEW e \in E, NEW f \in E, e < f
        PROVE  Cardinality(Below(e)) # Cardinality(Below(f))
    <2>0. \A g \in E : g < e => g < f
      BY <1>1, <1>3
    <2>1. Below(e) \in SUBSET Below(f)
      BY <2>0
    <2>2. e \in Below(f) /\ e \notin Below(e)
      BY <1>1, <1>3
    <2> HIDE DEF Below
    <2> QED BY <1>2, <2>1, <2>2, FS_Subset
  <1> HIDE DEF Below
  <1>4. rank \in Injection(E, I)
    <2>1. rank \in [E -> I]
      BY <1>2
    <2>2. \A e, f \in E : rank[e] = rank[f] => e = f
      <3> SUFFICES ASSUME NEW e \in E, NEW f \in E, rank[e] = rank[f], e # f
                   PROVE  FALSE
        OBVIOUS
      <3>1. e < f \/ f < e
        BY <1>1
      <3> QED BY <1>3, <3>1
    <2> HIDE DEF rank, I
    <2>3. IsInjective(rank)
      BY <2>1, <2>2 DEF IsInjective
    <2> QED BY <2>1, <2>3 DEF Injection
  <1>5. IsFiniteSet(I) /\ Cardinality(I) = n
    <2>1. n - 1 \in Int /\ 0 \in Int
      BY <1>1
    <2>2. /\ IsFiniteSet(0..n - 1)
          /\ Cardinality(0..n - 1) = IF 0 > n - 1 THEN 0 ELSE n - 1 - 0 + 1
      BY <2>1, FS_Interval
    <2> QED BY <1>1, <2>2
  <1>6. rank \in Surjection(E, I)
    <2> HIDE DEF rank, I
    <2> QED BY <1>4, <1>5, FS_Injection
  <1>7. \A i \in I : \E e \in E : Cardinality(Below(e)) = i
    <2>1. \A i \in I : \E e \in E : rank[e] = i
      <3> HIDE DEF rank, I
      <3> QED BY <1>6 DEF Surjection
    <2> QED BY <2>1
  <1>8. \A i \in 1..n : (CHOOSE e \in E : Cardinality(Below(e)) = i - 1) \in E
    <2> SUFFICES ASSUME NEW i \in 1..n
                 PROVE  (CHOOSE e \in E : Cardinality(Below(e)) = i - 1) \in E
      OBVIOUS
    <2>1. i - 1 \in I
      BY <1>1
    <2> QED BY <1>7, <2>1
  <1>9. Ordered(E) = [i \in 1..n |-> CHOOSE e \in E : Cardinality(Below(e)) = i - 1]
    BY DEF Ordered, Below
  <1>10. Ordered(E) \in [1..n -> E]
    <2> HIDE DEF n
    <2> QED BY <1>8, <1>9
  <1> QED BY <1>1, <1>10, SeqDef

\* What is the last of some elements is one of them.
LEMMA LatestFact ==
  ASSUME NEW E \in SUBSET Elements, E # {}
  PROVE  Latest(E) \in E
  <1>1. IsFiniteSet(E)
    BY IslandsAssumption, FS_Subset
  <1>2. Cardinality(E) \in Nat /\ Cardinality(E) # 0
    BY <1>1, FS_CardinalityType, FS_EmptySet
  <1>3. Ordered(E) \in Seq(E)
    BY OrderedSeq
  <1>4. DOMAIN Ordered(E) = 1..Cardinality(E)
    BY DEF Ordered
  <1>5. Len(Ordered(E)) = Cardinality(E) /\ Cardinality(E) \in 1..Cardinality(E)
    BY <1>2, <1>3, <1>4, LenProperties
  <1>6. Ordered(E)[Cardinality(E)] \in E
    BY <1>3, <1>5, ElementOfSeq
  <1> QED BY <1>6 DEF Latest

\* Of the elements that stay in the document alone none loses its name, or finds it taken
\* by another; and none of those that are hydrated shares it with another one.
LEMMA HydrateStep ==
  ASSUME TypeOK, HeldOK, OnceOK, NEW by, NEW E \in SUBSET Elements, E = DOMAIN by,
         NEW on \in SUBSET Names, NEW stamp \in [Elements -> Stamps], NEW u \in Stamps,
         Hydrate(by, on, stamp, u),
         Alone' \cap used \subseteq Alone, used \subseteq used', E \subseteq used',
         Alone' \subseteq Elements,
         \A g \in Alone' \cap used : Name[g] \in loaded => Name[g] \in on \cup NamesOf(E),
         \A e \in E, g \in Alone' \cap used : Name[g] \in loaded /\ Name[e] = Name[g] => e = g,
         \A e \in E, g \in E \cap Alone' : Name[e] = Name[g] => e = g,
         \A e \in E \cap Alone' : by[e] = "trigger" => begun[e] = 0
  PROVE  HeldOK' /\ OnceOK' /\ HydrateType'
  <1> DEFINE L == E \cap Linked
             V == Alone'
  <1>0. /\ S \in [Names -> Elements \cup {None}] /\ loaded \subseteq Names
        /\ imports \subseteq Hydration /\ begun \in [Elements -> Nat]
    BY DEF TypeOK
  <1>1. /\ loaded' = on \cup NamesOf(E)
        /\ S' = [n \in Names |-> IF n \in NamesOf(L) THEN Latest(Called(n, L)) ELSE S[n]]
        /\ imports' = imports \cup {[el |-> e, stamp |-> stamp[e], update |-> u] : e \in L}
        /\ begun' = [e \in Elements |-> IF e \in L \ Gone /\ by[e] = "trigger"
                                        THEN begun[e] + 1 ELSE begun[e]]
    BY DEF Hydrate, StateOf
  <1>a. /\ V \cap used \subseteq Alone /\ V \subseteq Elements
        /\ \A g \in V \cap used : Name[g] \in loaded => Name[g] \in on \cup NamesOf(E)
        /\ \A e \in E, g \in V \cap used : Name[g] \in loaded /\ Name[e] = Name[g] => e = g
        /\ \A e \in E, g \in E \cap V : Name[e] = Name[g] => e = g
        /\ \A e \in E \cap V : by[e] = "trigger" => begun[e] = 0
    OBVIOUS
  <1>b. /\ HeldOK' <=> \A h \in imports' :
             /\ h.el \in used'
             /\ h.el \in V => Name[h.el] \in loaded' /\ S'[Name[h.el]] = h.el
        /\ OnceOK' <=>
             /\ \A e \in V : begun'[e] <= 1 /\ (begun'[e] = 1 => Name[e] \in loaded')
             /\ \A e \in Elements \ used' : begun'[e] = 0
    BY DEF HeldOK, OnceOK
  <1> HIDE DEF L, V
  <1>2. L \subseteq E /\ L \subseteq Linked /\ L \subseteq Elements
    BY DEF L
  <1>3. ASSUME NEW e \in L, e \in V
        PROVE  Name[e] \in Names /\ S'[Name[e]] = e
    <2>1. Name[e] \in Names /\ Name[e] \in NamesOf(L)
      BY <1>2, NamesFacts
    <2>2. Called(Name[e], L) = {e}
      BY <1>2, <1>3, <1>a DEF Called
    <2>3. Latest({e}) = e
      BY <1>2, LatestFact
    <2> QED BY <1>1, <2>1, <2>2, <2>3
  <1>4. ASSUME NEW n \in Names
        PROVE  S'[n] = S[n] \/ \E e \in L : Name[e] = n /\ S'[n] = e
    <2>1. CASE n \in NamesOf(L)
      <3>1. PICK e \in L : Name[e] = n
        BY <2>1, NamesFacts
      <3>2. Called(n, L) \in SUBSET Elements /\ Called(n, L) # {}
        BY <1>2, <3>1 DEF Called
      <3>3. Latest(Called(n, L)) \in Called(n, L)
        BY <3>2, LatestFact
      <3> QED BY <1>1, <2>1, <3>3 DEF Called
    <2>2. CASE n \notin NamesOf(L)
      BY <1>1, <2>2
    <2> QED BY <2>1, <2>2
  <1>5. HydrateType'
    <2>1. \A n \in Names : S'[n] \in Elements \cup {None}
      BY <1>0, <1>2, <1>4
    <2>2. S' \in [Names -> Elements \cup {None}]
      BY <1>1, <2>1
    <2>3. loaded' \subseteq Names
      BY <1>1, NamesFacts
    <2>4. \A e \in L : [el |-> e, stamp |-> stamp[e], update |-> u] \in Hydration
      BY <1>2 DEF Hydration
    <2>5. imports' \subseteq Hydration
      BY <1>0, <1>1, <2>4
    <2>6. begun' \in [Elements -> Nat]
      BY <1>0, <1>1
    <2> QED BY <2>2, <2>3, <2>5, <2>6 DEF HydrateType
  <1>6. ASSUME NEW h \in imports'
        PROVE  /\ h.el \in used'
               /\ h.el \in V => Name[h.el] \in loaded' /\ S'[Name[h.el]] = h.el
    <2>1. CASE h \in imports
      <3>1. h.el \in used /\ h.el \in Elements
        BY <1>0, <2>1, IslandsAssumption DEF HeldOK, Hydration
      <3>2. CASE h.el \in V
        <4>1. h.el \in V \cap used /\ Name[h.el] \in loaded /\ S[Name[h.el]] = h.el
          BY <1>a, <2>1, <3>1, <3>2 DEF HeldOK
        <4>2. Name[h.el] \in loaded' /\ Name[h.el] \in Names
          BY <1>1, <1>a, <3>1, <4>1, NamesFacts
        <4>3. \A e \in L : Name[e] = Name[h.el] => e = h.el
          BY <1>2, <1>a, <4>1
        <4> QED BY <1>4, <3>1, <4>1, <4>2, <4>3
      <3> QED BY <3>1, <3>2
    <2>2. CASE \E e \in L : h = [el |-> e, stamp |-> stamp[e], update |-> u]
      <3>1. PICK e \in L : h = [el |-> e, stamp |-> stamp[e], update |-> u]
        BY <2>2
      <3>2. h.el = e
        BY <3>1
      <3>3. Name[e] \in loaded' /\ e \in used'
        BY <1>1, <1>2, NamesFacts
      <3> QED BY <1>3, <3>2, <3>3
    <2> QED BY <1>1, <2>1, <2>2
  <1>7. ASSUME NEW e \in V
        PROVE  begun'[e] <= 1 /\ (begun'[e] = 1 => Name[e] \in loaded')
    <2>1. e \in Elements
      BY <1>a
    <2>2. CASE e \in L \ Gone /\ by[e] = "trigger"
      <3>1. begun[e] = 0 /\ begun'[e] = 1
        BY <1>1, <1>2, <1>a, <2>1, <2>2
      <3> QED BY <1>1, <1>2, <2>2, <3>1, NamesFacts
    <2>3. CASE ~(e \in L \ Gone /\ by[e] = "trigger")
      <3>1. begun'[e] = begun[e]
        BY <1>1, <2>1, <2>3
      <3>2. CASE e \in used
        <4>1. e \in Alone
          BY <1>a, <3>2
        <4>2. begun[e] <= 1 /\ (begun[e] = 1 => Name[e] \in loaded)
          BY <4>1 DEF OnceOK
        <4> QED BY <1>1, <1>a, <3>1, <3>2, <4>2
      <3>3. CASE e \notin used
        <4>1. begun[e] = 0
          BY <2>1, <3>3 DEF OnceOK
        <4> QED BY <3>1, <4>1
      <3> QED BY <3>2, <3>3
    <2> QED BY <2>2, <2>3
  <1>8. ASSUME NEW e \in Elements \ used'
        PROVE  begun'[e] = 0
    <2>1. e \notin L /\ e \notin used
      BY <1>2
    <2>2. begun[e] = 0
      BY <2>1 DEF OnceOK
    <2> QED BY <1>1, <2>1, <2>2
  <1> QED BY <1>5, <1>6, <1>7, <1>8, <1>b

\* Elements with names of their own, none of which is loaded, are triggered.
LEMMA SomeTriggered ==
  ASSUME IInv, NEW P \in SUBSET Elements,
         Hydrate([e \in P |-> "trigger"], loaded, url, 0),
         Distinct(P), \A e \in P : Name[e] \notin loaded,
         Alone' \cap used \subseteq Alone, used \subseteq used', P \subseteq used',
         Alone' \subseteq Elements
  PROVE  /\ HeldOK' /\ OnceOK' /\ HydrateType'
         /\ \A h \in imports' : h \in imports \/ h.update = 0
         /\ imports \subseteq imports'
  <1> DEFINE by == [e \in P |-> "trigger"]
  <1>0. TypeOK /\ HeldOK /\ OnceOK /\ loaded \in SUBSET Names /\ url \in [Elements -> Stamps]
        /\ 0 \in Stamps
    BY IslandsAssumption DEF IInv, TypeOK, Stamps
  <1>1. P = DOMAIN by /\ Hydrate(by, loaded, url, 0)
    OBVIOUS
  <1>2. \A e \in P, g \in P \cap Alone' : Name[e] = Name[g] => e = g
    BY DEF Distinct
  <1>3. ASSUME NEW e \in P \cap Alone'
        PROVE  begun[e] = 0
    <2>1. CASE e \in used
      <3>1. e \in Alone /\ e \in Elements /\ Name[e] \notin loaded
        BY <2>1
      <3>2. begun[e] \in Nat /\ begun[e] <= 1 /\ begun[e] # 1
        BY <1>0, <3>1 DEF TypeOK, OnceOK
      <3> QED BY <3>2
    <2>2. CASE e \notin used
      BY <1>0, <2>2 DEF OnceOK
    <2> QED BY <2>1, <2>2
  <1>4. imports' = imports \cup {[el |-> e, stamp |-> url[e], update |-> 0] : e \in P \cap Linked}
    BY DEF Hydrate
  <1>5. /\ \A g \in Alone' \cap used : Name[g] \in loaded => Name[g] \in loaded \cup NamesOf(P)
        /\ \A e \in P, g \in Alone' \cap used : Name[g] \in loaded /\ Name[e] = Name[g] => e = g
        /\ \A e \in P \cap Alone' : by[e] = "trigger" => begun[e] = 0
    BY <1>3
  <1> HIDE DEF by
  <1>6. HeldOK' /\ OnceOK' /\ HydrateType'
    BY <1>0, <1>1, <1>2, <1>5, HydrateStep
  <1> QED BY <1>4, <1>6

\* What passes is distinct, and not loaded.
LEMMA PassingFacts ==
  ASSUME NEW E \in SUBSET Elements, NEW on
  PROVE  /\ Passing(E, on) \subseteq E /\ Distinct(Passing(E, on))
         /\ \A e \in Passing(E, on) : Name[e] \notin on
  <1>1. /\ Passing(E, on) \subseteq E
        /\ \A e \in Passing(E, on) : Name[e] \notin on
        /\ \A e, f \in Passing(E, on) : Name[e] = Name[f] => e <= f /\ f <= e
    BY DEF Passing
  <1>2. \A e \in Passing(E, on) : e \in Nat
    BY <1>1, IslandsAssumption
  <1> QED BY <1>1, <1>2 DEF Distinct

-----------------------------------------------------------------------------
(* What the steps have in common                                           *)

\* The types of what hydrate does not assign.
RestType ==
  /\ ready \in BOOLEAN /\ matches \in BOOLEAN
  /\ doc \subseteq used /\ used \subseteq Elements
  /\ url \in [Elements -> Stamps]
  /\ idle \in Seq((SUBSET Elements) \ {{}})
  /\ watched \subseteq used /\ media \subseteq used
  /\ built \in Stamps
  /\ updates \in [1..MaxUpdates -> [todo : Seq(Names), waiting : BOOLEAN]]
  /\ given \subseteq doc /\ ended \in [Elements -> SUBSET Stamps]
  /\ Namesakes(doc) \subseteq twins /\ twins \subseteq doc

\* An update waits for as long as its import is under way.
WaitingOK == \A u \in 1..MaxUpdates : updates[u].waiting <=> \E h \in imports : h.update = u

LEMMA TypeParts ==
  /\ TypeOK => HydrateType /\ RestType /\ WaitingOK
  /\ (HydrateType /\ RestType /\ WaitingOK => TypeOK)'
  BY DEF TypeOK, HydrateType, RestType, WaitingOK

\* What is armed was in the document.
LEMMA ArmStep ==
  ASSUME TypeOK, IdleOK, NEW E \in SUBSET used', NEW F \in SUBSET used', Arm(E, F),
         used \subseteq used', used' \subseteq Elements
  PROVE  /\ IdleOK' /\ idle' \in Seq((SUBSET Elements) \ {{}})
         /\ watched' \subseteq used' /\ media' \subseteq used'
  <1> DEFINE B == (SUBSET used') \ {{}}
  <1>1. idle \in Seq(B)
    <2>1. (SUBSET used) \ {{}} \subseteq B
      OBVIOUS
    <2> QED BY <2>1, SeqMonotonic DEF IdleOK
  <1>2. ASSUME NEW G \in SUBSET used'  PROVE Batch(G) \in Seq(B)
    <2> DEFINE I == {e \in G : Trigger[e] = "idle"}
    <2>1. Batch(G) = IF I = {} THEN <<>> ELSE <<I>>
      BY DEF Batch
    <2>2. CASE I = {}
      BY <2>1, <2>2, EmptySeq
    <2>3. CASE I # {}
      <3>1. I \in B
        BY <2>3
      <3> HIDE DEF I
      <3>2. <<I>> \in Seq(B)
        BY <3>1
      <3> QED BY <2>1, <2>3, <3>2
    <2> QED BY <2>2, <2>3
  <1>3. idle' = (idle \o Batch(E)) \o Batch(F)
    BY DEF Arm
  <1> HIDE DEF B
  <1>4. idle \o Batch(E) \in Seq(B)
    BY <1>1, <1>2, ConcatProperties
  <1>5. idle' \in Seq(B)
    BY <1>2, <1>3, <1>4, ConcatProperties
  <1>6. IdleOK'
    BY <1>5 DEF B, IdleOK
  <1>7. B \subseteq (SUBSET Elements) \ {{}}
    BY DEF B
  <1>8. idle' \in Seq((SUBSET Elements) \ {{}})
    BY <1>5, <1>7, SeqMonotonic
  <1> QED BY <1>6, <1>8 DEF Arm, TypeOK

\* A step in which no update begins or ends a hydration.
LEMMA UpdatesStep ==
  ASSUME TypeOK, UpdatesOK, updates' = updates, built' \in Stamps, built <= built',
         \A h \in imports' : h \in imports \/ h.update = 0, imports \subseteq imports'
  PROVE  WaitingOK' /\ UpdatesOK'
  <1>1. WaitingOK'
    <2> SUFFICES ASSUME NEW u \in 1..MaxUpdates
                 PROVE  updates[u].waiting <=> \E h \in imports' : h.update = u
      BY DEF WaitingOK
    <2>1. u # 0
      OBVIOUS
    <2> QED BY <2>1, TypeParts DEF WaitingOK
  <1>2. \A h, g \in imports' : h.update = g.update /\ h.update # 0 => h = g
    BY DEF UpdatesOK
  <1>3. \A u \in 1..MaxUpdates : u > built' => updates'[u] = Done
    BY IslandsAssumption DEF UpdatesOK, TypeOK, Stamps
  <1> QED BY <1>1, <1>2, <1>3 DEF UpdatesOK

\* A step that only triggers: it adds to the document what was never in it, and changes
\* what waits for a trigger.
LEMMA OnlyTriggered ==
  ASSUME IInv, NEW P \in SUBSET used',
         Hydrate([e \in P |-> "trigger"], loaded, url, 0),
         Distinct(P), \A e \in P : Name[e] \notin loaded,
         doc' \cap used \subseteq doc, used \subseteq used', used' \subseteq Elements,
         doc \subseteq doc', doc' \subseteq used',
         twins \subseteq twins', twins' \subseteq doc', Namesakes(doc') \subseteq twins',
         ready' \in BOOLEAN, matches' \in BOOLEAN,
         IdleOK', idle' \in Seq((SUBSET Elements) \ {{}}),
         watched' \subseteq used', media' \subseteq used',
         built' \in Stamps, built <= built',
         UNCHANGED <<url, updates, given, ended>>
  PROVE  IInv'
  <1>1. TypeOK /\ UpdatesOK /\ OwnState /\ RestType
    BY TypeParts DEF IInv
  <1>a. Alone' \cap used \subseteq Alone /\ Alone' \subseteq Elements /\ P \in SUBSET Elements
    BY DEF Alone
  <1>2. /\ HeldOK' /\ OnceOK' /\ HydrateType'
        /\ \A h \in imports' : h \in imports \/ h.update = 0
        /\ imports \subseteq imports'
    BY <1>a, SomeTriggered
  <1>3. WaitingOK' /\ UpdatesOK'
    BY <1>1, <1>2, UpdatesStep
  <1>4. RestType'
    <2>1. (Namesakes(doc) \subseteq twins)'
      OBVIOUS
    <2> QED BY <1>1, <2>1 DEF RestType
  <1>5. TypeOK'
    BY <1>2, <1>3, <1>4, TypeParts
  <1>6. OwnState'
    BY <1>1 DEF OwnState
  <1> QED BY <1>2, <1>3, <1>5, <1>6 DEF IInv

-----------------------------------------------------------------------------
(* Triggers                                                                *)

LEMMA ParseStep ==
  ASSUME IInv, NEW e \in Elements, NEW observed \in BOOLEAN, Parse(e, observed)
  PROVE  IInv'
  <1> DEFINE E == IF observed THEN {e} ELSE {}
             P == Passing(AtOnce(E), loaded)
  <1>1. TypeOK /\ IdleOK /\ RestType
    BY TypeParts DEF IInv
  <1>2. /\ doc' = doc \cup {e} /\ used' = used \cup {e} /\ ready' = FALSE
        /\ twins' = twins \cup Namesakes(doc')
        /\ Arm(E, {}) /\ Hydrate([f \in P |-> "trigger"], loaded, url, 0)
        /\ UNCHANGED <<url, matches, built, updates, given, ended>>
        /\ \A f \in used : f < e
    BY DEF Parse, Triggered
  <1>3. e \notin used
    BY <1>2, IslandsAssumption
  <1>4. E \in SUBSET used' /\ AtOnce(E) \in SUBSET used'
    <2>1. AtOnce(E) \subseteq E
      BY DEF AtOnce
    <2> QED BY <1>2, <2>1
  <1> HIDE DEF E
  <1>7. /\ doc' \cap used \subseteq doc /\ used \subseteq used' /\ used' \subseteq Elements
        /\ doc \subseteq doc' /\ doc' \subseteq used'
        /\ twins \subseteq twins' /\ twins' \subseteq doc' /\ Namesakes(doc') \subseteq twins'
        /\ built' \in Stamps /\ built <= built' /\ ready' \in BOOLEAN /\ matches' \in BOOLEAN
    <2>1. /\ doc' \cap used \subseteq doc /\ used \subseteq used' /\ used' \subseteq Elements
          /\ doc \subseteq doc' /\ doc' \subseteq used'
      BY <1>1, <1>2, <1>3 DEF RestType
    <2>2. built' \in Stamps /\ built <= built'
      BY <1>1, <1>2, IslandsAssumption DEF RestType, Stamps
    <2>3. ready' \in BOOLEAN /\ matches' \in BOOLEAN
      BY <1>1, <1>2 DEF RestType
    <2>4. Namesakes(doc') \subseteq doc'
      BY DEF Namesakes
    <2>5. twins \subseteq twins' /\ twins' \subseteq doc' /\ Namesakes(doc') \subseteq twins'
      BY <1>1, <1>2, <2>1, <2>4 DEF RestType
    <2> QED BY <2>1, <2>2, <2>3, <2>5
  <1>5. /\ IdleOK' /\ idle' \in Seq((SUBSET Elements) \ {{}})
        /\ watched' \subseteq used' /\ media' \subseteq used'
    BY <1>1, <1>2, <1>4, <1>7, ArmStep
  <1>6. P \in SUBSET used' /\ Distinct(P) /\ \A f \in P : Name[f] \notin loaded
    BY <1>4, <1>7, PassingFacts
  <1> HIDE DEF P
  <1> QED BY <1>2, <1>5, <1>6, <1>7, OnlyTriggered

\* The steps that leave the document as it is.
LEMMA StayStep ==
  ASSUME IInv, NEW P \in SUBSET used,
         Hydrate([e \in P |-> "trigger"], loaded, url, 0),
         Distinct(P), \A e \in P : Name[e] \notin loaded,
         UNCHANGED <<doc, used, url, updates, given, ended, twins>>,
         ready' \in BOOLEAN, matches' \in BOOLEAN,
         IdleOK', idle' \in Seq((SUBSET Elements) \ {{}}),
         watched' \subseteq used, media' \subseteq used,
         built' \in Stamps, built <= built'
  PROVE  IInv'
  <1>1. RestType
    BY TypeParts DEF IInv
  <1>2. /\ P \in SUBSET used' /\ doc' \cap used \subseteq doc /\ used \subseteq used'
        /\ used' \subseteq Elements /\ doc \subseteq doc' /\ doc' \subseteq used'
        /\ twins \subseteq twins' /\ twins' \subseteq doc'
        /\ watched' \subseteq used' /\ media' \subseteq used'
    BY <1>1 DEF RestType
  <1>3. Namesakes(doc') \subseteq twins'
    BY <1>1 DEF RestType
  <1> QED BY <1>2, <1>3, OnlyTriggered

LEMMA TriggerStep ==
  ASSUME IInv, NEW E \in SUBSET used, Triggered(E, loaded),
         UNCHANGED <<doc, used, url, updates, given, ended, twins>>,
         ready' \in BOOLEAN, matches' \in BOOLEAN,
         IdleOK', idle' \in Seq((SUBSET Elements) \ {{}}),
         watched' \subseteq used, media' \subseteq used,
         built' \in Stamps, built <= built'
  PROVE  IInv'
  <1> DEFINE P == Passing(E, loaded)
  <1>1. E \in SUBSET Elements
    BY DEF IInv, TypeOK
  <1>2. P \in SUBSET used /\ Distinct(P) /\ \A e \in P : Name[e] \notin loaded
    BY <1>1, PassingFacts
  <1>3. Hydrate([e \in P |-> "trigger"], loaded, url, 0)
    BY DEF Triggered
  <1> HIDE DEF P
  <1> QED BY <1>2, <1>3, StayStep

LEMMA ReadyStep ==
  ASSUME IInv, Ready
  PROVE  IInv'
  <1>1. TypeOK /\ IdleOK /\ RestType
    BY TypeParts DEF IInv
  <1>2. /\ ready' = TRUE /\ Arm(doc, {}) /\ Triggered(AtOnce(doc), loaded)
        /\ UNCHANGED <<doc, used, url, matches, built, updates, given, ended, twins>>
    BY DEF Ready
  <1>3. /\ doc \in SUBSET used' /\ AtOnce(doc) \in SUBSET used
        /\ used \subseteq used' /\ used' \subseteq Elements
        /\ built' \in Stamps /\ built <= built' /\ ready' \in BOOLEAN /\ matches' \in BOOLEAN
    <2>1. AtOnce(doc) \subseteq doc
      BY DEF AtOnce
    <2>2. doc \subseteq used /\ used' = used /\ used \subseteq Elements
      BY <1>1, <1>2 DEF RestType
    <2>3. doc \in SUBSET used' /\ AtOnce(doc) \in SUBSET used
      BY <2>1, <2>2
    <2>4. built' \in Stamps /\ built <= built'
      BY <1>1, <1>2, IslandsAssumption DEF RestType, Stamps
    <2>5. ready' \in BOOLEAN /\ matches' \in BOOLEAN
      BY <1>1, <1>2 DEF RestType
    <2> QED BY <2>2, <2>3, <2>4, <2>5
  <1>4. /\ IdleOK' /\ idle' \in Seq((SUBSET Elements) \ {{}})
        /\ watched' \subseteq used' /\ media' \subseteq used'
    BY <1>1, <1>2, <1>3, ArmStep
  <1>5. watched' \subseteq used /\ media' \subseteq used
    BY <1>2, <1>4
  <1> QED BY <1>2, <1>3, <1>4, <1>5, TriggerStep

LEMMA RescanStep ==
  ASSUME IInv, Rescan
  PROVE  IInv'
  <1> DEFINE D == doc \cap Islands
  <1>1. TypeOK /\ IdleOK /\ RestType
    BY TypeParts DEF IInv
  <1>2. /\ ready' = TRUE /\ Arm(D, {}) /\ Triggered(AtOnce(D), loaded)
        /\ built < MaxUpdates /\ built' = built + 1
        /\ UNCHANGED <<doc, used, url, matches, updates, given, ended, twins>>
    BY DEF Rescan
  <1>3. /\ D \in SUBSET used' /\ AtOnce(D) \in SUBSET used
        /\ used \subseteq used' /\ used' \subseteq Elements
        /\ built' \in Stamps /\ built <= built' /\ ready' \in BOOLEAN /\ matches' \in BOOLEAN
    <2>1. AtOnce(D) \subseteq D
      BY DEF AtOnce
    <2>2. D \subseteq used /\ used' = used /\ used \subseteq Elements
      BY <1>1, <1>2 DEF RestType
    <2>3. D \in SUBSET used' /\ AtOnce(D) \in SUBSET used
      BY <2>1, <2>2
    <2>4. built' \in Stamps /\ built <= built'
      BY <1>1, <1>2, IslandsAssumption DEF RestType, Stamps
    <2>5. ready' \in BOOLEAN /\ matches' \in BOOLEAN
      BY <1>1, <1>2 DEF RestType
    <2> QED BY <2>2, <2>3, <2>4, <2>5
  <1> HIDE DEF D
  <1>4. /\ IdleOK' /\ idle' \in Seq((SUBSET Elements) \ {{}})
        /\ watched' \subseteq used' /\ media' \subseteq used'
    BY <1>1, <1>2, <1>3, ArmStep
  <1>5. watched' \subseteq used /\ media' \subseteq used
    BY <1>2, <1>4
  <1> QED BY <1>2, <1>3, <1>4, <1>5, TriggerStep

LEMMA IdleStep ==
  ASSUME IInv, NEW e \in Elements, Idle(e)
  PROVE  IInv'
  <1> DEFINE B == (SUBSET used) \ {{}}
  <1>1. TypeOK /\ IdleOK /\ RestType
    BY TypeParts DEF IInv
  <1>2. /\ idle # <<>> /\ e \in Head(idle)
        /\ idle' = IF Head(idle) = {e} THEN Tail(idle) ELSE [idle EXCEPT ![1] = @ \ {e}]
        /\ UNCHANGED <<ready, doc, used, url, watched, media, matches, built, updates, given,
                       ended, twins>>
        /\ Triggered({e}, loaded)
    BY DEF Idle
  <1>3. idle \in Seq(B)
    BY <1>1 DEF IdleOK
  <1>4. Head(idle) \in B /\ Tail(idle) \in Seq(B)
    <2> HIDE DEF B
    <2> QED BY <1>2, <1>3, HeadTailProperties
  <1>5. idle' \in Seq(B)
    <2>1. CASE Head(idle) = {e}
      BY <1>2, <1>4, <2>1
    <2>2. CASE Head(idle) # {e}
      <3>1. Head(idle) = idle[1] /\ 1 \in 1..Len(idle)
        <4> HIDE DEF B
        <4> QED BY <1>2, <1>3, EmptySeq
      <3>2. idle[1] \ {e} \in B
        BY <1>2, <1>4, <2>2, <3>1
      <3>3. idle' = [idle EXCEPT ![1] = idle[1] \ {e}]
        BY <1>2, <2>2
      <3> HIDE DEF B
      <3> QED BY <1>3, <3>1, <3>2, <3>3, ExceptSeq
    <2> QED BY <2>1, <2>2
  <1>6. IdleOK'
    BY <1>2, <1>5 DEF IdleOK
  <1>7. B \subseteq (SUBSET Elements) \ {{}} /\ {e} \in SUBSET used
    BY <1>1, <1>2, <1>4 DEF RestType
  <1> HIDE DEF B
  <1>8. idle' \in Seq((SUBSET Elements) \ {{}})
    BY <1>5, <1>7, SeqMonotonic
  <1>9. /\ ready' \in BOOLEAN /\ matches' \in BOOLEAN /\ watched' \subseteq used
        /\ media' \subseteq used /\ built' \in Stamps /\ built <= built'
    BY <1>1, <1>2, IslandsAssumption DEF RestType, Stamps
  <1> QED BY <1>2, <1>6, <1>7, <1>8, <1>9, TriggerStep

LEMMA VisibleStep ==
  ASSUME IInv, NEW e \in Elements, Visible(e)
  PROVE  IInv'
  <1>1. TypeOK /\ IdleOK /\ RestType
    BY TypeParts DEF IInv
  <1>2. /\ e \in doc /\ watched' = watched \ {e} /\ Triggered({e}, loaded)
        /\ UNCHANGED <<ready, doc, used, url, idle, media, matches, built, updates, given, ended, twins>>
    BY DEF Visible
  <1>3. IdleOK' /\ idle' \in Seq((SUBSET Elements) \ {{}})
    BY <1>1, <1>2 DEF IdleOK, RestType
  <1>4. /\ ready' \in BOOLEAN /\ matches' \in BOOLEAN /\ watched' \subseteq used
        /\ media' \subseteq used /\ built' \in Stamps /\ built <= built' /\ {e} \in SUBSET used
    BY <1>1, <1>2, IslandsAssumption DEF RestType, Stamps
  <1> QED BY <1>2, <1>3, <1>4, TriggerStep

LEMMA ManualStep ==
  ASSUME IInv, NEW e \in Elements, Manual(e)
  PROVE  IInv'
  <1>1. TypeOK /\ IdleOK /\ RestType
    BY TypeParts DEF IInv
  <1>2. /\ e \in doc /\ Triggered({e}, loaded)
        /\ UNCHANGED <<ready, doc, used, url, idle, watched, media, matches, built, updates,
                       given, ended, twins>>
    BY DEF Manual
  <1>3. IdleOK' /\ idle' \in Seq((SUBSET Elements) \ {{}})
    BY <1>1, <1>2 DEF IdleOK, RestType
  <1>4. /\ ready' \in BOOLEAN /\ matches' \in BOOLEAN /\ watched' \subseteq used
        /\ media' \subseteq used /\ built' \in Stamps /\ built <= built' /\ {e} \in SUBSET used
    BY <1>1, <1>2, IslandsAssumption DEF RestType, Stamps
  <1> QED BY <1>2, <1>3, <1>4, TriggerStep

\* A step that leaves hydrations and updates as they are.
LEMMA StillStep ==
  ASSUME IInv,
         UNCHANGED <<doc, used, S, loaded, imports, built, updates, begun, given, twins>>,
         IdleOK', RestType'
  PROVE  IInv'
  <1>1. UpdatesOK /\ HeldOK /\ OnceOK /\ OwnState /\ HydrateType /\ WaitingOK
    BY TypeParts DEF IInv
  <1>2. UpdatesOK' /\ OwnState'
    BY <1>1 DEF UpdatesOK, OwnState
  <1>3. HeldOK' /\ OnceOK'
    BY <1>1 DEF HeldOK, OnceOK, Alone
  <1>4. HydrateType' /\ WaitingOK'
    BY <1>1 DEF HydrateType, WaitingOK
  <1>5. TypeOK'
    BY <1>4, TypeParts
  <1> QED BY <1>2, <1>3, <1>5 DEF IInv

LEMMA MediaStep ==
  ASSUME IInv, Media
  PROVE  IInv'
  <1>1. TypeOK /\ IdleOK /\ RestType
    BY TypeParts DEF IInv
  <1>2. /\ matches' = ~matches
        /\ UNCHANGED <<ready, doc, used, url, idle, watched, built, updates, given, ended, twins>>
    BY DEF Media
  <1>3. IdleOK' /\ idle' \in Seq((SUBSET Elements) \ {{}})
    BY <1>1, <1>2 DEF IdleOK, RestType
  <1>4. CASE matches
    <2>1. UNCHANGED <<media, S, loaded, imports, begun>>
      BY <1>4 DEF Media
    <2>2. RestType'
      BY <1>1, <1>2, <1>3, <2>1 DEF RestType
    <2> QED BY <1>2, <1>3, <2>1, <2>2, StillStep
  <1>5. CASE ~matches
    <2>1. PICK first \in [NamesOf(media) \ loaded -> media] :
             /\ \A n \in DOMAIN first : Name[first[n]] = n
             /\ Hydrate([e \in {first[n] : n \in DOMAIN first} |-> "trigger"], loaded, url, 0)
      BY <1>5 DEF Media
    <2> DEFINE P == {first[n] : n \in DOMAIN first}
    <2>2. media' = {}
      BY <1>5 DEF Media
    <2>3. P \subseteq media /\ \A e \in P : Name[e] \in NamesOf(media) \ loaded /\ e = first[Name[e]]
      BY <2>1
    <2>4. Distinct(P) /\ \A e \in P : Name[e] \notin loaded
      BY <2>3 DEF Distinct
    <2>5. /\ ready' \in BOOLEAN /\ matches' \in BOOLEAN /\ watched' \subseteq used
          /\ media' \subseteq used /\ built' \in Stamps /\ built <= built'
          /\ media \in SUBSET used
      BY <1>1, <1>2, <2>2, IslandsAssumption DEF RestType, Stamps
    <2>6. P \in SUBSET used /\ Hydrate([e \in P |-> "trigger"], loaded, url, 0)
      BY <2>1, <2>3, <2>5
    <2> HIDE DEF P
    <2> QED BY <1>2, <1>3, <2>4, <2>5, <2>6, StayStep
  <1> QED BY <1>4, <1>5

-----------------------------------------------------------------------------
(* Imports                                                                 *)

\* An import ends, and with it the waiting of the update that asked for it.
LEMMA AwaitedStep ==
  ASSUME TypeOK, UpdatesOK, NEW h \in imports, imports' = imports \ {h},
         updates' = Awaited(h), built' = built
  PROVE  /\ WaitingOK' /\ UpdatesOK'
         /\ updates' \in [1..MaxUpdates -> [todo : Seq(Names), waiting : BOOLEAN]]
  <1> DEFINE U == [todo : Seq(Names), waiting : BOOLEAN]
  <1>1. /\ updates \in [1..MaxUpdates -> U] /\ WaitingOK
        /\ h.update \in Stamps /\ imports \subseteq Hydration
    BY TypeParts DEF TypeOK, Hydration
  <1>2. \A v \in 1..MaxUpdates : v # h.update => updates'[v] = updates[v]
    BY <1>1 DEF Awaited
  <1>3. h.update # 0 => /\ h.update \in 1..MaxUpdates
                        /\ updates'[h.update] = [updates[h.update] EXCEPT !.waiting = FALSE]
    <2> SUFFICES ASSUME h.update # 0
                 PROVE  /\ h.update \in 1..MaxUpdates
                        /\ updates'[h.update] = [updates[h.update] EXCEPT !.waiting = FALSE]
      OBVIOUS
    <2>1. h.update \in 1..MaxUpdates
      BY <1>1, IslandsAssumption DEF Stamps
    <2>2. updates' = [updates EXCEPT ![h.update] = [updates[h.update] EXCEPT !.waiting = FALSE]]
      BY DEF Awaited
    <2> QED BY <1>1, <2>1, <2>2
  <1>4. updates' \in [1..MaxUpdates -> U]
    <2>1. CASE h.update = 0
      BY <1>1, <2>1 DEF Awaited
    <2>2. CASE h.update # 0
      <3>1. updates' = [updates EXCEPT ![h.update].waiting = FALSE]
        BY <2>2 DEF Awaited
      <3> QED BY <1>1, <3>1
    <2> QED BY <2>1, <2>2
  <1>5. WaitingOK'
    <2> SUFFICES ASSUME NEW v \in 1..MaxUpdates
                 PROVE  updates'[v].waiting <=> \E g \in imports' : g.update = v
      BY DEF WaitingOK
    <2>0. v # 0
      OBVIOUS
    <2>1. CASE v = h.update
      <3>1. updates[v] \in U
        BY <1>1
      <3>2. updates'[v].waiting = FALSE
        BY <1>3, <2>0, <2>1, <3>1
      <3>3. \A g \in imports' : g.update # v
        BY <2>0, <2>1 DEF UpdatesOK
      <3> QED BY <3>2, <3>3
    <2>2. CASE v # h.update
      BY <1>1, <1>2, <2>2 DEF WaitingOK
    <2> QED BY <2>1, <2>2
  <1>6. \A v \in 1..MaxUpdates : v > built' => updates'[v] = Done
    <2> SUFFICES ASSUME NEW v \in 1..MaxUpdates, v > built
                 PROVE  updates'[v] = Done
      OBVIOUS
    <2>1. updates[v] = Done /\ Done.waiting = FALSE
      BY DEF UpdatesOK, Done
    <2>2. v # h.update
      BY <1>1, <2>1 DEF WaitingOK
    <2> QED BY <1>2, <2>1, <2>2
  <1>7. \A g, k \in imports' : g.update = k.update /\ g.update # 0 => g = k
    BY DEF UpdatesOK
  <1> QED BY <1>4, <1>5, <1>6, <1>7 DEF UpdatesOK

LEMMA EndedType ==
  ASSUME TypeOK, NEW h \in imports
  PROVE  Ended(h) \in [Elements -> SUBSET Stamps]
  <1>1. h.stamp \in Stamps /\ ended \in [Elements -> SUBSET Stamps]
    BY DEF TypeOK, Hydration
  <1> QED BY <1>1 DEF Ended

LEMMA AnsweredStep ==
  ASSUME IInv, NEW h \in imports, imports' = imports \ {h}, updates' = Awaited(h),
         UNCHANGED <<ready, doc, used, url, S, loaded, idle, watched, media, matches, built,
                     begun, twins>>,
         ended' = Ended(h), given' \subseteq doc, given' \subseteq twins
  PROVE  IInv'
  <1>1. /\ UpdatesOK /\ IdleOK /\ HeldOK /\ OnceOK /\ TypeOK /\ HydrateType /\ RestType
    BY TypeParts DEF IInv
  <1>2. /\ WaitingOK' /\ UpdatesOK'
        /\ updates' \in [1..MaxUpdates -> [todo : Seq(Names), waiting : BOOLEAN]]
    BY <1>1, AwaitedStep
  <1>3. RestType'
    <2>1. ended' \in [Elements -> SUBSET Stamps]
      BY <1>1, EndedType
    <2>2. (Namesakes(doc) \subseteq twins)'
      BY <1>1 DEF RestType
    <2> QED BY <1>1, <1>2, <2>1, <2>2 DEF RestType
  <1>4. HydrateType'
    BY <1>1 DEF HydrateType
  <1>5. IdleOK' /\ OwnState'
    BY <1>1 DEF IdleOK, OwnState
  <1>6. HeldOK' /\ OnceOK'
    BY <1>1 DEF HeldOK, OnceOK, Alone
  <1>7. TypeOK'
    BY <1>2, <1>3, <1>4, TypeParts
  <1> QED BY <1>2, <1>5, <1>6, <1>7 DEF IInv

\* Only an element with a namesake finds the state of another.
LEMMA CallStep ==
  ASSUME IInv, NEW h \in imports, Call(h)
  PROVE  IInv'
  <1>1. TypeOK /\ HeldOK /\ OwnState
    BY DEF IInv
  <1>2. /\ imports' = imports \ {h} /\ updates' = Awaited(h) /\ ended' = Ended(h)
        /\ UNCHANGED <<ready, doc, used, url, S, loaded, idle, watched, media, matches, built,
                       begun, twins>>
        /\ given' = IF h.el \in doc /\ S[Name[h.el]] # h.el THEN given \cup {h.el} ELSE given
    BY DEF Call
  <1>3. given' \subseteq doc
    BY <1>1, <1>2 DEF TypeOK
  <1>4. given' \subseteq twins
    BY <1>1, <1>2 DEF HeldOK, Alone, OwnState
  <1> QED BY <1>2, <1>3, <1>4, AnsweredStep

LEMMA FailStep ==
  ASSUME IInv, NEW h \in imports, Fail(h)
  PROVE  IInv'
  <1>1. TypeOK /\ OwnState
    BY DEF IInv
  <1>2. /\ imports' = imports \ {h} /\ updates' = Awaited(h) /\ ended' = Ended(h)
        /\ UNCHANGED <<ready, doc, used, url, S, loaded, idle, watched, media, matches, built,
                       begun, given, twins>>
    BY DEF Fail
  <1>3. given' \subseteq doc /\ given' \subseteq twins
    BY <1>1, <1>2 DEF TypeOK, OwnState
  <1> QED BY <1>2, <1>3, AnsweredStep

-----------------------------------------------------------------------------
(* Navigation                                                              *)

\* An island that stays and was there with no namesake keeps its name, since none of the
\* islands that go has it; and one that has no namesake now is hydrated by itself.
LEMMA UpdateDOMStep ==
  ASSUME IInv, NEW out \in SUBSET (doc \ Kept), NEW N \in SUBSET (Elements \ Kept),
         NEW roots \in SUBSET N, NEW rerender \in BOOLEAN, UpdateDOM(out, N, roots, rerender)
  PROVE  IInv'
  <1> DEFINE new == (doc \ out) \cup N
             on == loaded \ Unloaded(out)
             R == IF rerender THEN new \cap Islands ELSE {}
             A == AtOnce((new \ R) \cup roots)
             T == Passing(A \ R, on)
             by == [e \in T \cup R |-> IF e \in R THEN "rerender" ELSE "trigger"]
             D == new \ R
             V == new \ ((twins \cap new) \cup Namesakes(new))
  <1>1. /\ UpdatesOK /\ IdleOK /\ HeldOK /\ OnceOK /\ OwnState
        /\ TypeOK /\ RestType /\ loaded \subseteq Names
    BY TypeParts DEF IInv, TypeOK
  <1>2. /\ N \cap used = {}
        /\ doc' = new /\ used' = used \cup N /\ ready' = TRUE
        /\ Arm(D, roots)
        /\ given' = given \cap new
        /\ ended' = [e \in Elements |-> IF e \in new THEN ended[e] ELSE {}]
        /\ twins' = (twins \cap new) \cup Namesakes(new)
        /\ UNCHANGED <<url, matches, built, updates>>
        /\ Hydrate(by, on, url, 0)
    BY DEF UpdateDOM
  <1>a. Alone' = V
    BY <1>2 DEF Alone
  <1>3. /\ \A e \in N : e \notin used
        /\ used \subseteq used' /\ used' \subseteq Elements /\ new \subseteq used'
    BY <1>1, <1>2 DEF RestType
  <1>4. /\ new \cap used \subseteq doc \ out
        /\ R \subseteq new \cap Islands /\ D \subseteq new
    BY <1>2, <1>3
  <1>5. A \subseteq D \cup roots
    BY DEF AtOnce
  <1>6. /\ T \subseteq A \ R /\ Distinct(T) /\ \A e \in T : Name[e] \notin on
    <2>1. A \ R \in SUBSET Elements
      BY <1>1, <1>4, <1>5 DEF RestType
    <2> HIDE DEF A, on, R
    <2> QED BY <2>1, PassingFacts
  <1>7. T \subseteq new /\ T \cap R = {} /\ (R # {} => R = new \cap Islands)
    BY <1>5, <1>6
  <1>8. /\ T \cup R = DOMAIN by
        /\ \A e \in T \cup R : by[e] = "trigger" => e \in T
    OBVIOUS
  <1>9. /\ on \subseteq loaded
        /\ \A m \in loaded \ on : \E f \in out \cap Islands : Name[f] = m
    BY DEF Unloaded, NamesOf
  <1>b. ASSUME NEW g \in V \cap Islands, NEW e \in new \cap Islands, Name[e] = Name[g]
        PROVE  e = g
    BY <1>b DEF Namesakes, Called
  <1>c. V \cap used \subseteq Alone
    BY <1>4 DEF Alone
  <1>d. V \subseteq new
    OBVIOUS
  <1> HIDE DEF D, by, T, A, R, on, V
  <1>10. ASSUME NEW e \in T \cup R, NEW g \in (T \cup R) \cap V, Name[e] = Name[g]
         PROVE  e = g
    <2>1. \A h \in T, k \in R : Name[h] # Name[k]
      <3> SUFFICES ASSUME NEW h \in T, NEW k \in R
                   PROVE  Name[h] # Name[k]
        OBVIOUS
      <3>1. h \in new /\ h \notin Islands /\ k \in Islands
        BY <1>4, <1>6, <1>7
      <3> QED BY <1>3, <3>1, IslandsAssumption
    <2>2. CASE e \in T /\ g \in T
      BY <1>6, <1>10, <2>2 DEF Distinct
    <2>3. CASE e \in R /\ g \in R
      BY <1>4, <1>10, <1>b, <2>3
    <2> QED BY <1>10, <2>1, <2>2, <2>3
  <1>11. ASSUME NEW g \in V \cap used, Name[g] \in loaded
         PROVE  Name[g] \in on
    <2> SUFFICES ASSUME Name[g] \notin on
                 PROVE  FALSE
      OBVIOUS
    <2>1. PICK f \in out \cap Islands : Name[f] = Name[g]
      BY <1>9, <1>11
    <2>2. g \in doc \ out /\ g \in Elements /\ g \notin twins
      BY <1>1, <1>4, <1>c, <1>d DEF RestType, Alone
    <2>3. CASE g \in Islands
      <3>1. f \in Called(Name[g], doc) /\ f # g /\ g \in doc \cap Islands
        BY <2>1, <2>2, <2>3 DEF Called
      <3>2. g \in Namesakes(doc)
        BY <3>1 DEF Namesakes
      <3> QED BY <1>1, <2>2, <3>2 DEF RestType
    <2>4. CASE g \notin Islands
      BY <2>1, <2>2, <2>4, IslandsAssumption
    <2> QED BY <2>3, <2>4
  <1>12. ASSUME NEW e \in T \cup R, NEW g \in V \cap used,
                Name[g] \in loaded, Name[e] = Name[g]
         PROVE  e = g
    <2>1. e \in R
      BY <1>6, <1>11, <1>12
    <2>2. e \in new \cap Islands /\ g \in new /\ g \in Elements
      BY <1>3, <1>4, <1>d, <2>1
    <2>3. CASE g \in Islands
      BY <1>12, <1>b, <2>2, <2>3
    <2>4. CASE g \notin Islands
      BY <1>12, <2>2, <2>4, IslandsAssumption
    <2> QED BY <2>3, <2>4
  <1>13. ASSUME NEW e \in (T \cup R) \cap V, by[e] = "trigger"
         PROVE  begun[e] = 0
    <2>1. e \in T /\ e \in Elements
      BY <1>3, <1>7, <1>8, <1>13
    <2>2. CASE e \in used
      <3>1. e \in Alone /\ Name[e] \notin loaded
        BY <1>6, <1>11, <1>c, <2>1, <2>2
      <3>2. begun[e] \in Nat /\ begun[e] <= 1 /\ begun[e] # 1
        BY <1>1, <2>1, <3>1 DEF TypeOK, OnceOK
      <3> QED BY <3>2
    <2>3. CASE e \notin used
      BY <1>1, <2>1, <2>3 DEF OnceOK
    <2> QED BY <2>2, <2>3
  <1>14. /\ T \cup R \in SUBSET Elements /\ T \cup R \subseteq used'
         /\ on \in SUBSET Names /\ url \in [Elements -> Stamps] /\ 0 \in Stamps
         /\ V \subseteq Elements
    BY <1>1, <1>3, <1>4, <1>7, <1>9, <1>d, IslandsAssumption DEF RestType, Stamps
  <1>15. HeldOK' /\ OnceOK' /\ HydrateType'
    <2>1. \A g \in V \cap used : Name[g] \in loaded => Name[g] \in on \cup NamesOf(T \cup R)
      BY <1>11
    <2>2. /\ \A e \in T \cup R, g \in V \cap used :
               Name[g] \in loaded /\ Name[e] = Name[g] => e = g
          /\ \A e \in T \cup R, g \in (T \cup R) \cap V : Name[e] = Name[g] => e = g
          /\ \A e \in (T \cup R) \cap V : by[e] = "trigger" => begun[e] = 0
      BY <1>10, <1>12, <1>13
    <2> DEFINE X == T \cup R
    <2>3. /\ X \in SUBSET Elements /\ X = DOMAIN by /\ X \subseteq used'
          /\ \A g \in Alone' \cap used : Name[g] \in loaded => Name[g] \in on \cup NamesOf(X)
          /\ \A e \in X, g \in Alone' \cap used : Name[g] \in loaded /\ Name[e] = Name[g] => e = g
          /\ \A e \in X, g \in X \cap Alone' : Name[e] = Name[g] => e = g
          /\ \A e \in X \cap Alone' : by[e] = "trigger" => begun[e] = 0
      BY <1>8, <1>14, <1>a, <2>1, <2>2
    <2>4. Alone' \cap used \subseteq Alone /\ Alone' \subseteq Elements
      BY <1>14, <1>a, <1>c
    <2> HIDE DEF X
    <2> QED BY <1>1, <1>2, <1>3, <1>14, <2>3, <2>4, HydrateStep
  <1>16. WaitingOK' /\ UpdatesOK'
    <2>1. imports' = imports \cup {[el |-> e, stamp |-> url[e], update |-> 0] :
                                   e \in (T \cup R) \cap Linked}
      BY <1>2, <1>8 DEF Hydrate
    <2>2. (\A h \in imports' : h \in imports \/ h.update = 0) /\ imports \subseteq imports'
      BY <2>1
    <2>3. built' \in Stamps /\ built <= built'
      BY <1>1, <1>2, IslandsAssumption DEF RestType, Stamps
    <2> QED BY <1>1, <1>2, <2>2, <2>3, UpdatesStep
  <1>18. OwnState'
    BY <1>1, <1>2 DEF OwnState
  <1>19. /\ IdleOK' /\ idle' \in Seq((SUBSET Elements) \ {{}})
         /\ watched' \subseteq used' /\ media' \subseteq used'
    <2>1. D \in SUBSET used' /\ roots \in SUBSET used'
      BY <1>2, <1>3, <1>4
    <2> QED BY <1>1, <1>2, <1>3, <2>1, ArmStep
  <1>20. RestType'
    <2>1. ended' \in [Elements -> SUBSET Stamps] /\ given' \subseteq doc'
      <3> HIDE DEF new
      <3> QED BY <1>1, <1>2 DEF RestType
    <2>2. doc' \subseteq used' /\ used' \subseteq Elements
      BY <1>2, <1>3
    <2>3. Namesakes(doc') \subseteq twins' /\ twins' \subseteq doc'
      <3> HIDE DEF new
      <3>1. Namesakes(new) \subseteq new
        BY DEF Namesakes
      <3> QED BY <1>2, <3>1
    <2>4. (Namesakes(doc) \subseteq twins)'
      BY <2>3
    <2> QED BY <1>1, <1>2, <1>19, <2>1, <2>2, <2>3, <2>4 DEF RestType
  <1>21. TypeOK'
    BY <1>15, <1>16, <1>20, TypeParts
  <1> QED BY <1>15, <1>16, <1>18, <1>19, <1>21 DEF IInv

-----------------------------------------------------------------------------
(* Updates                                                                 *)

LEMMA WildcardType == ASSUME TypeOK PROVE Wildcard \in Seq(Names)
  <1> DEFINE D == doc \cap Islands
             o == Ordered(D)
  <1>1. D \in SUBSET Elements
    BY IslandsAssumption
  <1>2. o \in Seq(D)
    BY <1>1, OrderedSeq
  <1>3. Wildcard = [i \in DOMAIN o |-> Name[o[i]]]
    BY DEF Wildcard
  <1> HIDE DEF o, D
  <1>4. Len(o) \in Nat /\ DOMAIN o = 1..Len(o) /\ \A i \in 1..Len(o) : o[i] \in D
    BY <1>2, LenProperties, ElementOfSeq
  <1>5. \A i \in 1..Len(o) : Name[o[i]] \in Names
    BY <1>1, <1>4, NamesFacts
  <1> QED BY <1>3, <1>4, <1>5

LEMMA UpdateStep ==
  ASSUME IInv, NEW names \in Seq(Names), Update(names)
  PROVE  IInv'
  <1> DEFINE U == [todo : Seq(Names), waiting : BOOLEAN]
             v == built + 1
             m == [todo |-> names, waiting |-> FALSE]
  <1>1. /\ UpdatesOK /\ IdleOK /\ HeldOK /\ OnceOK /\ OwnState
        /\ TypeOK /\ HydrateType /\ RestType /\ WaitingOK
    BY TypeParts DEF IInv
  <1>2. /\ built < MaxUpdates /\ built' = v
        /\ updates' = [updates EXCEPT ![built'] = m]
        /\ UNCHANGED <<ready, doc, used, url, S, loaded, idle, watched, media, matches, imports,
                       begun, given, ended, twins>>
    BY DEF Update
  <1>3. v \in 1..MaxUpdates /\ v \in Stamps /\ v > built /\ built \in Nat
    BY <1>1, <1>2, IslandsAssumption DEF RestType, Stamps
  <1>4. m \in U /\ m.waiting = FALSE
    OBVIOUS
  <1>5. updates[v] = Done /\ Done.waiting = FALSE
    BY <1>1, <1>3 DEF UpdatesOK, Done
  <1> HIDE DEF m, v
  <1>6. updates' \in [1..MaxUpdates -> U]
    BY <1>1, <1>2, <1>3, <1>4 DEF RestType
  <1>7. /\ updates'[v] = m
        /\ \A w \in 1..MaxUpdates : w # v => updates'[w] = updates[w]
    BY <1>1, <1>2, <1>3 DEF RestType
  <1>8. WaitingOK'
    <2> SUFFICES ASSUME NEW w \in 1..MaxUpdates
                 PROVE  updates'[w].waiting <=> \E h \in imports : h.update = w
      BY <1>2 DEF WaitingOK
    <2>1. CASE w = v
      BY <1>1, <1>4, <1>5, <1>7, <2>1 DEF WaitingOK
    <2>2. CASE w # v
      BY <1>1, <1>7, <2>2 DEF WaitingOK
    <2> QED BY <2>1, <2>2
  <1>9. UpdatesOK'
    <2>1. \A w \in 1..MaxUpdates : w > built' => updates'[w] = Done
      BY <1>1, <1>2, <1>3, <1>7 DEF UpdatesOK, v
    <2>2. \A h, g \in imports' : h.update = g.update /\ h.update # 0 => h = g
      BY <1>1, <1>2 DEF UpdatesOK
    <2> QED BY <2>1, <2>2 DEF UpdatesOK
  <1>10. RestType'
    <2>1. (Namesakes(doc) \subseteq twins)'
      BY <1>1, <1>2 DEF RestType
    <2> QED BY <1>1, <1>2, <1>3, <1>6, <2>1 DEF RestType
  <1>11. HydrateType' /\ IdleOK' /\ OwnState'
    BY <1>1, <1>2 DEF HydrateType, IdleOK, OwnState
  <1>12. HeldOK' /\ OnceOK'
    BY <1>1, <1>2 DEF HeldOK, OnceOK, Alone
  <1>13. TypeOK'
    BY <1>8, <1>10, <1>11, TypeParts
  <1> QED BY <1>9, <1>11, <1>12, <1>13 DEF IInv

\* The first island of the name is all that its update hydrates; it lets go of no name but
\* this, which no other island has, or those that have it have a namesake.
LEMMA UpdateNextStep ==
  ASSUME IInv, NEW u \in 1..MaxUpdates, UpdateNext(u)
  PROVE  IInv'
  <1> DEFINE U == [todo : Seq(Names), waiting : BOOLEAN]
             n == Head(updates[u].todo)
             found == Query(n)
             stamp == [e \in Elements |-> IF e \in found \cap Linked THEN u ELSE url[e]]
             P == Passing(found, Reset(n))
             by == [e \in P |-> "update"]
             w == [todo |-> Tail(updates[u].todo), waiting |-> P \cap Linked # {}]
  <1>1. /\ UpdatesOK /\ IdleOK /\ HeldOK /\ OnceOK /\ OwnState
        /\ TypeOK /\ HydrateType /\ RestType /\ WaitingOK
    BY TypeParts DEF IInv
  <1>2. /\ updates[u].todo # <<>> /\ ~updates[u].waiting
        /\ updates' = [updates EXCEPT ![u] = w]
        /\ url' = stamp
        /\ UNCHANGED <<ready, doc, used, idle, watched, media, matches, built, given, ended, twins>>
        /\ found = {} => UNCHANGED <<S, loaded, imports, begun>>
        /\ found # {} => Hydrate(by, Reset(n), stamp, u)
    BY DEF UpdateNext
  <1>3. /\ updates[u] \in U /\ updates \in [1..MaxUpdates -> U]
        /\ n \in Names /\ Tail(updates[u].todo) \in Seq(Names)
    <2>1. updates[u] \in U /\ updates \in [1..MaxUpdates -> U] /\ updates[u].todo \in Seq(Names)
      BY <1>1 DEF RestType
    <2> QED BY <1>2, <2>1, HeadTailProperties
  <1>4. u \in Stamps /\ u # 0 /\ ~(u > built)
    <2>1. Done.todo = <<>>
      BY DEF Done
    <2> QED BY <1>1, <1>2, <2>1, IslandsAssumption DEF UpdatesOK, Stamps
  <1>5. stamp \in [Elements -> Stamps]
    BY <1>1, <1>4 DEF RestType
  <1>6. found \subseteq doc \cap Islands /\ \A e \in found : Name[e] = n
    BY DEF Query, Called
  <1>7. \A e \in found : found = {e}
    <2>1. \A e, f \in found : e <= f /\ f <= e
      BY DEF Query, Called
    <2>2. found \subseteq Nat
      BY <1>6, IslandsAssumption
    <2> HIDE DEF found
    <2>3. \A e, f \in found : e = f
      BY <2>1, <2>2
    <2> QED BY <2>3
  <1>8. P = found
    <2>1. n \notin Reset(n)
      BY DEF Reset
    <2>2. found \subseteq Nat
      BY <1>1, <1>6, IslandsAssumption
    <2>3. \A e, f \in found : Name[f] = Name[e] => e <= f
      <3> SUFFICES ASSUME NEW e \in found, NEW f \in found
                   PROVE  e <= f
        OBVIOUS
      <3>1. e = f /\ e \in Nat
        BY <1>7, <2>2
      <3> QED BY <3>1
    <2>4. \A e \in found : Name[e] \notin Reset(n)
      BY <1>6, <2>1
    <2> HIDE DEF found, n
    <2> QED BY <2>3, <2>4 DEF Passing
  <1>9. w \in U /\ (w.waiting <=> found \cap Linked # {})
    BY <1>3, <1>8
  <1> HIDE DEF w, stamp, by, found
  <1>10. updates' \in [1..MaxUpdates -> U]
    BY <1>2, <1>3, <1>9
  <1>11. updates'[u] = w /\ \A v \in 1..MaxUpdates : v # u => updates'[v] = updates[v]
    BY <1>2, <1>3
  <1>12. \A h \in imports : h.update # u
    BY <1>1, <1>2 DEF WaitingOK
  <1>13. /\ HeldOK' /\ OnceOK' /\ HydrateType'
         /\ imports' = imports \cup {[el |-> e, stamp |-> stamp[e], update |-> u] :
                                     e \in found \cap Linked}
    <2>1. CASE found = {}
      <3>1. HeldOK' /\ OnceOK' /\ HydrateType'
        BY <1>1, <1>2, <2>1 DEF HeldOK, OnceOK, HydrateType, Alone
      <3> QED BY <1>2, <2>1, <3>1
    <2>2. CASE found # {}
      <3>1. PICK e \in doc \cap Islands : found = {e} /\ Name[e] = n
        BY <1>6, <1>7, <2>2
      <3>2. e \in Elements /\ P = {e} /\ DOMAIN by = {e} /\ by[e] = "update"
        BY <1>8, <3>1, IslandsAssumption DEF by
      <3>3. Hydrate(by, loaded \ {n}, stamp, u)
        BY <1>2, <2>2 DEF Reset
      <3>0. Alone' = Alone
        BY <1>2 DEF Alone
      <3>4. \A g \in Alone : Name[g] = n => g = e
        <4> SUFFICES ASSUME NEW g \in Alone, Name[g] = n, g # e
                     PROVE  FALSE
          OBVIOUS
        <4>1. g \in Elements /\ g \in doc /\ g \notin twins
          BY <1>1 DEF RestType, Alone
        <4>2. CASE g \in Islands
          <5>1. e \in Called(Name[g], doc)
            BY <3>1 DEF Called
          <5>2. g \in Namesakes(doc)
            BY <4>1, <4>2, <5>1 DEF Namesakes
          <5> QED BY <1>1, <4>1, <5>2 DEF RestType
        <4>3. CASE g \notin Islands
          BY <3>1, <4>1, <4>3, IslandsAssumption
        <4> QED BY <4>2, <4>3
      <3>5. /\ {e} \in SUBSET Elements /\ {e} = DOMAIN by /\ loaded \ {n} \in SUBSET Names
            /\ Alone' \cap used \subseteq Alone /\ used \subseteq used' /\ {e} \subseteq used'
            /\ Alone' \subseteq Elements
        BY <1>1, <1>2, <3>0, <3>1, <3>2 DEF RestType, HydrateType, Alone
      <3>6. NamesOf({e}) = {n}
        BY <3>1 DEF NamesOf
      <3>7. \A g \in Alone' \cap used : Name[g] \in loaded => Name[g] \in (loaded \ {n}) \cup NamesOf({e})
        BY <3>6
      <3>8. \A f \in {e}, g \in Alone' \cap used : Name[g] \in loaded /\ Name[f] = Name[g] => f = g
        BY <3>0, <3>1, <3>4
      <3>9. /\ \A f \in {e}, g \in {e} \cap Alone' : Name[f] = Name[g] => f = g
            /\ \A f \in {e} \cap Alone' : by[f] = "trigger" => begun[f] = 0
        BY <3>2
      <3>10. HeldOK' /\ OnceOK' /\ HydrateType'
        <4> HIDE DEF n
        <4> QED BY <1>1, <1>4, <1>5, <3>3, <3>5, <3>7, <3>8, <3>9, HydrateStep
      <3>11. imports' = imports \cup {[el |-> f, stamp |-> stamp[f], update |-> u] :
                                      f \in found \cap Linked}
        BY <3>1, <3>2, <3>3 DEF Hydrate
      <3> QED BY <3>10, <3>11
    <2> QED BY <2>1, <2>2
  <1>14. \A h \in imports' \ imports : h.update = u
    BY <1>13
  <1>15. WaitingOK'
    <2> SUFFICES ASSUME NEW v \in 1..MaxUpdates
                 PROVE  updates'[v].waiting <=> \E h \in imports' : h.update = v
      BY DEF WaitingOK
    <2>1. CASE v = u
      <3>1. (\E h \in imports' : h.update = u) <=> found \cap Linked # {}
        <4>1. ASSUME NEW e \in found \cap Linked  PROVE \E h \in imports' : h.update = u
          <5>1. [el |-> e, stamp |-> stamp[e], update |-> u] \in imports'
            BY <1>13
          <5> QED BY <5>1
        <4>2. ASSUME NEW h \in imports', h.update = u  PROVE found \cap Linked # {}
          BY <1>12, <1>13, <4>2
        <4> QED BY <4>1, <4>2
      <3> QED BY <1>9, <1>11, <2>1, <3>1
    <2>2. CASE v # u
      <3>1. (\E h \in imports' : h.update = v) <=> \E h \in imports : h.update = v
        BY <1>13, <1>14, <2>2
      <3> QED BY <1>1, <1>11, <2>2, <3>1 DEF WaitingOK
    <2> QED BY <2>1, <2>2
  <1>16. UpdatesOK'
    <2>1. \A v \in 1..MaxUpdates : v > built' => updates'[v] = Done
      BY <1>1, <1>2, <1>4, <1>11 DEF UpdatesOK
    <2>2. ASSUME NEW h \in imports', NEW g \in imports', h.update = g.update, h.update # 0
          PROVE  h = g
      <3>1. CASE h.update = u
        <4>1. h \notin imports /\ g \notin imports
          BY <1>12, <2>2, <3>1
        <4>2. PICK e \in found \cap Linked : h = [el |-> e, stamp |-> stamp[e], update |-> u]
          BY <1>13, <4>1
        <4>3. PICK f \in found \cap Linked : g = [el |-> f, stamp |-> stamp[f], update |-> u]
          BY <1>13, <4>1
        <4>4. e = f
          BY <1>7
        <4> QED BY <4>2, <4>3, <4>4
      <3>2. CASE h.update # u
        BY <1>1, <1>14, <2>2, <3>2 DEF UpdatesOK
      <3> QED BY <3>1, <3>2
    <2> QED BY <2>1, <2>2 DEF UpdatesOK
  <1>17. RestType'
    <2>1. (Namesakes(doc) \subseteq twins)'
      BY <1>1, <1>2 DEF RestType
    <2> QED BY <1>1, <1>2, <1>5, <1>10, <2>1 DEF RestType
  <1>18. IdleOK' /\ OwnState'
    BY <1>1, <1>2 DEF IdleOK, OwnState
  <1>19. TypeOK'
    BY <1>13, <1>15, <1>17, TypeParts
  <1> QED BY <1>13, <1>16, <1>18, <1>19 DEF IInv

-----------------------------------------------------------------------------
(* The theorems                                                            *)

LEMMA InitIInv == Init => IInv
  <1> SUFFICES ASSUME Init PROVE IInv
    OBVIOUS
  <1>1. /\ ready = FALSE /\ doc = {} /\ used = {} /\ loaded = {} /\ idle = <<>>
        /\ url = [e \in Elements |-> 0] /\ S = [k \in Names |-> None]
        /\ watched = {} /\ media = {} /\ matches \in BOOLEAN /\ imports = {} /\ built = 0
        /\ updates = [u \in 1..MaxUpdates |-> Done] /\ begun = [e \in Elements |-> 0]
        /\ given = {} /\ ended = [e \in Elements |-> {}] /\ twins = {}
    BY DEF Init
  <1>2. 0 \in Stamps
    BY IslandsAssumption DEF Stamps
  <1>3. Done \in [todo : Seq(Names), waiting : BOOLEAN] /\ Done.waiting = FALSE
    BY DEF Done
  <1>4. updates \in [1..MaxUpdates -> [todo : Seq(Names), waiting : BOOLEAN]]
    BY <1>1, <1>3
  <1>5. /\ idle \in Seq((SUBSET Elements) \ {{}}) /\ IdleOK
    BY <1>1, EmptySeq DEF IdleOK
  <1>6. /\ url \in [Elements -> Stamps] /\ S \in [Names -> Elements \cup {None}]
        /\ begun \in [Elements -> Nat] /\ ended \in [Elements -> SUBSET Stamps]
        /\ Namesakes(doc) \subseteq twins /\ twins \subseteq doc
    BY <1>1, <1>2 DEF Namesakes
  <1>7. \A u \in 1..MaxUpdates : updates[u].waiting <=> \E h \in imports : h.update = u
    BY <1>1, <1>3
  <1>8. TypeOK
    BY <1>1, <1>2, <1>4, <1>5, <1>6, <1>7 DEF TypeOK
  <1>9. UpdatesOK /\ HeldOK /\ OwnState
    BY <1>1 DEF UpdatesOK, HeldOK, OwnState
  <1>10. OnceOK
    BY <1>1 DEF OnceOK, Alone
  <1> QED BY <1>5, <1>8, <1>9, <1>10 DEF IInv

LEMMA NextIInv == IInv /\ [Next]_vars => IInv'
  <1> SUFFICES ASSUME IInv, [Next]_vars PROVE IInv'
    OBVIOUS
  <1>1. ASSUME NEW e \in Elements, NEW observed \in BOOLEAN, Parse(e, observed)
        PROVE  IInv'
    BY <1>1, ParseStep
  <1>2. CASE Ready
    BY <1>2, ReadyStep
  <1>3. ASSUME NEW e \in Elements, Idle(e) \/ Visible(e) \/ Manual(e)
        PROVE  IInv'
    BY <1>3, IdleStep, VisibleStep, ManualStep
  <1>4. CASE Media
    BY <1>4, MediaStep
  <1>5. ASSUME NEW h \in imports, Call(h) \/ Fail(h)
        PROVE  IInv'
    BY <1>5, CallStep, FailStep
  <1>6. ASSUME NEW out \in SUBSET (doc \ Kept), NEW N \in SUBSET (Elements \ Kept),
               NEW roots \in SUBSET N, NEW rerender \in BOOLEAN,
               UpdateDOM(out, N, roots, rerender)
        PROVE  IInv'
    BY <1>6, UpdateDOMStep
  <1>7. ASSUME NEW names \in {<<k>> : k \in NamesOf(Islands)} \cup {Wildcard}, Update(names)
        PROVE  IInv'
    <2>1. names \in Seq(Names)
      <3>1. CASE names = Wildcard
        BY <3>1, WildcardType DEF IInv
      <3>2. ASSUME NEW k \in NamesOf(Islands), names = <<k>>  PROVE names \in Seq(Names)
        <4>1. k \in Names
          BY NamesFacts, IslandsAssumption
        <4> QED BY <3>2, <4>1
      <3> QED BY <3>1, <3>2
    <2> QED BY <1>7, <2>1, UpdateStep
  <1>8. CASE Rescan
    BY <1>8, RescanStep
  <1>9. ASSUME NEW u \in 1..MaxUpdates, UpdateNext(u)
        PROVE  IInv'
    BY <1>9, UpdateNextStep
  <1>10. CASE UNCHANGED vars
    <2>1. UNCHANGED <<doc, used, S, loaded, imports, built, updates, begun, given, twins>>
      BY <1>10 DEF vars
    <2>2. RestType /\ IdleOK
      BY TypeParts DEF IInv
    <2>3. RestType' /\ IdleOK'
      <3>1. (Namesakes(doc) \subseteq twins)'
        BY <1>10, <2>2 DEF vars, RestType
      <3> QED BY <1>10, <2>2, <3>1 DEF vars, RestType, IdleOK
    <2> QED BY <2>1, <2>3, StillStep
  <1> QED BY <1>1, <1>2, <1>3, <1>4, <1>5, <1>6, <1>7, <1>8, <1>9, <1>10 DEF Next

\* The inductive invariant holds in every state.
THEOREM Invariance == Spec => []IInv
  BY InitIInv, NextIInv, PTL DEF Spec

\* Every variable has its type, and an update waits exactly as long as its import is under
\* way, so that no answer leaves it waiting for good.
THEOREM TypeCorrect == Spec => []TypeOK
  <1>1. IInv => TypeOK
    BY DEF IInv
  <1> QED BY <1>1, Invariance, PTL

\* An element of the document that was there with no namesake is hydrated once, whatever
\* scans, observers, triggers and navigations ask for it, for any number of elements that
\* share its name on other pages.
THEOREM HydratedOnce == Spec => []DocOnce
  <1>1. IInv => DocOnce
    <2> SUFFICES ASSUME IInv PROVE DocOnce
      OBVIOUS
    <2> QED BY DEF IInv, OnceOK, Alone, DocOnce
  <1> QED BY <1>1, Invariance, PTL

\* The hydrate function of an element of the document that was there with no namesake is
\* given its own state.
THEOREM StateIsOwn == Spec => []OwnState
  <1>1. IInv => OwnState
    BY DEF IInv
  <1> QED BY <1>1, Invariance, PTL
=============================================================================
