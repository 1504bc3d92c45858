-------------------------- MODULE NavigationProofs --------------------------
(***************************************************************************)
(* Theorems about Navigation, for every set of pages, any number of        *)
(* prefetches, and every bound.                                            *)
(***************************************************************************)
EXTENDS Navigation, SequenceTheorems, TLAPS

-----------------------------------------------------------------------------
(* The inductive invariant                                                 *)

\* What navigate knows across its await: the page is still the one the user wants, or
\* nothing comes of that and, if it was cached, it is in the address bar, and in the document
\* if that has a place for it.
\* The page load that is asked for is of that page, too.
UnderWay ==
  /\ nav # None =>
       /\ asked = nav.since
       /\ nav.cached # None => nav.cached <= server[nav.key.page]
       /\ wanted # None => wanted = nav.key.page
       /\ ~dropped /\ nav.cached # None =>
            /\ entries[index] = nav.key.page
            /\ Fits(nav.key.page) => shown = [page |-> nav.key.page, version |-> nav.cached]
  /\ loading # None /\ wanted # None => wanted = loading.page

IInv == TypeOK /\ UnderWay /\ AddressShown /\ Fresh /\ CacheExpires

Navs == [key : Keys, replace : BOOLEAN, cached : Versions \cup {None}, since : Versions]
Requests == [key : Keys, since : Versions]

-----------------------------------------------------------------------------
(* Records                                                                 *)

\* The request of a navigation or a prefetch, the page of a key, and that no request is
\* mistaken for the absence of one.
LEMMA Fields ==
  /\ \A k \in Keys : k.page \in Pages
  /\ \A p \in Pages : Link(p) \in Keys /\ Location(p) \in Keys
  /\ \A p \in Pages : Link(p).page = p /\ Location(p).page = p
  /\ \A n \in Navs : /\ n # None
                     /\ n.key \in Keys /\ n.replace \in BOOLEAN
                     /\ n.cached \in Versions \cup {None} /\ n.since \in Versions
  /\ \A r \in Requests : r # None /\ r.key \in Keys /\ r.since \in Versions
  /\ None \notin Versions /\ None \notin Pages
  <1>1. /\ None \notin Versions /\ None \notin Pages /\ None \notin Requests
        /\ None \notin Navs
    BY NavigationAssumption DEF NavigationAssumption, Navs, Requests
  <1>2. \A k \in Keys : k.page \in Pages
    BY DEF Keys
  <1>3. \A p \in Pages : Link(p) \in Keys /\ Location(p) \in Keys
    BY DEF Keys, Link, Location
  <1>4. \A p \in Pages : Link(p).page = p /\ Location(p).page = p
    BY DEF Link, Location
  <1>5. \A n \in Navs : /\ n.key \in Keys /\ n.replace \in BOOLEAN
                        /\ n.cached \in Versions \cup {None} /\ n.since \in Versions
    BY DEF Navs
  <1>6. \A r \in Requests : r.key \in Keys /\ r.since \in Versions
    BY DEF Requests
  <1> QED BY <1>1, <1>2, <1>3, <1>4, <1>5, <1>6

-----------------------------------------------------------------------------
(* The parts of a step                                                     *)

\* A new entry of the history, pushed or replaced, is the current one and is p.
LEMMA EnterFacts ==
  ASSUME TypeOK, NEW p \in Pages, NEW replace \in BOOLEAN, Enter(p, replace)
  PROVE  /\ entries' \in Seq(Pages) /\ Len(entries') <= MaxEntries
         /\ index' \in 1..Len(entries') /\ entries'[index'] = p
  <1>1. /\ entries \in Seq(Pages) /\ Len(entries) <= MaxEntries /\ Len(entries) \in Nat
        /\ index \in 1..Len(entries) /\ MaxEntries \in Nat
    BY LenProperties, NavigationAssumption DEF TypeOK, NavigationAssumption
  <1>2. CASE replace
    <2>1. entries' = [entries EXCEPT ![index] = p] /\ index' = index
      BY <1>2 DEF Enter
    <2> QED BY <1>1, <2>1, ExceptSeq
  <1>3. CASE ~replace
    <2>1. /\ index < MaxEntries
          /\ entries' = Append(SubSeq(entries, 1, index), p) /\ index' = index + 1
      BY <1>3 DEF Enter
    <2> DEFINE kept == SubSeq(entries, 1, index)
    <2>2. kept \in Seq(Pages) /\ Len(kept) = index
      BY <1>1, SubSeqProperties
    <2>3. Append(kept, p) \in Seq(Pages) /\ Len(Append(kept, p)) = index + 1
          /\ Append(kept, p)[index + 1] = p
      BY <2>2, AppendProperties
    <2> QED BY <1>1, <2>1, <2>3
  <1> QED BY <1>2, <1>3

\* What updateDOM leaves: the page in the document, or a page without a place there.
LEMMA ShowFacts ==
  ASSUME TypeOK, NEW p \in Pages, NEW v \in Versions, v <= server[p],
         server' = server, Show(p, v)
  PROVE  /\ shown' \in [page : Pages, version : Versions] /\ frame' \in Pages
         /\ shown'.version <= server'[shown'.page]
         /\ Fits(p)' => shown' = [page |-> p, version |-> v]
  <1>1. shown \in [page : Pages, version : Versions] /\ frame \in Pages
        /\ shown.version <= server[shown.page]
    BY DEF TypeOK, NoneNewer
  <1>2. CASE Fits(p)
    <2>1. shown' = [page |-> p, version |-> v]
          /\ frame' = IF p \in Fragments THEN frame ELSE p
      BY <1>2 DEF Show
    <2> QED BY <1>1, <2>1
  <1>3. CASE ~Fits(p)
    <2>1. shown' = shown /\ frame' = frame
      BY <1>3 DEF Show
    <2>2. ~Fits(p)'
      BY <1>3, <2>1 DEF Fits
    <2> QED BY <1>1, <2>1, <2>2
  <1> QED BY <1>2, <1>3

\* A cached entry gets a timer, and every other keeps its own.
LEMMA StoreFacts ==
  ASSUME TypeOK, CacheExpires, NEW k \in Keys, NEW v \in Versions, Store(k, v),
         v <= server[k.page], server' = server
  PROVE  /\ cache' \in [Keys -> Versions \cup {None}]
         /\ \A q \in Keys : cache'[q] # None => cache'[q] <= server'[q.page]
         /\ timers' \in Seq(Keys)
         /\ CacheExpires'
  <1>1. /\ cache \in [Keys -> Versions \cup {None}] /\ timers \in Seq(Keys)
        /\ cache' = [cache EXCEPT ![k] = v] /\ timers' = Append(timers, k)
        /\ \A q \in Keys : cache[q] # None => cache[q] <= server[q.page]
    BY DEF TypeOK, NoneNewer, Store
  <1>2. /\ timers' \in Seq(Keys) /\ Len(timers') = Len(timers) + 1 /\ Len(timers) \in Nat
        /\ timers'[Len(timers) + 1] = k
        /\ \A i \in 1..Len(timers) : timers'[i] = timers[i]
    BY <1>1, AppendProperties, LenProperties
  <1>3. ASSUME NEW q \in Keys, cache'[q] # None
        PROVE  \E i \in 1..Len(timers') : timers'[i] = q
    <2>1. CASE q = k
      BY <2>1, <1>2
    <2>2. CASE q # k
      <3>1. cache[q] # None
        BY <1>1, <1>3, <2>2
      <3>2. PICK i \in 1..Len(timers) : timers[i] = q
        BY <3>1 DEF CacheExpires
      <3> QED BY <3>2, <1>2
    <2> QED BY <2>1, <2>2
  <1> QED BY <1>1, <1>2, <1>3 DEF CacheExpires

\* navigate(k, replace) up to its await, when it has shown and entered what was cached.
LEMMA BeginFacts ==
  ASSUME TypeOK, NEW k \in Keys, NEW replace \in BOOLEAN, Begin(k, replace),
         server' = server, loading' = loading,
         cache[k] # None => entries'[index'] = k.page
  PROVE  /\ nav' \in Navs /\ nav' # None
         /\ shown' \in [page : Pages, version : Versions] /\ frame' \in Pages
         /\ shown'.version <= server'[shown'.page]
         /\ wanted' \in Pages \cup {None} /\ dropped' \in BOOLEAN /\ asked' \in Versions
         /\ UnderWay' /\ AddressShown' /\ Fresh'
  <1>1. /\ k.page \in Pages /\ server[k.page] \in Versions /\ cache[k] \in Versions \cup {None}
        /\ cache[k] # None => cache[k] <= server[k.page]
        /\ shown \in [page : Pages, version : Versions] /\ frame \in Pages
        /\ shown.version <= server[shown.page]
    BY Fields DEF TypeOK, NoneNewer
  <1>2. /\ nav' = [key |-> k, replace |-> replace, cached |-> cache[k],
                    since |-> server[k.page]]
        /\ wanted' = (IF loading = None THEN k.page ELSE None)
        /\ dropped' = FALSE /\ asked' = server[k.page]
        /\ cache[k] = None => UNCHANGED <<shown, frame>>
        /\ cache[k] # None => Show(k.page, cache[k])
    BY DEF Begin
  <1>3. nav' \in Navs /\ nav' # None
    BY <1>1, <1>2, Fields DEF Navs
  <1>4. /\ nav'.key = k /\ nav'.cached = cache[k] /\ nav'.since = server[k.page]
    BY <1>2
  <1>5. /\ shown' \in [page : Pages, version : Versions] /\ frame' \in Pages
        /\ shown'.version <= server'[shown'.page]
        /\ cache[k] # None => (Fits(k.page)' => shown' = [page |-> k.page, version |-> cache[k]])
    <2>1. CASE cache[k] = None
      BY <1>1, <1>2, <2>1
    <2>2. CASE cache[k] # None
      BY <1>1, <1>2, <2>2, ShowFacts
    <2> QED BY <2>1, <2>2
  <1>6. UnderWay'
    BY <1>1, <1>2, <1>4, <1>5 DEF UnderWay
  <1> QED BY <1>1, <1>2, <1>3, <1>5, <1>6 DEF AddressShown, Fresh, Quiet

-----------------------------------------------------------------------------
(* The actions                                                             *)

LEMMA ClickStep ==
  ASSUME IInv, NEW p \in Pages, NEW replace \in BOOLEAN, Click(p, replace)
  PROVE  IInv'
  <1>1. TypeOK /\ CacheExpires
    BY DEF IInv
  <1>2. Link(p) \in Keys /\ Link(p).page = p
    BY Fields
  <1>3. /\ Begin(Link(p), replace)
        /\ UNCHANGED <<server, cache, timers, prefetches, loading>>
        /\ cache[Link(p)] = None => UNCHANGED <<entries, index>>
        /\ cache[Link(p)] # None => Enter(p, replace)
    BY DEF Click
  <1>4. /\ entries' \in Seq(Pages) /\ Len(entries') <= MaxEntries
        /\ index' \in 1..Len(entries')
        /\ cache[Link(p)] # None => entries'[index'] = p
    BY <1>1, <1>3, EnterFacts DEF TypeOK
  <1>5. /\ nav' \in Navs
        /\ shown' \in [page : Pages, version : Versions] /\ frame' \in Pages
        /\ shown'.version <= server'[shown'.page]
        /\ wanted' \in Pages \cup {None} /\ dropped' \in BOOLEAN /\ asked' \in Versions
        /\ UnderWay' /\ AddressShown' /\ Fresh'
    BY <1>1, <1>2, <1>3, <1>4, BeginFacts
  <1>6. TypeOK'
    BY <1>1, <1>3, <1>4, <1>5 DEF TypeOK, NoneNewer, Navs
  <1>7. CacheExpires'
    BY <1>1, <1>3 DEF CacheExpires
  <1> QED BY <1>5, <1>6, <1>7 DEF IInv

LEMMA ClickIgnoredStep ==
  ASSUME IInv, ClickIgnored
  PROVE  IInv'
  <1>1. TypeOK /\ CacheExpires /\ UnderWay
    BY DEF IInv
  <1>2. /\ nav # None /\ wanted' = None
        /\ UNCHANGED <<server, entries, index, shown, frame, cache, timers, nav, prefetches,
                       loading, dropped, asked>>
    BY DEF ClickIgnored
  <1>3. TypeOK'
    BY <1>1, <1>2 DEF TypeOK, NoneNewer
  <1>4. UnderWay'
    BY <1>1, <1>2 DEF UnderWay, Fits
  <1>5. AddressShown' /\ Fresh' /\ CacheExpires'
    BY <1>1, <1>2 DEF AddressShown, Fresh, Quiet, CacheExpires
  <1> QED BY <1>3, <1>4, <1>5 DEF IInv

LEMMA PopStateStep ==
  ASSUME IInv, NEW i \in 1..Len(entries), PopState(i)
  PROVE  IInv'
  <1>1. TypeOK /\ CacheExpires /\ UnderWay
    BY DEF IInv
  <1>2. /\ entries \in Seq(Pages) /\ Len(entries) \in Nat /\ entries[i] \in Pages
    BY <1>1, LenProperties, ElementOfSeq DEF TypeOK
  <1>3. index' = i /\ UNCHANGED <<server, entries, cache, timers, prefetches, loading>>
    BY DEF PopState
  <1>4. CacheExpires'
    BY <1>1, <1>3 DEF CacheExpires
  <1>5. CASE nav = None
    <2>1. Begin(Location(entries[i]), TRUE)
      BY <1>5 DEF PopState
    <2>2. Location(entries[i]) \in Keys /\ Location(entries[i]).page = entries[i]
      BY <1>2, Fields
    <2>3. entries'[index'] = Location(entries[i]).page
      BY <1>3, <2>2
    <2>4. /\ nav' \in Navs
          /\ shown' \in [page : Pages, version : Versions] /\ frame' \in Pages
          /\ shown'.version <= server'[shown'.page]
          /\ wanted' \in Pages \cup {None} /\ dropped' \in BOOLEAN /\ asked' \in Versions
          /\ UnderWay' /\ AddressShown' /\ Fresh'
      BY <1>1, <1>3, <2>1, <2>2, <2>3, BeginFacts
    <2>5. TypeOK'
      BY <1>1, <1>2, <1>3, <2>4 DEF TypeOK, NoneNewer, Navs
    <2> QED BY <1>4, <2>4, <2>5 DEF IInv
  <1>6. CASE nav # None
    <2>1. wanted' = None /\ dropped' = TRUE /\ UNCHANGED <<nav, shown, frame, asked>>
      BY <1>6 DEF PopState
    <2>2. TypeOK'
      BY <1>1, <1>2, <1>3, <2>1 DEF TypeOK, NoneNewer
    <2>3. UnderWay' /\ AddressShown' /\ Fresh'
      BY <1>1, <1>3, <2>1 DEF UnderWay, AddressShown, Fresh
    <2> QED BY <1>4, <2>2, <2>3 DEF IInv
  <1> QED BY <1>5, <1>6

LEMMA AnswerStep ==
  ASSUME IInv, NEW v \in Versions, Answer(v)
  PROVE  IInv'
  <1>1. TypeOK /\ CacheExpires /\ UnderWay
    BY DEF IInv
  <1>2. nav \in Navs
    BY <1>1 DEF Answer, TypeOK, Navs
  <1>3. /\ nav.key \in Keys /\ nav.key.page \in Pages /\ nav.replace \in BOOLEAN
        /\ nav.since \in Versions /\ nav.cached \in Versions \cup {None}
    BY <1>2, Fields
  <1>p. PICK p \in Pages : p = nav.key.page
    BY <1>3
  <1>4. /\ nav # None /\ nav' = None
        /\ v \in nav.since..server[p]
        /\ UNCHANGED <<server, prefetches, loading, wanted, dropped, asked>>
        /\ p \in Fragments => Store(nav.key, v)
        /\ p \notin Fragments => UNCHANGED <<cache, timers>>
        /\ v # nav.cached => Show(p, v)
        /\ v = nav.cached => UNCHANGED <<shown, frame>>
        /\ nav.cached = None => Enter(p, nav.replace)
        /\ nav.cached # None => UNCHANGED <<entries, index>>
    BY <1>p DEF Answer, Changed, Freed, Stored
  <1>5. v >= nav.since /\ v <= server[p]
    BY <1>4
  <1>6. /\ cache' \in [Keys -> Versions \cup {None}] /\ timers' \in Seq(Keys)
        /\ \A q \in Keys : cache'[q] # None => cache'[q] <= server'[q.page]
        /\ CacheExpires'
    <2>1. CASE p \in Fragments
      <3>1. Store(nav.key, v)
        BY <1>4, <2>1
      <3> QED BY <1>1, <1>3, <1>p, <1>4, <1>5, <3>1, StoreFacts
    <2>2. CASE p \notin Fragments
      BY <1>1, <1>4, <2>2 DEF TypeOK, NoneNewer, CacheExpires
    <2> QED BY <2>1, <2>2
  <1>7. /\ entries' \in Seq(Pages) /\ Len(entries') <= MaxEntries
        /\ index' \in 1..Len(entries')
        /\ nav.cached = None => entries'[index'] = p
    <2>1. CASE nav.cached = None
      <3>1. Enter(p, nav.replace)
        BY <1>4, <2>1
      <3> QED BY <1>1, <1>3, <3>1, EnterFacts
    <2>2. CASE nav.cached # None
      BY <1>1, <1>4, <2>2 DEF TypeOK
    <2> QED BY <2>1, <2>2
  <1>8. /\ shown' \in [page : Pages, version : Versions] /\ frame' \in Pages
        /\ shown'.version <= server'[shown'.page]
        /\ v # nav.cached => (Fits(p)' => shown' = [page |-> p, version |-> v])
    <2>1. CASE v # nav.cached
      BY <1>1, <1>4, <1>5, <2>1, ShowFacts
    <2>2. CASE v = nav.cached
      BY <1>1, <1>4, <2>2 DEF TypeOK, NoneNewer
    <2> QED BY <2>1, <2>2
  <1>9. TypeOK'
    BY <1>1, <1>4, <1>6, <1>7, <1>8 DEF TypeOK, NoneNewer
  <1>10. UnderWay'
    BY <1>1, <1>4 DEF UnderWay
  <1>11. ASSUME ~dropped
         PROVE  /\ entries'[index'] = p
                /\ Fits(p)' => shown' = [page |-> p, version |-> v]
    <2>1. CASE nav.cached = None
      <3>1. v # nav.cached
        BY <2>1, Fields
      <3> QED BY <1>7, <1>8, <2>1, <3>1
    <2>2. CASE nav.cached # None
      <3>1. entries'[index'] = p
        BY <1>1, <1>p, <1>4, <1>11, <2>2 DEF UnderWay
      <3>2. CASE v = nav.cached
        <4>1. Fits(p) => shown = [page |-> p, version |-> v]
          BY <1>1, <1>p, <1>4, <1>11, <2>2, <3>2 DEF UnderWay
        <4>2. shown' = shown /\ frame' = frame
          BY <1>4, <3>2
        <4>3. Fits(p)' => Fits(p)
          BY <4>2 DEF Fits
        <4> QED BY <3>1, <4>1, <4>2, <4>3
      <3>3. CASE v # nav.cached
        BY <1>8, <3>1, <3>3
      <3> QED BY <3>2, <3>3
    <2> QED BY <2>1, <2>2
  <1>12. wanted' = wanted /\ dropped' = dropped /\ asked' = nav.since
         /\ (wanted # None => wanted = p)
    BY <1>1, <1>p, <1>4 DEF UnderWay
  <1>13. ASSUME ~dropped, Fits(entries[index])'
         PROVE  shown' = [page |-> p, version |-> v]
    BY <1>11, <1>13 DEF Fits
  <1>14. AddressShown'
    BY <1>11, <1>12, <1>13 DEF AddressShown
  <1>15. Fresh'
    BY <1>5, <1>12, <1>13 DEF Fresh
  <1> QED BY <1>6, <1>9, <1>10, <1>14, <1>15 DEF IInv

LEMMA FailStep ==
  ASSUME IInv, Fail
  PROVE  IInv'
  <1>1. TypeOK /\ CacheExpires /\ UnderWay
    BY DEF IInv
  <1>2. nav \in Navs
    BY <1>1 DEF Fail, TypeOK, Navs
  <1>3. nav.key.page \in Pages
    BY <1>2, Fields
  <1>4. /\ nav # None
        /\ loading' = [page |-> nav.key.page, since |-> server[nav.key.page]]
        /\ nav' = None
        /\ UNCHANGED <<server, entries, index, shown, frame, cache, timers, prefetches,
                       wanted, dropped, asked>>
    BY DEF Fail, Freed
  <1>5. server[nav.key.page] \in Versions
    BY <1>1, <1>3 DEF TypeOK
  <1>6. loading' \in [page : Pages, since : Versions]
    BY <1>3, <1>4, <1>5
  <1>7. loading' # None
    BY <1>6, NavigationAssumption DEF NavigationAssumption
  <1>8. TypeOK'
    BY <1>1, <1>4, <1>6 DEF TypeOK, NoneNewer
  <1>9. UnderWay' /\ AddressShown' /\ Fresh'
    BY <1>1, <1>4, <1>7 DEF UnderWay, AddressShown, Fresh, Quiet
  <1>10. CacheExpires'
    BY <1>1, <1>4 DEF CacheExpires
  <1> QED BY <1>8, <1>9, <1>10 DEF IInv

LEMMA PrefetchStep ==
  ASSUME IInv, NEW s \in Slots,
         \/ \E p \in Pages : Prefetch(p, s)
         \/ \E v \in Versions : Prefetched(s, v)
         \/ PrefetchFailed(s)
  PROVE  IInv'
  <1>1. TypeOK /\ CacheExpires /\ UnderWay /\ AddressShown /\ Fresh
    BY DEF IInv
  <1>2. UNCHANGED <<server, entries, index, shown, frame, nav, loading, wanted, dropped, asked>>
    BY DEF Prefetch, Prefetched, PrefetchFailed
  <1>3. UnderWay' /\ AddressShown' /\ Fresh'
    BY <1>1, <1>2 DEF UnderWay, AddressShown, Fresh, Quiet, Fits
  <1>4. prefetches' \in [Slots -> Requests \cup {None}]
    <2>1. prefetches \in [Slots -> Requests \cup {None}]
      BY <1>1 DEF TypeOK, Requests
    <2>2. ASSUME NEW p \in Pages, Prefetch(p, s)
          PROVE  prefetches' \in [Slots -> Requests \cup {None}]
      <3>1. Link(p) \in Keys /\ server[p] \in Versions
        BY <1>1, Fields DEF TypeOK
      <3>2. [key |-> Link(p), since |-> server[p]] \in Requests
        BY <3>1 DEF Requests
      <3> QED BY <2>1, <2>2, <3>2 DEF Prefetch
    <2>3. ASSUME (\E v \in Versions : Prefetched(s, v)) \/ PrefetchFailed(s)
          PROVE  prefetches' \in [Slots -> Requests \cup {None}]
      BY <2>1, <2>3 DEF Prefetched, PrefetchFailed
    <2> QED BY <2>2, <2>3
  <1>5. /\ cache' \in [Keys -> Versions \cup {None}] /\ timers' \in Seq(Keys)
        /\ \A q \in Keys : cache'[q] # None => cache'[q] <= server'[q.page]
        /\ CacheExpires'
    <2>1. ASSUME NEW v \in Versions, Prefetched(s, v)
          PROVE  /\ cache' \in [Keys -> Versions \cup {None}] /\ timers' \in Seq(Keys)
                 /\ \A q \in Keys : cache'[q] # None => cache'[q] <= server'[q.page]
                 /\ CacheExpires'
      <3>1. prefetches[s] \in Requests
        BY <1>1, <2>1 DEF TypeOK, Prefetched, Requests
      <3>2. prefetches[s].key \in Keys /\ Store(prefetches[s].key, v)
            /\ v <= server[prefetches[s].key.page]
        BY <2>1, <3>1, Fields DEF Prefetched, Keep
      <3> QED BY <1>1, <1>2, <3>2, StoreFacts
    <2>2. ASSUME (\E p \in Pages : Prefetch(p, s)) \/ PrefetchFailed(s)
          PROVE  UNCHANGED <<cache, timers>>
      BY <2>2 DEF Prefetch, PrefetchFailed
    <2> QED BY <1>1, <1>2, <2>1, <2>2 DEF TypeOK, NoneNewer, CacheExpires
  <1>6. TypeOK'
    BY <1>1, <1>2, <1>4, <1>5 DEF TypeOK, NoneNewer, Requests
  <1> QED BY <1>3, <1>5, <1>6 DEF IInv

\* The timer that fires is the last one of its key, or the entry of the key is deleted
\* before that one fires.
LEMMA ExpireStep ==
  ASSUME IInv, Expire
  PROVE  IInv'
  <1>1. TypeOK /\ CacheExpires /\ UnderWay /\ AddressShown /\ Fresh
    BY DEF IInv
  <1>2. /\ timers # <<>> /\ cache' = [cache EXCEPT ![Head(timers)] = None]
        /\ timers' = Tail(timers)
        /\ UNCHANGED <<server, entries, index, shown, frame, nav, prefetches, loading,
                       wanted, dropped, asked>>
    BY DEF Expire
  <1>3. timers \in Seq(Keys) /\ cache \in [Keys -> Versions \cup {None}]
    BY <1>1 DEF TypeOK
  <1>4. /\ Head(timers) = timers[1] /\ Head(timers) \in Keys
        /\ timers' \in Seq(Keys) /\ Len(timers') = Len(timers) - 1 /\ Len(timers) \in Nat
        /\ \A i \in 1..Len(timers') : timers'[i] = timers[i + 1]
    BY <1>2, <1>3, HeadTailProperties, LenProperties
  <1>5. ASSUME NEW q \in Keys, cache'[q] # None
        PROVE  \E i \in 1..Len(timers') : timers'[i] = q
    <2>1. q # Head(timers) /\ cache[q] # None
      BY <1>2, <1>3, <1>5
    <2>2. PICK i \in 1..Len(timers) : timers[i] = q
      BY <1>1, <2>1 DEF CacheExpires
    <2>3. i - 1 \in 1..Len(timers')
      BY <1>4, <2>1, <2>2
    <2>4. timers'[i - 1] = q
      BY <1>4, <2>2, <2>3
    <2> QED BY <2>3, <2>4
  <1>6. CacheExpires'
    BY <1>5 DEF CacheExpires
  <1>7. TypeOK'
    <2>1. \A k \in Keys : cache'[k] # None => cache'[k] <= server'[k.page]
      BY <1>1, <1>2, <1>3 DEF TypeOK, NoneNewer
    <2> QED BY <1>1, <1>2, <1>3, <1>4, <2>1 DEF TypeOK, NoneNewer
  <1>8. UnderWay' /\ AddressShown' /\ Fresh'
    BY <1>1, <1>2 DEF UnderWay, AddressShown, Fresh, Quiet, Fits
  <1> QED BY <1>6, <1>7, <1>8 DEF IInv

LEMMA LoadStep ==
  ASSUME IInv, NEW v \in Versions, Load(v)
  PROVE  IInv'
  <1>1. TypeOK /\ AddressShown /\ UnderWay
    BY DEF IInv
  <1>2. loading \in [page : Pages, since : Versions]
    BY <1>1 DEF TypeOK, Load
  <1>3. loading.page \in Pages /\ loading.since \in Versions
    BY <1>2
  <1>4. /\ v \in loading.since..server[loading.page]
        /\ entries' = <<loading.page>> /\ index' = 1
        /\ shown' = [page |-> loading.page, version |-> v]
        /\ cache' = [k \in Keys |-> None] /\ timers' = <<>>
        /\ nav' = None /\ prefetches' = [s \in Slots |-> None] /\ loading' = None
        /\ frame' = loading.page /\ wanted' = wanted /\ dropped' = FALSE
        /\ asked' = loading.since /\ server' = server /\ loading # None
    BY DEF Load
  <1>5. /\ <<loading.page>> \in Seq(Pages) /\ Len(<<loading.page>>) = 1
        /\ <<loading.page>>[1] = loading.page
    BY <1>3
  <1>6. <<>> \in Seq(Keys)
    BY EmptySeq
  <1>7. TypeOK'
    <2>1. entries' \in Seq(Pages) /\ Len(entries') <= MaxEntries /\ index' \in 1..Len(entries')
      BY <1>4, <1>5, NavigationAssumption DEF NavigationAssumption
    <2>2. /\ cache' \in [Keys -> Versions \cup {None}] /\ timers' \in Seq(Keys)
          /\ prefetches' \in [Slots -> Requests \cup {None}]
      BY <1>4, <1>6
    <2>3. /\ shown' \in [page : Pages, version : Versions] /\ frame' \in Pages
          /\ wanted' \in Pages \cup {None} /\ dropped' \in BOOLEAN /\ asked' \in Versions
      BY <1>1, <1>3, <1>4 DEF TypeOK
    <2>4. server' \in [Pages -> Versions]
      BY <1>1, <1>4 DEF TypeOK
    <2>5. NoneNewer'
      BY <1>4 DEF NoneNewer
    <2> QED BY <1>4, <2>1, <2>2, <2>3, <2>4, <2>5 DEF TypeOK, Requests
  <1>8. UnderWay' /\ CacheExpires'
    BY <1>4 DEF UnderWay, CacheExpires
  <1>9. shown'.page = loading.page /\ entries'[index'] = loading.page
        /\ (wanted' # None => wanted' = loading.page)
    BY <1>1, <1>4, <1>5 DEF UnderWay
  <1>10. shown'.version >= asked'
    BY <1>4
  <1> QED BY <1>7, <1>8, <1>9, <1>10 DEF IInv, AddressShown, Fresh

LEMMA ChangeStep ==
  ASSUME IInv, NEW p \in Pages, Change(p)
  PROVE  IInv'
  <1>1. TypeOK /\ CacheExpires /\ UnderWay /\ AddressShown /\ Fresh
    BY DEF IInv
  <1>2. /\ server[p] < MaxVersion /\ server' = [server EXCEPT ![p] = @ + 1]
        /\ UNCHANGED <<entries, index, shown, frame, cache, timers, nav, prefetches, loading,
                       wanted, dropped, asked>>
    BY DEF Change
  <1>3. server \in [Pages -> Versions] /\ MaxVersion \in Nat
    BY <1>1, NavigationAssumption DEF TypeOK, NavigationAssumption
  <1>4. server[p] + 1 \in Versions
    BY <1>2, <1>3 DEF Versions
  <1>5. server' \in [Pages -> Versions]
    BY <1>2, <1>3, <1>4
  <1>6. \A q \in Pages : server[q] \in Int /\ server'[q] \in Int /\ server[q] <= server'[q]
    BY <1>2, <1>3 DEF Versions
  <1>7. NoneNewer'
    <2>1. /\ shown.version \in Versions /\ shown.page \in Pages
          /\ shown.version <= server[shown.page]
      BY <1>1 DEF TypeOK, NoneNewer
    <2>2. shown'.version <= server'[shown'.page]
      BY <1>2, <1>6, <2>1 DEF Versions
    <2>3. ASSUME NEW k \in Keys, cache'[k] # None
          PROVE  cache'[k] <= server'[k.page]
      <3>1. k.page \in Pages /\ cache[k] \in Versions /\ cache[k] <= server[k.page]
        BY <1>1, <1>2, <2>3, Fields DEF TypeOK, NoneNewer
      <3> QED BY <1>2, <1>6, <3>1 DEF Versions
    <2> QED BY <2>2, <2>3 DEF NoneNewer
  <1>8. TypeOK'
    BY <1>1, <1>2, <1>5, <1>7 DEF TypeOK
  <1>9. UnderWay'
    <2>1. ASSUME nav # None, nav.cached # None
          PROVE  nav.cached <= server'[nav.key.page]
      <3>1. nav \in Navs
        BY <1>1, <2>1 DEF TypeOK, Navs
      <3>2. nav.key.page \in Pages /\ nav.cached \in Versions /\ nav.cached <= server[nav.key.page]
        BY <1>1, <2>1, <3>1, Fields DEF UnderWay
      <3> QED BY <1>6, <3>2 DEF Versions
    <2> QED BY <1>1, <1>2, <2>1 DEF UnderWay, Fits
  <1>10. AddressShown' /\ Fresh' /\ CacheExpires'
    BY <1>1, <1>2 DEF AddressShown, Fresh, CacheExpires, Quiet, Fits
  <1> QED BY <1>8, <1>9, <1>10 DEF IInv

-----------------------------------------------------------------------------
(* The theorems                                                            *)

LEMMA Start ==
  ASSUME Init
  PROVE  IInv
  <1>1. PICK p \in Pages : /\ entries = <<p>> /\ shown = [page |-> p, version |-> 0]
                           /\ frame = p /\ wanted = p
    BY DEF Init
  <1>2. <<p>> \in Seq(Pages) /\ Len(<<p>>) = 1 /\ <<p>>[1] = p /\ <<>> \in Seq(Keys)
    BY EmptySeq
  <1>3. 0 \in Versions /\ MaxEntries \in Nat \ {0}
    BY NavigationAssumption DEF NavigationAssumption, Versions
  <1>4. TypeOK
    <2>1. entries \in Seq(Pages) /\ Len(entries) <= MaxEntries /\ index \in 1..Len(entries)
      BY <1>1, <1>2, <1>3 DEF Init
    <2>2. /\ cache \in [Keys -> Versions \cup {None}] /\ timers \in Seq(Keys)
          /\ prefetches \in [Slots -> Requests \cup {None}]
          /\ server \in [Pages -> Versions]
      BY <1>2, <1>3 DEF Init
    <2>3. /\ shown \in [page : Pages, version : Versions] /\ frame \in Pages
          /\ wanted \in Pages \cup {None} /\ dropped \in BOOLEAN /\ asked \in Versions
      BY <1>1, <1>3 DEF Init
    <2>4. nav = None /\ loading = None
      BY DEF Init
    <2>5. NoneNewer
      BY <1>1 DEF Init, NoneNewer
    <2> QED BY <2>1, <2>2, <2>3, <2>4, <2>5 DEF TypeOK, Requests
  <1>5. AddressShown /\ Fresh
    BY <1>1, <1>2 DEF Init, AddressShown, Fresh
  <1>6. UnderWay /\ CacheExpires
    BY DEF Init, UnderWay, CacheExpires
  <1> QED BY <1>4, <1>5, <1>6 DEF IInv

\* The invariant of sol-nav.ts: types, what a navigation knows across its await, and the
\* three properties below.
THEOREM Invariance == Spec => []IInv
  <1>1. Init => IInv
    BY Start
  <1>2. IInv /\ [Next]_vars => IInv'
    <2> SUFFICES ASSUME IInv, [Next]_vars PROVE IInv'
      OBVIOUS
    <2>1. CASE \E p \in Pages, replace \in BOOLEAN : Click(p, replace)
      BY <2>1, ClickStep
    <2>2. CASE ClickIgnored \/ \E i \in 1..Len(entries) : PopState(i)
      BY <2>2, ClickIgnoredStep, PopStateStep
    <2>3. CASE \E v \in Versions : Answer(v)
      BY <2>3, AnswerStep
    <2>4. CASE Fail
      BY <2>4, FailStep
    <2>5. ASSUME NEW s \in Slots,
                 \/ \E p \in Pages : Prefetch(p, s)
                 \/ \E v \in Versions : Prefetched(s, v)
                 \/ PrefetchFailed(s)
          PROVE  IInv'
      BY <2>5, PrefetchStep
    <2>6. CASE Expire
      BY <2>6, ExpireStep
    <2>7. CASE \E v \in Versions : Load(v)
      BY <2>7, LoadStep
    <2>8. CASE \E p \in Pages : Change(p)
      BY <2>8, ChangeStep
    <2>9. CASE UNCHANGED vars
      BY <2>9 DEF vars, IInv, TypeOK, NoneNewer, UnderWay, AddressShown, Fresh, CacheExpires,
                  Quiet, Fits
    <2> QED BY <2>1, <2>2, <2>3, <2>4, <2>5, <2>6, <2>7, <2>8, <2>9 DEF Next
  <1> QED BY <1>1, <1>2, PTL DEF Spec

\* Every variable keeps its type; in particular the current entry is one of the history,
\* and nothing is shown or cached that its page's server has not sent.
THEOREM TypeCorrect == Spec => []TypeOK
  <1>1. IInv => TypeOK
    BY DEF IInv
  <1> QED BY <1>1, Invariance, PTL

\* When nothing is under way the document shows the page of the address bar if it has a
\* place for it, unless a popstate was dropped; and the address bar the page the user asked
\* for last, unless nothing came of that (navigate, updateDOM, the popstate handler).
THEOREM AddressIsShown == Spec => []AddressShown
  <1>1. IInv => AddressShown
    BY DEF IInv
  <1> QED BY <1>1, Invariance, PTL

\* What is shown then is as new as when the navigation began, or newer
\* (stale-while-revalidate), whatever the cache, its timers and prefetches did.
THEOREM ContentIsFresh == Spec => []Fresh
  <1>1. IInv => Fresh
    BY DEF IInv
  <1> QED BY <1>1, Invariance, PTL

\* No page stays in the cache for ever: each has a timer (cache.set and setTimeout).
THEOREM EntriesExpire == Spec => []CacheExpires
  <1>1. IInv => CacheExpires
    BY DEF IInv
  <1> QED BY <1>1, Invariance, PTL
=============================================================================
