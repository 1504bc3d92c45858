----------------------------- MODULE Navigation -----------------------------
(***************************************************************************)
(* Client-side navigation of sol pages, js/loader/src/sol-nav.ts: links    *)
(* and the back and forward buttons fetch a page and replace the content,  *)
(* a cached page is shown while its replacement is fetched, and links are  *)
(* prefetched.                                                             *)
(*                                                                         *)
(* The script shares one document with the browser, which owns the session *)
(* history, timers and the network.  The server is external: its pages     *)
(* change, and an answer is the page at some moment between the request    *)
(* and its arrival.  Of a page the model keeps its version and whether     *)
(* updateDOM finds a place for it in the document; titles and islands are  *)
(* left out.  wanted, dropped and asked only record what happened          *)
(* for the properties: no action reads them.                               *)
(* An operator named ...Fault is what a plausible bug would make of the    *)
(* operator after it; no action uses it.                                   *)
(***************************************************************************)
EXTENDS Integers, Sequences

CONSTANTS
  Pages,
  Fragments,      \* the pages the server answers with X-Sol-Fragment-Response, for the
                  \* outlet main; it answers for the others with a whole document
  Outlets,        \* the pages whose whole document has the outlet main, inside #app
  Apps,           \* the pages whose whole document has #app
  None,           \* no version, no request
  MaxVersion,     \* bound: changes of a page on the server
  MaxEntries,     \* bound: length of the session history
  MaxTimers,      \* bound: expiry timers that are running
  Slots           \* bound: prefetches under way at once are named by these

\* A page is cached under the string it was navigated to by: the href attribute of a
\* link, or location.href, which is absolute.
Keys == [page : Pages, form : {"link", "location"}]
Link(p) == [page |-> p, form |-> "link"]
Location(p) == [page |-> p, form |-> "location"]

Versions == 0..MaxVersion

ASSUME NavigationAssumption ==
  /\ Fragments \subseteq Pages /\ Outlets \subseteq Pages /\ Apps \subseteq Pages
  /\ MaxVersion \in Nat /\ MaxEntries \in Nat \ {0} /\ MaxTimers \in Nat
  /\ None \notin Versions /\ None \notin Pages
  /\ None \notin [key : Keys, since : Versions]
  /\ None \notin [page : Pages, since : Versions]
  /\ None \notin [key : Keys, replace : BOOLEAN, cached : Versions \cup {None},
                  since : Versions]

VARIABLES
  server,      \* the version of each page on the server
  entries,     \* the session history of this document, each entry as its page
  index,       \* the current entry
  shown,       \* the page and version in the document
  frame,       \* the page of the last whole document that the document was made of
  cache,       \* the cache
  timers,      \* the keys that setTimeout will delete, in the order of their timers
  nav,         \* the navigation under way; isNavigating is nav # None
  prefetches,  \* the prefetches under way
  loading,     \* the full page load that location.href = url has asked for
  wanted,      \* history: the page the user asked for last, or None when nothing comes of
               \* that: a navigation was under way, or a full page load overrides it
  dropped,     \* history: a popstate was dropped when the browser had already gone to its
               \* entry, and no navigation has begun since
  asked        \* history: the server's version when the last navigation began

vars == <<server, entries, index, shown, frame, cache, timers, nav, prefetches, loading,
          wanted, dropped, asked>>

-----------------------------------------------------------------------------
Init ==
  /\ server = [p \in Pages |-> 0]
  /\ \E p \in Pages :
       /\ entries = <<p>>
       /\ shown = [page |-> p, version |-> 0]
       /\ frame = p
       /\ wanted = p
  /\ index = 1
  /\ cache = [k \in Keys |-> None]
  /\ timers = <<>>
  /\ nav = None
  /\ prefetches = [s \in Slots |-> None]
  /\ loading = None
  /\ dropped = FALSE
  /\ asked = 0

-----------------------------------------------------------------------------
(* navigate                                                                *)

EnterFault(p, replace) == UNCHANGED <<entries, index>>
\* replaceState or pushState, for page p; pushState drops the entries after the current one.
Enter(p, replace) ==
  \/ replace /\ entries' = [entries EXCEPT ![index] = p] /\ index' = index
  \/ /\ ~replace /\ index < MaxEntries
     /\ entries' = Append(SubSeq(entries, 1, index), p) /\ index' = index + 1

\* updateDOM finds the place for an answer: the outlet of a fragment, or #app in both the
\* answer and the document.
Fits(p) == IF p \in Fragments THEN frame \in Outlets ELSE {p, frame} \subseteq Apps

\* updateDOM. A whole document replaces what #app holds, the outlet with it.
Show(p, v) ==
  IF Fits(p)
  THEN /\ shown' = [page |-> p, version |-> v]
       /\ frame' = IF p \in Fragments THEN frame ELSE p
  ELSE UNCHANGED <<shown, frame>>

\* navigate(url, replace) up to its first await: a cached page is shown and entered in
\* the history at once, whether it was shown or not.
Begin(k, replace) ==
  /\ nav' = [key |-> k, replace |-> replace, cached |-> cache[k], since |-> server[k.page]]
  /\ IF cache[k] = None THEN UNCHANGED <<shown, frame>> ELSE Show(k.page, cache[k])
  /\ wanted' = IF loading = None THEN k.page ELSE None
  /\ dropped' = FALSE
  /\ asked' = server[k.page]

\* A click on a link with data-sol-link, with data-sol-replace or without.
Click(p, replace) ==
  /\ nav = None
  /\ Begin(Link(p), replace)
  /\ IF cache[Link(p)] = None THEN UNCHANGED <<entries, index>> ELSE Enter(p, replace)
  /\ UNCHANGED <<server, cache, timers, prefetches, loading>>

\* A click while a navigation is under way does nothing, and the browser does not follow
\* the link either.
ClickIgnored ==
  /\ nav # None
  /\ wanted' = None
  /\ UNCHANGED <<server, entries, index, shown, frame, cache, timers, nav, prefetches,
                 loading, dropped, asked>>

\* The browser goes to another entry of its history and fires popstate. Replacing the
\* entry by its own page changes nothing.
PopState(i) ==
  /\ i # index
  /\ index' = i
  /\ IF nav = None THEN Begin(Location(entries[i]), TRUE)
     ELSE /\ wanted' = None
          /\ dropped' = TRUE
          /\ UNCHANGED <<nav, shown, frame, asked>>
  /\ UNCHANGED <<server, entries, cache, timers, prefetches, loading>>

\* cache.set and the timer that deletes the entry.
Store(k, v) ==
  /\ Len(timers) < MaxTimers
  /\ cache' = [cache EXCEPT ![k] = v]
  /\ timers' = Append(timers, k)

FreedFault == nav
\* What the finally block leaves of a navigation.
Freed == None

StoredFault == Location(entries[index])
\* The string that the answer of a navigation is cached under.
Stored == nav.key

ChangedFault(v) == v # cache[nav.key]
\* The fetched page is not the one that was shown from the cache.
Changed(v) == v # nav.cached

\* navigate from the answer of the server, with version v, to its end.
Answer(v) ==
  /\ nav # None
  /\ v \in nav.since..server[nav.key.page]
  /\ IF nav.key.page \in Fragments THEN Store(Stored, v) ELSE UNCHANGED <<cache, timers>>
  /\ IF Changed(v) THEN Show(nav.key.page, v) ELSE UNCHANGED <<shown, frame>>
  /\ IF nav.cached = None THEN Enter(nav.key.page, nav.replace)
     ELSE UNCHANGED <<entries, index>>
  /\ nav' = Freed
  /\ UNCHANGED <<server, prefetches, loading, wanted, dropped, asked>>

\* The fetch fails: the browser is asked to load the page.
Fail ==
  /\ nav # None
  /\ loading' = [page |-> nav.key.page, since |-> server[nav.key.page]]
  /\ nav' = Freed
  /\ UNCHANGED <<server, entries, index, shown, frame, cache, timers, prefetches, wanted,
                 dropped, asked>>

-----------------------------------------------------------------------------
(* prefetch                                                                *)

\* The mouse enters a link with data-sol-prefetch. Whether a prefetch of the same link
\* is under way is not asked.
Prefetch(p, s) ==
  /\ cache[Link(p)] = None
  /\ prefetches[s] = None
  /\ prefetches' = [prefetches EXCEPT ![s] = [key |-> Link(p), since |-> server[p]]]
  /\ UNCHANGED <<server, entries, index, shown, frame, cache, timers, nav, loading, wanted,
                 dropped, asked>>

KeepFault(k, v) == cache' = [cache EXCEPT ![k] = v] /\ UNCHANGED timers
\* The answer is stored whatever its header says: the other copy of cache.set and its timer.
Keep(k, v) == Store(k, v)

Prefetched(s, v) ==
  /\ prefetches[s] # None
  /\ v \in prefetches[s].since..server[prefetches[s].key.page]
  /\ Keep(prefetches[s].key, v)
  /\ prefetches' = [prefetches EXCEPT ![s] = None]
  /\ UNCHANGED <<server, entries, index, shown, frame, nav, loading, wanted, dropped,
                 asked>>

PrefetchFailed(s) ==
  /\ prefetches[s] # None
  /\ prefetches' = [prefetches EXCEPT ![s] = None]
  /\ UNCHANGED <<server, entries, index, shown, frame, cache, timers, nav, loading, wanted,
                 dropped, asked>>

-----------------------------------------------------------------------------
(* The browser and the server                                              *)

\* The oldest timer fires, and deletes whatever the cache holds for its key.
Expire ==
  /\ timers # <<>>
  /\ cache' = [cache EXCEPT ![Head(timers)] = None]
  /\ timers' = Tail(timers)
  /\ UNCHANGED <<server, entries, index, shown, frame, nav, prefetches, loading, wanted,
                 dropped, asked>>

\* The page load that was asked for replaces the document and all state of the script.
\* Entries of earlier documents are left out: going to one is such a load. What the user
\* asked for last is what it was before.
Load(v) ==
  /\ loading # None
  /\ v \in loading.since..server[loading.page]
  /\ entries' = <<loading.page>>
  /\ index' = 1
  /\ shown' = [page |-> loading.page, version |-> v]
  /\ frame' = loading.page
  /\ cache' = [k \in Keys |-> None]
  /\ timers' = <<>>
  /\ nav' = None
  /\ prefetches' = [s \in Slots |-> None]
  /\ loading' = None
  /\ dropped' = FALSE
  /\ asked' = loading.since
  /\ UNCHANGED <<server, wanted>>

Change(p) ==
  /\ server[p] < MaxVersion
  /\ server' = [server EXCEPT ![p] = @ + 1]
  /\ UNCHANGED <<entries, index, shown, frame, cache, timers, nav, prefetches, loading,
                 wanted, dropped, asked>>

-----------------------------------------------------------------------------
Next ==
  \/ \E p \in Pages, replace \in BOOLEAN : Click(p, replace)
  \/ ClickIgnored
  \/ \E i \in 1..Len(entries) : PopState(i)
  \/ \E v \in Versions : Answer(v)
  \/ Fail
  \/ \E p \in Pages, s \in Slots : Prefetch(p, s)
  \/ \E s \in Slots : (\E v \in Versions : Prefetched(s, v)) \/ PrefetchFailed(s)
  \/ Expire
  \/ \E v \in Versions : Load(v)
  \/ \E p \in Pages : Change(p)

Spec == Init /\ [][Next]_vars

\* A request is answered or fails in the end, and a page that is asked for is loaded.
Fairness ==
  /\ WF_vars(Fail \/ \E v \in Versions : Answer(v))
  /\ WF_vars(\E v \in Versions : Load(v))

FairSpec == Spec /\ Fairness
-----------------------------------------------------------------------------
(* Properties                                                              *)

\* What is shown or cached for a page was sent for that page: it is no newer than the
\* server's.
NoneNewer ==
  /\ shown.version <= server[shown.page]
  /\ \A k \in Keys : cache[k] # None => cache[k] <= server[k.page]

\* The type of every variable; in particular the current entry is one of the history, and
\* no version of a page is newer than the server's.
TypeOK ==
  /\ server \in [Pages -> Versions]
  /\ entries \in Seq(Pages) /\ Len(entries) <= MaxEntries
  /\ index \in 1..Len(entries)
  /\ shown \in [page : Pages, version : Versions]
  /\ frame \in Pages
  /\ cache \in [Keys -> Versions \cup {None}]
  /\ timers \in Seq(Keys)
  /\ nav \in [key : Keys, replace : BOOLEAN, cached : Versions \cup {None},
              since : Versions] \cup {None}
  /\ prefetches \in [Slots -> [key : Keys, since : Versions] \cup {None}]
  /\ loading \in [page : Pages, since : Versions] \cup {None}
  /\ wanted \in Pages \cup {None}
  /\ dropped \in BOOLEAN
  /\ asked \in Versions
  /\ NoneNewer

Quiet == nav = None /\ loading = None

\* When nothing is under way the document shows the page of the address bar, if it has a
\* place for it (updateDOM shows nothing otherwise, and the URL is entered all the same).
\* That is the page the user asked for last, unless nothing came of it: navigate ignores
\* what comes during a navigation, and a full page load that was asked for overrides what
\* comes before it.
AddressShown ==
  Quiet /\ ~dropped =>
    /\ Fits(entries[index]) => shown.page = entries[index]
    /\ wanted # None => entries[index] = wanted

\* When nothing is under way a page that has its place in the document is as the server
\* had it when the navigation began, or newer, whatever prefetches, expiries and the cache
\* did meanwhile (stale-while-revalidate).
Fresh == Quiet /\ ~dropped /\ Fits(entries[index]) => shown.version >= asked

\* Every cached page has a timer that will delete it.
CacheExpires ==
  \A k \in Keys : cache[k] # None => \E i \in 1..Len(timers) : timers[i] = k

\* A navigation ends: links and buttons do not stay dead (isNavigating).
Unblocks == nav # None ~> nav = None
=============================================================================
