----------------------------- MODULE BootRouter -----------------------------
(***************************************************************************)
(* The client runtime of sol applications, js/loader/src/boot: the loader  *)
(* of route segments and chunks (loader.ts, with a hierarchical manifest), *)
(* the router that navigates with it (router.ts), and the handler of the   *)
(* SPA router (router/spa.ts), which renders.                              *)
(*                                                                         *)
(* Navigations share the caches and overlap at every await.  A promise is  *)
(* a request under way, named by what it asks for and a number; a step of  *)
(* a navigation is its code between two awaits, and the events of the      *)
(* browser come when no promise is left to continue.  The manifest of a    *)
(* segment and the routes are constants.                                   *)
(* An operator named ...Fault is what a plausible bug would make of the    *)
(* operator after it; no action uses it.                                   *)
(***************************************************************************)
EXTENDS Integers, Sequences, FiniteSets

CONSTANTS
  Paths, Segments, Chunks,
  Segment,        \* the segment a path is looked up in; None for inline routes
  Needs,          \* the chunks of a path's route; None if no route matches
  Routed,         \* the paths with a route of the SPA router
  Fallback,       \* its fallbackPath, or None
  None,
  Slots,          \* bound: navigations under way are named by these
  MaxEntries,     \* the session history the browser keeps
  MaxClears,      \* bound: calls of clear
  MaxTimers       \* bound: hover timers of a link that are running

Things == Segments \cup Chunks
Ids == 1..(MaxClears + 2)
Promises == [name : Things, id : Ids]

ASSUME BootRouterAssumption ==
  /\ Segments \cap Chunks = {}
  /\ Segment \in [Paths -> Segments \cup {None}]
  /\ \A p \in Paths : Needs[p] = None \/ Needs[p] \subseteq Chunks
  /\ Routed \subseteq Paths /\ Fallback \in Paths \cup {None}
  /\ MaxEntries \in Nat \ {0} /\ MaxClears \in Nat /\ MaxTimers \in Nat
  /\ None \notin Ids \cup Things \cup Paths

VARIABLES
  have,        \* loaded and segments: what is in the caches
  pending,     \* loading and segmentLoading: the number of the promise for each thing
  flying,      \* the requests under way
  navs,        \* the navigations under way
  current,     \* the path of currentMatch
  entries,     \* the session history: the path, and whether its state has a match
  index,       \* the current entry
  leaving,     \* the page load that was asked for
  timers,      \* the hover timers that run for a link
  mapped,      \* the links with an entry in prefetchTimers
  clears,      \* the calls of clear
  evaluated    \* history: the chunks that were ever loaded in this document

loader == <<have, pending, flying, clears, evaluated>>
browser == <<entries, index, leaving>>
hover == <<timers, mapped>>
vars == <<loader, navs, current, browser, hover>>

SegmentsOf(p) == IF Segment[p] = None THEN {} ELSE {Segment[p]}

Kinds == {"start", "push", "replace", "pop"}
\* Whether a navigation awaits matchPath, the matchPath of loadForPath, its chunks or
\* its handler.
Phases == {"match", "again", "load", "render"}
Nav(p, kind, phase, awaits) ==
  [path |-> p, kind |-> kind, phase |-> phase, awaits |-> awaits, null |-> FALSE]

\* A document at page p, where the SPA router starts: it renders the page's route, or
\* navigates to its fallback.
Asked(p) == IF p \notin Routed /\ Fallback # None THEN SegmentsOf(Fallback) ELSE {}
AskedFor(p) == [name : Asked(p), id : {1}]
Started(p) ==
  CASE p \in Routed -> Nav(p, "start", "render", {})
    [] p \notin Routed /\ Fallback # None -> Nav(Fallback, "replace", "match", AskedFor(p))
    [] OTHER -> None
StartedIn(p, t) == [s \in Slots |-> IF s = t THEN Started(p) ELSE None]
Loaded(p) ==
  /\ have' = {}
  /\ pending' = [x \in Things |-> IF x \in Asked(p) THEN 1 ELSE None]
  /\ flying' = AskedFor(p)
  /\ \E t \in Slots : navs' = StartedIn(p, t)
  /\ current' = None /\ leaving' = None
  /\ timers' = [q \in Paths |-> 0] /\ mapped' = {}
  /\ evaluated' = {}

Init ==
  /\ have = {} /\ pending = [x \in Things |-> None] /\ flying = {}
  /\ \E p \in Routed, t \in Slots :
       entries = <<[path |-> p, match |-> FALSE]>> /\ navs = StartedIn(p, t)
  /\ index = 1
  /\ current = None /\ leaving = None
  /\ timers = [q \in Paths |-> 0] /\ mapped = {}
  /\ clears = 0 /\ evaluated = {}

\* Navigations that continue as soon as the browser is done with the task at hand.
Continues(s) == navs[s] # None /\ navs[s].awaits = {} /\ navs[s].phase # "render"
Settled == \A s \in Slots : ~Continues(s)

-----------------------------------------------------------------------------
(* The loader                                                              *)

\* The promise in the map, or that of a new request.
Number(x) == IF pending[x] # None THEN pending[x]
             ELSE CHOOSE i \in Ids : [name |-> x, id |-> i] \notin flying
Promise(x) == [name |-> x, id |-> Number(x)]

\* loadSegment and loadChunk for the things of X that no cache has.
Missing(X) == {Promise(x) : x \in X \ have}
Request(X) ==
  /\ pending' = [x \in Things |-> IF x \in X \ have THEN Number(x) ELSE pending[x]]
  /\ flying' = flying \cup Missing(X)
  /\ UNCHANGED <<have, clears, evaluated>>

AnsweredFault(x) == pending
\* The map no longer has an entry for x, whichever promise it was.
Answered(x) == [pending EXCEPT ![x] = None]

\* A request succeeds: its promise continues all who await it.
Succeed(r) ==
  /\ Settled
  /\ flying' = flying \ {r}
  /\ have' = have \cup {r.name}
  /\ pending' = [pending EXCEPT ![r.name] = None]
  /\ evaluated' = evaluated \cup ({r.name} \cap Chunks)
  /\ navs' = [s \in Slots |-> IF navs[s] = None THEN None
                              ELSE [navs[s] EXCEPT !.awaits = @ \ {r}]]
  /\ UNCHANGED <<clears, current, browser, hover>>

RejectedFault(s, r) == [navs[s] EXCEPT !.awaits = @ \ {r}]
\* A navigation that awaits a chunk which fails is over: its promise rejects.
Rejected(s, r) == None

\* A request fails: loadSegment returns null, loadChunk throws.
Failed(r) ==
  /\ Settled
  /\ flying' = flying \ {r}
  /\ pending' = Answered(r.name)
  /\ navs' = [s \in Slots |->
       IF navs[s] = None \/ r \notin navs[s].awaits THEN navs[s]
       ELSE IF r.name \in Chunks THEN Rejected(s, r)
       ELSE [navs[s] EXCEPT !.awaits = @ \ {r}, !.null = TRUE]]
  /\ UNCHANGED <<have, clears, evaluated, current, browser, hover>>

\* clear: requests under way go on, unknown to the maps.
Clear ==
  /\ Settled
  /\ clears < MaxClears
  /\ clears' = clears + 1
  /\ have' = {}
  /\ pending' = [x \in Things |-> None]
  /\ UNCHANGED <<flying, evaluated, navs, current, browser, hover>>

-----------------------------------------------------------------------------
(* The router                                                              *)

\* navigate, or the popstate handler for an entry without a match, up to matchPath.
Begin(s, p, kind) ==
  /\ navs' = [navs EXCEPT ![s] = Nav(p, kind, "match", Missing(SegmentsOf(p)))]
  /\ Request(SegmentsOf(p))

\* A click on a link, with data-replace or without.
Click(s, p, kind) ==
  /\ Settled
  /\ navs[s] = None
  /\ Begin(s, p, kind)
  /\ UNCHANGED <<current, browser, hover>>

\* The browser goes to another entry of the session history.
PopState(s, i) ==
  /\ Settled
  /\ navs[s] = None
  /\ i # index /\ index' = i
  /\ LET p == entries[i].path
     IN  IF entries[i].match
         THEN /\ current' = p
              /\ navs' = [navs EXCEPT ![s] = Nav(p, "pop", "again", Missing(SegmentsOf(p)))]
              /\ Request(SegmentsOf(p))
         ELSE Begin(s, p, "pop") /\ UNCHANGED current
  /\ UNCHANGED <<entries, leaving, hover>>

NoMatch(s) == navs[s].null \/ Needs[navs[s].path] = None

\* matchPath has returned. Without a match the browser loads the page; a navigation asks
\* for its chunks, popstate calls loadForPath, which matches again.
Matched(s) ==
  LET p == navs[s].path
      again == navs[s].kind = "pop"
      X == IF again THEN SegmentsOf(p) ELSE Needs[p]
  IN  /\ Continues(s) /\ navs[s].phase = "match"
      /\ IF NoMatch(s)
         THEN /\ leaving' = [path |-> p, reload |-> again]
              /\ navs' = [navs EXCEPT ![s] = None]
              /\ UNCHANGED <<loader, current>>
         ELSE /\ current' = p
              /\ navs' = [navs EXCEPT ![s].phase = IF again THEN "again" ELSE "load",
                                      ![s].awaits = Missing(X)]
              /\ Request(X)
              /\ UNCHANGED leaving
      /\ UNCHANGED <<entries, index, hover>>

\* loadForPath has matched; without a match it loads nothing.
LoadForPath(s) ==
  LET X == IF NoMatch(s) THEN {} ELSE Needs[navs[s].path]
  IN  /\ Continues(s) /\ navs[s].phase = "again"
      /\ navs' = [navs EXCEPT ![s].phase = "load", ![s].awaits = Missing(X)]
      /\ Request(X)
      /\ UNCHANGED <<current, browser, hover>>

\* pushState drops the entries after the current one, and the oldest if there are too many.
Enter(p, kind) ==
  LET e == [path |-> p, match |-> TRUE]
  IN  CASE kind = "push" ->
             /\ entries' = Append(SubSeq(entries, IF index = MaxEntries THEN 2 ELSE 1, index), e)
             /\ index' = IF index = MaxEntries THEN index ELSE index + 1
        [] kind = "replace" -> entries' = [entries EXCEPT ![index] = e] /\ index' = index
        [] OTHER -> UNCHANGED <<entries, index>>

\* All chunks are there: the history is updated and the handler is called.  It renders,
\* or navigates to the fallback without awaiting that, or does nothing.
Notify(s) ==
  LET p == navs[s].path
  IN  /\ Continues(s) /\ navs[s].phase = "load"
      /\ Enter(p, navs[s].kind)
      /\ CASE p \in Routed -> /\ navs' = [navs EXCEPT ![s].phase = "render"]
                              /\ UNCHANGED loader
           [] p \notin Routed /\ Fallback # None -> Begin(s, Fallback, "replace")
           [] OTHER -> navs' = [navs EXCEPT ![s] = None] /\ UNCHANGED loader
      /\ UNCHANGED <<current, leaving, hover>>

\* render returns, or throws, which the handler catches.
Rendered(s) ==
  /\ Settled
  /\ navs[s] # None /\ navs[s].phase = "render"
  /\ navs' = [navs EXCEPT ![s] = None]
  /\ UNCHANGED <<loader, current, browser, hover>>

-----------------------------------------------------------------------------
(* Prefetch on hover, and the browser                                      *)

\* Each hover sets a timer and overwrites the entry of the one before.  For a path without
\* a segment the timer does nothing that is modelled.
Hover(p) ==
  /\ Settled
  /\ Segment[p] # None
  /\ timers[p] < MaxTimers
  /\ timers' = [timers EXCEPT ![p] = @ + 1]
  /\ mapped' = mapped \cup {p}
  /\ UNCHANGED <<loader, navs, current, browser>>

DroppedFault(p) == mapped
Dropped(p) == mapped \ {p}

\* The mouse leaves the link: the timer in the map is cancelled.
Leave(p) ==
  /\ Settled
  /\ p \in mapped
  /\ timers' = [timers EXCEPT ![p] = @ - 1]
  /\ mapped' = Dropped(p)
  /\ UNCHANGED <<loader, navs, current, browser>>

\* The oldest timer of a link fires: its segment is requested if that is not under way.
\* The links for modulepreload are the browser's.
Prefetch(p) ==
  /\ Settled
  /\ timers[p] > 0
  /\ timers' = [timers EXCEPT ![p] = @ - 1]
  /\ mapped' = Dropped(p)
  /\ Request({x \in SegmentsOf(p) : pending[x] = None})
  /\ UNCHANGED <<navs, current, browser>>

\* The page load that was asked for begins a document; after a reload the session
\* history is still there.
Load ==
  /\ Settled
  /\ leaving # None
  /\ Loaded(IF leaving.reload THEN entries[index].path ELSE leaving.path)
  /\ IF leaving.reload THEN UNCHANGED <<entries, index>>
     ELSE entries' = <<[path |-> leaving.path, match |-> FALSE]>> /\ index' = 1
  /\ UNCHANGED clears

-----------------------------------------------------------------------------
Next ==
  \/ \E r \in flying : Succeed(r) \/ Failed(r)
  \/ Clear
  \/ \E s \in Slots, p \in Paths, kind \in {"push", "replace"} : Click(s, p, kind)
  \/ \E s \in Slots, i \in 1..Len(entries) : PopState(s, i)
  \/ \E s \in Slots : Matched(s) \/ LoadForPath(s) \/ Notify(s) \/ Rendered(s)
  \/ \E p \in Paths : Hover(p) \/ Leave(p) \/ Prefetch(p)
  \/ Load

Spec == Init /\ [][Next]_vars
-----------------------------------------------------------------------------
(* Properties                                                              *)

Navs == [path : Paths, kind : Kinds, phase : Phases, awaits : SUBSET Promises, null : BOOLEAN]

\* The type of every variable; and the entries of prefetchTimers have timers that run.
TypeOK ==
  /\ have \subseteq Things
  /\ pending \in [Things -> Ids \cup {None}]
  /\ flying \subseteq Promises
  /\ navs \in [Slots -> Navs \cup {None}]
  /\ current \in Paths \cup {None}
  /\ entries \in Seq([path : Paths, match : BOOLEAN]) /\ index \in 1..Len(entries)
  /\ leaving \in [path : Paths, reload : BOOLEAN] \cup {None}
  /\ timers \in [Paths -> 0..MaxTimers] /\ mapped \subseteq Paths
  /\ \A p \in mapped : timers[p] > 0
  /\ clears \in 0..MaxClears /\ evaluated \subseteq Chunks

\* A promise in the maps, or one that a navigation awaits, is of a request under way: a
\* failure is not remembered, and nobody waits for what clear has forgotten.
Answerable ==
  /\ \A x \in Things : pending[x] # None => [name |-> x, id |-> pending[x]] \in flying
  /\ \A s \in Slots : navs[s] # None => navs[s].awaits \subseteq flying

\* At most one request for a thing is under way, and one more for each call of clear.
SingleFlight ==
  \A x \in Things : Cardinality({r \in flying : r.name = x}) <= 1 + clears

\* However navigations, prefetches and calls of clear overlap, requests are shared and
\* every promise that is kept will be settled.
Requests == Answerable /\ SingleFlight

\* The handler is called when the chunks of the route have been loaded, except by a
\* popstate that could not get the manifest of its segment.
ChunksFirst ==
  [][\A s \in Slots :
       navs[s] # None /\ navs[s].phase = "load" /\ navs'[s] # None /\ navs'[s].phase = "render" /\ navs'[s].kind # "start"
         => navs[s].null \/ Needs[navs[s].path] \subseteq evaluated]_vars

=============================================================================
