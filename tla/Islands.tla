------------------------------ MODULE Islands -------------------------------
(***************************************************************************)
(* The loaders of sol pages, js/loader/src/loader.ts and wc-loader.ts with *)
(* lib.ts, which hydrate the islands and the web components of the         *)
(* document, the client of hot module replacement, hmr-client.ts, and what *)
(* sol-nav.ts does with islands when it replaces content.                  *)
(*                                                                         *)
(* A step is a task of the browser's event loop with the microtasks it     *)
(* queues: the state of an island is parsed in the microtask after the     *)
(* call of hydrate, the callback of the MutationObserver runs in the one   *)
(* after the change.  Only import leaves the loop.  The state of an        *)
(* element is the element itself.  A full reload starts another behaviour. *)
(* The renderer makes luna:id from the url or the name of the component:   *)
(* islands of one component have one name, on one page or on several.      *)
(* An operator named ...Fault is what a plausible bug would make of the    *)
(* operator after it; no action uses it.                                   *)
(***************************************************************************)
EXTENDS Integers, Sequences, FiniteSets

CONSTANTS
  Elements,       \* the elements there will be, numbered by their place in a document
  Islands,        \* those with luna:id; the others have luna:wc-url
  Linked,         \* those with a url
  Name,           \* luna:id, or the tag name of a web component
  Trigger,        \* "load", "idle", "visible", "media", "none"
  Kept,           \* those outside of every outlet
  None,
  MaxUpdates      \* bound: update messages, which are their own timestamps

Names == {Name[e] : e \in Elements}
Triggers == {"load", "idle", "visible", "media", "none"}
Stamps == 0..MaxUpdates    \* ?t= of a url; without it 0

ASSUME IslandsAssumption ==
  /\ Elements \subseteq Nat /\ IsFiniteSet(Elements)
  /\ Islands \subseteq Elements /\ Kept \subseteq Elements
  /\ Elements \ Islands \subseteq Linked /\ Linked \subseteq Elements
  /\ Trigger \in [Elements -> Triggers]
  /\ \A e \in Islands, f \in Elements \ Islands : Name[e] # Name[f]
  /\ MaxUpdates \in Nat /\ None \notin Elements

VARIABLES
  ready,      \* DOMContentLoaded has been fired
  doc,        \* the elements in the document
  used,       \* the elements that are or were in it
  url,        \* the stamp in the url of an element
  S,          \* the state map: whose state it holds for a name
  loaded,     \* the names that are loaded, of both loaders
  idle,       \* the idle callbacks that wait, in batches
  watched,    \* the elements that an IntersectionObserver watches
  media,      \* the elements whose media query is listened to
  matches,    \* the media query matches
  imports,    \* the hydrations that wait for their import
  built,      \* the update messages there were
  updates,    \* what each handleUpdate has still to do, and whether it awaits hydrate
  begun,      \* history: how often an element was hydrated in the document, but for
              \* updates and rerenders
  given,      \* history: the elements of the document given the state of another
  ended,      \* history: the stamps its imports were answered or failed with in the document
  twins       \* history: the islands of the document that were there with a namesake

vars == <<ready, doc, used, url, S, loaded, idle, watched, media, matches, imports,
          built, updates, begun, given, ended, twins>>

Done == [todo |-> <<>>, waiting |-> FALSE]

Init ==
  /\ ready = FALSE /\ doc = {} /\ used = {}
  /\ url = [e \in Elements |-> 0]
  /\ S = [n \in Names |-> None]
  /\ loaded = {}
  /\ idle = <<>> /\ watched = {} /\ media = {}
  /\ matches \in BOOLEAN
  /\ imports = {}
  /\ built = 0
  /\ updates = [u \in 1..MaxUpdates |-> Done]
  /\ begun = [e \in Elements |-> 0]
  /\ given = {} /\ ended = [e \in Elements |-> {}] /\ twins = {}

-----------------------------------------------------------------------------
(* hydrate                                                                 *)

NamesOf(E) == {Name[e] : e \in E}

Called(n, E) == {e \in E : Name[e] = n}

\* The islands of a document D with a namesake in it.
Namesakes(D) == {e \in D \cap Islands : Called(Name[e], D) # {e}}

\* What querySelectorAll returns; the last of it.
Ordered(E) ==
  [i \in 1..Cardinality(E) |-> CHOOSE e \in E : Cardinality({f \in E : f < e}) = i - 1]
Latest(E) == Ordered(E)[Cardinality(E)]

Gone == used \ doc

PassingFault(E, on) == {e \in E : \A f \in E : Name[f] = Name[e] => e <= f}
\* Of elements hydrated one after the other, those that are not skipped as loaded.
Passing(E, on) ==
  {e \in E : Name[e] \notin on /\ \A f \in E : Name[f] = Name[e] => e <= f}

StateOfFault(e) == IF S[Name[e]] = None THEN e ELSE S[Name[e]]
\* parseState
StateOf(e) == e

\* hydrate on the elements of the domain of by, up to import, when the names of on are
\* loaded and the urls have these stamps; by says why each is hydrated, and u by which
\* update.  Elements without a url stop after they are marked.  Of namesakes the last one
\* puts its state where the others find it, before any import is answered.
Hydrate(by, on, stamp, u) ==
  LET E == DOMAIN by
      L == E \cap Linked
  IN  /\ loaded' = on \cup NamesOf(E)
      /\ S' = [n \in Names |-> IF n \in NamesOf(L)
                 THEN StateOf(Latest(Called(n, L))) ELSE S[n]]
      /\ imports' = imports \cup {[el |-> e, stamp |-> stamp[e], update |-> u] : e \in L}
      /\ begun' = [e \in Elements |-> IF e \in L \ Gone /\ by[e] = "trigger"
                                      THEN begun[e] + 1 ELSE begun[e]]

\* hydrate(el) for each element of E in document order.
Triggered(E, on) == Hydrate([e \in Passing(E, on) |-> "trigger"], on, url, 0)

AwaitedFault(h) == updates
\* hydrate has returned to the update that awaits it.
Awaited(h) == IF h.update = 0 THEN updates ELSE [updates EXCEPT ![h.update].waiting = FALSE]

Ended(h) == IF h.el \in doc THEN [ended EXCEPT ![h.el] = @ \cup {h.stamp}] ELSE ended

\* An import is answered, and the hydrate function of the module is called.
Call(h) ==
  /\ imports' = imports \ {h}
  /\ ended' = Ended(h)
  /\ given' = IF h.el \in doc /\ S[Name[h.el]] # h.el THEN given \cup {h.el} ELSE given
  /\ updates' = Awaited(h)
  /\ UNCHANGED <<ready, doc, used, url, S, loaded, idle, watched, media, matches, built,
                 begun, twins>>

\* An import fails: the name stays loaded.
Fail(h) ==
  /\ imports' = imports \ {h}
  /\ ended' = Ended(h)
  /\ updates' = Awaited(h)
  /\ UNCHANGED <<ready, doc, used, url, S, loaded, idle, watched, media, matches, built,
                 begun, given, twins>>

-----------------------------------------------------------------------------
(* Triggers                                                                *)

\* The elements of E that setupTrigger hydrates at once; before the document is ready
\* those with "load" are left to the scan.
AtOnce(E) ==
  {e \in E : (Trigger[e] = "load" /\ ready') \/ (Trigger[e] = "media" /\ matches)}

Batch(E) == LET I == {e \in E : Trigger[e] = "idle"} IN IF I = {} THEN <<>> ELSE <<I>>

\* What setupTrigger leaves waiting when it is called for E and then for F.
Arm(E, F) ==
  /\ idle' = idle \o Batch(E) \o Batch(F)
  /\ watched' = watched \cup {e \in E \cup F : Trigger[e] = "visible"}
  /\ media' = media \cup {e \in E \cup F : Trigger[e] = "media" /\ ~matches}

\* The parser adds an element before the document is ready, with a loader that has been
\* started or not.
Parse(e, observed) ==
  LET E == IF observed THEN {e} ELSE {}
  IN  /\ ~ready
      /\ \A f \in used : f < e
      /\ doc' = doc \cup {e} /\ used' = used \cup {e}
      /\ twins' = twins \cup Namesakes(doc')
      /\ ready' = FALSE
      /\ Arm(E, {})
      /\ UNCHANGED <<url, matches, built, updates, given, ended>>
      /\ Triggered(AtOnce(E), loaded)

\* DOMContentLoaded: both loaders scan the document.
Ready ==
  /\ ~ready
  /\ ready' = TRUE
  /\ Arm(doc, {})
  /\ UNCHANGED <<doc, used, url, matches, built, updates, given, ended, twins>>
  /\ Triggered(AtOnce(doc), loaded)

\* The oldest batch of idle callbacks runs, one by one; also of elements that are gone.
Idle(e) ==
  /\ idle # <<>> /\ e \in Head(idle)
  /\ idle' = IF Head(idle) = {e} THEN Tail(idle) ELSE [idle EXCEPT ![1] = @ \ {e}]
  /\ UNCHANGED <<ready, doc, used, url, watched, media, matches, built, updates, given,
                 ended, twins>>
  /\ Triggered({e}, loaded)

\* An element of the document comes into view; one that is gone never does.
Visible(e) ==
  /\ e \in watched \cap doc
  /\ watched' = watched \ {e}
  /\ UNCHANGED <<ready, doc, used, url, idle, media, matches, built, updates, given,
                 ended, twins>>
  /\ Triggered({e}, loaded)

\* The media query begins or ceases to match.  The listeners are called in the order they
\* were added, which the model does not keep: any may be the first of its name.
Media ==
  /\ matches' = ~matches
  /\ UNCHANGED <<ready, doc, used, url, idle, watched, built, updates, given, ended, twins>>
  /\ IF matches THEN UNCHANGED <<media, S, loaded, imports, begun>>
     ELSE /\ media' = {}
          /\ \E first \in [NamesOf(media) \ loaded -> media] :
               /\ \A n \in DOMAIN first : Name[first[n]] = n
               /\ Hydrate([e \in {first[n] : n \in DOMAIN first} |-> "trigger"], loaded, url, 0)

\* __LUNA_HYDRATE__(el), called by the page.
Manual(e) ==
  /\ e \in doc \cap Islands
  /\ UNCHANGED <<ready, doc, used, url, idle, watched, media, matches, built, updates,
                 given, ended, twins>>
  /\ Triggered({e}, loaded)

-----------------------------------------------------------------------------
(* updateDOM of sol-nav.ts                                                 *)

UnloadedFault(E) == {}
\* unloadAll: the names of the islands among E.  Web components are not unloaded.
Unloaded(E) == NamesOf(E \cap Islands)

\* The elements of out, the content of the outlets that the answer has, are replaced by N, of
\* which roots are no descendants of other new nodes, then both loaders scan; when the
\* page was shown from the cache and has changed, the islands are rerendered instead.
\* Last the observers see the roots.  An answer without a place only scans; left out.
UpdateDOM(out, N, roots, rerender) ==
  LET new == (doc \ out) \cup N
      on == loaded \ Unloaded(out)
      R == IF rerender THEN new \cap Islands ELSE {}
      T == Passing(AtOnce((new \ R) \cup roots) \ R, on)
  IN  /\ ready
      /\ N # {} \/ out # {}
      /\ N \cap used = {}
      /\ doc' = new /\ used' = used \cup N
      /\ ready' = TRUE
      /\ Arm(new \ R, roots)
      /\ given' = given \cap new
      /\ ended' = [e \in Elements |-> IF e \in new THEN ended[e] ELSE {}]
      /\ twins' = (twins \cap new) \cup Namesakes(new)
      /\ UNCHANGED <<url, matches, built, updates>>
      /\ Hydrate([e \in T \cup R |-> IF e \in R THEN "rerender" ELSE "trigger"], on, url, 0)

-----------------------------------------------------------------------------
(* hmr-client.ts                                                           *)

\* An update message for some islands, or for all of the document.
Update(names) ==
  /\ built < MaxUpdates
  /\ built' = built + 1
  /\ updates' = [updates EXCEPT ![built'] = [todo |-> names, waiting |-> FALSE]]
  /\ UNCHANGED <<ready, doc, used, url, S, loaded, idle, watched, media, matches, imports,
                 begun, given, ended, twins>>

Wildcard == LET o == Ordered(doc \cap Islands) IN [i \in DOMAIN o |-> Name[o[i]]]

\* An update message without islands: __LUNA_SCAN__.
Rescan ==
  /\ ready /\ built < MaxUpdates
  /\ built' = built + 1
  /\ ready' = TRUE
  /\ Arm(doc \cap Islands, {})
  /\ UNCHANGED <<doc, used, url, matches, updates, given, ended, twins>>
  /\ Triggered(AtOnce(doc \cap Islands), loaded)

ResetFault(n) == loaded
\* __LUNA_UNLOAD__
Reset(n) == loaded \ {n}

\* querySelector: the first of the islands that have this name.
Query(n) == {e \in Called(n, doc \cap Islands) : \A f \in Called(n, doc) : e <= f}

\* One turn of the loop of handleUpdate.  The state it puts back is overwritten by the
\* microtask of hydrate.
UpdateNext(u) ==
  LET n == Head(updates[u].todo)
      found == Query(n)
      stamp == [e \in Elements |-> IF e \in found \cap Linked THEN u ELSE url[e]]
      P == Passing(found, Reset(n))
  IN  /\ updates[u].todo # <<>> /\ ~updates[u].waiting
      /\ updates' = [updates EXCEPT ![u] = [todo |-> Tail(@.todo),
                                            waiting |-> P \cap Linked # {}]]
      /\ url' = stamp
      /\ UNCHANGED <<ready, doc, used, idle, watched, media, matches, built, given, ended,
                     twins>>
      /\ IF found = {} THEN UNCHANGED <<S, loaded, imports, begun>>
         ELSE Hydrate([e \in P |-> "update"], Reset(n), stamp, u)

-----------------------------------------------------------------------------
Next ==
  \/ \E e \in Elements, observed \in BOOLEAN : Parse(e, observed)
  \/ Ready
  \/ \E e \in Elements : Idle(e) \/ Visible(e) \/ Manual(e)
  \/ Media
  \/ \E h \in imports : Call(h) \/ Fail(h)
  \/ \E out \in SUBSET (doc \ Kept), N \in SUBSET (Elements \ Kept) :
       \E roots \in SUBSET N, rerender \in BOOLEAN : UpdateDOM(out, N, roots, rerender)
  \/ \E names \in {<<n>> : n \in NamesOf(Islands)} \cup {Wildcard} : Update(names)
  \/ Rescan
  \/ \E u \in 1..MaxUpdates : UpdateNext(u)

Spec == Init /\ [][Next]_vars

\* The document becomes ready, an import is answered or fails, and a promise that is
\* resolved continues its function.
Fairness ==
  /\ WF_vars(Ready)
  /\ WF_vars(\E h \in imports : Call(h) \/ Fail(h))
  /\ \A u \in 1..MaxUpdates : WF_vars(UpdateNext(u))

FairSpec == Spec /\ Fairness
-----------------------------------------------------------------------------
(* Properties                                                              *)

Hydration == [el : Linked, stamp : Stamps, update : Stamps]

\* The type of every variable; and an update waits for as long as its import is under way.
TypeOK ==
  /\ ready \in BOOLEAN /\ matches \in BOOLEAN
  /\ doc \subseteq used /\ used \subseteq Elements
  /\ url \in [Elements -> Stamps]
  /\ S \in [Names -> Elements \cup {None}]
  /\ loaded \subseteq Names
  /\ idle \in Seq((SUBSET Elements) \ {{}})
  /\ watched \subseteq used /\ media \subseteq used
  /\ imports \subseteq Hydration
  /\ built \in Stamps
  /\ updates \in [1..MaxUpdates -> [todo : Seq(Names), waiting : BOOLEAN]]
  /\ \A u \in 1..MaxUpdates : updates[u].waiting <=> \E h \in imports : h.update = u
  /\ begun \in [Elements -> Nat]
  /\ given \subseteq doc /\ ended \in [Elements -> SUBSET Stamps]
  /\ Namesakes(doc) \subseteq twins /\ twins \subseteq doc

\* An element of the document is hydrated once, however often scans, the observer, its
\* trigger and the page ask for it, except when an update or a rerender asks again, and but
\* for islands with a namesake, whose name another one loads and unloads.
DocOnce == \A e \in doc \ twins : begun[e] <= 1

\* The hydrate function of an element of the document is given the state of this element,
\* although the map is keyed by names that pages share and read after the import; but for
\* islands with a namesake, which have one place in the map.
OwnState == given \subseteq twins

Hydrated(e) == ended[e] # {}

LoadIslands == {e \in Islands : Trigger[e] = "load"}

\* What sol-nav.ts says before it scans: "scan and hydrate new islands".  An island with
\* the trigger "load" in a ready document is hydrated, unless it goes, its import fails, or
\* it has a namesake in the document.
NewHydrates ==
  \A e \in LoadIslands \cap Linked :
    e \in doc /\ ready ~> e \notin doc \/ e \in twins \/ Hydrated(e)

\* An island with the trigger "load" in a ready document, or a namesake of it in this
\* document, is hydrated, unless it goes or the import fails.  Not for a name of which
\* some island waits for an idle callback or a media query: these are called, and take
\* the name, after their island is gone.  Nor for one that some island has without a url.
LoadHydrates ==
  \A e \in LoadIslands :
    (\A f \in Called(Name[e], Islands) : f \in Linked /\ Trigger[f] \notin {"idle", "media"}) =>
      (e \in doc /\ ready ~> e \notin doc \/ \E f \in Called(Name[e], doc) : Hydrated(f))

\* An update that names an island runs the build it announces on the island, unless that
\* goes, the import fails, or another of this name comes before it in the document;
\* whatever other updates do meanwhile.
UpdateApplied ==
  \A e \in Islands \cap Linked, u \in 1..MaxUpdates :
    e \in Query(Name[e]) /\ (\E i \in 1..Len(updates[u].todo) : updates[u].todo[i] = Name[e])
      ~> e \notin Query(Name[e]) \/ u \in ended[e]
=============================================================================
