# A verification project for luna.mbt

luna.mbt is a reactive UI library written in MoonBit (`src/luna`), a full-stack
framework on top of it (`src/sol`), a static site generator (`src/astra`), a Web
Component toolkit (`src/stella`) and the browser scripts that hydrate and navigate
the pages these produce (`js/`). This directory holds TLA+ models of the parts whose
correctness depends on order: re-entrant callbacks, processes, messages. TLC checks
them on small instances, and TLAPS proves the properties that matter most for every
value of the constants. Paths below are relative to the repository root.

## Inventory

| Component | State | Operations | What is hard | What makes it correct |
|---|---|---|---|---|
| signal: propagation (`src/luna/signal`: signal, memo, effect, context) | subscriber arrays, memo dirty flags, effect activity, the global context: current subscriber, batch depth, pending queue; queued microtasks | get, set, memo getter, render_effect, effect, effect_once, dispose, batch, untracked, notify, flush | everything is synchronous and re-entrant: a loop over subscribers runs bodies that subscribe, write, create and dispose | no active effect or memo is stale when control returns; batches defer; dispose is final; the context is restored |
| signal: owners and cleanup (`context.mbt`, `effect.mbt`) | owner tree, cleanup and disposer arrays, current owner, current cleanups | create_root, on_cleanup, register_disposer, Owner::dispose | cleanups run user code while the arrays they sit in are walked | each cleanup runs exactly once, nothing runs under a disposed owner |
| signal: resource, watch, store | a state signal and callbacks | fetch, refetch, watch callbacks | answers out of order, a callback that writes its source | the latest answer wins |
| sol build worker pool (`src/sol/builder`, `src/sol/builder_pool`) | parent: worker states, pending jobs, results, counters, completion callback; each worker: its context | submit_jobs, wait_all, shutdown, message and exit handlers, worker handlers | parallel processes, lost messages, deaths, exit event against messages | one result per job, all of them before wait_all returns; it does return |
| luna/dom | DOM nodes, item lists, per-item owners | show, for_each, index_each, hydrate, repair | reconciliation under re-entrant updates | the DOM shows the list; each removed item's owner is disposed once |
| island loader, HMR (`js/loader/src`: loader, lib, wc-loader, hmr-client) | loaded sets, state maps, waiting triggers, imports under way, updates under way | hydrate, scan, unload, rerender, five kinds of trigger, update and rescan messages | two awaits between marking and hydrating; names shared by the islands of a component, on one page or several; triggers that outlive their element | an island is hydrated once per load, with its own state, and an update reaches it, whatever islands share its name |
| navigation (`js/loader/src/sol-nav.ts`) | page cache with timers, in-progress flag, history | navigate, prefetch, popstate, expiry timers | answers and timers out of order; requests ignored or overridden; answers the document has no place for | URL and content agree when everything is quiet |
| boot runtime (`js/loader/src/boot`, `js/loader/src/router`) | chunk and segment caches and what is loading, hover timers, current match, history | navigate, popstate, hover, prefetch, clear, render | navigations overlap at every await and share the caches; failures | requests are shared, no promise is kept that nobody settles, handlers find their chunks |
| chaos crawler (`js/playwright-chaos/src/crawler.ts`) | queue, visited pages, results, budgets, history of actions | crawl, testPage, one page, one action | failures at every await, two ways to find a link, random retries | each page once, within the budget, nothing found is lost; it ends |
| Web Components runtime (`js/wcr/src`) | signals with subscribers, an element's attributes, connection and dispose function | set, effect, connected, disconnected, attributeChanged | a write calls effects that remove and insert the element they belong to | the page shows the state in force; nothing of a removed element is at work |
| sol/browser_router | path and match signals | navigate, popstate | two signals written one after the other | observers see a matching pair |
| sol/isr, astra/isr | page cache with time stamps, manifest | handle, revalidate, update | overlapping revalidations | a stale page is eventually replaced |
| static site dev server (`src/sol/cli/ssg.mbt`, manifest in `src/astra/cache`) | documents, output and manifest on disk; known pages, build context, waiting file events | first build or skip, full and single-page rebuild, file events, stop | edits during builds, restarts, refused builds, a manifest that is compared with documents and not with pages | the page of each document is up to date when events are handled |
| sol/cli dev server, sol/hmr | server process, debounce time, clients | file event, rebuild, restart, notify | dropped events, failed builds | the last change is eventually served |
| astra/cache | metadata map, content files | get, set, remove, clear, save, load | crash between file and metadata; files shared by hash | a Hit returns what was stored |
| js/luna createStore, js/wcssr, other js packages | a signal per path; none | get, set, update | paths and their prefixes | observers of a path see its value |
| luna/render, serialize, css, static_dom, routes; sol/router; astra generator; core; stella | none that outlives a call | pure functions | size, not order | output equals its definition |

Components call each other directly: luna/dom wraps its work in effects and owners of
the signal library; sol's pages embed islands that the loader hydrates with luna/dom;
sol's build runs the worker pool, whose workers call the astra generator, which may
consult the cache; the dev server notifies the HMR client, which drives the loader; sol-nav
replaces content and asks the loader to unload and scan. The boot runtime, the crawler and
`js/wcr` stand alone.

`PROJECT.json` lists the components with what is modelled of each, and the hazards of
the code line by line with the property that covers each, or the plan for it.

## Modules

| Module | Kind | Stands for |
|---|---|---|
| `Reactive` | specification | the propagation engine of `src/luna/signal` |
| `ReactiveProofs` | proofs | the invariants of `Reactive` for all programs, that disposal is final and that propagation settles |
| `MCReactive` | instance | four programs for TLC |
| `Lifecycle` | specification | owners, cleanup functions and disposal in `src/luna/signal` |
| `LifecycleProofs` | proofs | what is in force, for all programs, and what disposal promises |
| `MCLifecycle` | instance | four programs for TLC |
| `JobBoard` | abstract specification | what the worker pool promises to its client |
| `WorkerPool` | specification | the pool, its workers, the channel between them, the client |
| `MCWorkerPool` | instance | constants for TLC |
| `Navigation` | specification | `js/loader/src/sol-nav.ts`, with the browser and the server around it |
| `NavigationProofs` | proofs | the invariant of `Navigation` for all pages and bounds |
| `MCNavigation` | instance | constants for TLC |
| `SsgDev` | specification | the dev server of static sites and its build manifest |
| `MCSsgDev` | instance | constants and symmetry for TLC |
| `BuildProofs` | proofs | the invariants of `WorkerPool`, that it implements `JobBoard`, and the invariant of `SsgDev` for all documents |
| `Islands` | specification | the island and web component loaders, `updateDOM`'s part in them, the HMR client |
| `IslandsProofs` | proofs | the invariants of `Islands` for all documents and updates |
| `MCIslands` | instance | documents with islands of one name for TLC |
| `BootRouter` | specification | `ChunkLoader`, `MinimalRouter` and the handler of `SpaRouter`, with the browser |
| `BootRouterProofs` | proofs | the invariant of `BootRouter` for all paths, segments, chunks and bounds |
| `MCBootRouter` | instance | two routes and symmetry for TLC |
| `Crawler` | specification | the chaos crawler and its fixture |
| `CrawlerProofs` | proofs | the invariant of `Crawler` for all sites and budgets |
| `MCCrawler` | instance | a site for TLC |
| `WebComponent` | specification | the Web Components runtime with one element |
| `WebComponentProofs` | proofs | the invariant of `WebComponent` for all values and bounds |
| `MCWebComponent` | instance | the module as it is |

Operators whose name ends in `Fault` are used by no action. Each is the mutated form of
the operator that follows it; replacing the one by the other breaks the property that
`PROJECT.json` pairs it with, which shows that the property is not vacuous.

### Reactive

`subs`, `dirty`, `subscriber`, `batchDepth` and `pending` are the variables of the code
(`Signal.subscribers` and `MemoState.subscribers`, `MemoState.dirty`, and the fields of
`reactive_context`; `pending_ids` always mirrors `pending_effects`, so the two are one
sequence). `status` joins `EffectState.active` with whether the effect exists yet and
whether its creating call has returned, because only then does anyone hold its dispose
function. `microtasks` is the queue of the host. `stack` makes the call stack of the
single JavaScript thread explicit, one frame for each activation that user code can
interrupt; the local variables of those functions are the frame's fields: the position
in a subscriber loop, the array length read before it, and the subscriber to restore.
The code generator reads an array's length once before a `for .. in` loop
(`examples/astra_app/docs/public/islands/wiki.js:1378`), hence `last`.

Every action is a run of code between two points where user code is in control or is
called: `Set` is a write up to the loop of `notify`; `NotifyNext` is one iteration,
which calls `schedule_effect`, which queues the subscriber, runs an effect (a new `body`
frame), or marks a memo (a new `notify` frame); the `..Return` actions are what follows
the call. User code is a relation, not a script: the constant `Programs` says what each
function may read, write, create and dispose, and TLC explores all orders and
repetitions. Functions of memos only read. Values are abstracted: a write changes the
signal, `sources` records what the last run of a computation derives from, and
`outdated` the computations whose last run used something changed since.

Not in this module: cleanup functions and owners (they are in `Lifecycle`); exceptions thrown
by foreign code through the library; memos whose function writes, so that a memo is never
marked while it computes; and the operations on the subscriber array that bypass tracking,
`on`, `on_immediate`, `remove_subscriber` and `clear_subscribers` (`signal.mbt:67-115`), of
which only `dom/debounced.mbt` and the API for JavaScript make use.

### Lifecycle

`life` joins `Owner.disposed` and `EffectState.active` with whether the scope exists;
`parent`, `children`, `disposers` and `cleanups` are the fields of `Owner` and
`EffectState`, where a disposer is named by the effect it disposes. `owner` is
`reactive_context.current_owner`; `tracking` stands for `current_cleanups`, by the effect
whose array that is. `stack` is the call stack once more: a frame for each root, entered
owner, effect function and cleanup function, which user code fills, and for each loop of
`run_cleanups` and `Owner::dispose`, whose `at` counts the elements still to visit.
As in the code a loop starts at the length its array has when the loop starts, and an
index past the end of an array that has shrunk is an error: `panicked`, after which nothing runs
in the model. In a browser the error unwinds the calls in progress, `run_with_owner` and
`run_with_cleanup_tracking` (`context.mbt:229`, `248`) among them, and none of them restores what it
replaced; so later events run with a stale owner, about which nothing here is promised.

`CreateRoot`, `RunWithOwner`, `RenderEffect`, `DeferEffect`, `OnCleanup`,
`OnOwnerCleanup`, `DisposeEffect` and `DisposeOwner` are the calls user code makes;
`Rerun` is user code that writes what an effect has read (which effects a write reruns,
and when, is the business of `Reactive`). The other actions are what follows a return or
an iteration of a loop. `Programs` says, as in `Reactive`, what each function may do.
`home` and `ran` are history: no guard of a library step reads them. `home` records
where a cleanup was registered by the author's reading, the function that is running,
which is not where the code files it.

Not in this module: context values of `provider.mbt`, and the DOM that the owners guard.

### WorkerPool and JobBoard

The variables of the first group are the fields of `WorkerPool`; `on_complete` is there
as the phase of the client, since `wait_all` installs it and its only effect is to
resolve that promise. The client is `run_parallel_build`: submit, wait, possibly again,
shutdown. The loop of `submit_jobs` is one action per worker with events held back
(`client = "submitting"`), since no event is handled in the middle of a synchronous
call. Each worker process is a phase (`proc`) with one FIFO channel each way.
Reading and writing a channel is atomic; a worker that dies loses what it has not read,
and any suffix of what it has sent; its exit event is unordered with what survives of
its messages. A message to a process that is gone is dropped (Node reports it
by an error event, for which the pool has no handler). Jobs are handed out
newest first, as `unsafe_pop` does.

`JobBoard` knows only the jobs asked, the jobs with a result and whether the round is
open. The mapping is in `WorkerPool`: the sets of elements of `asked` and `results`, and
the phases of the client in which a round is open.

Not in the model: the content and success of a result, and a timeout, because no code
reads `timeout_ms`.

### Navigation

`cache` is the map of the script, `timers` the calls of `setTimeout` that have not fired
(all have the same delay, so they fire in order), and `nav` the navigation under way with
what it holds across its await: the key, `replace`, and the cached page it has shown.
`isNavigating` is `nav # None`. `prefetches` and `loading` are fetches of prefetch and the
page load that `location.href = url` asks for. `shown` is what the document shows, and
`entries` with `index` the history of the browser.

The content of a page is a version number. The server may change a page at any moment
(`Change`), and an answer is the page as it was at some moment between the request and
the arrival of the answer. A link is cached under its `href` attribute, while `popstate`
navigates to `location.href`, which is absolute: the same page has two keys (`Link`,
`Location`). Only answers with `X-Sol-Fragment-Response` are cached by `navigate`
(`Fragments`); `prefetch` caches everything.

`updateDOM` changes the document only if it finds a place for the answer (`Fits`): the outlet of
a fragment, or `#app` in the answer and in the document. `Outlets` and `Apps` say which whole
documents have these, and `frame` is the page of the last one the document was made of. The
URL is entered in the history in any case, as in the code.

`Click` and `PopState` are `navigate` up to its await, `Answer` and `Fail` the rest; `ClickIgnored` is
the click that `navigate` swallows while another navigation is under way, and `PopState` has such a
branch. `Prefetch`, `Prefetched` and `PrefetchFailed` are `prefetch`; `Expire` is a timer;
`Load` is the browser starting over with an empty cache. History variables: `wanted` is
the page the user asked for last, or `None` when nothing comes of that, because the request was
ignored, or because a full page load was on its way already and overrides it; no answer and
no load rewrites it. `dropped` says that a popstate was ignored and no navigation has begun since,
and `asked` is the server's version when the last navigation began.

Not in the model: titles, scrolling, and outlets as such, of which only matters whether there is
one; islands in `updateDOM`, which are in `Islands`; links with
modifier keys and external links, which the script leaves to the browser; the history
entries of documents before the last full load, since going to one is a load.

### SsgDev

`content`, `output` and `manifest` are on disk and outlive the server: the documents, the
pages by their URL (`url` is where the page of a document is, and two documents such as
`guide.md` and `guide.mdx` may have one), and `build-manifest.json`, whose hash of the documents is taken for the documents
themselves (32-bit and 64-bit FNV collisions are left out). `pages` and `known` are
`build_ctx.pages` and `known_pages`, `events` the events of `fs.watch` that wait while the
single thread is busy, and `phase` with `todo` the position in `run_ssg_dev` and in the
loop of `generate_site_internal`. `Skip`, `Start`, `Generate`, `Save` and `Watch` are the
start; `New`, `Deleted`, `Changed`, `Ignored` and `JsonChanged` are the branches of the
listener; `Edit` and `Stop` may happen at any moment, since editors and signals do not
wait for the server. `Build` is a build up to its loop. It finds no documents, or two of one
URL (`Clash`), and is refused (`static_render.mbt:456-469`): nothing is generated, no manifest is saved, and the
server goes on to watch, or keeps watching.

`astray` is history: the documents nothing is promised about until they are generated
again. A document goes astray when it is edited while a build is running, when it is given back the
content the manifest has for it, when a build it was due in (for the first build: the manifest does
not describe it; for the others: its event started it) is refused for a clash, which need not be its
own, and when another document of its URL is generated over it.
`BuildProofs` extends this module together with `WorkerPool`, so `SsgInit`, `SsgNext`, `SsgSpec`,
`SsgTypeOK` and `ssgVars` carry a prefix here.

A page is the content of its own document. It really also shows titles of others, in the
sidebar and in the links to its neighbours, which a single-page rebuild takes from the
documents as they were at the start. Not in the model: dynamic routes, which have a page for each of
their parameters, and the other sources of pages that `resolve_duplicate_pages` can drop in favour of one
another (`.html` and `.tsx` files), so that here a duplicate is always an error; `.js` events, which copy files; a
torn page when the server is killed while it writes; `run_ssg_build` and the per-page
disk cache it uses, which no command of `sol` calls at this commit. (The worker pool, too,
is only reached from there.)

### Islands

The loaders keep a set of loaded names and a map from names to states; the two loaders
are the same code but for their attributes, so one `loaded` and one `S` serve both, and
`Islands` tells which loader an element belongs to. The name of an island is `luna:id`, which the
renderer makes from the url or the name of its component (`render_to_string.mbt:381`, `446`, `510`): all islands
of a component share it, on one page as on several. Nothing in the model restricts that.

A step is a task of the event loop with
its microtasks: `parseState` never leaves the loop, `import` does, so `imports` holds the
hydrations between the two. `idle` are the batches of idle callbacks, `watched` the
elements under an `IntersectionObserver`, `media` those with a listener, all of which keep
their element and may outlive its stay in the document. The state of an element is the
element itself, which makes `OwnState` the statement that no island gets another's. When one task
hydrates several elements of a name, the triggers pass the first of them (`Passing`), a
rerender passes all, and the state of the last one is in the map when the imports are answered (`Latest`).

`Parse` is the parser adding an element (seen by the loader's `MutationObserver` or not),
`Ready` is `DOMContentLoaded`, `Idle`, `Visible`, `Media` and `Manual` are the other ways to
`hydrate`, `Call` and `Fail` the two outcomes of an import. `UpdateDOM` is one call of the
function of that name in `sol-nav.ts`: unload, replace, scan or rerender, the observers
last. It replaces any elements `out` but the `Kept` ones, which are outside of every outlet, and
may hand in any new elements, which stands for answers with any outlets and content; an answer
that fits nowhere only scans and is left out. `Update`, `UpdateNext` and `Rescan` are the HMR client; an
update message is its own time stamp, and `updates` says what each running
`handleUpdate` has still to do. It finds the first element of a name only (`Query`), since it uses
`querySelector`. History: `begun`, `given` and `ended`, of the hydrations of an element and what became of them,
and `twins`, the islands of the document that were there together with one of the same name.

Not in the model: the error overlay, reconnecting, the `luna/json` preload (a state that the
first hydration overwrites), and `full-reload`, which begins another behaviour. The restored
state of an update (`hmr-client.ts:72`) is overwritten by `parseState` before anything can
read it, so `UpdateNext` leaves it out; islands lose their state at each update.

### BootRouter

`have` joins `loaded` and `segments`, `pending` is `loading` and `segmentLoading`, and a
promise is a thing with a number, so that after `clear` an old and a new promise for the
same thing differ while the maps, keyed by name, cannot tell them apart. `navs` are the
navigations under way, each with its phase and the promises it awaits; `Begin`, `Matched`,
`LoadForPath`, `Notify` and `Rendered` are the code between its awaits, and events of the
browser come when no navigation can continue (`Settled`). `entries` and `index` are the
session history, `timers` and `mapped` the hover timers that run and the keys of
`prefetchTimers`, `leaving` the page load that was asked for. A reload keeps the history;
another load begins it anew. `evaluated` is history.

Not in the model: flat manifests, `HybridRouter` and `ScrollManager`, scroll positions,
`modulepreload` links, links the router leaves to the browser, a manifest still loading.

### Crawler

The variables are the fields of `ChaosCrawler`, `history` by its length, `page` what
`crawlPageWithExistingPage` holds across its awaits, and `phase` the await the crawler is at.
What a browser may answer is nondeterministic: a status, a failure or a timeout at any
point, links that cannot be extracted, an element that is not visible, a failing `close`.
The weighted choice takes any link of the document. `Crawl` and `TestPage` are the fixture's
calls on one object; `testPage` resets only the origin.

Not in the model: error lists, metrics, screenshots, the log, the totals of the report, a
browser that cannot be launched.

### WebComponent

The component is the counter of `js/wcr/examples` with one more effect, `watch`, whose later
runs may themselves click, set the attribute, remove or insert the element. `followers` are
the subscribers of the attribute's signal, a `Set` of the code, in their order (`Add` and `Without`
are its `add` and `delete`), with the one that tracking adds (`Followed`): the innermost effect that runs
when the signal is read, `currentEffect`. The subscribers of each count
are fixed. `live` are the effects that are not disposed of, and `stack` the calls in
progress, a loop of `#notify` keeping the copy it made of its subscribers. `Insert` is
`connectedCallback` up to `#syncAttributes`, `Setup` and `AttachFails` the rest.

Not in the model: styles, templates, `bindAttr`, `onCleanup`, cleanups returned by effects,
and a first run of `watch` that uses the element.

## Runs

| Run | Bounds | Shows |
|---|---|---|
| `reactive` | 2 signals, 2 memos, 3 effects, 2 writes, batches 2 deep, 4 programs | all properties of `Reactive` that hold |
| `pool` | 3 workers, 3 jobs, 2 rounds, 1 crash | safety, refinement and liveness of the pool |
| `pool_wait` | 2 workers, the same otherwise | `wait_all` may never return |
| `lifecycle` | 3 owners, 2 effects, 2 cleanups, 3 reruns, stack of 8, 4 programs | all properties of `Lifecycle` that hold |
| `lifecycle_unmount` | program `Branch`, 2 reruns, stack of 6 | a component's cleanup may run while it is mounted |
| `navigation` | 2 pages, one answered with fragments, for an outlet that only the other has; 1 change of each, 2 history entries, 2 timers, 1 prefetch at a time | all properties of `Navigation` that hold |
| `ssg_dev` | 2 documents, 2 contents, 2 URLs, all symmetric; nothing else is bounded | all properties of `SsgDev` that hold |
| `islands` | 2 islands of one name, 2 web components of the layout, 2 updates | all properties of `Islands` that hold |
| `islands_new` | as `islands`, with an island that waits for an idle callback; no updates | an island of a later page is never hydrated |
| `boot_router` | 2 paths, 1 segment, 2 chunks, 2 navigations, 2 history entries, 1 `clear`, 2 timers per link; symmetric navigations | safety of `BootRouter` |
| `crawler` | 5 addresses on 2 sites, 2 pages, 1 action per page, 2 calls | safety and termination of `Crawler` |
| `web_component` | 3 values, 3 setups, 7 uses of the element, every shadow option | safety of `WebComponent` |

The bounds of `reactive`: two writes are enough for a write during the propagation of
another and for two writes in a batch; depth 2 is enough for a nested batch and for a
batch in an effect of a flush; the programs contain a memo over a memo, an effect with
a direct and an indirect dependency, an effect that writes what another (or itself)
reads, an effect that creates and disposes another, and `effect_once`. A longer run
with three writes and unnested batches (1.75 million states) passes too.

The bounds of `pool`: three jobs and three workers give workers that are idle, busy and
initializing at once; the rounds include one shorter than the number of workers and an
empty one; two rounds let leftovers of the first meet the second; one crash at any
moment in any worker, together with init data that may not parse (`initOK`), reaches
every loss the code can meet.

The bounds of `lifecycle`: three owners make a tree of three levels or a parent with
two children; two effects can own or contain each other, two cleanups order against each
other, three reruns let an effect rerun after its inner one was replaced. Depth 8 leaves
room for a cleanup called by the disposal of a child of a disposed root inside an
effect. The programs: `Branch`, an effect that mounts and unmounts a root, as
`show` does; `Tree`, nested roots and a captured owner; `Inner`, an effect in an
effect; `Siblings`, a cleanup that disposes a sibling owner. In these programs no
function disposes the scope it runs in and no cleanup writes a signal. Both are legal,
and both break what is checked here: an effect whose first run disposes its owner is
registered too late and outlives it, a cleanup whose write reruns its own effect is
called twice, and one that disposes its own effect does not stop the function.

The bounds of `navigation`: two pages are enough to be at one, go to the other and have a
popstate in between; with one change each, an answer, a prefetch and the cache may
all differ from the server. Two entries allow a push at the end, a push that drops an
entry, and a move in both directions. Two timers allow an old timer to delete what was
cached later under its key. One prefetch at a time overlaps with a navigation to the
same page; what two of them could do, one after the other does. One page is answered with
fragments, for an outlet that only the other page has when it is loaded as a whole; both have `#app`. So a document
loaded at the first has no place for its own fragments, and one loaded at the other has a place for both.

The bounds of `islands`: two islands that share a name, on one page or on two
after one another, are what the sets keyed by names can confuse; the web components stay in the layout, so that something is
kept while the rest is replaced. The islands are `visible` and `load`, the components `media` and `idle`, and in
`islands_new` the first island is `idle`. Two updates overlap. They multiply the states, so the
constraint `UpdatesAlone` lets them come only to pages without the web components, which no update
concerns, and without changes of the media query, to which only the components listen. No step under fairness leads out of the
constraint, so that the liveness properties are checked of all fair behaviours within it. `LoadHydrates` is about
names without idle or media islands, because of the finding below, and asks for one island of a name only.

The bounds of `boot_router`: two navigations share a segment and a chunk, or ask for
different ones; one `clear` at any moment separates an old promise from a new one, and
two timers let the later overwrite the entry of the earlier (after a `clear`, the constraint
`FewTimers` keeps one, which saves a third of the run: a timer does nothing to the caches but start a
request). The SPA router lacks one of
the two routes, so its fallback starts a navigation inside another. A third navigation or a
second `clear` exceeds the time of a run; the theorems cover any number.

The bounds of `crawler`: a budget of two pages is reached, or missed when pages are excluded
or visited already; pages link to themselves, back and abroad. Two calls let `testPage` find
what `crawl` has left. The theorem covers larger sites.

The bounds of `web_component`: seven uses allow a write whose effect removes the element,
inserts it and writes again, all inside another such write; three setups meet in one loop.

`ssg_dev` has no bound on the length of a run: two documents let one change while the other
is generated, or decide alone whether the manifest matches, or clash, when they have one
URL of the two; two contents let a document change and be restored.

`CHECK_DEADLOCK FALSE`: in the runs of `Islands`, `Crawler` and `WebComponent` nothing may be left to
do when the bounds are used up. In the runs of `Lifecycle` the event loop may have nothing left
to do, and nothing runs after a panic. In the pool's runs, after shutdown nothing is left to do, and after a
crash the client may wait for ever, which `pool_wait` is about.

**Fairness.** `Reactive`, `Lifecycle`, `SsgDev`, `BootRouter` and `WebComponent` state no fairness:
everything they promise is safety, at the moments when the stack, or the queue of events, is empty. `WorkerPool` assumes weak fairness of each worker's
steps, of the delivery of its events to the parent, and of the client's calls in
progress: Node delivers pending events and runs live processes. It assumes nothing of
`Submit` and `Shutdown`, which the client need not call, and nothing of `Crash`.
`Navigation` assumes that a request is answered or fails in the end, which is what
`fetch` promises short of a peer that never closes its connection, and that the page the
browser is told to load is loaded. `Islands` assumes that the document becomes ready, that
an import is answered or fails, and that a function whose promise is settled goes on;
nothing of triggers, updates or navigations, which need never come. `Crawler` assumes that
the crawler goes on: `goto`, `click`, `fill` and `waitForLoadState` have a timeout of their own;
`page.evaluate` and `isVisible` have none, and a page whose script never yields keeps them,
and the crawler with them, waiting.

### Findings

* `wait_all` never returns when a worker dies while busy or when the init data does not
  parse (`pool.mbt:156-169`). What holds is `WaitReturnsWithoutFault`.
* A component's `on_cleanup` goes to the effect that happens to run rather than to the
  component's owner (`context.mbt:206`). `show`, `for_each` and `index_each` render inside
  an effect (`render.mbt:299`, `389`, `533`), so the cleanup runs at that effect's next rerun.
* The idle callback or media listener of an island fires after its page was left, and marks
  the island's name as loaded (`loader.ts:33`): a later page's island of that name is never
  hydrated. What holds is `LoadHydrates`, which excepts names with such islands.

### Known limits

These came up while the code was modelled. The models have them, no run is about them, and the
properties that hold make room for them.

* `run_ssg_build` takes any `num_workers` (`ssg.mbt:62`, `88`): a pool of no workers has a client that
  waits for ever.
* `effect_once` runs its function twice: the dispose function is stored after the
  synchronous first run that should have called it (`effect.mbt:101-112`).
* An effect may run twice in the flush of one batch: marks are propagated through
  memos by running their subscribers at once, while the same subscribers are queued
  (`memo.mbt:27`, `context.mbt:184`). `RunOncePerFlush` promises one run to effects that
  read no memo.
* Inner effects are not disposed when the outer effect reruns (`effect.mbt:69`): each rerun
  adds one.
* `Owner::dispose` fails when a cleanup disposes a sibling, because the loop over `children`
  keeps its index while the array shrinks (`context.mbt:61`, `78`): `OutOfRange` in
  `Lifecycle`, reached in the program `Siblings`, after which nothing is promised. In a browser
  events go on after the error, with the owner and the cleanups that were in force when it happened.
* A `popstate` during a navigation is dropped (`sol-nav.ts:89`): the address bar names one
  page and the document shows another, or the answer under way takes over the entry the
  user went to. `AddressShown` excepts it. A click during a navigation is swallowed, too: neither
  the script nor the browser follows the link. A full page load that a failed navigation has asked for
  overrides what the user clicks before it comes (`sol-nav.ts:140`).
* `updateDOM` shows nothing when the document has no place for the answer (`sol-nav.ts:46`, `62`), and the URL
  is entered in the history all the same. `AddressShown` and `Fresh` except such pages.
* The dev server's manifest is hashed after the build (`provider.mbt:77`), and a rebuild of a
  single page does not save it (`ssg.mbt:303`): a document edited during the first build, or
  edited and restored, is in the manifest and not in its page, and later starts skip the
  build. `Served` excepts these documents. While two documents have one URL every full build is refused, and
  the server says so and keeps watching with what pages there are (`static_render.mbt:466`, `ssg.mbt:344`, `361`);
  when the clash is gone, a document that was due in the refused build gets its page with the next full build or,
  if it was there when the server started, its next edit. A document created while the dev server runs is
  never rebuilt alone, because `build_ctx` does not know it (`ssg.mbt:374`).
* "Each island is independent" (`website/01_luna/04_tutorial-js/13_islands_basics.md:146`), but the loaded set is keyed by
  `luna:id`, which islands of one component share (`render_to_string.mbt:380`): of two on a page the second is taken for
  loaded and never hydrated (`loader.ts:33`). What
  holds is that one of them is hydrated (`LoadHydrates`), and that an island which was never in the document with a
  namesake is hydrated once and with its own state (`DocOnce`, `OwnState`).
* An import that fails leaves the island's name loaded: only navigation or an update tries
  again (`loader.ts:34`). Web components are never unloaded, and a second element of a tag
  stays as the server sent it (`wc-loader.ts:51`). A rerender hydrates islands with the
  trigger "none", or whose trigger has yet to fire (`loader.ts:76`), and gives islands of one name the
  state of the last. An update reaches the first island of a name only (`hmr-client.ts:51`). Updates that overlap may
  finish out of order, the newer build first (`hmr-client.ts:50`).
* `currentMatch` stays with a navigation that failed or was overtaken (`router.ts:92`); of two
  navigations the one that finishes last is shown, whichever was asked for last; and a
  popstate whose segment cannot be fetched calls the handlers without the chunks
  (`router.ts:271`). A failed chunk rejects the promise of `navigate`, which no one catches.
* The crawler loses the links of a page that fails after they were extracted, but keeps those
  it has clicked (`crawler.ts:596`). `start` after `testPage` on another site keeps that
  site's origin (`crawler.ts:262`; the fixture's `crawl` sets it again). `blockedNavigations` of a
  result is always empty (`crawler.ts:417`).
* In `js/wcr` the attribute value 0 of a number becomes its default (`define.ts:55`); a closed
  shadow root makes the second insertion fail (`define.ts:113`); a setup that removes its own
  element leaves its effects alive (`define.ts:172-175`); disposed effects stay subscribed;
  moving an element resets what its setup keeps.

## Proofs

`ReactiveProofs` proves, from `ReactiveAssumption` alone (the identities are disjoint
and the programs well-typed), `Spec => []TypeOK`, `Spec => []Drained` and
`Spec => []NoRerunInBatch`. Neither of the last two is inductive. The strengthening is

    IInv == TypeOK /\ StackOK /\ QueueOK

`StackOK` is the call discipline. `Shape` says that the bottom frame was called from an
event handler, with no subscriber and no batch; `Chain` that each frame was called
with the subscriber and the batch depth the frame below it has in force, so that what
a frame restores is what its caller expects; `Sound` that the frames are of the kinds
their callers can make, and that `subscriber` and `batchDepth` are what the top frame
puts in force. `QueueOK` says that the queue is empty unless a batch is open or a flush
is on the stack. `Drained` follows at the empty stack, and `NoRerunInBatch` because a
body is only called at depth 0. The lemmas first say what pushing, popping and
advancing a frame does to a chain, then what each call does, then treat Next action by
action.

Its second part is about the action property `DisposedNeverRuns`. It needs to
know that an effect does not come back to life: `FirstReturn` makes its effect live
whatever its status is. `LifeOK` says that an effect under its creating call has one such
call and is still being created, so that nobody holds its dispose function yet. With it,
each step keeps the disposed effects disposed and pushes no frame for their functions
(the relation `Kept`).

`Spec => []RunOncePerFlush` rests on two invariants. `BornOK`: before an effect is created no
array, queue, frame or history refers to it, so that an effect starts with a clean
record. `OnceOK`: outside a flush the history is empty; the queue holds nothing twice; and
while no effect of the flush has written a signal, the loops above it are those of memos, and an
effect that reads no memo has not run, or has run once and is not queued again. `FlushNext`
takes an effect out of the queue before it runs it, and only a write puts it back.

`Spec => []Settled` (theorem `PropagationSettles`) is the deepest of the file: when control is
back with the event loop, nobody is left with an old value. Three further facts are inductive with it.
`ComputeOK`: functions of memos call only one another, and whoever called one is subscribed
to that memo already. `ReadsOK`: a memo is subscribed to what its function reads. `Linked` and
`Covered`, over the active effects and the memos that answer from their cache or
are being computed (`Must`): whoever has used a signal hears of it, because it
still waits for its turn, subscribes to it, or subscribes to a clean memo that used it; and whoever is
outdated is reached, because it waits for its turn or subscribes to a clean memo that is outdated, whose mark
is still to come. The steps fall in the quiet ones, which take nothing from anybody, the reads and
returns of memos, where a computation inherits what the memo used, the writes, after which
everybody who used the signal is in the new loop, and the runs, which start the record of one
computation anew. At rest nobody waits, so an outdated computation needs an
outdated clean memo it subscribes to, this memo another one, and so on. That this chain
ends is `AcyclicAssumption`: among any memos there is one that reads none of them. The
code justifies it: a function of a memo that reaches itself finds the memo still dirty and calls itself
without end (`memo.mbt`), and a closure can only mention memos that were made before it.
Only the last lemma uses it (`SettledAtRest`).

`LifecycleProofs` proves `Spec => []TypeOK` and `Spec => []Restored` from
`LifecycleAssumption`, for every program, those that dispose scopes from inside
themselves included. The invariant adds to the types that each frame is about a scope of its own
kind (`Sound`) and that owner and effect are `Linked`: there is a list of the values that
were in force below each frame, from none at the bottom to the present one at the top,
each frame that installs a value remembering the one below it. The list is stated to
exist rather than computed, because it is recursive in the stack.

What disposal promises is the second half of the file, the longest proof of the project. It
has two hypotheses. `Silent`: the cleanup functions of a program call nothing of the library.
Those of the repository print or remove nodes (`portal.mbt:132`, `examples/spa/main.mbt:112`); a
cleanup that disposes a sibling ends in an error, as `Siblings` shows. `Orderly`, of the steps of
a behaviour: nobody enters an owner that was disposed, or disposes a scope from code that runs
inside it. An effect created by a scope that has disposed itself has nobody left to dispose
it. Programs as a whole are not restricted: effects may create, dispose and rerun one another in any
order, as in `Branch`, `Tree` and `Inner`, where the hypotheses are met.

`Spec => DisposedStaysQuiet` (`DisposalIsFinal`) needs `Silent` only. Its invariant is

    QInv == Shape /\ Creating /\ Registered /\ CleanActive

`Shape` says that the loops of one disposal, or of the cleanups before a rerun, are on top of all code of
the user, and one cleanup function on top of them. So nobody can dispose an effect between the
cleanups that precede its rerun and the rerun (`CleanActive`), which the code does not check
again. `Creating` and `Registered`: an effect under its creating call has one such call and is in no
array of disposers yet, so that the return of this call cannot bring a disposed effect back to life.

`CleanedOnce`, `NothingOutlives`, `ChildrenFirst` and that no loop reads past the end of its
array (`NeverOutOfRange`) follow from one more invariant, inductive with the other two:

    DInv == Contexts /\ Trees /\ Attached /\ Loops /\ CInv /\ ~panicked

`Contexts`: what is in force, and what a call puts back, belongs to a call below and is not disposed, and
when the first run of an effect ends the owner in force is again the one at its creation.
`Trees`: `children` and `disposers` of an owner hold all that is alive under it. `Attached`:
what is at work is under a live owner, or under one with a disposal in progress. `Loops` says for each loop of
`Owner::dispose` that what it has passed is disposed (`LoopOK`), that no code runs inside of what is
being disposed (`Apart`), and that an owner whose disposal is nested in the loop is not among the
elements still to visit (`Behind`), which is why it may take itself out of the array at the end: this only
moves elements already visited, and the index stays in range. `CInv` is about cleanups:
each is in one array at one place (`OneArray`); the loop over an array has called what is above
its index and nothing else (`Swept`); and one that was not called is in the array of an active
scope or of one whose disposal will still reach it (`Pending`). TLC can evaluate `QInv` and
`DInv`: they hold in all states of an instance with two owners, an effect, a cleanup and one program, in
which every function but the cleanup may create, dispose, enter and rerun everything.

The first part of `BuildProofs` proves of the pool, for any number of workers and jobs (`PoolAssumption`: rounds
are lists of distinct jobs, none of them `NoJob`), `Spec => []TypeOK`, `Spec => []NobodyIdle` and
`Spec => BoardSpec`, the refinement of `JobBoard`. The invariant is

    IInv == TypeOK /\ LineOK /\ TokensOK /\ BooksOK /\ RestOK

`LineOK`: at most one request or answer is under way for each worker, and it agrees with
the worker's state at both ends. `TokensOK`: each job of the round is in one place only, the list
of pending jobs, one worker, one message, or the results. `BooksOK`: the counter is the
number of results, and lists and counters agree on the size of the round. `RestOK`: where the scan of
`submit_jobs` has passed, no idle worker is left while a job is pending. The refinement needs the first
three: when the counter reaches the total, the results, which are distinct jobs of the
round, are all of them (lemma `Covered`, by cardinality).

Two more theorems are the safety halves of what TLC checks as liveness; no run lists them,
but they hold in all 77321 states of `pool`. `WaitsForSomebody` (`NeverStuck`)
says that a wait has something to wait for. `GoingOK`, inductive with `IInv`, says that as long as
nothing fails each worker is served (`Serving`: it lives, it is idle or something is under way for it, and jobs are
sent to ready workers only) and no job of the round is lost (`Kept`). If nothing were under way, every worker
would be idle, so no job would be pending, on its way or in work, so every job would have a result, and the
counter would have reached the total. One worker is a hypothesis: a pool of none has nobody to
wait for. `ShutdownReaches` (`ShutdownSent`) rests on `EndOK`: the parent takes no live worker
for a dead one, so the filter in `shutdown` leaves out nobody who has to be told. It needs no hypothesis:
crashes and messages that overtake an exit event only err in the other direction.

`NavigationProofs` proves `TypeOK`, `AddressShown`, `Fresh` and `CacheExpires` from
`NavigationAssumption`, which only keeps `None` apart from the rest: they hold for any
number of pages, prefetches under way, timers and changes, and for any layouts of the pages. `CacheExpires` is inductive by
itself. The other two need `UnderWay`, what `navigate` may rely on after its await: the
page is still the one the user wants, or nothing comes of that; and if it came from the cache, it is
in the address bar and, where it has a place, in the document, so that comparing the answer with `cachedHtml` decides
whether the document is up to date.

The second part of `BuildProofs` proves all four invariants of `SsgDev`'s run, for any documents, URLs and contents, from
`SsgDevAssumption` (`Absent` is no content, and `Json` no document). The strengthening says
in each phase what makes a page right: `ManifestOK`, a document that is as the manifest has
it; `BuildOK`, one that the build under way has passed; `ScanOK`, every one after the first
build; `WatchOK`, one without a waiting event; each but for documents that are astray. A refused build
establishes none of these for the documents it was due for, which is why they go astray then.

`CrawlerProofs` proves `TypeOK` and `Explored` from `CrawlerAssumption`: links stay in the set
of addresses, and each document has finitely many. The invariant is

    IInv == TypeOK /\ Working /\ Loop /\ Bounded /\ Fresh /\ Sourced /\ Found

`Working` says that the page in work, when there is one, has links its document has and a source
that links to it; `Loop` that only a crawl loops, and that it ends with an empty queue or a spent
budget. `Bounded` keeps the visited pages within the budget and apart from the excluded. `Fresh` is
the reason that nothing is visited twice, and `Found` survives because an address leaves the queue
only to be visited, or because it was visited or is excluded. That `Collect` queues each new link once, in any order, is the lemma about `Orders`.

`BootRouterProofs` proves all three properties of its run from `BootRouterAssumption`, for any
number of paths, segments, chunks, navigations and bounds. For each thing the invariant counts the
requests under way: at most one more than calls of `clear`, and no more than these if the maps have no
entry for it (`Counted`), which is what an answer to a forgotten promise leaves behind.
`NavRight` says what a navigation has in each phase: awaited promises are under way,
past `matchPath` there is a route, and a chunk it no longer awaits has been loaded in this document.

`IslandsProofs` proves `TypeOK`, `DocOnce` and `OwnState` from `IslandsAssumption`, for every
document, any names and triggers, and any number of updates. The invariant is

    IInv == TypeOK /\ UpdatesOK /\ IdleOK /\ HeldOK /\ OnceOK /\ OwnState

What protects an element is its name, as long as it has the name for itself in the document (`Alone`, the
document without `twins`). `OnceOK`: such an element that a trigger has hydrated was so once,
and its name is held as loaded, so that another trigger of it, or of an
element of a page it shares the name with, does nothing. `HeldOK`: such an element whose import is
under way holds its name, and the state map has its state under this name, which is what the
hydrate function is given when the import ends. Of islands with a namesake nothing of the sort holds: an
update, a rerender or a navigation that is about one of them takes the name and the state from the other. For the
rest, the lemma `HydrateStep`
says of all three that hydrating elements costs no other element that is alone its name.
`IslandsAssumption` takes the elements to be finitely many natural numbers: their order is
the order of the document, in which `querySelectorAll` visits them, and that the list of elements in this
order leaves none out (lemma `OrderedSeq`), so that its last element is one of them (`LatestFact`), is a matter of cardinality.

`WebComponentProofs` proves `TypeOK`, `Shown` and `Released` from `WebComponentAssumption`, for any values,
shadow options, number of setups and depth of calls. The invariant is

    IInv == TypeOK /\ StackOK /\ InForce /\ FollowersOK /\ ShownOK

`StackOK`: an insertion is only ever interrupted by the subscribers that `syncAttributes` calls, which leave the
element where it is, so when the insertion goes on the element is still in the document and no setup is in force (`Shape`,
`Connects`). `InForce`: what is alive is the last run of setup or nothing, the effects and the click handlers
alike. `FollowersOK`: each subscriber is there once, so that one `delete` frees it, and the
subscription of a setup only while it is in force. `ShownOK`: the page shows the count of the setup in
force, or a loop in progress still has its effect to call (`Promises`); at the empty stack this is `Shown`.
The code that runs innermost is the running effect with the least index on the stack; that there is a least one is
the lemma `LeastNatural`, from the well-foundedness of the naturals.

Every invariant and every action property of the runs that hold has a theorem. Only model-checked are the
liveness properties (`WaitReturnsWithoutFault` and `ShutdownEnds` of the pool, those of `Navigation`,
`Islands` and `Crawler`), which need fairness and so are out of the prover's reach; and what
`Lifecycle` promises to programs whose cleanup functions call the library, where TLC checks it on `Siblings`.

## Plan

1. `Reactive`, `WorkerPool`, `JobBoard` and their proofs (done).
2. `Lifecycle`: owners, cleanups, disposal under re-entrancy, and its proofs (done).
3. `Navigation` (`sol-nav.ts`) and `Islands` (`loader.ts`, `lib.ts`, `wc-loader.ts`, `hmr-client.ts`),
   which meet in `updateDOM` (done).
4. `SsgDev`: the dev server of static sites and its manifest (done), then `BuildCache`: the
   disk cache of astra with the generator that uses it. Content files are named by the hash
   of the source alone (`hash.mbt:8`), so pages with equal sources share one.
5. `BootRouter`, `Crawler`, `WebComponent` and their proofs (done).
6. `DevServer` (`dev.mbt`), `Isr`, `Resource`, `createStore` of js/luna.
7. Reconciliation of `for_each` and `index_each` against a reference definition, and the
   owners their items are rendered under.
8. Proofs of the modules under 4, 6 and 7 that are still to come.

## Not modelled

The rest of the repository falls in three groups. Pure functions over strings and trees, whose
size is their difficulty: rendering, serialization, CSS extraction, route tables, the
template parser, the site generator, code generation. Bindings, scripts and command line
tools, which hold no state between two calls. And components with state that the plan
names: `DevServer`, `Isr`, `BuildCache`, `Resource`, `createStore`, list reconciliation. The
`.js` files under `examples` and `docs` are compiled output, or copies, of what is modelled or
listed here.
