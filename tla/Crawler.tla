------------------------------ MODULE Crawler ------------------------------
(***************************************************************************)
(* The chaos crawler of js/playwright-chaos/src/crawler.ts, with the calls *)
(* that the test fixture makes of it (fixture.ts): crawl, which sets the   *)
(* base address and starts a crawl, and testPage, which tests one page of  *)
(* the caller on the same object and shares its queue, results and history.*)
(*                                                                         *)
(* One step is the code between two awaits on the browser.  What the       *)
(* browser answers, and which element the weighted choice takes, is left   *)
(* open; the order of the links of a page too.  Error texts, metrics,      *)
(* screenshots and the log are left out.                                   *)
(* An operator named ...Fault is what a plausible bug would make of the    *)
(* operator after it; no action uses it.                                   *)
(***************************************************************************)
EXTENDS Integers, Sequences, FiniteSets

CONSTANTS
  Urls,
  Site,           \* the origin of an address
  Links,          \* the addresses that the document at an address links to
  Excluded,       \* the addresses that match excludePatterns
  EnableRecovery,
  MaxPages, MaxActions, HistorySize,
  None,
  MaxCalls        \* bound: calls of crawl and testPage

ASSUME CrawlerAssumption ==
  /\ Links \in [Urls -> SUBSET Urls] /\ \A u \in Urls : IsFiniteSet(Links[u])
  /\ Excluded \subseteq Urls
  /\ EnableRecovery \in BOOLEAN
  /\ MaxPages \in Nat /\ MaxActions \in Nat /\ HistorySize \in Nat /\ MaxCalls \in Nat
  /\ None \notin Urls

VARIABLES
  phase,       \* the await at which the crawler is
  call,        \* the call that is, or was last, in progress
  base,        \* the address whose origin is baseOrigin
  visited,
  queue,       \* entries: address, the page it was found on, and how
  results,     \* address, status and links of each page done
  lastOk,      \* lastSuccessfulUrl
  deadLinks,   \* discoveryMetrics.deadLinks
  history,     \* the length of actionHistory
  page,        \* the page in work: its entry, status, links, actions and attempts
  calls

vars == <<phase, call, base, visited, queue, results, lastOk, deadLinks, history, page, calls>>

Phases == {"idle", "queue", "goto", "act", "tail", "done"}
Methods == {"initial", "extracted", "clicked"}
Statuses == {"success", "other", "dead", "error", "timeout", "recovered"}
Entry(u, source, method) == [url |-> u, source |-> source, method |-> method]
Page(e) == [entry |-> e, status |-> "success", links |-> {}, acted |-> 0, attempts |-> 0]

Init ==
  /\ phase = "idle" /\ call = None /\ base = None
  /\ visited = {} /\ queue = <<>> /\ results = <<>>
  /\ lastOk = None /\ deadLinks = {} /\ history = 0
  /\ page = None /\ calls = 0

Quiet == phase \in {"idle", "done"}
External(u) == Site[u] # Site[base]
Queued == {queue[i].url : i \in 1..Len(queue)}

IsNewFault(u) == u \notin visited
\* Links that are queued already are not queued again, nor pages that were visited.
IsNew(u) == u \notin visited /\ u \notin Queued

-----------------------------------------------------------------------------
(* The calls                                                               *)

\* crawl of the fixture: the base is replaced, and start begins anew.
Crawl(u) ==
  /\ Quiet /\ calls < MaxCalls
  /\ phase' = "queue" /\ call' = "crawl" /\ base' = u
  /\ visited' = {} /\ queue' = <<Entry(u, None, "initial")>> /\ results' = <<>>
  /\ lastOk' = u /\ deadLinks' = {} /\ history' = 0
  /\ page' = None /\ calls' = calls + 1

\* testPage resets nothing but the origin.
TestPage(u) ==
  /\ Quiet /\ calls < MaxCalls
  /\ phase' = "goto" /\ call' = "test" /\ base' = u
  /\ page' = Page(Entry(u, None, "initial"))
  /\ calls' = calls + 1
  /\ UNCHANGED <<visited, queue, results, lastOk, deadLinks, history>>

-----------------------------------------------------------------------------
(* The loop of start                                                       *)

Budget == Cardinality(visited) < MaxPages
Looping == phase = "queue" /\ queue # <<>> /\ Budget

\* An entry that was visited, or is excluded, is dropped.
Drop ==
  /\ Looping
  /\ Head(queue).url \in visited \cup Excluded
  /\ queue' = Tail(queue)
  /\ UNCHANGED <<phase, call, base, visited, results, lastOk, deadLinks, history, page, calls>>

Visit ==
  /\ Looping
  /\ Head(queue).url \notin visited \cup Excluded
  /\ queue' = Tail(queue)
  /\ visited' = visited \cup {Head(queue).url}
  /\ page' = Page(Head(queue))
  /\ phase' = "goto"
  /\ UNCHANGED <<call, base, results, lastOk, deadLinks, history, calls>>

\* The loop ends: the report is made.
Finish ==
  /\ phase = "queue" /\ ~Looping
  /\ phase' = "done"
  /\ UNCHANGED <<call, base, visited, queue, results, lastOk, deadLinks, history, page, calls>>

\* A page cannot be opened, or its routes not be set: the call rejects.
Reject ==
  /\ phase = "goto"
  /\ phase' = "idle"
  /\ UNCHANGED <<call, base, visited, queue, results, lastOk, deadLinks, history, page, calls>>

-----------------------------------------------------------------------------
(* One page                                                                *)

\* extractLinks: the links of the same origin; or none, as that they cannot be extracted
\* is not an error.
Extractions == {{v \in Links[page.entry.url] : ~External(v)}, {}}

\* The page has loaded, with status 200, 404 or 5xx ("dead") or another.
Loaded ==
  /\ phase = "goto"
  /\ \E status \in {"success", "other", "dead"},
        links \in Extractions :
       page' = [page EXCEPT !.status = status, !.links = links]
  /\ phase' = "act"
  /\ UNCHANGED <<call, base, visited, queue, results, lastOk, deadLinks, history, calls>>

AfterFailureFault == "goto"
\* A page that failed is not tried again.
AfterFailure == "tail"

\* The page does not load in time, or anything that is asked of it throws: the links
\* that were extracted are lost with the result.
PageFails ==
  /\ phase \in {"goto", "act"}
  /\ \E status \in {"error", "timeout"} :
       page' = [page EXCEPT !.status = status, !.links = {}]
  /\ phase' = AfterFailure
  /\ UNCHANGED <<call, base, visited, queue, results, lastOk, deadLinks, history, calls>>

Acting == phase = "act" /\ page.acted < MaxActions /\ page.attempts < 3 * MaxActions

\* The element that was chosen is not visible.
Skip ==
  /\ Acting
  /\ page' = [page EXCEPT !.attempts = @ + 1]
  /\ UNCHANGED <<phase, call, base, visited, queue, results, lastOk, deadLinks, history, calls>>

RecentFault == history + 1
\* addToHistory keeps the last actions only.
Recent == IF history < HistorySize THEN history + 1 ELSE HistorySize

\* An action, successful or not, joins the history.
Act ==
  /\ page' = [page EXCEPT !.acted = @ + 1, !.attempts = @ + 1]
  /\ history' = Recent
  /\ UNCHANGED <<phase, call, base, visited, results, lastOk, deadLinks, calls>>

\* A scroll, an input, a button, or a link to another origin, which is not clicked.
ActInPlace == Acting /\ Act /\ UNCHANGED queue

\* Of the elements that can be chosen, the links.
Targets == Links[page.entry.url]

\* A click on a link: its address is queued before the click.
Click(v) ==
  /\ Acting
  /\ v \in Targets /\ ~External(v)
  /\ queue' = IF IsNew(v) THEN Append(queue, Entry(v, page.entry.url, "clicked")) ELSE queue
  /\ Act

Acted ==
  /\ phase = "act" /\ ~Acting
  /\ phase' = "tail"
  /\ UNCHANGED <<call, base, visited, queue, results, lastOk, deadLinks, history, page, calls>>

\* The status in the report.
Reported(status) ==
  CASE status = "dead" /\ call = "crawl" /\ EnableRecovery -> "recovered"
    [] status \in {"dead", "other"} -> "success"
    [] OTHER -> status
Result == [url |-> page.entry.url, status |-> Reported(page.status), links |-> page.links]

\* The end of crawlPage: a dead link is recorded and the browser sent to the last page
\* that loaded, which a failure of that does not disturb; or this one is now the last.
CrawledPage ==
  LET dead == page.status = "dead" /\ EnableRecovery
  IN  /\ deadLinks' = IF dead THEN deadLinks \cup {page.entry} ELSE deadLinks
      /\ lastOk' = IF page.status = "success" THEN page.entry.url ELSE lastOk

Extracted(u) == Entry(u, page.entry.url, "extracted")
NewLinks == {u \in page.links : IsNew(u)}
Orders(S) ==
  {s \in [1..Cardinality(S) -> S] :
     /\ \A i, j \in 1..Cardinality(S) : s[i] = s[j] => i = j
     /\ \A u \in S : \E i \in 1..Cardinality(S) : s[i] = u}

\* The links of the page that are new join the queue in the order of the document.
Collect ==
  /\ phase = "tail" /\ call = "crawl"
  /\ CrawledPage
  /\ results' = Append(results, Result)
  /\ \E order \in Orders(NewLinks) :
       queue' = queue \o [i \in 1..Len(order) |-> Extracted(order[i])]
  /\ phase' = "queue"
  /\ UNCHANGED <<call, base, visited, history, page, calls>>

\* The page cannot be closed: start rejects, and closes the browser.
CloseFails ==
  /\ phase = "tail" /\ call = "crawl"
  /\ CrawledPage
  /\ phase' = "idle"
  /\ UNCHANGED <<call, base, visited, queue, results, history, page, calls>>

Tested ==
  /\ phase = "tail" /\ call = "test"
  /\ results' = Append(results, Result)
  /\ phase' = "idle"
  /\ UNCHANGED <<call, base, visited, queue, lastOk, deadLinks, history, page, calls>>

-----------------------------------------------------------------------------
Crawler ==
  \/ Drop \/ Visit \/ Finish \/ Reject
  \/ Loaded \/ PageFails
  \/ Skip \/ ActInPlace \/ (\E v \in Urls : Click(v)) \/ Acted
  \/ Collect \/ CloseFails \/ Tested

Next == Crawler \/ \E u \in Urls : Crawl(u) \/ TestPage(u)

Spec == Init /\ [][Next]_vars
\* The crawler goes on: the browser answers, or a wait for it times out.
FairSpec == Spec /\ WF_vars(Crawler)
-----------------------------------------------------------------------------
(* Properties                                                              *)

Entries == [url : Urls, source : Urls \cup {None}, method : Methods]
Results == [url : Urls, status : Statuses, links : SUBSET Urls]
Pages == [entry : Entries, status : Statuses, links : SUBSET Urls,
          acted : 0..MaxActions, attempts : 0..(3 * MaxActions)]

\* The type of every variable.
TypeOK ==
  /\ phase \in Phases /\ call \in {None, "crawl", "test"} /\ base \in Urls \cup {None}
  /\ visited \in SUBSET Urls
  /\ queue \in Seq(Entries)
  /\ results \in Seq(Results)
  /\ lastOk \in Urls \cup {None} /\ deadLinks \in SUBSET Entries
  /\ history \in 0..HistorySize
  /\ page \in Pages \cup {None}
  /\ calls \in 0..MaxCalls

\* The queue holds no address twice and none that was visited.
Fresh ==
  /\ \A i, j \in 1..Len(queue) : queue[i].url = queue[j].url => i = j
  /\ Queued \cap visited = {}

\* What the report calls the source of a page, or of a dead link, links to it.
Sourced ==
  \A e \in {queue[i] : i \in 1..Len(queue)} \cup deadLinks :
    e.source # None => e.url \in Links[e.source]

\* Every link of a page that was crawled is visited, waits, or is excluded.
Found ==
  call = "crawl" =>
    \A i \in 1..Len(results) : results[i].links \subseteq visited \cup Queued \cup Excluded

\* A crawl explores the site: each page once and no more than maxPages of them, none that
\* is excluded, with its right source; and if it ends below maxPages nothing that was
\* found is left, by extraction or by a click.
Explored ==
  /\ Fresh /\ Sourced /\ Found
  /\ visited \cap Excluded = {}
  /\ Cardinality(visited) <= MaxPages
  /\ phase = "done" /\ Cardinality(visited) < MaxPages
       => \A i \in 1..Len(results) : results[i].links \subseteq visited \cup Excluded

\* A crawl ends, although elements stay invisible, pages time out and links go in circles.
Ends == (phase = "queue") ~> Quiet
=============================================================================
