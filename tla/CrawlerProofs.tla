--------------------------- MODULE CrawlerProofs ---------------------------
(***************************************************************************)
(* Theorems about Crawler, for every site and every bound.                 *)
(***************************************************************************)
EXTENDS Crawler, SequenceTheorems, FiniteSetTheorems, TLAPS

-----------------------------------------------------------------------------
(* Queues                                                                  *)

Members(q) == {q[i] : i \in 1..Len(q)}
UrlsOf(q) == {q[i].url : i \in 1..Len(q)}
Distinct(q) == \A i, j \in 1..Len(q) : q[i].url = q[j].url => i = j

\* The queue without its first entry.
LEMMA TailFacts ==
  ASSUME NEW S, NEW q \in Seq(S), q # <<>>
  PROVE  /\ Tail(q) \in Seq(S) /\ Head(q) \in S
         /\ Members(Tail(q)) \subseteq Members(q) /\ Head(q) \in Members(q)
         /\ UrlsOf(q) = UrlsOf(Tail(q)) \cup {Head(q).url}
         /\ Distinct(q) => Distinct(Tail(q)) /\ Head(q).url \notin UrlsOf(Tail(q))
  <1>1. /\ Tail(q) \in Seq(S) /\ Len(Tail(q)) = Len(q) - 1 /\ Len(q) \in Nat \ {0}
        /\ \A i \in 1..Len(Tail(q)) : Tail(q)[i] = q[i + 1]
        /\ Head(q) = q[1] /\ Head(q) \in S
    BY HeadTailProperties, LenProperties, EmptySeq, ElementOfSeq
  <1>2. /\ \A i \in 1..Len(Tail(q)) : i + 1 \in 1..Len(q) /\ i + 1 # 1
        /\ 1 \in 1..Len(q)
        /\ \A j \in 1..Len(q) : j = 1 \/ (j - 1 \in 1..Len(Tail(q)) /\ (j - 1) + 1 = j)
    BY <1>1
  <1>3. Members(Tail(q)) \subseteq Members(q) /\ Head(q) \in Members(q)
    BY <1>1, <1>2 DEF Members
  <1>4. UrlsOf(q) \subseteq UrlsOf(Tail(q)) \cup {Head(q).url}
    BY <1>1, <1>2 DEF UrlsOf
  <1>5. UrlsOf(Tail(q)) \cup {Head(q).url} \subseteq UrlsOf(q)
    BY <1>1, <1>2 DEF UrlsOf
  <1>6. ASSUME Distinct(q)
        PROVE  Distinct(Tail(q)) /\ Head(q).url \notin UrlsOf(Tail(q))
    <2>1. Head(q).url \notin UrlsOf(Tail(q))
      BY <1>1, <1>2, <1>6 DEF Distinct, UrlsOf
    <2>2. ASSUME NEW i \in 1..Len(Tail(q)), NEW j \in 1..Len(Tail(q)),
                 Tail(q)[i].url = Tail(q)[j].url
          PROVE  i = j
      <3>1. q[i + 1].url = q[j + 1].url /\ i + 1 \in 1..Len(q) /\ j + 1 \in 1..Len(q)
        BY <1>1, <1>2, <2>2
      <3>2. i + 1 = j + 1
        BY <3>1, <1>6 DEF Distinct
      <3> QED
        BY <3>2
    <2> QED
      BY <2>1, <2>2 DEF Distinct
  <1> QED
    BY <1>1, <1>3, <1>4, <1>5, <1>6

\* Entries that join the queue.
LEMMA JoinFacts ==
  ASSUME NEW S, NEW q \in Seq(S), NEW r \in Seq(S)
  PROVE  /\ q \o r \in Seq(S)
         /\ Members(q \o r) = Members(q) \cup Members(r)
         /\ UrlsOf(q \o r) = UrlsOf(q) \cup UrlsOf(r)
         /\ Distinct(q) /\ Distinct(r) /\ UrlsOf(q) \cap UrlsOf(r) = {} => Distinct(q \o r)
  <1> DEFINE t == q \o r
  <1>1. /\ t \in Seq(S) /\ Len(t) = Len(q) + Len(r) /\ Len(q) \in Nat /\ Len(r) \in Nat
        /\ \A i \in 1..Len(t) : t[i] = IF i <= Len(q) THEN q[i] ELSE r[i - Len(q)]
    BY ConcatProperties, LenProperties
  <1> HIDE DEF t
  <1>a. \A i \in 1..Len(q) : i \in 1..Len(t) /\ t[i] = q[i]
    BY <1>1
  <1>b. ASSUME NEW i \in 1..Len(r)
        PROVE  i + Len(q) \in 1..Len(t) /\ t[i + Len(q)] = r[i]
    <2>1. /\ i + Len(q) \in 1..Len(t) /\ ~(i + Len(q) <= Len(q))
          /\ (i + Len(q)) - Len(q) = i
      BY <1>1
    <2> QED
      BY <1>1, <2>1
  <1>2. /\ \A i \in 1..Len(q) : i \in 1..Len(t) /\ t[i] = q[i]
        /\ \A i \in 1..Len(r) : i + Len(q) \in 1..Len(t) /\ t[i + Len(q)] = r[i]
    BY <1>a, <1>b
  <1>3. \A i \in 1..Len(t) :
          \/ i \in 1..Len(q) /\ t[i] = q[i]
          \/ i - Len(q) \in 1..Len(r) /\ t[i] = r[i - Len(q)]
    BY <1>1
  <1>4. Members(t) \subseteq Members(q) \cup Members(r)
    BY <1>3 DEF Members
  <1>5. Members(q) \cup Members(r) \subseteq Members(t)
    BY <1>2 DEF Members
  <1>6. UrlsOf(t) \subseteq UrlsOf(q) \cup UrlsOf(r)
    BY <1>3 DEF UrlsOf
  <1>7. UrlsOf(q) \cup UrlsOf(r) \subseteq UrlsOf(t)
    BY <1>2 DEF UrlsOf
  <1>8. ASSUME Distinct(q), Distinct(r), UrlsOf(q) \cap UrlsOf(r) = {},
               NEW i \in 1..Len(t), NEW j \in 1..Len(t), t[i].url = t[j].url
        PROVE  i = j
    <2>1. CASE i \in 1..Len(q) /\ t[i] = q[i] /\ j \in 1..Len(q) /\ t[j] = q[j]
      BY <1>8, <2>1 DEF Distinct
    <2>2. CASE i \in 1..Len(q) /\ t[i] = q[i] /\ j - Len(q) \in 1..Len(r) /\ t[j] = r[j - Len(q)]
      <3>1. t[i].url \in UrlsOf(q) /\ t[j].url \in UrlsOf(r)
        BY <2>2 DEF UrlsOf
      <3> QED
        BY <3>1, <1>8
    <2>3. CASE i - Len(q) \in 1..Len(r) /\ t[i] = r[i - Len(q)] /\ j \in 1..Len(q) /\ t[j] = q[j]
      <3>1. t[i].url \in UrlsOf(r) /\ t[j].url \in UrlsOf(q)
        BY <2>3 DEF UrlsOf
      <3> QED
        BY <3>1, <1>8
    <2>4. CASE /\ i - Len(q) \in 1..Len(r) /\ t[i] = r[i - Len(q)]
               /\ j - Len(q) \in 1..Len(r) /\ t[j] = r[j - Len(q)]
      <3>1. i - Len(q) = j - Len(q)
        BY <1>8, <2>4 DEF Distinct
      <3> QED
        BY <3>1, <1>1
    <2> QED
      BY <1>3, <2>1, <2>2, <2>3, <2>4
  <1>9. Distinct(q) /\ Distinct(r) /\ UrlsOf(q) \cap UrlsOf(r) = {} => Distinct(t)
    BY <1>8 DEF Distinct
  <1> QED
    BY <1>1, <1>4, <1>5, <1>6, <1>7, <1>9 DEF t

\* One entry that joins.
LEMMA OneFacts ==
  ASSUME NEW S, NEW e \in S
  PROVE  /\ <<e>> \in Seq(S) /\ Members(<<e>>) = {e} /\ UrlsOf(<<e>>) = {e.url}
         /\ Distinct(<<e>>)
  <1>1. <<e>> \in Seq(S) /\ Len(<<e>>) = 1 /\ <<e>>[1] = e
    OBVIOUS
  <1>2. 1..1 = {1}
    OBVIOUS
  <1> QED
    BY <1>1, <1>2 DEF Members, UrlsOf, Distinct
-----------------------------------------------------------------------------
(* The inductive invariant                                                 *)

\* A page in work has links of its document, and was found where its entry says.
Working ==
  phase \in {"goto", "act", "tail"} =>
    /\ page \in Pages
    /\ page.links \subseteq Links[page.entry.url]
    /\ page.entry.source # None => page.entry.url \in Links[page.entry.source]

\* The loop is that of a crawl, and ends when nothing waits or the budget is spent.
Loop ==
  /\ phase \in {"queue", "done"} => call = "crawl"
  /\ phase = "done" => queue = <<>> \/ ~Budget

Bounded ==
  /\ IsFiniteSet(visited) /\ Cardinality(visited) <= MaxPages
  /\ visited \cap Excluded = {}

IInv == TypeOK /\ Working /\ Loop /\ Bounded /\ Fresh /\ Sourced /\ Found

\* Fresh and Sourced in the terms of the lemmas about queues.
LEMMA QueueTerms ==
  /\ Queued = UrlsOf(queue)
  /\ Fresh <=> Distinct(queue) /\ UrlsOf(queue) \cap visited = {}
  /\ Sourced <=> \A e \in Members(queue) \cup deadLinks : e.source # None => e.url \in Links[e.source]
  BY DEF Queued, UrlsOf, Distinct, Members, Fresh, Sourced

LEMMA InitHolds == Init => IInv
  <1> SUFFICES ASSUME Init
               PROVE  IInv
    OBVIOUS
  <1>1. TypeOK
    BY CrawlerAssumption DEF Init, TypeOK, Phases
  <1>2. Working /\ Loop
    BY DEF Init, Working, Loop
  <1>3. Bounded
    BY CrawlerAssumption, FS_EmptySet DEF Init, Bounded
  <1>4. Fresh /\ Sourced /\ Found
    BY DEF Init, Fresh, Sourced, Found, Queued
  <1> QED
    BY <1>1, <1>2, <1>3, <1>4 DEF IInv

-----------------------------------------------------------------------------
(* Entries and pages                                                       *)

LEMMA EntryType ==
  ASSUME NEW u \in Urls, NEW v \in Urls \cup {None}, NEW m \in Methods
  PROVE  /\ Entry(u, v, m) \in Entries
         /\ Entry(u, v, m).url = u /\ Entry(u, v, m).source = v
  BY DEF Entry, Entries

LEMMA PageType ==
  ASSUME NEW e \in Entries
  PROVE  Page(e) \in Pages /\ Page(e).entry = e /\ Page(e).links = {}
  BY CrawlerAssumption DEF Page, Pages, Statuses

LEMMA PageFields ==
  ASSUME page \in Pages
  PROVE  /\ page.entry \in Entries /\ page.entry.url \in Urls
         /\ page.entry.source \in Urls \cup {None}
         /\ page.status \in Statuses /\ page.links \in SUBSET Urls
         /\ page.acted \in 0..MaxActions /\ page.attempts \in 0..(3 * MaxActions)
  BY DEF Pages, Entries

LEMMA ResultType ==
  ASSUME page \in Pages
  PROVE  Result \in Results /\ Result.links = page.links
  <1>1. Reported(page.status) \in Statuses
    BY PageFields DEF Reported, Statuses
  <1> QED
    BY <1>1, PageFields DEF Result, Results

\* What a listing of a set has.
LEMMA OrderFacts ==
  ASSUME NEW S \in SUBSET Urls, IsFiniteSet(S), NEW s \in Orders(S), page \in Pages
  PROVE  LET r == [i \in 1..Len(s) |-> Extracted(s[i])]
         IN  /\ r \in Seq(Entries)
             /\ Distinct(r) /\ UrlsOf(r) = S
             /\ \A e \in Members(r) : e.source = page.entry.url
  <1> DEFINE n == Cardinality(S)
             r == [i \in 1..Len(s) |-> Extracted(s[i])]
  <1>1. n \in Nat
    BY FS_CardinalityType
  <1> HIDE DEF n
  <1>2. /\ s \in [1..n -> S]
        /\ \A i, j \in 1..n : s[i] = s[j] => i = j
        /\ \A u \in S : \E i \in 1..n : s[i] = u
    BY DEF Orders, n
  <1>3. Len(s) = n
    BY <1>1, <1>2, LenProperties, IsASeq
  <1>4. ASSUME NEW u \in S
        PROVE  /\ Extracted(u) \in Entries /\ Extracted(u).url = u
               /\ Extracted(u).source = page.entry.url
    BY PageFields, EntryType, "extracted" \in Methods DEF Extracted, Methods
  <1>5. \A i \in 1..n : r[i] = Extracted(s[i]) /\ s[i] \in S
    BY <1>2, <1>3
  <1>6. r \in [1..n -> Entries]
    BY <1>3, <1>4, <1>5
  <1>7. r \in Seq(Entries) /\ Len(r) = n
    BY <1>1, <1>6, LenProperties, IsASeq
  <1> HIDE DEF r
  <1>8. Distinct(r)
    BY <1>2, <1>4, <1>5, <1>7 DEF Distinct
  <1>9. UrlsOf(r) = S
    BY <1>2, <1>4, <1>5, <1>7 DEF UrlsOf
  <1>10. \A e \in Members(r) : e.source = page.entry.url
    BY <1>4, <1>5, <1>7 DEF Members
  <1> QED
    BY <1>7, <1>8, <1>9, <1>10 DEF r
\* What becomes of the page in work.
LEMMA PageStep ==
  ASSUME page \in Pages, Loaded \/ PageFails
  PROVE  /\ page' \in Pages /\ page'.entry = page.entry
         /\ page'.links \subseteq Links[page.entry.url]
  <1>1. \E status \in Statuses, links \in SUBSET Urls :
          /\ page' = [page EXCEPT !.status = status, !.links = links]
          /\ links \subseteq Links[page.entry.url]
    <2>1. CASE Loaded
      <3>1. \A status \in {"success", "other", "dead"} : status \in Statuses
        BY DEF Statuses
      <3>2. \A links \in Extractions :
              links \in SUBSET Urls /\ links \subseteq Links[page.entry.url]
        BY CrawlerAssumption, PageFields DEF Extractions
      <3>3. PICK status \in {"success", "other", "dead"}, links \in Extractions :
              page' = [page EXCEPT !.status = status, !.links = links]
        BY <2>1 DEF Loaded
      <3>4. status \in Statuses /\ links \in SUBSET Urls
        BY <3>1, <3>2
      <3>5. links \subseteq Links[page.entry.url]
        BY <3>2
      <3> QED
        BY <3>3, <3>4, <3>5
    <2>2. CASE PageFails
      <3>1. PICK status \in {"error", "timeout"} :
              page' = [page EXCEPT !.status = status, !.links = {}]
        BY <2>2 DEF PageFails
      <3>2. status \in Statuses /\ {} \in SUBSET Urls /\ {} \subseteq Links[page.entry.url]
        BY DEF Statuses
      <3> QED
        BY <3>1, <3>2
    <2> QED
      BY <2>1, <2>2
  <1> QED
    BY <1>1 DEF Pages

LEMMA ActStep ==
  ASSUME page \in Pages, Skip \/ ActInPlace \/ \E v \in Urls : Click(v)
  PROVE  /\ page' \in Pages /\ page'.entry = page.entry /\ page'.links = page.links
  <1>1. Acting /\ (page' = [page EXCEPT !.attempts = @ + 1]
                   \/ page' = [page EXCEPT !.acted = @ + 1, !.attempts = @ + 1])
    BY DEF Skip, ActInPlace, Click, Act
  <1>2. /\ page.acted \in Nat /\ page.acted + 1 \in 0..MaxActions
        /\ page.attempts \in Nat /\ page.attempts + 1 \in 0..(3 * MaxActions)
    BY <1>1, PageFields, CrawlerAssumption DEF Acting
  <1> QED
    BY <1>1, <1>2 DEF Pages

\* The links of a page that are new.
LEMMA NewLinksFacts ==
  ASSUME page \in Pages, page.links \subseteq Links[page.entry.url]
  PROVE  /\ NewLinks \in SUBSET Urls /\ IsFiniteSet(NewLinks)
         /\ NewLinks \subseteq page.links
         /\ NewLinks \cap visited = {} /\ NewLinks \cap Queued = {}
         /\ page.links \subseteq NewLinks \cup visited \cup Queued
  <1>1. page.links \in SUBSET Urls /\ IsFiniteSet(Links[page.entry.url])
    BY PageFields, CrawlerAssumption
  <1>2. NewLinks \subseteq page.links
    BY DEF NewLinks
  <1> QED
    BY <1>1, <1>2, FS_Subset DEF NewLinks, IsNew
-----------------------------------------------------------------------------
(* Steps                                                                   *)

LEMMA TypeStep == IInv /\ [Next]_vars => TypeOK'
  <1> SUFFICES ASSUME IInv, [Next]_vars
               PROVE  TypeOK'
    OBVIOUS
  <1> USE CrawlerAssumption DEF IInv
  <1>1. CASE \E u \in Urls : Crawl(u)
    <2>1. PICK u \in Urls : Crawl(u)
      BY <1>1
    <2>2. Entry(u, None, "initial") \in Entries
      BY EntryType DEF Methods
    <2>3. queue' \in Seq(Entries) /\ results' \in Seq(Results)
      BY <2>1, <2>2, OneFacts, EmptySeq DEF Crawl
    <2> QED
      BY <2>1, <2>3 DEF Crawl, TypeOK, Phases
  <1>2. CASE \E u \in Urls : TestPage(u)
    <2>1. PICK u \in Urls : TestPage(u)
      BY <1>2
    <2>2. Page(Entry(u, None, "initial")) \in Pages
      BY EntryType, PageType DEF Methods
    <2> QED
      BY <2>1, <2>2 DEF TestPage, TypeOK, Phases
  <1>3. CASE Drop \/ Visit
    <2>1. Looping /\ queue \in Seq(Entries) /\ queue # <<>>
      BY <1>3 DEF Drop, Visit, Looping, TypeOK
    <2>2. Tail(queue) \in Seq(Entries) /\ Head(queue) \in Entries
      BY <2>1, TailFacts
    <2>3. Head(queue).url \in Urls /\ Page(Head(queue)) \in Pages
      BY <2>2, PageType DEF Entries
    <2>4. CASE Drop
      BY <2>2, <2>4 DEF Drop, TypeOK
    <2>5. CASE Visit
      BY <2>2, <2>3, <2>5 DEF Visit, TypeOK, Phases
    <2> QED
      BY <1>3, <2>4, <2>5
  <1>4. CASE Finish \/ Reject \/ Acted
    BY <1>4 DEF Finish, Reject, Acted, TypeOK, Phases
  <1>5. CASE Loaded \/ PageFails
    <2>1. page \in Pages
      BY <1>5 DEF Loaded, PageFails, Working
    <2>3. page' \in Pages
      BY <1>5, <2>1, PageStep
    <2>4. phase' \in Phases
      BY <1>5 DEF Loaded, PageFails, AfterFailure, Phases
    <2> QED
      BY <1>5, <2>3, <2>4 DEF Loaded, PageFails, TypeOK
  <1>6. CASE Skip \/ ActInPlace \/ \E v \in Urls : Click(v)
    <2>1. Acting /\ page \in Pages
      BY <1>6 DEF Skip, ActInPlace, Click, Acting, Working
    <2>3. page' \in Pages
      BY <1>6, <2>1, ActStep
    <2>4. history' \in 0..HistorySize
      BY <1>6 DEF Skip, ActInPlace, Click, Act, Recent, TypeOK
    <2>5. queue' \in Seq(Entries)
      <3>1. CASE \E v \in Urls : Click(v)
        <4>1. PICK v \in Urls : Click(v)
          BY <3>1
        <4>2. Entry(v, page.entry.url, "clicked") \in Entries
          BY <2>1, PageFields, EntryType DEF Methods
        <4> QED
          BY <4>1, <4>2, AppendProperties DEF Click, TypeOK
      <3>2. CASE Skip \/ ActInPlace
        BY <3>2 DEF Skip, ActInPlace, TypeOK
      <3> QED
        BY <1>6, <3>1, <3>2
    <2> QED
      BY <1>6, <2>3, <2>4, <2>5 DEF Skip, ActInPlace, Click, Act, TypeOK
  <1>7. CASE Collect \/ CloseFails \/ Tested
    <2>1. page \in Pages
      BY <1>7 DEF Collect, CloseFails, Tested, Working
    <2>2. results' \in Seq(Results)
      <3>1. Result \in Results /\ results \in Seq(Results)
        BY <2>1, ResultType DEF TypeOK
      <3>2. results' = results \/ results' = Append(results, Result)
        BY <1>7 DEF Collect, CloseFails, Tested
      <3> QED
        BY <3>1, <3>2, AppendProperties
    <2>3. lastOk' \in Urls \cup {None} /\ deadLinks' \in SUBSET Entries
      BY <1>7, <2>1, PageFields DEF Collect, CloseFails, Tested, CrawledPage, TypeOK
    <2>4. queue' \in Seq(Entries)
      <3>1. CASE Collect
        <4>1. NewLinks \in SUBSET Urls /\ IsFiniteSet(NewLinks)
          BY <2>1, <3>1, NewLinksFacts DEF Collect, Working
        <4>2. PICK order \in Orders(NewLinks) :
                queue' = queue \o [i \in 1..Len(order) |-> Extracted(order[i])]
          BY <3>1 DEF Collect
        <4>3. [i \in 1..Len(order) |-> Extracted(order[i])] \in Seq(Entries)
          BY <2>1, <4>1, OrderFacts
        <4> QED
          BY <4>2, <4>3, ConcatProperties DEF TypeOK
      <3>2. CASE CloseFails \/ Tested
        BY <3>2 DEF CloseFails, Tested, TypeOK
      <3> QED
        BY <1>7, <3>1, <3>2
    <2>5. /\ phase' \in Phases
          /\ UNCHANGED <<call, base, visited, history, page, calls>>
      BY <1>7 DEF Collect, CloseFails, Tested, Phases
    <2> QED
      BY <2>2, <2>3, <2>4, <2>5 DEF TypeOK
  <1>8. CASE UNCHANGED vars
    BY <1>8 DEF vars, TypeOK
  <1> QED
    BY <1>1, <1>2, <1>3, <1>4, <1>5, <1>6, <1>7, <1>8 DEF Next, Crawler

LEMMA WorkStep == IInv /\ [Next]_vars => Working' /\ Loop'
  <1> SUFFICES ASSUME IInv, [Next]_vars
               PROVE  Working' /\ Loop'
    OBVIOUS
  <1>1. TypeOK /\ Working /\ Loop /\ Sourced
    BY DEF IInv
  <1>2. ASSUME NEW u \in Urls, Crawl(u) \/ TestPage(u)
        PROVE  Working' /\ Loop'
    <2>1. /\ Entry(u, None, "initial") \in Entries
          /\ Entry(u, None, "initial").source = None
      BY EntryType DEF Methods
    <2>2. LET p == Page(Entry(u, None, "initial"))
          IN  p \in Pages /\ p.links = {} /\ p.entry.source = None
      BY <2>1, PageType
    <2> QED
      BY <1>2, <2>2 DEF Crawl, TestPage, Working, Loop
  <1>3. CASE Drop \/ Finish \/ Reject \/ Acted
    BY <1>1, <1>3 DEF Drop, Finish, Reject, Acted, Looping, Budget, Working, Loop
  <1>4. CASE Visit
    <2>1. Looping /\ queue \in Seq(Entries) /\ queue # <<>> /\ phase = "queue"
      BY <1>1, <1>4 DEF Visit, Looping, TypeOK
    <2>2. Head(queue) \in Entries /\ Head(queue) \in Members(queue)
      BY <2>1, TailFacts
    <2>3. LET p == Page(Head(queue))
          IN  p \in Pages /\ p.links = {} /\ p.entry = Head(queue)
      BY <2>2, PageType
    <2>4. Head(queue).source # None => Head(queue).url \in Links[Head(queue).source]
      BY <1>1, <2>2, QueueTerms
    <2> QED
      BY <1>1, <1>4, <2>1, <2>3, <2>4 DEF Visit, Working, Loop
  <1>5. CASE Loaded \/ PageFails
    <2>1. page \in Pages /\ phase \in {"goto", "act", "tail"}
      BY <1>1, <1>5 DEF Loaded, PageFails, Working
    <2>2. page' \in Pages /\ page'.links \subseteq Links[page'.entry.url]
          /\ page'.entry = page.entry
      BY <1>5, <2>1, PageStep
    <2> QED
      BY <1>1, <1>5, <2>1, <2>2 DEF Loaded, PageFails, AfterFailure, Working, Loop
  <1>6. CASE Skip \/ ActInPlace \/ \E v \in Urls : Click(v)
    <2>1. page \in Pages /\ phase = "act" /\ phase' = phase /\ call' = call
      BY <1>1, <1>6 DEF Skip, ActInPlace, Click, Act, Acting, Working
    <2>2. page' \in Pages /\ page'.links = page.links /\ page'.entry = page.entry
      BY <1>6, <2>1, ActStep
    <2> QED
      BY <1>1, <2>1, <2>2 DEF Working, Loop
  <1>7. CASE Collect \/ CloseFails \/ Tested
    BY <1>7 DEF Collect, CloseFails, Tested, Working, Loop
  <1>8. CASE UNCHANGED vars
    BY <1>1, <1>8 DEF vars, Working, Loop, Budget
  <1> QED
    BY <1>2, <1>3, <1>4, <1>5, <1>6, <1>7, <1>8 DEF Next, Crawler

LEMMA BoundStep == IInv /\ [Next]_vars => Bounded'
  <1> SUFFICES ASSUME IInv, [Next]_vars
               PROVE  Bounded'
    OBVIOUS
  <1>1. TypeOK /\ Bounded
    BY DEF IInv
  <1>2. CASE \E u \in Urls : Crawl(u)
    BY <1>2, CrawlerAssumption, FS_EmptySet DEF Crawl, Bounded
  <1>3. CASE Visit
    <2>1. /\ Head(queue).url \notin visited \cup Excluded
          /\ visited' = visited \cup {Head(queue).url}
          /\ IsFiniteSet(visited) /\ Cardinality(visited) < MaxPages
      BY <1>1, <1>3 DEF Visit, Looping, Budget, Bounded
    <2>2. IsFiniteSet(visited') /\ Cardinality(visited') = Cardinality(visited) + 1
      BY <2>1, FS_AddElement
    <2>3. Cardinality(visited) \in Nat
      BY <2>1, FS_CardinalityType
    <2> QED
      BY <1>1, <2>1, <2>2, <2>3, CrawlerAssumption DEF Bounded
  <1>4. CASE visited' = visited
    BY <1>1, <1>4 DEF Bounded
  <1>5. (\E u \in Urls : Crawl(u)) \/ Visit \/ visited' = visited
    BY DEF Next, Crawler, vars, TestPage, Drop, Finish, Reject, Loaded, PageFails, Skip,
           ActInPlace, Act, Click, Acted, Collect, CloseFails, Tested
  <1> QED
    BY <1>2, <1>3, <1>4, <1>5


\* The entry's source links to it.
Right(e) == e.source # None => e.url \in Links[e.source]
\* The links of the results are visited, wait, or are excluded.
Covered(r, v, q) ==
  \A i \in 1..Len(r) : r[i].links \subseteq v \cup UrlsOf(q) \cup Excluded

\* A result that joins.
LEMMA CoveredJoin ==
  ASSUME NEW r \in Seq(Results), NEW x \in Results, NEW v, NEW q, NEW w, NEW t,
         Covered(r, v, q), v \cup UrlsOf(q) \subseteq w \cup UrlsOf(t),
         x.links \subseteq w \cup UrlsOf(t)
  PROVE  Covered(Append(r, x), w, t)
  <1>1. /\ Len(Append(r, x)) = Len(r) + 1 /\ Len(r) \in Nat
        /\ \A i \in 1..Len(r) : Append(r, x)[i] = r[i]
        /\ Append(r, x)[Len(r) + 1] = x
    BY AppendProperties, LenProperties
  <1>2. ASSUME NEW i \in 1..Len(Append(r, x))
        PROVE  Append(r, x)[i].links \subseteq w \cup UrlsOf(t) \cup Excluded
    <2>1. CASE i = Len(r) + 1
      BY <1>1, <2>1
    <2>2. CASE i \in 1..Len(r)
      BY <1>1, <2>2 DEF Covered
    <2> QED
      BY <1>1, <2>1, <2>2
  <1> QED
    BY <1>2 DEF Covered

\* The same results, when no less is visited or waits.
LEMMA CoveredMore ==
  ASSUME NEW r, NEW v, NEW q, NEW w, NEW t,
         Covered(r, v, q), v \cup UrlsOf(q) \subseteq w \cup UrlsOf(t) \cup Excluded
  PROVE  Covered(r, w, t)
  BY DEF Covered

QueueInv ==
  /\ Distinct(queue) /\ UrlsOf(queue) \cap visited = {}
  /\ \A e \in Members(queue) \cup deadLinks : Right(e)
  /\ call = "crawl" => Covered(results, visited, queue)

LEMMA QueueInvTerms == Fresh /\ Sourced /\ Found <=> QueueInv
  BY DEF Queued, UrlsOf, Distinct, Members, Fresh, Sourced, Found, QueueInv, Right, Covered

LEMMA QueueStep == IInv /\ [Next]_vars => QueueInv'
  <1> SUFFICES ASSUME IInv, [Next]_vars
               PROVE  QueueInv'
    OBVIOUS
  <1>1. TypeOK /\ Working /\ Loop /\ QueueInv
    BY QueueInvTerms DEF IInv
  <1>2. queue \in Seq(Entries) /\ results \in Seq(Results)
    BY <1>1 DEF TypeOK
  <1>3. ASSUME NEW u \in Urls, Crawl(u)
        PROVE  QueueInv'
    <2> DEFINE e == Entry(u, None, "initial")
    <2>1. e \in Entries /\ e.source = None /\ e.url = u
      BY EntryType DEF Methods
    <2> HIDE DEF e
    <2>2. /\ Members(<<e>>) = {e} /\ Distinct(<<e>>)
      BY <2>1, OneFacts
    <2>3. queue' = <<e>> /\ visited' = {} /\ results' = <<>> /\ deadLinks' = {}
      BY <1>3 DEF Crawl, e
    <2>4. Covered(<<>>, {}, <<e>>)
      BY DEF Covered
    <2>5. \A x \in Members(queue') \cup deadLinks' : Right(x)
      BY <2>1, <2>2, <2>3 DEF Right
    <2> QED
      BY <2>2, <2>3, <2>4, <2>5 DEF QueueInv
  <1>4. ASSUME NEW u \in Urls, TestPage(u)
        PROVE  QueueInv'
    BY <1>1, <1>4 DEF TestPage, QueueInv
  <1>5. CASE Drop \/ Visit
    <2>1. queue # <<>> /\ queue' = Tail(queue)
      BY <1>5 DEF Drop, Visit, Looping
    <2>2. /\ Members(queue') \subseteq Members(queue)
          /\ UrlsOf(queue) = UrlsOf(queue') \cup {Head(queue).url}
          /\ Distinct(queue) => Distinct(queue') /\ Head(queue).url \notin UrlsOf(queue')
      BY <1>2, <2>1, TailFacts
    <2>3. /\ Distinct(queue') /\ UrlsOf(queue') \cap visited = {}
          /\ Head(queue).url \notin UrlsOf(queue')
      BY <1>1, <2>2 DEF QueueInv
    <2>4. \A e \in Members(queue') \cup deadLinks : Right(e)
      BY <1>1, <2>2 DEF QueueInv
    <2>5. /\ visited' = visited \/ visited' = visited \cup {Head(queue).url}
          /\ Head(queue).url \in visited' \cup Excluded
          /\ results' = results /\ deadLinks' = deadLinks /\ call' = call
      BY <1>5 DEF Drop, Visit
    <2>6. visited \cup UrlsOf(queue) \subseteq visited' \cup UrlsOf(queue') \cup Excluded
      BY <2>2, <2>5
    <2>7. call = "crawl" => Covered(results, visited', queue')
      BY <1>1, <2>6, CoveredMore DEF QueueInv
    <2>8. UrlsOf(queue') \cap visited' = {}
      BY <2>3, <2>5
    <2> QED
      BY <2>3, <2>4, <2>5, <2>7, <2>8 DEF QueueInv
  <1>6. CASE Finish \/ Reject \/ Acted \/ Loaded \/ PageFails \/ Skip \/ ActInPlace \/ UNCHANGED vars
    <2>1. UNCHANGED <<queue, visited, results, deadLinks, call>>
      BY <1>6 DEF Finish, Reject, Acted, Loaded, PageFails, Skip, ActInPlace, Act, vars
    <2> QED
      BY <1>1, <2>1 DEF QueueInv
  <1>7. ASSUME NEW v \in Urls, Click(v)
        PROVE  QueueInv'
    <2> DEFINE e == Entry(v, page.entry.url, "clicked")
    <2>1. /\ page \in Pages
          /\ UNCHANGED <<visited, results, deadLinks, call>>
      BY <1>1, <1>7 DEF Click, Act, Acting, Working
    <2>2. e \in Entries /\ e.url = v /\ e.source = page.entry.url
      BY <2>1, PageFields, EntryType DEF Methods
    <2> HIDE DEF e
    <2>3. v \in Links[page.entry.url]
      BY <1>7 DEF Click, Targets
    <2>4. CASE IsNew(v)
      <3>1. queue' = Append(queue, e) /\ v \notin visited /\ v \notin UrlsOf(queue)
        BY <1>7, <2>4, QueueTerms DEF Click, IsNew, e
      <3>2. queue' = queue \o <<e>> /\ <<e>> \in Seq(Entries)
        BY <1>2, <2>2, <3>1, AppendIsConcat, OneFacts
      <3>3. Members(<<e>>) = {e} /\ UrlsOf(<<e>>) = {v} /\ Distinct(<<e>>)
        BY <2>2, OneFacts
      <3>4. /\ Members(queue') = Members(queue) \cup {e}
            /\ UrlsOf(queue') = UrlsOf(queue) \cup {v}
            /\ Distinct(queue) => Distinct(queue')
        <4>1. UrlsOf(queue) \cap UrlsOf(<<e>>) = {}
          BY <3>1, <3>3
        <4> DEFINE r == <<e>>
        <4>2. r \in Seq(Entries)
          BY <3>2
        <4> HIDE DEF r
        <4>3. /\ Members(queue \o r) = Members(queue) \cup Members(r)
              /\ UrlsOf(queue \o r) = UrlsOf(queue) \cup UrlsOf(r)
              /\ Distinct(queue) /\ Distinct(r) /\ UrlsOf(queue) \cap UrlsOf(r) = {}
                   => Distinct(queue \o r)
          BY <1>2, <4>2, JoinFacts
        <4>4. Members(r) = {e} /\ UrlsOf(r) = {v} /\ Distinct(r) /\ queue' = queue \o r
              /\ UrlsOf(queue) \cap UrlsOf(r) = {}
          BY <3>2, <3>3, <4>1 DEF r
        <4> QED
          BY <4>3, <4>4
      <3>5. Distinct(queue') /\ UrlsOf(queue') \cap visited = {}
        BY <1>1, <3>1, <3>4 DEF QueueInv
      <3>6. \A x \in Members(queue') \cup deadLinks : Right(x)
        <4>1. Right(e)
          BY <2>2, <2>3 DEF Right
        <4> QED
          BY <1>1, <3>4, <4>1 DEF QueueInv
      <3>7. call = "crawl" => Covered(results, visited, queue')
        BY <1>1, <3>4, CoveredMore DEF QueueInv
      <3> QED
        BY <2>1, <3>5, <3>6, <3>7 DEF QueueInv
    <2>5. CASE ~IsNew(v)
      BY <1>1, <1>7, <2>1, <2>5 DEF Click, QueueInv
    <2> QED
      BY <2>4, <2>5
  <1>8. CASE Collect \/ CloseFails
    <2>1. page \in Pages /\ page.links \subseteq Links[page.entry.url] /\ Right(page.entry)
      BY <1>1, <1>8 DEF Collect, CloseFails, Working, Right
    <2>2. \A e \in deadLinks' : Right(e)
      BY <1>1, <1>8, <2>1 DEF Collect, CloseFails, CrawledPage, QueueInv
    <2>3. visited' = visited /\ call' = call /\ call = "crawl"
      BY <1>8 DEF Collect, CloseFails
    <2>4. CASE Collect
      <3>1. PICK order \in Orders(NewLinks) :
              queue' = queue \o [i \in 1..Len(order) |-> Extracted(order[i])]
        BY <2>4 DEF Collect
      <3> DEFINE r == [i \in 1..Len(order) |-> Extracted(order[i])]
      <3>2. /\ NewLinks \in SUBSET Urls /\ IsFiniteSet(NewLinks)
            /\ NewLinks \cap visited = {} /\ NewLinks \cap UrlsOf(queue) = {}
            /\ page.links \subseteq NewLinks \cup visited \cup UrlsOf(queue)
        BY <2>1, NewLinksFacts, QueueTerms
      <3>3. /\ r \in Seq(Entries) /\ Distinct(r) /\ UrlsOf(r) = NewLinks
            /\ \A e \in Members(r) : e.source = page.entry.url
        BY <2>1, <3>2, OrderFacts
      <3>4. queue' = queue \o r
        BY <3>1
      <3> HIDE DEF r
      <3>5. /\ Members(queue') = Members(queue) \cup Members(r)
            /\ UrlsOf(queue') = UrlsOf(queue) \cup NewLinks
            /\ Distinct(queue) => Distinct(queue')
        BY <1>2, <3>2, <3>3, <3>4, JoinFacts
      <3>6. \A e \in Members(r) : Right(e)
        <4>1. ASSUME NEW e \in Members(r)
              PROVE  e.url \in NewLinks
          BY <3>3 DEF Members, UrlsOf
        <4> QED
          BY <2>1, <3>3, <4>1 DEF NewLinks, Right
      <3>7. Distinct(queue') /\ UrlsOf(queue') \cap visited = {}
        BY <1>1, <3>2, <3>5 DEF QueueInv
      <3>8. \A e \in Members(queue') \cup deadLinks' : Right(e)
        BY <1>1, <2>2, <3>5, <3>6 DEF QueueInv
      <3>9. Result \in Results /\ Result.links = page.links
        BY <2>1, ResultType
      <3>10. Covered(results, visited, queue)
        BY <1>1, <2>3 DEF QueueInv
      <3>11. /\ visited \cup UrlsOf(queue) \subseteq visited \cup UrlsOf(queue')
             /\ Result.links \subseteq visited \cup UrlsOf(queue')
        BY <3>2, <3>5, <3>9
      <3>12. Covered(Append(results, Result), visited, queue')
        BY <1>2, <3>9, <3>10, <3>11, CoveredJoin
      <3>13. results' = Append(results, Result)
        BY <2>4 DEF Collect
      <3> QED
        BY <2>3, <3>7, <3>8, <3>12, <3>13 DEF QueueInv
    <2>5. CASE CloseFails
      <3>1. queue' = queue /\ results' = results
        BY <2>5 DEF CloseFails
      <3> QED
        BY <1>1, <2>2, <2>3, <3>1 DEF QueueInv
    <2> QED
      BY <1>8, <2>4, <2>5
  <1>9. CASE Tested
    BY <1>1, <1>9 DEF Tested, QueueInv
  <1> QED
    BY <1>3, <1>4, <1>5, <1>6, <1>7, <1>8, <1>9 DEF Next, Crawler

-----------------------------------------------------------------------------
(* Theorems                                                                *)

\* The inductive invariant holds in every reachable state.
THEOREM Invariance == Spec => []IInv
  <1>1. Init => IInv
    BY InitHolds
  <1>2. IInv /\ [Next]_vars => IInv'
    <2> SUFFICES ASSUME IInv, [Next]_vars
                 PROVE  IInv'
      OBVIOUS
    <2>1. QueueInv' => (Fresh /\ Sourced /\ Found)'
      BY DEF Queued, UrlsOf, Distinct, Members, Fresh, Sourced, Found, QueueInv, Right, Covered
    <2> QED
      BY <2>1, TypeStep, WorkStep, BoundStep, QueueStep DEF IInv
  <1> QED
    BY <1>1, <1>2, PTL DEF Spec

\* Every variable keeps its type.
THEOREM TypeCorrect == Spec => []TypeOK
  <1>1. IInv => TypeOK
    BY DEF IInv
  <1> QED
    BY <1>1, Invariance, PTL

\* A crawl visits no address twice, no excluded one and no more than MaxPages; it names
\* the right source of every page, and leaves no link of a page that it reports behind
\* unless the budget is spent.
THEOREM Exploration == Spec => []Explored
  <1>1. ASSUME IInv
        PROVE  Explored
    <2>1. ASSUME phase = "done", Cardinality(visited) < MaxPages, NEW i \in 1..Len(results)
          PROVE  results[i].links \subseteq visited \cup Excluded
      <3>1. call = "crawl" /\ queue = <<>>
        BY <1>1, <2>1 DEF IInv, Loop, Budget
      <3>2. Queued = {}
        BY <3>1 DEF Queued
      <3> QED
        BY <1>1, <2>1, <3>1, <3>2 DEF IInv, Found
    <2> QED
      BY <1>1, <2>1 DEF IInv, Bounded, Explored
  <1> QED
    BY <1>1, Invariance, PTL
=============================================================================
