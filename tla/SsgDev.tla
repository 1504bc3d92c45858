------------------------------- MODULE SsgDev -------------------------------
(***************************************************************************)
(* The development server of static sites, src/sol/cli/ssg.mbt (sol dev),  *)
(* with the build manifest of src/astra/cache that lets it skip its first  *)
(* build.                                                                  *)
(*                                                                         *)
(* The server shares the directory of documents with whoever edits them,   *)
(* and outlives neither its output nor its manifest.  A document is a file *)
(* with one of a few contents; the page made of it is that content, at a   *)
(* URL that the path of the file decides, so that two documents may have   *)
(* one.  The manifest's hash of the documents is the documents themselves. *)
(* The configuration is fixed: the server never reads it again.  Dynamic   *)
(* routes, with a page for each of their parameters, are left out.         *)
(* An operator named ...Fault is what a plausible bug would make of the    *)
(* operator after it; no action uses it.                                   *)
(***************************************************************************)
EXTENDS Integers, Sequences

CONSTANTS
  Files,        \* the .md and .mdx files there may be in the directory
  Contents,
  Urls,
  Absent,       \* there is no such file, or no such page
  Json          \* an event for some .json file

ASSUME SsgDevAssumption ==
  /\ Absent \notin Contents
  /\ Absent \notin [Files -> Contents \cup {Absent}]
  /\ Json \notin Files

VARIABLES
  url,          \* where the page of each document is; never changed
  content,      \* the documents
  output,       \* the page in the output directory for each URL
  manifest,     \* the documents the manifest describes; none is described by Absent
  phase,        \* where the server is
  todo,         \* the pages the build under way has not generated
  pages,        \* build_ctx.pages
  known,        \* known_pages
  events,       \* the events of fs.watch that have not been handled
  astray        \* history: the documents edited while a build was running, or given the
                \* content the manifest has for them, or that a refused build was for, or
                \* whose page another one of the same URL has overwritten, and not
                \* generated since

ssgVars == <<url, content, output, manifest, phase, todo, pages, known, events, astray>>

\* "build" is the first build and "rebuild" one that an event has started; "scan" is the
\* rest of the start.
Phases == {"down", "build", "scan", "watch", "rebuild"}
Watching == phase \in {"watch", "rebuild"}
Building == phase \in {"build", "scan", "rebuild"}

Waiting(e) == \E i \in 1..Len(events) : events[i] = e
Existing == {f \in Files : content[f] # Absent}
SameUrl(f) == {g \in Existing : g # f /\ url[g] = url[f]}

SsgInit ==
  /\ url \in [Files -> Urls]
  /\ content \in [Files -> Contents \cup {Absent}]
  /\ output = [u \in Urls |-> Absent]
  /\ manifest = Absent
  /\ phase = "down"
  /\ todo = {} /\ pages = {} /\ known = {}
  /\ events = <<>>
  /\ astray = {}

-----------------------------------------------------------------------------
(* Builds                                                                  *)

\* check_local_build_state.
UpToDate == manifest = content

\* run_ssg_initial_build, when there is nothing to do.
Skip ==
  /\ phase = "down"
  /\ UpToDate
  /\ phase' = "scan"
  /\ UNCHANGED <<content, output, manifest, todo, pages, known, events, astray>>

\* resolve_duplicate_pages finds two documents of one URL, for which nothing decides.
Clash == \E f \in Existing : SameUrl(f) # {}

BuildFault(b, after, due) ==
  /\ todo' = Existing
  /\ phase' = IF Clash \/ Existing = {} THEN after ELSE b
  /\ astray' = IF Clash THEN astray \cup due ELSE astray
\* generate_site_internal up to its loop, in a build called b: the pages scan_docs_dir
\* finds will be generated. To find none, or two of one URL, is an error: nothing is
\* generated and no manifest saved. What follows the build is after, and due are the
\* documents it is for.
Build(b, after, due) ==
  /\ todo' = IF Clash THEN {} ELSE Existing
  /\ phase' = IF Clash \/ Existing = {} THEN after ELSE b
  /\ astray' = IF Clash THEN astray \cup due ELSE astray

\* The documents the manifest does not describe.
Outdated == {f \in Existing : manifest = Absent \/ manifest[f] # content[f]}

\* run_ssg_initial_build, when there is something to do. An error is printed, and the
\* server goes on.
Start ==
  /\ phase = "down"
  /\ ~UpToDate
  /\ Build("build", "scan", Outdated)
  /\ UNCHANGED <<content, output, manifest, pages, known, events>>

PageFault(f) == IF output[url[f]] = Absent THEN content[f] ELSE output[url[f]]
\* What generate_page_with_highlight writes for f, read when its turn comes.
Page(f) == content[f]

\* It writes the page at the URL of f, whose ever that is.
Write(f) ==
  /\ output' = [output EXCEPT ![url[f]] = Page(f)]
  /\ astray' = (astray \ {f}) \cup SameUrl(f)

\* One iteration of generate_site_internal. A document deleted since the scan is an error
\* that is printed.
Generate(f) ==
  /\ f \in todo
  /\ todo' = todo \ {f}
  /\ IF content[f] = Absent THEN UNCHANGED <<output, astray>> ELSE Write(f)
  /\ UNCHANGED <<content, manifest, phase, pages, known, events>>

\* save_manifest, which reads the documents again.
Save ==
  /\ phase \in {"build", "rebuild"}
  /\ todo = {}
  /\ manifest' = content
  /\ phase' = IF phase = "build" THEN "scan" ELSE "watch"
  /\ UNCHANGED <<content, output, todo, pages, known, events, astray>>

\* run_ssg_dev from the scan that fills build_ctx to fs.watch.
Watch ==
  /\ phase = "scan"
  /\ phase' = "watch"
  /\ pages' = Existing
  /\ known' = Existing
  /\ UNCHANGED <<content, output, manifest, todo, events, astray>>

-----------------------------------------------------------------------------
(* The listener of fs.watch; each action handles the oldest event          *)

Handling(e) == phase = "watch" /\ events # <<>> /\ Head(events) = e /\ events' = Tail(events)

AppearedFault(f) == UNCHANGED <<phase, todo, astray>>
\* What the listener does about a new document: a full rebuild.
Appeared(f) == Build("rebuild", "watch", {f})

\* A document that was not known.
New(f) ==
  /\ Handling(f)
  /\ content[f] # Absent /\ f \notin known
  /\ known' = known \cup {f}
  /\ Appeared(f)
  /\ UNCHANGED <<content, output, manifest, pages>>

ForgottenFault(f) == known
\* The known documents once f is deleted.
Forgotten(f) == known \ {f}

\* A known document is gone: a full rebuild. Its page stays where it is.
Deleted(f) ==
  /\ Handling(f)
  /\ content[f] = Absent /\ f \in known
  /\ known' = Forgotten(f)
  /\ Build("rebuild", "watch", {})
  /\ UNCHANGED <<content, output, manifest, pages>>

\* rebuild_ssg_single_page: a page that is not in build_ctx is an error that is printed.
\* The manifest is not saved.
Changed(f) ==
  /\ Handling(f)
  /\ content[f] # Absent /\ f \in known
  /\ IF f \in pages THEN Write(f) ELSE UNCHANGED <<output, astray>>
  /\ UNCHANGED <<content, manifest, phase, todo, pages, known>>

\* An event for a document that is neither there nor known.
Ignored(f) ==
  /\ Handling(f)
  /\ content[f] = Absent /\ f \notin known
  /\ UNCHANGED <<content, output, manifest, phase, todo, pages, known, astray>>

\* A .json file: a full rebuild, with the configuration the server has.
JsonChanged ==
  /\ Handling(Json)
  /\ Build("rebuild", "watch", {})
  /\ UNCHANGED <<content, output, manifest, pages, known>>

-----------------------------------------------------------------------------
(* The environment                                                         *)

\* The operating system tells the server of a change of e, if it watches. An event that
\* is already waiting is not told twice.
Notify(e) ==
  events' = IF ~Watching \/ Waiting(e) THEN events ELSE Append(events, e)

\* Somebody edits, creates, deletes or restores a document.
Edit(f, c) ==
  /\ c # content[f]
  /\ content' = [content EXCEPT ![f] = c]
  /\ Notify(f)
  /\ astray' = IF Building \/ (manifest # Absent /\ manifest[f] = c)
               THEN astray \cup {f} ELSE astray
  /\ UNCHANGED <<output, manifest, phase, todo, pages, known>>

EditJson ==
  /\ Watching
  /\ Notify(Json)
  /\ UNCHANGED <<content, output, manifest, phase, todo, pages, known, astray>>

\* The server is stopped, or killed.
Stop ==
  /\ phase # "down"
  /\ phase' = "down"
  /\ todo' = {} /\ pages' = {} /\ known' = {}
  /\ events' = <<>>
  /\ UNCHANGED <<content, output, manifest, astray>>

-----------------------------------------------------------------------------
SsgNext ==
  /\ \/ Skip
     \/ Start
     \/ \E f \in Files : Generate(f)
     \/ Save
     \/ Watch
     \/ \E f \in Files : New(f) \/ Deleted(f) \/ Changed(f) \/ Ignored(f)
     \/ JsonChanged
     \/ \E f \in Files, c \in Contents \cup {Absent} : Edit(f, c)
     \/ EditJson
     \/ Stop
  /\ UNCHANGED url

SsgSpec == SsgInit /\ [][SsgNext]_ssgVars
-----------------------------------------------------------------------------
(* Properties                                                              *)

\* The type of every variable; the server has no event waiting before it watches.
SsgTypeOK ==
  /\ url \in [Files -> Urls]
  /\ content \in [Files -> Contents \cup {Absent}]
  /\ output \in [Urls -> Contents \cup {Absent}]
  /\ manifest \in [Files -> Contents \cup {Absent}] \cup {Absent}
  /\ phase \in Phases
  /\ todo \subseteq Files /\ pages \subseteq Files /\ known \subseteq Files
  /\ events \in Seq(Files \cup {Json})
  /\ astray \subseteq Files
  /\ ~Watching => events = <<>>
  /\ todo # {} => phase \in {"build", "rebuild"}

Quiet == phase = "watch" /\ events = <<>>

\* When the server has handled all events, the page of each document it found when it
\* started is up to date, over any number of restarts, skipped builds and interrupted
\* ones. Excepted are documents that have not been generated since they were edited during
\* a build, or restored to what the manifest has, or since the build they were due in was
\* refused because two documents had one URL, or the other one of their URL was generated.
Served ==
  Quiet =>
    \A f \in pages \ astray : content[f] # Absent => output[url[f]] = content[f]

\* A document created since, with the same exceptions, has a page.
Appears ==
  Quiet => \A f \in known \ astray : output[url[f]] # Absent

\* known_pages are the documents there are, but for events that are waiting: a document
\* that is deleted and created again is taken for what it is.
KnownRight ==
  phase = "watch" =>
    \A f \in Files : Waiting(f) \/ (f \in known <=> content[f] # Absent)
=============================================================================
