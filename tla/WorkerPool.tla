----------------------------- MODULE WorkerPool -----------------------------
(***************************************************************************)
(* The build worker pool: the parent process (src/sol/builder/pool.mbt),   *)
(* its worker processes (src/sol/builder_pool/worker.mbt), the IPC channel *)
(* between them and the client, which is run_parallel_build.               *)
(*                                                                         *)
(* The parent is single-threaded: a handler runs to its end before the     *)
(* next event.  Workers run in parallel with it and may die at any moment; *)
(* the exit event of a dead worker and the messages it sent before it died *)
(* reach the parent in any order, and some of those messages may be lost.  *)
(* The outcome of a job (JobResult.success) is left out: a page that fails *)
(* to build is Done like any other.                                        *)
(* An operator named ...Fault is what a plausible bug would make of the    *)
(* operator after it; no action uses it.                                   *)
(***************************************************************************)
EXTENDS Naturals, Sequences

CONSTANTS
  NumWorkers,   \* PoolConfig.num_workers
  Jobs,         \* job ids
  NoJob,        \* not a job id
  Rounds,       \* what a client may submit: sequences of distinct job ids
  MaxRounds,    \* bound: rounds of submit_jobs / wait_all
  MaxCrashes    \* bound: workers that die by themselves

Workers == 1..NumWorkers
Distinct(q) == \A i, k \in DOMAIN q : q[i] = q[k] => i = k

ASSUME PoolAssumption ==
  /\ NumWorkers \in Nat
  /\ NoJob \notin Jobs
  /\ Rounds \subseteq {q \in Seq(Jobs) : Distinct(q)}
  /\ MaxRounds \in Nat
  /\ MaxCrashes \in Nat

VARIABLES
  \* the parent
  state,        \* WorkerHandle.state of each worker
  pendingJobs,  \* pending_jobs
  results,      \* the job ids of results
  completed,    \* completed_count
  total,        \* total_jobs
  \* its client
  client,       \* where the client is, see ClientPhases
  scan,         \* the worker the loop of submit_jobs looks at next
  asked,        \* history: the jobs of the current round
  rounds,       \* history: rounds submitted so far
  \* the workers
  initOK,       \* the init data parses (it is the same for every worker)
  proc,         \* life of each worker process
  toWorker,     \* messages on their way to each worker
  toParent,     \* messages on their way from each worker
  exitSeen,     \* workers whose exit event the parent has handled
  crashes       \* history: workers that died by themselves

parentVars == <<state, pendingJobs, results, completed, total>>
clientVars == <<client, scan, asked, rounds>>
workerVars == <<proc, toParent, crashes>>
vars == <<parentVars, clientVars, workerVars, initOK, toWorker, exitSeen>>

-----------------------------------------------------------------------------
\* WorkerState; a busy worker knows its job.
Plain(is) == [is |-> is, job |-> NoJob]
Busy(j) == [is |-> "Busy", job |-> j]
WorkerState == {Plain("Initializing"), Plain("Idle"), Plain("Terminated")}
               \cup {Busy(j) : j \in Jobs}
Idle(w) == state[w] = Plain("Idle")

\* ParentMessage and WorkerMessage
Msg(type) == [type |-> type, job |-> NoJob]
JobMsg(j) == [type |-> "job", job |-> j]
DoneMsgFault(j) == Msg("done")
DoneMsg(j) == [type |-> "done", job |-> j]
ParentMessage == {Msg("init"), Msg("shutdown")} \cup {JobMsg(j) : j \in Jobs}
WorkerMessage == {Msg("ready"), Msg("error")} \cup {DoneMsg(j) : j \in Jobs}

ClientPhases ==
  {"new",         \* WorkerPool::new has run
   "submitting",  \* in the loop of submit_jobs
   "submitted",
   "waiting",     \* in wait_all, on the promise
   "resolved",    \* on_complete has resolved the promise
   "returned",    \* wait_all has returned
   "closed"}      \* shutdown has run

\* "exited": the process is gone.  A worker whose init data did not parse stays
\* uninitialized: its worker_ctx is None.
ProcPhases == {"uninitialized", "initializing", "ready", "exited"}

\* What is sent to a process that is gone is lost.
SentTo(w, m) ==
  IF proc[w] = "exited" THEN toWorker ELSE [toWorker EXCEPT ![w] = Append(@, m)]

Init ==
  /\ state = [w \in Workers |-> Plain("Initializing")]
  /\ pendingJobs = <<>>
  /\ results = <<>>
  /\ completed = 0
  /\ total = 0
  /\ client = "new"
  /\ scan = 1
  /\ asked = <<>>
  /\ rounds = 0
  /\ initOK \in BOOLEAN
  /\ proc = [w \in Workers |-> "uninitialized"]
  /\ toWorker = [w \in Workers |-> <<Msg("init")>>]
  /\ toParent = [w \in Workers |-> <<>>]
  /\ exitSeen = {}
  /\ crashes = 0

-----------------------------------------------------------------------------
(* The parent                                                              *)

\* try_assign_job; idle is the worker states once w is marked idle.  The newest
\* pending job goes first.
TryAssign(w, idle) ==
  IF pendingJobs = <<>>
  THEN /\ state' = idle
       /\ UNCHANGED <<pendingJobs, toWorker>>
  ELSE LET j == pendingJobs[Len(pendingJobs)]
       IN  /\ pendingJobs' = SubSeq(pendingJobs, 1, Len(pendingJobs) - 1)
           /\ state' = [idle EXCEPT ![w] = Busy(j)]
           /\ toWorker' = SentTo(w, JobMsg(j))

\* An event reaches the parent between two of its turns.
Receive(w, type) ==
  /\ client # "submitting"
  /\ toParent[w] # <<>>
  /\ Head(toParent[w]).type = type
  /\ toParent' = [toParent EXCEPT ![w] = Tail(@)]

MarkedIdle(w) == [state EXCEPT ![w] = Plain("Idle")]

HandleReadyFault(w) ==
  /\ Receive(w, "ready")
  /\ state' = MarkedIdle(w)
  /\ UNCHANGED <<pendingJobs, toWorker, results, completed, total, clientVars, initOK,
                 proc, exitSeen, crashes>>
HandleReady(w) ==
  /\ Receive(w, "ready")
  /\ TryAssign(w, MarkedIdle(w))
  /\ UNCHANGED <<results, completed, total, clientVars, initOK, proc, exitSeen, crashes>>

HandleErrorFault(w) ==
  /\ Receive(w, "error")
  /\ state' = MarkedIdle(w)
  /\ UNCHANGED <<pendingJobs, toWorker, results, completed, total, clientVars, initOK,
                 proc, exitSeen, crashes>>
HandleError(w) ==
  /\ Receive(w, "error")
  /\ TryAssign(w, MarkedIdle(w))
  /\ UNCHANGED <<results, completed, total, clientVars, initOK, proc, exitSeen, crashes>>

AllDoneFault(count) == count + 1 >= total
AllDone(count) == count >= total

\* on_complete resolves the promise of the wait_all in progress, if there is one.
HandleDone(w) ==
  /\ Receive(w, "done")
  /\ results' = Append(results, Head(toParent[w]).job)
  /\ completed' = completed + 1
  /\ IF AllDone(completed')
     THEN /\ client' = IF client = "waiting" THEN "resolved" ELSE client
          /\ state' = MarkedIdle(w)
          /\ UNCHANGED <<pendingJobs, toWorker>>
     ELSE /\ TryAssign(w, MarkedIdle(w))
          /\ UNCHANGED client
  /\ UNCHANGED <<total, scan, asked, rounds, initOK, proc, exitSeen, crashes>>

HandleExit(w) ==
  /\ client # "submitting"
  /\ proc[w] = "exited"
  /\ w \notin exitSeen
  /\ exitSeen' = exitSeen \cup {w}
  /\ state' = [state EXCEPT ![w] = Plain("Terminated")]
  /\ UNCHANGED <<pendingJobs, results, completed, total, clientVars, workerVars,
                 initOK, toWorker>>

-----------------------------------------------------------------------------
(* The client's calls                                                      *)

\* submit_jobs up to its loop ...
Submit(jobs) ==
  /\ client \in {"new", "returned"}
  /\ rounds < MaxRounds
  /\ rounds' = rounds + 1
  /\ asked' = jobs
  /\ pendingJobs' = jobs
  /\ total' = Len(jobs)
  /\ completed' = 0
  /\ results' = <<>>
  /\ client' = "submitting"
  /\ scan' = 1
  /\ UNCHANGED <<state, workerVars, initOK, toWorker, exitSeen>>

\* ... which offers a job to each idle worker in turn.  No event is handled meanwhile.
SubmitScan ==
  /\ client = "submitting"
  /\ IF scan \in Workers
     THEN /\ IF Idle(scan) THEN TryAssign(scan, state)
             ELSE UNCHANGED <<state, pendingJobs, toWorker>>
          /\ scan' = scan + 1
          /\ UNCHANGED client
     ELSE /\ client' = "submitted"
          /\ UNCHANGED <<state, pendingJobs, toWorker, scan>>
  /\ UNCHANGED <<results, completed, total, asked, rounds, workerVars, initOK, exitSeen>>

\* wait_all
WaitAll ==
  /\ client = "submitted"
  /\ client' = IF AllDone(completed) THEN "returned" ELSE "waiting"
  /\ UNCHANGED <<parentVars, scan, asked, rounds, workerVars, initOK, toWorker, exitSeen>>

WaitReturn ==
  /\ client = "resolved"
  /\ client' = "returned"
  /\ UNCHANGED <<parentVars, scan, asked, rounds, workerVars, initOK, toWorker, exitSeen>>

ListeningFault(w) == state[w] = Plain("Idle")
Listening(w) == state[w] # Plain("Terminated")

\* shutdown
Shutdown ==
  /\ client = "returned"
  /\ client' = "closed"
  /\ toWorker' = [w \in Workers |->
                    IF Listening(w) /\ proc[w] # "exited"
                    THEN Append(toWorker[w], Msg("shutdown")) ELSE toWorker[w]]
  /\ UNCHANGED <<parentVars, scan, asked, rounds, workerVars, initOK, exitSeen>>

-----------------------------------------------------------------------------
(* A worker process                                                        *)

Take(w, type) ==
  /\ proc[w] # "exited"
  /\ toWorker[w] # <<>>
  /\ Head(toWorker[w]).type = type
  /\ toWorker' = [toWorker EXCEPT ![w] = Tail(@)]

Reply(w, m) == toParent' = [toParent EXCEPT ![w] = Append(@, m)]

\* handle_init up to its await: unusable data is an error message ...
WorkerInit(w) ==
  /\ Take(w, "init")
  /\ IF initOK THEN proc' = [proc EXCEPT ![w] = "initializing"] /\ UNCHANGED toParent
               ELSE Reply(w, Msg("error")) /\ UNCHANGED proc
  /\ UNCHANGED <<parentVars, clientVars, initOK, exitSeen, crashes>>

\* ... and after it.
WorkerReady(w) ==
  /\ proc[w] = "initializing"
  /\ proc' = [proc EXCEPT ![w] = "ready"]
  /\ Reply(w, Msg("ready"))
  /\ UNCHANGED <<parentVars, clientVars, initOK, toWorker, exitSeen, crashes>>

\* handle_job
WorkerJob(w) ==
  /\ Take(w, "job")
  /\ Reply(w, IF proc[w] = "ready" THEN DoneMsg(Head(toWorker[w]).job) ELSE Msg("error"))
  /\ UNCHANGED <<parentVars, clientVars, initOK, proc, exitSeen, crashes>>

\* The process ends: what it had not read is lost, and perhaps part of what it sent.
Gone(w) ==
  /\ proc' = [proc EXCEPT ![w] = "exited"]
  /\ \E k \in 0..Len(toParent[w]) :
        toParent' = [toParent EXCEPT ![w] = SubSeq(@, 1, k)]
  /\ toWorker' = [toWorker EXCEPT ![w] = <<>>]

\* handle_shutdown
WorkerShutdown(w) ==
  /\ proc[w] # "exited"
  /\ toWorker[w] # <<>>
  /\ Head(toWorker[w]).type = "shutdown"
  /\ Gone(w)
  /\ UNCHANGED <<parentVars, clientVars, initOK, exitSeen, crashes>>

Crash(w) ==
  /\ proc[w] # "exited"
  /\ crashes < MaxCrashes
  /\ crashes' = crashes + 1
  /\ Gone(w)
  /\ UNCHANGED <<parentVars, clientVars, initOK, exitSeen>>

-----------------------------------------------------------------------------
ParentStep(w) == HandleReady(w) \/ HandleError(w) \/ HandleDone(w) \/ HandleExit(w)
WorkerStep(w) == WorkerInit(w) \/ WorkerReady(w) \/ WorkerJob(w) \/ WorkerShutdown(w)
ClientStep == SubmitScan \/ WaitAll \/ WaitReturn

Next ==
  \/ \E w \in Workers : ParentStep(w) \/ WorkerStep(w) \/ Crash(w)
  \/ ClientStep
  \/ \E jobs \in Rounds : Submit(jobs)
  \/ Shutdown

Spec == Init /\ [][Next]_vars

\* Pending events are delivered, live processes run and a called function goes on; the
\* client need not submit, and nothing need crash.
Fairness ==
  /\ \A w \in Workers : WF_vars(ParentStep(w)) /\ WF_vars(WorkerStep(w))
  /\ WF_vars(ClientStep)

FairSpec == Spec /\ Fairness
-----------------------------------------------------------------------------
(* Properties                                                              *)

\* The type of every variable; in particular only jobs are ever counted as results.
TypeOK ==
  /\ state \in [Workers -> WorkerState]
  /\ pendingJobs \in Seq(Jobs)
  /\ results \in Seq(Jobs)
  /\ completed \in Nat
  /\ total \in Nat
  /\ client \in ClientPhases
  /\ scan \in Nat
  /\ asked \in Rounds \cup {<<>>}
  /\ rounds \in Nat
  /\ initOK \in BOOLEAN
  /\ proc \in [Workers -> ProcPhases]
  /\ toWorker \in [Workers -> Seq(ParentMessage)]
  /\ toParent \in [Workers -> Seq(WorkerMessage)]
  /\ exitSeen \subseteq Workers
  /\ crashes \in Nat

\* The pool keeps the promise of JobBoard, whatever crashes and messages are lost: no
\* result for a job that was not submitted, no job with two results, and wait_all
\* returns only when every job of the round has one (submit_jobs, the handlers,
\* wait_all).
Elements(q) == {q[i] : i \in DOMAIN q}
WaitPhases == {"submitting", "submitted", "waiting", "resolved"}

Board == INSTANCE JobBoard WITH
           asked <- Elements(asked),
           done <- Elements(results),
           open <- client \in WaitPhases
BoardSpec == Board!Spec

\* The pool never lets a worker rest while a job waits: between two turns of the parent
\* no worker is idle unless every job has been handed out (each handler and the loop of
\* submit_jobs end in try_assign_job).
NobodyIdle ==
  client # "submitting" /\ pendingJobs # <<>> => \A w \in Workers : ~Idle(w)

\* As long as no worker dies and the init data parses, wait_all returns: the handlers
\* keep handing out jobs until the last result resolves the promise.
Faulty == crashes > 0 \/ ~initOK
WaitReturnsWithoutFault == client = "waiting" ~> (client = "returned" \/ Faulty)

\* Without a fault and with at least one worker, wait_all never waits for nobody: a request
\* or an answer is on its way, or a worker is being initialized, whatever the handlers and
\* submit_jobs did before.
UnderWay(w) ==
  proc[w] # "exited" /\ (toWorker[w] # <<>> \/ toParent[w] # <<>> \/ proc[w] = "initializing")
WaitsForSomebody == client = "waiting" /\ ~Faulty => \E w \in Workers : UnderWay(w)

\* After shutdown each worker has exited or will read the message that tells it to: the
\* states shutdown leaves out are those of dead workers (shutdown, handle_worker_exit).
ShutdownReaches ==
  client = "closed" =>
    \A w \in Workers : \/ proc[w] = "exited"
                       \/ \E i \in 1..Len(toWorker[w]) : toWorker[w][i] = Msg("shutdown")

\* After shutdown no worker process survives, whatever state it was in: still
\* initializing, idle, or recovering from an error (shutdown, handle_shutdown).
ShutdownEnds == client = "closed" ~> \A w \in Workers : proc[w] = "exited"

\* What wait_all says: "Wait for all submitted jobs to complete", which promises its
\* caller that it returns.
WaitReturns == client = "waiting" ~> client = "returned"
=============================================================================
