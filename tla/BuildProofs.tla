---------------------------- MODULE BuildProofs -----------------------------
(***************************************************************************)
(* Theorems about the two parts of sol that build pages.  The first half   *)
(* is about WorkerPool, for every number of workers, every set of jobs and *)
(* any number of crashes, the second about SsgDev, for every set of        *)
(* documents and contents.  The two share no variable.                     *)
(***************************************************************************)
EXTENDS WorkerPool, SsgDev, FiniteSetTheorems, SequenceTheorems, TLAPS

-----------------------------------------------------------------------------
(* WorkerPool: the inductive invariant                                     *)

\* A channel to a worker that holds nothing it has to answer.
Resting(in, closed) == \A i \in 1..Len(in) : closed /\ in[i] = Msg("shutdown")

\* At most one request or answer is under way between the parent and a worker, of which
\* the parent thinks s, whose process is p, and whose channels are in and out.
Line(s, p, in, out, closed) ==
  /\ Len(out) <= 1
  /\ \A i \in 1..Len(in) :
        i >= 2 \/ in[i] = Msg("shutdown") => closed /\ in[i] = Msg("shutdown")
  /\ out # <<>> \/ p = "initializing" \/ s = Plain("Idle") => Resting(in, closed)
  /\ p = "initializing" \/ s = Plain("Idle") => out = <<>>
  /\ s = Plain("Idle") => p # "initializing"
  /\ p = "exited" => in = <<>>

LineOK == \A w \in Workers :
            Line(state[w], proc[w], toWorker[w], toParent[w], client = "closed")

\* Job j is on its way to a worker, or its result is on its way back.
Holds(in, out, j) ==
  \/ \E i \in 1..Len(in) : in[i] = JobMsg(j)
  \/ \E i \in 1..Len(out) : out[i] = DoneMsg(j)
Held(w, j) == Holds(toWorker[w], toParent[w], j)

\* A job is in one place only.
TokensOK ==
  \A w \in Workers : \A j \in Jobs : Held(w, j) =>
    /\ j \in Elements(asked)
    /\ j \notin Elements(pendingJobs)
    /\ j \notin Elements(results)
    /\ \A v \in Workers : Held(v, j) => v = w

\* The lists and counters of the parent agree with the round.
BooksOK ==
  /\ Distinct(asked) /\ Distinct(pendingJobs) /\ Distinct(results)
  /\ Elements(pendingJobs) \subseteq Elements(asked) \ Elements(results)
  /\ Elements(results) \subseteq Elements(asked)
  /\ completed = Len(results) /\ total = Len(asked)
  /\ client = "new" => asked = <<>>
  /\ client \in {"resolved", "returned", "closed"} => Elements(results) = Elements(asked)

\* The loop of submit_jobs leaves no idle worker behind it.
RestOK ==
  /\ scan >= 1
  /\ client = "submitting" /\ pendingJobs # <<>> =>
        \A v \in Workers : v < scan => ~Idle(v)
  /\ NobodyIdle

IInv == TypeOK /\ LineOK /\ TokensOK /\ BooksOK /\ RestOK

-----------------------------------------------------------------------------
(* Lists of jobs                                                           *)

\* What is in a list.
LEMMA ElementsFacts ==
  ASSUME NEW q \in Seq(Jobs)
  PROVE  /\ Len(q) \in Nat /\ DOMAIN q = 1..Len(q)
         /\ \A i \in 1..Len(q) : q[i] \in Jobs /\ q[i] \in Elements(q)
         /\ \A j \in Elements(q) : j \in Jobs /\ \E i \in 1..Len(q) : q[i] = j
  BY LenProperties, ElementOfSeq DEF Elements

\* Nothing is in the empty list.
LEMMA EmptyFacts ==
  /\ <<>> \in Seq(Jobs) /\ Len(<<>>) = 0
  /\ Elements(<<>>) = {} /\ Distinct(<<>>)
  <1>1. <<>> \in Seq(Jobs) /\ Len(<<>>) = 0
    BY EmptySeq
  <1>2. DOMAIN <<>> = {}
    BY <1>1, ElementsFacts
  <1> QED BY <1>1, <1>2 DEF Elements, Distinct

\* Adding a new job at the end.
LEMMA AppendFacts ==
  ASSUME NEW q \in Seq(Jobs), NEW j \in Jobs
  PROVE  /\ Append(q, j) \in Seq(Jobs)
         /\ Len(Append(q, j)) = Len(q) + 1
         /\ Elements(Append(q, j)) = Elements(q) \cup {j}
         /\ Distinct(q) /\ j \notin Elements(q) => Distinct(Append(q, j))
  <1> DEFINE r == Append(q, j)
  <1>1. /\ r \in Seq(Jobs) /\ Len(r) = Len(q) + 1 /\ Len(q) \in Nat
        /\ DOMAIN r = 1..Len(q)+1 /\ DOMAIN q = 1..Len(q)
        /\ \A i \in 1..Len(q) : r[i] = q[i]
        /\ r[Len(q)+1] = j
    BY AppendProperties, LenProperties
  <1> HIDE DEF r
  <1>2. \A i \in 1..Len(q)+1 : i \in 1..Len(q) \/ i = Len(q)+1
    BY <1>1
  <1>3. \A i \in 1..Len(q) : i \in 1..Len(q)+1
    BY <1>1
  <1>4. Elements(r) = Elements(q) \cup {j}
    <2>1. Elements(r) \subseteq Elements(q) \cup {j}
      BY <1>1, <1>2 DEF Elements
    <2>2. Elements(q) \subseteq Elements(r)
      BY <1>1, <1>3 DEF Elements
    <2>3. j \in Elements(r)
      BY <1>1 DEF Elements
    <2> QED BY <2>1, <2>2, <2>3
  <1>5. ASSUME Distinct(q), j \notin Elements(q)
        PROVE  Distinct(r)
    <2>1. \A i \in 1..Len(q) : q[i] # j
      BY <1>5, ElementsFacts
    <2> QED BY <1>1, <1>2, <1>5, <2>1 DEF Distinct
  <1> QED BY <1>1, <1>4, <1>5 DEF r

\* Taking the last job off.
LEMMA LastFacts ==
  ASSUME NEW q \in Seq(Jobs), q # <<>>, Distinct(q)
  PROVE  LET r == SubSeq(q, 1, Len(q) - 1)
         IN  /\ r \in Seq(Jobs) /\ Distinct(r)
             /\ q[Len(q)] \in Elements(q)
             /\ Elements(r) = Elements(q) \ {q[Len(q)]}
  <1> DEFINE n == Len(q)  r == SubSeq(q, 1, n - 1)
  <1>1. n \in Nat \ {0} /\ DOMAIN q = 1..n
    BY EmptySeq, LenProperties
  <1>2. \A i \in 1..n-1 : q[i] \in Jobs
    BY <1>1, ElementsFacts
  <1> HIDE DEF n
  <1>3. /\ r \in Seq(Jobs)
        /\ Len(r) = IF 1 <= n-1 THEN n-1-1+1 ELSE 0
        /\ \A i \in 1..n-1-1+1 : r[i] = q[1+i-1]
    BY <1>1, <1>2, SubSeqProperties
  <1>4. Len(r) = n-1 /\ \A i \in 1..n-1 : r[i] = q[i]
    BY <1>1, <1>3
  <1>5. DOMAIN r = 1..n-1
    BY <1>3, <1>4, LenProperties
  <1> HIDE DEF r
  <1>6. Distinct(r)
    BY <1>1, <1>4, <1>5 DEF Distinct
  <1>7. n \in 1..n /\ q[n] \in Elements(q)
    BY <1>1 DEF Elements
  <1>8. Elements(r) = Elements(q) \ {q[n]}
    <2>1. \A i \in 1..n-1 : i \in 1..n /\ i # n
      BY <1>1
    <2>2. \A i \in 1..n : i # n => i \in 1..n-1
      BY <1>1
    <2>3. \A i \in 1..n-1 : q[i] # q[n]
      BY <1>1, <1>7, <2>1 DEF Distinct
    <2> QED BY <1>1, <1>4, <1>5, <2>1, <2>2, <2>3 DEF Elements
  <1> QED BY <1>3, <1>6, <1>7, <1>8 DEF n, r

\* A list of distinct jobs is as long as it has members.
LEMMA DistinctCount ==
  ASSUME NEW q \in Seq(Jobs), Distinct(q)
  PROVE  IsFiniteSet(Elements(q)) /\ Cardinality(Elements(q)) = Len(q)
  <1>1. Len(q) \in Nat /\ DOMAIN q = 1..Len(q)
    BY LenProperties
  <1>2. IsFiniteSet(1..Len(q)) /\ Cardinality(1..Len(q)) = Len(q)
    BY <1>1, FS_Interval
  <1>3. q \in Bijection(1..Len(q), Elements(q))
    <2>1. q \in [1..Len(q) -> Elements(q)]
      BY <1>1, LenProperties DEF Elements
    <2> QED BY <1>1, <2>1 DEF Bijection, Injection, Surjection, IsInjective, Distinct, Elements
  <1>4. ExistsBijection(1..Len(q), Elements(q))
    BY <1>3 DEF ExistsBijection
  <1> QED BY <1>2, <1>4, FS_Bijection

\* Results of as many jobs as were asked are results of all of them.
LEMMA Covered ==
  ASSUME NEW q \in Seq(Jobs), NEW r \in Seq(Jobs), Distinct(q), Distinct(r),
         Elements(r) \subseteq Elements(q), Len(r) >= Len(q)
  PROVE  Elements(r) = Elements(q)
  <1>1. /\ IsFiniteSet(Elements(q)) /\ Cardinality(Elements(q)) = Len(q)
        /\ Cardinality(Elements(r)) = Len(r)
    BY DistinctCount
  <1>2. Cardinality(Elements(r)) <= Cardinality(Elements(q))
    BY <1>1, FS_Subset
  <1>3. Len(q) \in Nat /\ Len(r) \in Nat
    BY LenProperties
  <1>4. Cardinality(Elements(q)) = Cardinality(Elements(r))
    BY <1>1, <1>2, <1>3
  <1> QED BY <1>1, <1>4, FS_Subset
-----------------------------------------------------------------------------
(* Channels                                                                *)

\* The messages differ.
LEMMA MsgFacts ==
  /\ \A j \in Jobs : /\ JobMsg(j) # Msg("shutdown") /\ JobMsg(j) # Msg("init")
                     /\ JobMsg(j).type = "job" /\ JobMsg(j).job = j
                     /\ JobMsg(j) \in ParentMessage
  /\ \A j \in Jobs : /\ DoneMsg(j) # Msg("ready") /\ DoneMsg(j) # Msg("error")
                     /\ DoneMsg(j).type = "done" /\ DoneMsg(j).job = j
                     /\ DoneMsg(j) \in WorkerMessage
  /\ \A t \in {"init", "shutdown", "ready", "error"} : Msg(t).type = t
  /\ Msg("init") # Msg("shutdown")
  /\ {Msg("init"), Msg("shutdown")} \subseteq ParentMessage
  /\ {Msg("ready"), Msg("error")} \subseteq WorkerMessage
  BY DEF Msg, JobMsg, DoneMsg, ParentMessage, WorkerMessage

\* A message is known by its type.
LEMMA TypeFacts ==
  /\ \A m \in ParentMessage :
        /\ m.type = "init" => m = Msg("init")
        /\ m.type = "shutdown" => m = Msg("shutdown")
        /\ m.type = "job" => m.job \in Jobs /\ m = JobMsg(m.job)
  /\ \A m \in WorkerMessage :
        m.type = "done" => m.job \in Jobs /\ m = DoneMsg(m.job)
  BY DEF Msg, JobMsg, DoneMsg, ParentMessage, WorkerMessage

\* Taking the first message off a channel.
LEMMA TakeFacts ==
  ASSUME NEW M, NEW q \in Seq(M), q # <<>>
  PROVE  /\ Tail(q) \in Seq(M) /\ Head(q) \in M /\ Head(q) = q[1]
         /\ Len(q) \in Nat /\ Len(q) >= 1 /\ Len(Tail(q)) = Len(q) - 1
         /\ \A i \in 1..Len(Tail(q)) : Tail(q)[i] = q[i+1] /\ i+1 \in 1..Len(q)
  <1>1. Len(q) \in Nat \ {0}
    BY EmptySeq
  <1>2. Tail(q) \in Seq(M) /\ Head(q) \in M /\ Len(Tail(q)) = Len(q) - 1
        /\ \A i \in 1..Len(Tail(q)) : Tail(q)[i] = q[i+1]
    BY HeadTailProperties
  <1>3. Head(q) = q[1]
    BY <1>2
  <1> QED BY <1>1, <1>2, <1>3

\* A request taken off leaves only shutdowns.
LEMMA RequestTaken ==
  ASSUME NEW s, NEW p, NEW in \in Seq(ParentMessage), NEW out, NEW closed,
         Line(s, p, in, out, closed), in # <<>>, Head(in) # Msg("shutdown")
  PROVE  /\ Resting(Tail(in), closed) /\ Tail(in) \in Seq(ParentMessage)
         /\ out = <<>> /\ p # "initializing" /\ p # "exited" /\ s # Plain("Idle")
         /\ \A j \in Jobs : ~Holds(Tail(in), <<>>, j)
  <1>1. /\ Tail(in) \in Seq(ParentMessage) /\ Head(in) = in[1] /\ 1 \in 1..Len(in)
        /\ \A i \in 1..Len(Tail(in)) : Tail(in)[i] = in[i+1] /\ i+1 \in 1..Len(in)
        /\ Len(Tail(in)) \in Nat
    BY TakeFacts, LenProperties
  <1>2. \A i \in 1..Len(Tail(in)) : i+1 >= 2
    BY <1>1
  <1>3. Resting(Tail(in), closed)
    BY <1>1, <1>2 DEF Line, Resting
  <1>4. ~Resting(in, closed)
    BY <1>1 DEF Resting
  <1>5. out = <<>> /\ p # "initializing" /\ p # "exited" /\ s # Plain("Idle")
    BY <1>4 DEF Line
  <1>6. ASSUME NEW j \in Jobs PROVE ~Holds(Tail(in), <<>>, j)
    BY <1>3, MsgFacts, EmptySeq DEF Resting, Holds
  <1> QED BY <1>1, <1>3, <1>5, <1>6

\* An answer taken off leaves nothing to be answered.
LEMMA AnswerTaken ==
  ASSUME NEW s, NEW p, NEW in \in Seq(ParentMessage), NEW out \in Seq(WorkerMessage),
         NEW closed, Line(s, p, in, out, closed), out # <<>>
  PROVE  /\ Tail(out) = <<>> /\ Head(out) \in WorkerMessage /\ Resting(in, closed)
         /\ p # "initializing" /\ (p = "exited" => in = <<>>)
         /\ Head(out) = out[1] /\ 1 \in 1..Len(out)
  <1>1. /\ Tail(out) \in Seq(WorkerMessage) /\ Head(out) \in WorkerMessage
        /\ Head(out) = out[1] /\ Len(out) \in Nat /\ Len(out) >= 1
        /\ Len(Tail(out)) = Len(out) - 1
    BY TakeFacts
  <1>2. Len(out) <= 1 /\ Resting(in, closed)
        /\ p # "initializing" /\ (p = "exited" => in = <<>>)
    BY DEF Line
  <1>3. Len(Tail(out)) = 0
    BY <1>1, <1>2
  <1>4. Tail(out) = <<>>
    BY <1>1, <1>3, EmptySeq
  <1> QED BY <1>1, <1>2, <1>4

\* At rest, no job is held.
LEMMA RestingHolds ==
  ASSUME NEW in, NEW closed, Resting(in, closed), NEW j \in Jobs
  PROVE  ~Holds(in, <<>>, j)
  BY MsgFacts, EmptySeq DEF Resting, Holds

\* An answer held alone is the only thing held.
LEMMA AnswerHolds ==
  ASSUME NEW in, NEW closed, Resting(in, closed), NEW m \in WorkerMessage, NEW j \in Jobs,
         Holds(in, <<m>>, j)
  PROVE  m = DoneMsg(j)
  <1>1. Len(<<m>>) = 1 /\ <<m>>[1] = m
    OBVIOUS
  <1> QED BY <1>1, MsgFacts DEF Resting, Holds

\* A line changes at one worker only.
LEMMA LineFrame ==
  ASSUME LineOK, NEW w \in Workers, client' = "closed" <=> client = "closed",
         Line(state'[w], proc'[w], toWorker'[w], toParent'[w], client = "closed"),
         \A v \in Workers \ {w} : /\ state'[v] = state[v] /\ proc'[v] = proc[v]
                                  /\ toWorker'[v] = toWorker[v] /\ toParent'[v] = toParent[v]
  PROVE  LineOK'
  <1> DEFINE c == client = "closed"
  <1>1. (client' = "closed") = c
    OBVIOUS
  <1>2. ASSUME NEW v \in Workers
        PROVE  Line(state'[v], proc'[v], toWorker'[v], toParent'[v], c)
    BY DEF LineOK
  <1> QED BY <1>1, <1>2 DEF LineOK
-----------------------------------------------------------------------------
(* Steps of the parent                                                     *)

\* What try_assign_job does for a worker that rests, whether it gets a job or not.
LEMMA AssignFacts ==
  ASSUME TypeOK, NEW w \in Workers, NEW idle \in [Workers -> WorkerState], NEW closed,
         idle[w] = Plain("Idle"), Resting(toWorker[w], closed),
         proc[w] # "initializing", proc[w] = "exited" => toWorker[w] = <<>>,
         pendingJobs # <<>> => ~closed,
         TryAssign(w, idle)
  PROVE  /\ state' \in [Workers -> WorkerState]
         /\ toWorker' \in [Workers -> Seq(ParentMessage)]
         /\ pendingJobs' \in Seq(Jobs)
         /\ \A v \in Workers \ {w} : state'[v] = idle[v] /\ toWorker'[v] = toWorker[v]
         /\ Line(state'[w], proc[w], toWorker'[w], <<>>, closed)
         /\ pendingJobs = <<>> =>
              /\ pendingJobs' = <<>> /\ state'[w] = Plain("Idle")
              /\ \A j \in Jobs : ~Holds(toWorker'[w], <<>>, j)
         /\ pendingJobs # <<>> =>
              /\ pendingJobs' = SubSeq(pendingJobs, 1, Len(pendingJobs) - 1)
              /\ state'[w] # Plain("Idle")
              /\ \A j \in Jobs :
                    Holds(toWorker'[w], <<>>, j) => j = pendingJobs[Len(pendingJobs)]
  <1> DEFINE j0 == pendingJobs[Len(pendingJobs)]
  <1>0. /\ pendingJobs \in Seq(Jobs) /\ toWorker \in [Workers -> Seq(ParentMessage)]
        /\ toWorker[w] \in Seq(ParentMessage) /\ Len(toWorker[w]) \in Nat
        /\ Len(<<>>) = 0
    BY LenProperties, EmptySeq DEF TypeOK
  <1>1. CASE pendingJobs = <<>>
    <2>1. state' = idle /\ pendingJobs' = pendingJobs /\ toWorker' = toWorker
      BY <1>1 DEF TryAssign
    <2>2. \A j \in Jobs : ~Holds(toWorker'[w], <<>>, j)
      BY <2>1, RestingHolds
    <2>3. Line(state'[w], proc[w], toWorker'[w], <<>>, closed)
      BY <1>0, <2>1 DEF Line, Resting
    <2> QED BY <1>0, <1>1, <2>1, <2>2, <2>3
  <1>2. CASE pendingJobs # <<>>
    <2>1. Len(pendingJobs) \in 1..Len(pendingJobs) /\ j0 \in Jobs
      BY <1>0, <1>2, EmptySeq, ElementOfSeq
    <2> HIDE DEF j0
    <2>2. /\ pendingJobs' = SubSeq(pendingJobs, 1, Len(pendingJobs) - 1)
          /\ state' = [idle EXCEPT ![w] = Busy(j0)]
          /\ toWorker' = SentTo(w, JobMsg(j0))
      BY <1>2 DEF TryAssign, j0
    <2>3. Busy(j0) \in WorkerState /\ Busy(j0) # Plain("Idle")
      BY <2>1 DEF Busy, Plain, WorkerState
    <2>4. pendingJobs' \in Seq(Jobs)
      <3>1. \A i \in 1..Len(pendingJobs)-1 : pendingJobs[i] \in Jobs
        BY <1>0, ElementsFacts
      <3>2. 1 \in Int /\ Len(pendingJobs) - 1 \in Int
        BY <2>1
      <3> QED BY <2>2, <3>1, <3>2, SubSeqProperties
    <2>5. toWorker[w] = <<>>
      <3>1. ~closed
        BY <1>2
      <3>2. Len(toWorker[w]) = 0
        BY <1>0, <3>1 DEF Resting
      <3> QED BY <1>0, <3>2, EmptySeq
    <2>6. /\ toWorker' \in [Workers -> Seq(ParentMessage)]
          /\ \A v \in Workers \ {w} : toWorker'[v] = toWorker[v]
          /\ proc[w] = "exited" => toWorker'[w] = <<>>
          /\ proc[w] # "exited" => toWorker'[w] = <<JobMsg(j0)>>
      <3>1. CASE proc[w] = "exited"
        BY <1>0, <2>2, <2>5, <3>1 DEF SentTo
      <3>2. CASE proc[w] # "exited"
        <4>1. toWorker' = [toWorker EXCEPT ![w] = Append(@, JobMsg(j0))]
          BY <2>2, <3>2 DEF SentTo
        <4>2. Append(toWorker[w], JobMsg(j0)) = <<JobMsg(j0)>>
          BY <2>5
        <4>3. Append(toWorker[w], JobMsg(j0)) \in Seq(ParentMessage)
          BY <1>0, <2>1, MsgFacts, AppendProperties
        <4> QED BY <1>0, <3>2, <4>1, <4>2, <4>3
      <3> QED BY <3>1, <3>2
    <2>7. \A i \in 1..Len(toWorker'[w]) : i = 1 /\ toWorker'[w][i] = JobMsg(j0)
      <3>1. CASE proc[w] = "exited"
        BY <1>0, <2>6, <3>1
      <3>2. CASE proc[w] # "exited"
        <4>1. toWorker'[w] = <<JobMsg(j0)>>
          BY <2>6, <3>2
        <4>2. Len(<<JobMsg(j0)>>) = 1 /\ <<JobMsg(j0)>>[1] = JobMsg(j0)
          OBVIOUS
        <4>3. \A i \in 1..1 : i = 1
          OBVIOUS
        <4> QED BY <4>1, <4>2, <4>3
      <3> QED BY <3>1, <3>2
    <2>8. Line(state'[w], proc[w], toWorker'[w], <<>>, closed)
      <3>1. state'[w] # Plain("Idle")
        BY <2>2, <2>3
      <3>2. JobMsg(j0) # Msg("shutdown")
        BY <2>1, MsgFacts
      <3> QED BY <1>0, <2>6, <2>7, <3>1, <3>2 DEF Line
    <2>9. ASSUME NEW j \in Jobs, Holds(toWorker'[w], <<>>, j)
          PROVE  j = j0
      <3>1. JobMsg(j) = JobMsg(j0)
        BY <1>0, <2>7, <2>9 DEF Holds
      <3> QED BY <2>1, <3>1, MsgFacts
    <2>10. /\ state' \in [Workers -> WorkerState]
           /\ \A v \in Workers \ {w} : state'[v] = idle[v]
           /\ state'[w] # Plain("Idle")
      BY <2>2, <2>3
    <2> QED BY <1>2, <2>2, <2>4, <2>6, <2>8, <2>9, <2>10 DEF j0
  <1> QED BY <1>1, <1>2
\* A list with no member is empty.
LEMMA NoElements ==
  ASSUME NEW q \in Seq(Jobs), Elements(q) = {}
  PROVE  q = <<>>
  <1>1. Len(q) \in Nat /\ \A i \in 1..Len(q) : FALSE
    BY ElementsFacts
  <1>2. Len(q) = 0
    BY <1>1
  <1> QED BY <1>2, EmptySeq

\* What a call of try_assign_job for a worker that rests does to the invariant, with
\* whatever the event before it has added to the results.
LEMMA AssignStep ==
  ASSUME IInv, NEW w \in Workers, NEW idle \in [Workers -> WorkerState],
         idle[w] = Plain("Idle"), \A v \in Workers \ {w} : idle[v] = state[v],
         Resting(toWorker[w], client = "closed"),
         proc[w] # "initializing", proc[w] = "exited" => toWorker[w] = <<>>,
         toParent' \in [Workers -> Seq(WorkerMessage)], toParent'[w] = <<>>,
         \A v \in Workers \ {w} : toParent'[v] = toParent[v],
         TryAssign(w, idle),
         client' = "closed" <=> client = "closed",
         UNCHANGED <<asked, proc>>,
         \A j \in Jobs : j \in Elements(results') => j \in Elements(results) \/ Held(w, j)
  PROVE  /\ state' \in [Workers -> WorkerState]
         /\ toWorker' \in [Workers -> Seq(ParentMessage)]
         /\ pendingJobs' \in Seq(Jobs) /\ Distinct(pendingJobs')
         /\ Elements(pendingJobs') \subseteq Elements(asked) \ Elements(results')
         /\ LineOK' /\ TokensOK'
         /\ \A v \in Workers \ {w} : state'[v] = state[v]
         /\ pendingJobs' # <<>> => pendingJobs # <<>> /\ state'[w] # Plain("Idle")
  <1> DEFINE closed == client = "closed"
  <1>1. /\ pendingJobs \in Seq(Jobs) /\ Distinct(pendingJobs)
        /\ Elements(pendingJobs) \subseteq Elements(asked) \ Elements(results)
        /\ Elements(pendingJobs) \subseteq Jobs
    BY ElementsFacts DEF IInv, TypeOK, BooksOK
  <1>2. pendingJobs # <<>> => ~closed
    BY <1>1, NoElements DEF IInv, BooksOK
  <1>6. /\ state' \in [Workers -> WorkerState]
        /\ toWorker' \in [Workers -> Seq(ParentMessage)]
        /\ pendingJobs' \in Seq(Jobs)
        /\ \A v \in Workers \ {w} : state'[v] = state[v] /\ toWorker'[v] = toWorker[v]
        /\ Line(state'[w], proc[w], toWorker'[w], <<>>, closed)
        /\ pendingJobs = <<>> =>
             /\ pendingJobs' = <<>> /\ state'[w] = Plain("Idle")
             /\ \A j \in Jobs : ~Holds(toWorker'[w], <<>>, j)
        /\ pendingJobs # <<>> =>
             /\ pendingJobs' = SubSeq(pendingJobs, 1, Len(pendingJobs) - 1)
             /\ state'[w] # Plain("Idle")
             /\ \A j \in Jobs :
                   Holds(toWorker'[w], <<>>, j) => j = pendingJobs[Len(pendingJobs)]
    <2>1. TypeOK
      BY DEF IInv
    <2> QED BY <1>2, <2>1, AssignFacts
  <1>8. LineOK'
    BY <1>6, LineFrame DEF IInv
  \* What is handed out was pending, and is no longer.
  <1>9. /\ Distinct(pendingJobs')
        /\ Elements(pendingJobs') \subseteq Elements(pendingJobs)
        /\ \A j \in Jobs : Holds(toWorker'[w], <<>>, j) =>
              j \in Elements(pendingJobs) \ Elements(pendingJobs')
    <2>1. CASE pendingJobs = <<>>
      BY <1>6, <2>1, EmptyFacts
    <2>2. CASE pendingJobs # <<>>
      <3> DEFINE r == SubSeq(pendingJobs, 1, Len(pendingJobs) - 1)
                 last == pendingJobs[Len(pendingJobs)]
      <3>1. Distinct(r) /\ last \in Elements(pendingJobs)
            /\ Elements(r) = Elements(pendingJobs) \ {last}
        BY <1>1, <2>2, LastFacts
      <3>2. pendingJobs' = r /\ \A j \in Jobs : Holds(toWorker'[w], <<>>, j) => j = last
        BY <1>6, <2>2
      <3> HIDE DEF r, last
      <3> QED BY <3>1, <3>2
    <2> QED BY <2>1, <2>2
  <1>10. \A j \in Jobs : j \in Elements(pendingJobs) => \A v \in Workers : ~Held(v, j)
    BY DEF IInv, TokensOK
  <1>11. Elements(pendingJobs') \subseteq Elements(asked) \ Elements(results')
    BY <1>1, <1>9, <1>10
  <1>12. TokensOK'
    <2> SUFFICES ASSUME NEW v \in Workers, NEW j \in Jobs, Held(v, j)'
                 PROVE  /\ j \in Elements(asked)
                        /\ j \notin Elements(pendingJobs')
                        /\ j \notin Elements(results')
                        /\ \A u \in Workers : Held(u, j)' => u = v
      BY DEF TokensOK
    <2>1. \A u \in Workers \ {w} : Held(u, j)' => Held(u, j)
      BY <1>6 DEF Held
    <2>2. Held(w, j)' => j \in Elements(pendingJobs) \ Elements(pendingJobs')
      BY <1>9 DEF Held
    <2>3. CASE v = w
      <3>1. j \in Elements(pendingJobs) \ Elements(pendingJobs')
        BY <2>2, <2>3
      <3>2. j \in Elements(asked) /\ j \notin Elements(results')
        BY <1>1, <1>10, <3>1
      <3>3. \A u \in Workers \ {w} : ~Held(u, j)'
        BY <1>10, <2>1, <3>1
      <3> QED BY <2>3, <3>1, <3>2, <3>3
    <2>4. CASE v # w
      <3>1. Held(v, j)
        BY <2>1, <2>4
      <3>2. /\ j \in Elements(asked) /\ j \notin Elements(pendingJobs)
            /\ j \notin Elements(results) /\ \A u \in Workers : Held(u, j) => u = v
        BY <3>1 DEF IInv, TokensOK
      <3>3. j \notin Elements(results') /\ j \notin Elements(pendingJobs')
        BY <1>9, <2>4, <3>2
      <3>4. ~Held(w, j)'
        BY <2>2, <3>2
      <3> QED BY <2>1, <3>2, <3>3, <3>4
    <2> QED BY <2>3, <2>4
  <1> QED BY <1>6, <1>8, <1>9, <1>11, <1>12

\* What the parent does on an answer of worker w.
LEMMA HandlerStep ==
  ASSUME IInv, NEW w \in Workers, client # "submitting", toParent[w] # <<>>,
         toParent' = [toParent EXCEPT ![w] = Tail(@)],
         TryAssign(w, MarkedIdle(w)),
         client' = "closed" <=> client = "closed", client' # "submitting",
         UNCHANGED <<scan, asked, proc>>,
         \A j \in Jobs : j \in Elements(results') => j \in Elements(results) \/ Held(w, j)
  PROVE  /\ state' \in [Workers -> WorkerState]
         /\ toWorker' \in [Workers -> Seq(ParentMessage)]
         /\ toParent' \in [Workers -> Seq(WorkerMessage)]
         /\ pendingJobs' \in Seq(Jobs) /\ Distinct(pendingJobs')
         /\ Elements(pendingJobs') \subseteq Elements(asked) \ Elements(results')
         /\ LineOK' /\ TokensOK' /\ RestOK'
  <1>1. /\ toParent \in [Workers -> Seq(WorkerMessage)]
        /\ toWorker[w] \in Seq(ParentMessage) /\ toParent[w] \in Seq(WorkerMessage)
        /\ state \in [Workers -> WorkerState]
        /\ Line(state[w], proc[w], toWorker[w], toParent[w], client = "closed")
    BY DEF IInv, TypeOK, LineOK
  <1>2. /\ Tail(toParent[w]) = <<>> /\ Resting(toWorker[w], client = "closed")
        /\ proc[w] # "initializing" /\ (proc[w] = "exited" => toWorker[w] = <<>>)
    BY <1>1, AnswerTaken
  <1>3. /\ MarkedIdle(w) \in [Workers -> WorkerState] /\ MarkedIdle(w)[w] = Plain("Idle")
        /\ \A v \in Workers \ {w} : MarkedIdle(w)[v] = state[v]
    BY <1>1 DEF MarkedIdle, WorkerState
  <1>4. /\ toParent' \in [Workers -> Seq(WorkerMessage)] /\ toParent'[w] = <<>>
        /\ \A v \in Workers \ {w} : toParent'[v] = toParent[v]
    BY <1>1, <1>2, TakeFacts
  <1>5. /\ state' \in [Workers -> WorkerState]
        /\ toWorker' \in [Workers -> Seq(ParentMessage)]
        /\ pendingJobs' \in Seq(Jobs) /\ Distinct(pendingJobs')
        /\ Elements(pendingJobs') \subseteq Elements(asked) \ Elements(results')
        /\ LineOK' /\ TokensOK'
        /\ \A v \in Workers \ {w} : state'[v] = state[v]
        /\ pendingJobs' # <<>> => pendingJobs # <<>> /\ state'[w] # Plain("Idle")
    BY <1>2, <1>3, <1>4, AssignStep
  <1>6. RestOK'
    <2>1. scan' >= 1
      BY DEF IInv, RestOK
    <2>2. NobodyIdle'
      BY <1>5 DEF IInv, RestOK, NobodyIdle, Idle
    <2> QED BY <2>1, <2>2 DEF RestOK
  <1> QED BY <1>4, <1>5, <1>6
\* Ready and Error answers.
LEMMA ReadyStep ==
  ASSUME IInv, NEW w \in Workers, HandleReady(w) \/ HandleError(w)
  PROVE  IInv'
  <1>1. /\ client # "submitting" /\ toParent[w] # <<>>
        /\ toParent' = [toParent EXCEPT ![w] = Tail(@)]
        /\ TryAssign(w, MarkedIdle(w))
        /\ UNCHANGED <<results, completed, total, client, scan, asked, rounds,
                       initOK, proc, exitSeen, crashes>>
    BY DEF HandleReady, HandleError, Receive, clientVars
  <1>2. /\ state' \in [Workers -> WorkerState]
        /\ toWorker' \in [Workers -> Seq(ParentMessage)]
        /\ toParent' \in [Workers -> Seq(WorkerMessage)]
        /\ pendingJobs' \in Seq(Jobs) /\ Distinct(pendingJobs')
        /\ Elements(pendingJobs') \subseteq Elements(asked) \ Elements(results')
        /\ LineOK' /\ TokensOK' /\ RestOK'
    BY <1>1, HandlerStep
  <1>3. TypeOK'
    BY <1>1, <1>2 DEF IInv, TypeOK
  <1>4. BooksOK'
    BY <1>1, <1>2 DEF IInv, BooksOK
  <1> QED BY <1>2, <1>3, <1>4 DEF IInv

\* A Done answer is for a job of the round that has no result yet.
LEMMA DoneFacts ==
  ASSUME IInv, NEW w \in Workers, HandleDone(w)
  PROVE  LET j == Head(toParent[w]).job
         IN  /\ j \in Jobs /\ Held(w, j) /\ client \in WaitPhases
             /\ j \in Elements(asked) \ (Elements(results) \cup Elements(pendingJobs))
  <1> DEFINE j == Head(toParent[w]).job
  <1>1. /\ toParent[w] # <<>> /\ Head(toParent[w]).type = "done"
        /\ toParent[w] \in Seq(WorkerMessage) /\ toWorker[w] \in Seq(ParentMessage)
        /\ client \in ClientPhases /\ client # "submitting"
        /\ Line(state[w], proc[w], toWorker[w], toParent[w], client = "closed")
    BY DEF IInv, TypeOK, LineOK, HandleDone, Receive
  <1>2. Head(toParent[w]) \in WorkerMessage /\ Head(toParent[w]) = toParent[w][1]
        /\ 1 \in 1..Len(toParent[w])
    BY <1>1, AnswerTaken
  <1>3. j \in Jobs /\ Head(toParent[w]) = DoneMsg(j)
    BY <1>1, <1>2, TypeFacts
  <1> HIDE DEF j
  <1>4. Held(w, j)
    BY <1>2, <1>3 DEF Held, Holds
  <1>5. j \in Elements(asked) /\ j \notin Elements(pendingJobs) /\ j \notin Elements(results)
    BY <1>3, <1>4 DEF IInv, TokensOK
  <1>6. client \notin {"new", "resolved", "returned", "closed"} \/ client = "resolved"
    BY <1>5, EmptyFacts DEF IInv, BooksOK
  <1>7. client \in WaitPhases
    BY <1>1, <1>6 DEF ClientPhases, WaitPhases
  <1> QED BY <1>3, <1>4, <1>5, <1>7 DEF j

\* A Done answer.
LEMMA DoneStep ==
  ASSUME IInv, NEW w \in Workers, HandleDone(w)
  PROVE  IInv'
  <1> DEFINE j == Head(toParent[w]).job
  <1>1. /\ client # "submitting" /\ toParent[w] # <<>>
        /\ toParent' = [toParent EXCEPT ![w] = Tail(@)]
        /\ results' = Append(results, j) /\ completed' = completed + 1
        /\ IF AllDone(completed')
           THEN /\ client' = IF client = "waiting" THEN "resolved" ELSE client
                /\ state' = MarkedIdle(w)
                /\ UNCHANGED <<pendingJobs, toWorker>>
           ELSE /\ TryAssign(w, MarkedIdle(w))
                /\ UNCHANGED client
        /\ UNCHANGED <<total, scan, asked, rounds, initOK, proc, exitSeen, crashes>>
    BY DEF HandleDone, Receive
  <1>2. /\ j \in Jobs /\ Held(w, j) /\ client \in WaitPhases
        /\ j \in Elements(asked) \ (Elements(results) \cup Elements(pendingJobs))
    BY DoneFacts
  <1> HIDE DEF j
  <1>3. /\ results \in Seq(Jobs) /\ asked \in Seq(Jobs) /\ pendingJobs \in Seq(Jobs)
        /\ Distinct(asked) /\ Distinct(results)
        /\ Elements(results) \subseteq Elements(asked)
        /\ Elements(pendingJobs) \subseteq Elements(asked) \ Elements(results)
        /\ completed = Len(results) /\ total = Len(asked)
    BY PoolAssumption, EmptyFacts DEF IInv, TypeOK, BooksOK, PoolAssumption
  <1>4. /\ results' \in Seq(Jobs) /\ Distinct(results')
        /\ Elements(results') = Elements(results) \cup {j}
        /\ completed' = Len(results') /\ completed' \in Nat
    BY <1>1, <1>2, <1>3, AppendFacts, LenProperties
  <1>5. AllDone(completed') => Elements(results') = Elements(asked) /\ pendingJobs = <<>>
    <2>1. AllDone(completed') => Len(results') >= Len(asked)
      BY <1>3, <1>4 DEF AllDone
    <2>2. AllDone(completed') => Elements(results') = Elements(asked)
      BY <1>2, <1>3, <1>4, <2>1, Covered
    <2>3. Elements(results') = Elements(asked) => Elements(pendingJobs) = {}
      BY <1>2, <1>3, <1>4
    <2> QED BY <1>3, <2>2, <2>3, NoElements
  <1>6. TryAssign(w, MarkedIdle(w))
    BY <1>1, <1>5 DEF TryAssign
  <1>7. client' \in WaitPhases
        /\ (client' # client => AllDone(completed') /\ client' = "resolved")
    BY <1>1, <1>2 DEF WaitPhases
  <1>8. client' # "submitting" /\ (client' = "closed" <=> client = "closed")
    BY <1>1, <1>2, <1>7 DEF WaitPhases
  <1>9. /\ state' \in [Workers -> WorkerState]
        /\ toWorker' \in [Workers -> Seq(ParentMessage)]
        /\ toParent' \in [Workers -> Seq(WorkerMessage)]
        /\ pendingJobs' \in Seq(Jobs) /\ Distinct(pendingJobs')
        /\ Elements(pendingJobs') \subseteq Elements(asked) \ Elements(results')
        /\ LineOK' /\ TokensOK' /\ RestOK'
    <2>1. \A k \in Jobs : k \in Elements(results') => k \in Elements(results) \/ Held(w, k)
      BY <1>2, <1>4
    <2>2. UNCHANGED <<scan, asked, proc>>
      BY <1>1
    <2>3. client # "submitting" /\ toParent[w] # <<>>
          /\ toParent' = [toParent EXCEPT ![w] = Tail(@)]
      BY <1>1
    <2> QED BY <1>6, <1>8, <2>1, <2>2, <2>3, HandlerStep
  <1>10. TypeOK'
    <2>1. client' \in ClientPhases
      BY <1>7 DEF WaitPhases, ClientPhases
    <2> QED BY <1>1, <1>4, <1>9, <2>1 DEF IInv, TypeOK
  <1>11. BooksOK'
    <2>1. client' # "new" /\ Elements(results') \subseteq Elements(asked')
      BY <1>1, <1>2, <1>3, <1>4, <1>7 DEF WaitPhases
    <2>2. client' \in {"resolved", "returned", "closed"} =>
             Elements(results') = Elements(asked')
      <3>1. client' = "resolved" => client = "resolved" \/ AllDone(completed')
        BY <1>7
      <3>2. client = "resolved" => Elements(results) = Elements(asked)
        BY DEF IInv, BooksOK
      <3> QED BY <1>1, <1>2, <1>4, <1>5, <1>7, <3>1, <3>2 DEF WaitPhases
    <2> QED BY <1>1, <1>3, <1>4, <1>9, <2>1, <2>2 DEF BooksOK
  <1> QED BY <1>9, <1>10, <1>11 DEF IInv

\* An exit event.
LEMMA ExitStep ==
  ASSUME IInv, NEW w \in Workers, HandleExit(w)
  PROVE  IInv'
  <1>1. /\ exitSeen' = exitSeen \cup {w}
        /\ state' = [state EXCEPT ![w] = Plain("Terminated")]
        /\ UNCHANGED <<pendingJobs, results, completed, total, client, scan, asked, rounds,
                       proc, toParent, crashes, initOK, toWorker>>
    BY DEF HandleExit, clientVars, workerVars
  <1>2. Plain("Terminated") \in WorkerState /\ Plain("Terminated") # Plain("Idle")
    BY DEF WorkerState, Plain
  <1>3. TypeOK'
    BY <1>1, <1>2 DEF IInv, TypeOK
  <1>4. state \in [Workers -> WorkerState]
    BY DEF IInv, TypeOK
  <1>5. LineOK'
    <2>1. Line(state[w], proc[w], toWorker[w], toParent[w], client = "closed")
      BY DEF IInv, LineOK
    <2>2. Line(state'[w], proc'[w], toWorker'[w], toParent'[w], client = "closed")
      BY <1>1, <1>2, <1>4, <2>1 DEF Line
    <2> QED BY <1>1, <1>4, <2>2, LineFrame DEF IInv
  <1>6. TokensOK'
    BY <1>1 DEF IInv, TokensOK, Held
  <1>7. BooksOK'
    BY <1>1 DEF IInv, BooksOK
  <1>8. \A v \in Workers : state'[v] = Plain("Idle") => state[v] = Plain("Idle")
    BY <1>1, <1>2, <1>4
  <1>9. RestOK'
    BY <1>1, <1>8 DEF IInv, RestOK, NobodyIdle, Idle
  <1> QED BY <1>3, <1>5, <1>6, <1>7, <1>9 DEF IInv
-----------------------------------------------------------------------------
(* Steps of the client                                                     *)

\* A new round starts when nothing of the last one is under way.
LEMMA SubmitStep ==
  ASSUME IInv, NEW jobs \in Rounds, Submit(jobs)
  PROVE  IInv'
  <1>1. /\ client \in {"new", "returned"} /\ client' = "submitting"
        /\ rounds' = rounds + 1 /\ asked' = jobs /\ pendingJobs' = jobs
        /\ total' = Len(jobs) /\ completed' = 0 /\ results' = <<>> /\ scan' = 1
        /\ UNCHANGED <<state, proc, toParent, crashes, initOK, toWorker, exitSeen>>
    BY DEF Submit, workerVars
  <1>2. jobs \in Seq(Jobs) /\ Distinct(jobs) /\ Len(jobs) \in Nat
    BY PoolAssumption, LenProperties DEF PoolAssumption
  <1>3. TypeOK'
    BY <1>1, <1>2, EmptyFacts DEF IInv, TypeOK, ClientPhases
  <1>4. LineOK'
    BY <1>1 DEF IInv, LineOK
  <1>5. \A w \in Workers, j \in Jobs : ~Held(w, j)
    <2>1. \A j \in Jobs : j \in Elements(asked) => j \in Elements(results)
      BY <1>1, EmptyFacts DEF IInv, BooksOK
    <2> QED BY <2>1 DEF IInv, TokensOK
  <1>6. TokensOK'
    BY <1>1, <1>5 DEF TokensOK, Held
  <1>7. BooksOK'
    BY <1>1, <1>2, EmptyFacts DEF BooksOK
  <1>8. RestOK'
    <2>1. \A v \in Workers : ~(v < 1)
      BY PoolAssumption DEF PoolAssumption, Workers
    <2> QED BY <1>1, <2>1 DEF RestOK, NobodyIdle
  <1> QED BY <1>3, <1>4, <1>6, <1>7, <1>8 DEF IInv

\* One iteration of the loop of submit_jobs, or its end.
LEMMA ScanStep ==
  ASSUME IInv, SubmitScan
  PROVE  IInv'
  <1>1. /\ client = "submitting"
        /\ UNCHANGED <<results, completed, total, asked, rounds, proc, toParent, crashes,
                       initOK, exitSeen>>
    BY DEF SubmitScan, workerVars
  <1>2. scan \in Nat /\ scan >= 1 /\ NumWorkers \in Nat
    BY PoolAssumption DEF IInv, TypeOK, RestOK, PoolAssumption
  <1>3. CASE scan \in Workers /\ Idle(scan)
    <2>1. TryAssign(scan, state) /\ scan' = scan + 1 /\ client' = client
      BY <1>3 DEF SubmitScan
    <2>2. /\ state \in [Workers -> WorkerState] /\ state[scan] = Plain("Idle")
          /\ toParent \in [Workers -> Seq(WorkerMessage)]
          /\ Line(state[scan], proc[scan], toWorker[scan], toParent[scan], client = "closed")
      BY <1>3 DEF IInv, TypeOK, LineOK, Idle
    <2>3. /\ Resting(toWorker[scan], client = "closed") /\ toParent[scan] = <<>>
          /\ proc[scan] # "initializing" /\ (proc[scan] = "exited" => toWorker[scan] = <<>>)
      BY <2>2 DEF Line
    <2>4. /\ state' \in [Workers -> WorkerState]
          /\ toWorker' \in [Workers -> Seq(ParentMessage)]
          /\ pendingJobs' \in Seq(Jobs) /\ Distinct(pendingJobs')
          /\ Elements(pendingJobs') \subseteq Elements(asked) \ Elements(results')
          /\ LineOK' /\ TokensOK'
          /\ \A v \in Workers \ {scan} : state'[v] = state[v]
          /\ pendingJobs' # <<>> => pendingJobs # <<>> /\ state'[scan] # Plain("Idle")
      <3>1. /\ toParent' \in [Workers -> Seq(WorkerMessage)] /\ toParent'[scan] = <<>>
            /\ \A v \in Workers \ {scan} : toParent'[v] = toParent[v]
            /\ UNCHANGED <<asked, proc, client, results>>
        BY <1>1, <2>1, <2>2, <2>3
      <3> QED BY <1>3, <2>1, <2>2, <2>3, <3>1, AssignStep
    <2>5. TypeOK'
      BY <1>1, <1>2, <2>1, <2>4 DEF IInv, TypeOK
    <2>6. BooksOK'
      BY <1>1, <2>1, <2>4 DEF IInv, BooksOK
    <2>7. RestOK'
      <3>1. \A v \in Workers : v < scan + 1 => v < scan \/ v = scan
        BY <1>2 DEF Workers
      <3>2. pendingJobs' # <<>> => \A v \in Workers : v < scan + 1 => state'[v] # Plain("Idle")
        BY <1>1, <2>4, <3>1 DEF IInv, RestOK, Idle
      <3> QED BY <1>1, <1>2, <2>1, <3>2 DEF RestOK, NobodyIdle, Idle
    <2> QED BY <2>4, <2>5, <2>6, <2>7 DEF IInv
  <1>4. CASE scan \in Workers /\ ~Idle(scan)
    <2>1. scan' = scan + 1 /\ UNCHANGED <<client, state, pendingJobs, toWorker>>
      BY <1>4 DEF SubmitScan
    <2>2. TypeOK'
      BY <1>1, <1>2, <2>1 DEF IInv, TypeOK
    <2>3. LineOK' /\ TokensOK' /\ BooksOK'
      BY <1>1, <2>1 DEF IInv, LineOK, TokensOK, Held, BooksOK
    <2>4. RestOK'
      <3>1. \A v \in Workers : v < scan + 1 => v < scan \/ v = scan
        BY <1>2 DEF Workers
      <3> QED BY <1>1, <1>2, <1>4, <2>1, <3>1 DEF IInv, RestOK, NobodyIdle, Idle
    <2> QED BY <2>2, <2>3, <2>4 DEF IInv
  <1>5. CASE scan \notin Workers
    <2>1. client' = "submitted" /\ UNCHANGED <<state, pendingJobs, toWorker, scan>>
      BY <1>5 DEF SubmitScan
    <2>2. TypeOK'
      BY <1>1, <1>2, <2>1 DEF IInv, TypeOK, ClientPhases
    <2>3. LineOK' /\ TokensOK' /\ BooksOK'
      BY <1>1, <2>1 DEF IInv, LineOK, TokensOK, Held, BooksOK
    <2>4. RestOK'
      <3>1. \A v \in Workers : v < scan
        BY <1>2, <1>5 DEF Workers
      <3> QED BY <1>1, <1>2, <2>1, <3>1 DEF IInv, RestOK, NobodyIdle, Idle
    <2> QED BY <2>2, <2>3, <2>4 DEF IInv
  <1> QED BY <1>3, <1>4, <1>5

\* wait_all, up to its promise and from it on.
LEMMA WaitStep ==
  ASSUME IInv, WaitAll \/ WaitReturn
  PROVE  IInv'
  <1>1. /\ UNCHANGED <<state, pendingJobs, results, completed, total, scan, asked, rounds,
                       proc, toParent, crashes, initOK, toWorker, exitSeen>>
        /\ client # "submitting" /\ client # "closed"
        /\ client' \in {"waiting", "returned"}
        /\ client' = "returned" => client = "resolved" \/ AllDone(completed)
    BY DEF WaitAll, WaitReturn, parentVars, workerVars
  <1>2. TypeOK'
    BY <1>1 DEF IInv, TypeOK, ClientPhases
  <1>3. LineOK' /\ TokensOK' /\ RestOK'
    BY <1>1 DEF IInv, LineOK, TokensOK, Held, RestOK, NobodyIdle, Idle
  <1>4. AllDone(completed) => Elements(results) = Elements(asked)
    <2>1. /\ results \in Seq(Jobs) /\ asked \in Seq(Jobs)
          /\ Distinct(asked) /\ Distinct(results)
          /\ Elements(results) \subseteq Elements(asked)
          /\ completed = Len(results) /\ total = Len(asked)
      BY PoolAssumption, EmptyFacts DEF IInv, TypeOK, BooksOK, PoolAssumption
    <2> QED BY <2>1, Covered DEF AllDone
  <1>5. BooksOK'
    BY <1>1, <1>4 DEF IInv, BooksOK
  <1> QED BY <1>2, <1>3, <1>5 DEF IInv
\* shutdown adds a last message to the channels.
LEMMA ShutdownStep ==
  ASSUME IInv, Shutdown
  PROVE  IInv'
  <1>1. /\ client = "returned" /\ client' = "closed"
        /\ toWorker' = [w \in Workers |->
                          IF Listening(w) /\ proc[w] # "exited"
                          THEN Append(toWorker[w], Msg("shutdown")) ELSE toWorker[w]]
        /\ UNCHANGED <<state, pendingJobs, results, completed, total, scan, asked, rounds,
                       proc, toParent, crashes, initOK, exitSeen>>
    BY DEF Shutdown, parentVars, workerVars
  <1>2. toWorker \in [Workers -> Seq(ParentMessage)] /\ Msg("shutdown") \in ParentMessage
    BY MsgFacts DEF IInv, TypeOK
  <1>3. ASSUME NEW w \in Workers
        PROVE  /\ toWorker'[w] \in Seq(ParentMessage)
               /\ Line(state[w], proc[w], toWorker'[w], toParent[w], TRUE)
               /\ \A j \in Jobs : Held(w, j)' => Held(w, j)
    <2>1. Line(state[w], proc[w], toWorker[w], toParent[w], FALSE)
      BY <1>1 DEF IInv, LineOK
    <2>2. CASE toWorker'[w] = toWorker[w]
      BY <1>1, <1>2, <2>1, <2>2 DEF Line, Resting, Held
    <2>3. CASE toWorker'[w] = Append(toWorker[w], Msg("shutdown")) /\ proc[w] # "exited"
      <3> DEFINE old == toWorker[w]  new == Append(old, Msg("shutdown"))
      <3>1. /\ new \in Seq(ParentMessage) /\ Len(new) = Len(old) + 1 /\ Len(old) \in Nat
            /\ \A i \in 1..Len(old) : new[i] = old[i]
            /\ new[Len(old) + 1] = Msg("shutdown")
        BY <1>2, AppendProperties, LenProperties
      <3>2. \A i \in 1..Len(new) : i \in 1..Len(old) \/ i = Len(old) + 1
        BY <3>1
      <3> HIDE DEF new
      <3>3. Resting(old, FALSE) => Resting(new, TRUE)
        BY <3>1, <3>2 DEF Resting
      <3>4. Line(state[w], proc[w], new, toParent[w], TRUE)
        BY <2>1, <2>3, <3>1, <3>2, <3>3 DEF Line
      <3>5. ASSUME NEW j \in Jobs, Holds(new, toParent[w], j)
            PROVE  Holds(old, toParent[w], j)
        <4>1. \A i \in 1..Len(new) : new[i] = JobMsg(j) => i \in 1..Len(old)
          BY <3>1, <3>2, MsgFacts
        <4> QED BY <3>1, <3>5, <4>1 DEF Holds
      <3>6. toWorker'[w] = new /\ toParent'[w] = toParent[w]
        BY <1>1, <2>3 DEF new
      <3> QED BY <3>1, <3>4, <3>5, <3>6 DEF Held
    <2> QED BY <1>1, <2>2, <2>3
  <1>4. TypeOK'
    <2>1. toWorker' \in [Workers -> Seq(ParentMessage)]
      <3>1. \A w \in Workers : toWorker'[w] \in Seq(ParentMessage)
        BY <1>3
      <3>2. toWorker' = [w \in Workers |-> toWorker'[w]]
        BY <1>1
      <3> QED BY <3>1, <3>2
    <2> QED BY <1>1, <2>1 DEF IInv, TypeOK, ClientPhases
  <1>5. LineOK'
    BY <1>1, <1>3 DEF LineOK
  <1>6. TokensOK'
    BY <1>1, <1>3 DEF IInv, TokensOK
  <1>7. BooksOK' /\ RestOK'
    BY <1>1 DEF IInv, BooksOK, RestOK, NobodyIdle, Idle
  <1> QED BY <1>4, <1>5, <1>6, <1>7 DEF IInv

-----------------------------------------------------------------------------
(* Steps of a worker                                                       *)

\* A step of a worker that keeps its line and takes no job the worker does not have.
LEMMA WorkerFrame ==
  ASSUME IInv, NEW w \in Workers,
         UNCHANGED <<parentVars, clientVars, initOK, exitSeen>>, crashes' \in Nat,
         proc' \in [Workers -> ProcPhases],
         toWorker' \in [Workers -> Seq(ParentMessage)],
         toParent' \in [Workers -> Seq(WorkerMessage)],
         \A v \in Workers \ {w} : /\ proc'[v] = proc[v] /\ toWorker'[v] = toWorker[v]
                                  /\ toParent'[v] = toParent[v],
         Line(state[w], proc'[w], toWorker'[w], toParent'[w], client = "closed"),
         \A j \in Jobs : Holds(toWorker'[w], toParent'[w], j) => Held(w, j)
  PROVE  IInv'
  <1>1. UNCHANGED <<state, pendingJobs, results, completed, total, client, scan, asked,
                    rounds, initOK, exitSeen>>
    BY DEF parentVars, clientVars
  <1>2. TypeOK'
    BY <1>1 DEF IInv, TypeOK
  <1>3. LineOK'
    BY <1>1, LineFrame DEF IInv
  <1>4. \A v \in Workers, j \in Jobs : Held(v, j)' => Held(v, j)
    BY DEF Held
  <1>5. TokensOK'
    BY <1>1, <1>4 DEF IInv, TokensOK
  <1>6. BooksOK' /\ RestOK'
    BY <1>1 DEF IInv, BooksOK, RestOK, NobodyIdle, Idle
  <1> QED BY <1>2, <1>3, <1>5, <1>6 DEF IInv

\* A line with one answer, for the request that was there before.
LEMMA AnswerLine ==
  ASSUME NEW s, NEW p, NEW in \in Seq(ParentMessage), NEW closed, NEW m \in WorkerMessage,
         Resting(in, closed), p # "initializing", p # "exited", s # Plain("Idle")
  PROVE  Line(s, p, in, <<m>>, closed)
  <1>1. Len(<<m>>) = 1
    OBVIOUS
  <1> QED BY <1>1 DEF Line, Resting

\* Answering a request: init data that does not parse, and jobs.
LEMMA ReplyStep ==
  ASSUME IInv, NEW w \in Workers, NEW m \in WorkerMessage, Reply(w, m),
         toWorker[w] # <<>>, Head(toWorker[w]) # Msg("shutdown"),
         toWorker' = [toWorker EXCEPT ![w] = Tail(@)],
         UNCHANGED <<parentVars, clientVars, initOK, proc, exitSeen, crashes>>,
         \A j \in Jobs : m = DoneMsg(j) => Head(toWorker[w]) = JobMsg(j)
  PROVE  IInv'
  <1> DEFINE closed == client = "closed"
  <1>1. /\ toWorker \in [Workers -> Seq(ParentMessage)]
        /\ toParent \in [Workers -> Seq(WorkerMessage)]
        /\ proc \in [Workers -> ProcPhases] /\ crashes \in Nat
        /\ toWorker[w] \in Seq(ParentMessage)
        /\ Line(state[w], proc[w], toWorker[w], toParent[w], closed)
    BY DEF IInv, TypeOK, LineOK
  <1> HIDE DEF closed
  <1>2. /\ Resting(Tail(toWorker[w]), closed)
        /\ Tail(toWorker[w]) \in Seq(ParentMessage)
        /\ toParent[w] = <<>> /\ proc[w] # "initializing" /\ proc[w] # "exited"
        /\ state[w] # Plain("Idle")
    BY <1>1, RequestTaken
  <1>3. /\ toParent' = [toParent EXCEPT ![w] = Append(@, m)]
        /\ Append(<<>>, m) = <<m>> /\ Append(<<>>, m) \in Seq(WorkerMessage)
    BY EmptySeq, AppendProperties DEF Reply
  <1>4. /\ toWorker'[w] = Tail(toWorker[w]) /\ toParent'[w] = <<m>>
        /\ toWorker' \in [Workers -> Seq(ParentMessage)]
        /\ toParent' \in [Workers -> Seq(WorkerMessage)]
        /\ \A v \in Workers \ {w} : toWorker'[v] = toWorker[v] /\ toParent'[v] = toParent[v]
    BY <1>1, <1>2, <1>3
  <1>5. Line(state[w], proc[w], toWorker'[w], toParent'[w], closed)
    <2>1. Line(state[w], proc[w], Tail(toWorker[w]), <<m>>, closed)
      BY <1>2, AnswerLine
    <2> QED BY <1>4, <2>1
  <1>6. ASSUME NEW j \in Jobs, Holds(toWorker'[w], toParent'[w], j)
        PROVE  Held(w, j)
    <2>1. Head(toWorker[w]) = JobMsg(j)
      BY <1>2, <1>4, <1>6, AnswerHolds
    <2>2. Head(toWorker[w]) = toWorker[w][1] /\ 1 \in 1..Len(toWorker[w])
      BY <1>1, TakeFacts
    <2> QED BY <2>1, <2>2 DEF Held, Holds
  <1> QED BY <1>1, <1>4, <1>5, <1>6, WorkerFrame DEF closed

\* The end of a process.
LEMMA GoneStep ==
  ASSUME IInv, NEW w \in Workers, Gone(w), crashes' \in Nat,
         UNCHANGED <<parentVars, clientVars, initOK, exitSeen>>
  PROVE  IInv'
  <1>1. /\ toWorker \in [Workers -> Seq(ParentMessage)]
        /\ toParent \in [Workers -> Seq(WorkerMessage)]
        /\ proc \in [Workers -> ProcPhases]
        /\ toParent[w] \in Seq(WorkerMessage) /\ Len(toParent[w]) \in Nat
        /\ Line(state[w], proc[w], toWorker[w], toParent[w], client = "closed")
    BY LenProperties DEF IInv, TypeOK, LineOK
  <1>2. PICK k \in 0..Len(toParent[w]) :
           toParent' = [toParent EXCEPT ![w] = SubSeq(@, 1, k)]
    BY DEF Gone
  <1> DEFINE rest == SubSeq(toParent[w], 1, k)
  <1>3. /\ rest \in Seq(WorkerMessage) /\ Len(rest) = k
        /\ \A i \in 1..k : rest[i] = toParent[w][i]
    <2>1. \A i \in 1..k : toParent[w][i] \in WorkerMessage
      BY <1>1, <1>2, ElementOfSeq
    <2>2. 1 \in Int /\ k \in Int /\ k >= 0
      BY <1>1, <1>2
    <2>3. /\ rest \in Seq(WorkerMessage)
          /\ Len(rest) = IF 1 <= k THEN k - 1 + 1 ELSE 0
          /\ \A i \in 1..k - 1 + 1 : rest[i] = toParent[w][1 + i - 1]
      BY <2>1, <2>2, SubSeqProperties
    <2> QED BY <2>2, <2>3
  <1> HIDE DEF rest
  <1>4. /\ proc' = [proc EXCEPT ![w] = "exited"] /\ "exited" \in ProcPhases
        /\ toWorker' = [toWorker EXCEPT ![w] = <<>>] /\ <<>> \in Seq(ParentMessage)
        /\ toParent' = [toParent EXCEPT ![w] = rest]
    BY <1>2, EmptySeq DEF Gone, ProcPhases, rest
  <1>5. /\ proc' \in [Workers -> ProcPhases] /\ proc'[w] = "exited"
        /\ toWorker' \in [Workers -> Seq(ParentMessage)] /\ toWorker'[w] = <<>>
        /\ toParent' \in [Workers -> Seq(WorkerMessage)] /\ toParent'[w] = rest
        /\ \A v \in Workers \ {w} : /\ proc'[v] = proc[v] /\ toWorker'[v] = toWorker[v]
                                    /\ toParent'[v] = toParent[v]
    BY <1>1, <1>3, <1>4
  <1>6. Line(state[w], proc'[w], toWorker'[w], toParent'[w], client = "closed")
    <2>1. Len(<<>>) = 0 /\ Len(rest) <= 1
      BY <1>1, <1>2, <1>3, EmptySeq DEF Line
    <2>2. state[w] = Plain("Idle") => rest = <<>>
      <3>1. state[w] = Plain("Idle") => toParent[w] = <<>>
        BY <1>1 DEF Line
      <3>2. toParent[w] = <<>> => k = 0
        BY <1>2, EmptySeq
      <3> QED BY <1>3, <3>1, <3>2, EmptySeq
    <2> QED BY <1>5, <2>1, <2>2 DEF Line, Resting
  <1>7. \A j \in Jobs : Holds(toWorker'[w], toParent'[w], j) => Held(w, j)
    <2>1. \A i \in 1..k : i \in 1..Len(toParent[w])
      BY <1>1, <1>2
    <2>2. Len(<<>>) = 0 /\ \A i \in 1..0 : FALSE
      BY EmptySeq
    <2>3. ASSUME NEW j \in Jobs, Holds(<<>>, rest, j)
          PROVE  \E i \in 1..Len(toParent[w]) : toParent[w][i] = DoneMsg(j)
      <3>1. PICK i \in 1..Len(rest) : rest[i] = DoneMsg(j)
        BY <2>2, <2>3 DEF Holds
      <3> QED BY <1>3, <2>1, <3>1
    <2> QED BY <1>5, <2>3 DEF Held, Holds
  <1> QED BY <1>5, <1>6, <1>7, WorkerFrame
\* The worker's handlers and its crash.
LEMMA WorkerSteps ==
  ASSUME IInv, NEW w \in Workers, WorkerStep(w) \/ Crash(w)
  PROVE  IInv'
  <1>1. /\ toWorker \in [Workers -> Seq(ParentMessage)]
        /\ toParent \in [Workers -> Seq(WorkerMessage)]
        /\ proc \in [Workers -> ProcPhases] /\ crashes \in Nat
        /\ toWorker[w] \in Seq(ParentMessage)
        /\ Line(state[w], proc[w], toWorker[w], toParent[w], client = "closed")
    BY DEF IInv, TypeOK, LineOK
  <1>2. CASE WorkerInit(w)
    <2>1. /\ toWorker[w] # <<>> /\ Head(toWorker[w]).type = "init"
          /\ toWorker' = [toWorker EXCEPT ![w] = Tail(@)]
          /\ IF initOK THEN proc' = [proc EXCEPT ![w] = "initializing"] /\ UNCHANGED toParent
                       ELSE Reply(w, Msg("error")) /\ UNCHANGED proc
          /\ UNCHANGED <<parentVars, clientVars, initOK, exitSeen, crashes>>
      BY <1>2 DEF WorkerInit, Take
    <2>2. Head(toWorker[w]) # Msg("shutdown")
      BY <2>1, MsgFacts
    <2>3. CASE ~initOK
      <3>1. Msg("error") \in WorkerMessage /\ \A j \in Jobs : Msg("error") # DoneMsg(j)
        BY MsgFacts
      <3> QED BY <2>1, <2>2, <2>3, <3>1, ReplyStep
    <2>4. CASE initOK
      <3> DEFINE closed == client = "closed"
      <3>1. proc' = [proc EXCEPT ![w] = "initializing"] /\ toParent' = toParent
            /\ "initializing" \in ProcPhases
        BY <2>1, <2>4 DEF ProcPhases
      <3>2. Line(state[w], proc[w], toWorker[w], toParent[w], closed)
        BY <1>1
      <3> HIDE DEF closed
      <3>3. /\ Resting(Tail(toWorker[w]), closed)
            /\ Tail(toWorker[w]) \in Seq(ParentMessage)
            /\ toParent[w] = <<>> /\ state[w] # Plain("Idle")
            /\ \A j \in Jobs : ~Holds(Tail(toWorker[w]), <<>>, j)
        BY <1>1, <2>1, <2>2, <3>2, RequestTaken
      <3>4. /\ proc' \in [Workers -> ProcPhases] /\ proc'[w] = "initializing"
            /\ toWorker' \in [Workers -> Seq(ParentMessage)]
            /\ toWorker'[w] = Tail(toWorker[w])
            /\ toParent'[w] = <<>>
            /\ \A v \in Workers \ {w} : /\ proc'[v] = proc[v] /\ toWorker'[v] = toWorker[v]
                                        /\ toParent'[v] = toParent[v]
        BY <1>1, <2>1, <3>1, <3>3
      <3>5. Line(state[w], proc'[w], toWorker'[w], toParent'[w], closed)
        <4>1. Len(<<>>) = 0
          BY EmptySeq
        <4> QED BY <3>3, <3>4, <4>1 DEF Line, Resting
      <3>6. \A j \in Jobs : ~Holds(toWorker'[w], toParent'[w], j)
        BY <3>3, <3>4
      <3> QED BY <1>1, <2>1, <3>1, <3>4, <3>5, <3>6, WorkerFrame DEF closed
    <2> QED BY <2>3, <2>4
  <1>3. CASE WorkerReady(w)
    <2> DEFINE closed == client = "closed"
    <2>1. /\ proc[w] = "initializing" /\ proc' = [proc EXCEPT ![w] = "ready"]
          /\ toParent' = [toParent EXCEPT ![w] = Append(@, Msg("ready"))]
          /\ UNCHANGED <<parentVars, clientVars, initOK, toWorker, exitSeen, crashes>>
      BY <1>3 DEF WorkerReady, Reply
    <2>2. Line(state[w], proc[w], toWorker[w], toParent[w], closed)
      BY <1>1
    <2> HIDE DEF closed
    <2>3. /\ toParent[w] = <<>> /\ Resting(toWorker[w], closed) /\ state[w] # Plain("Idle")
      BY <2>1, <2>2 DEF Line
    <2>4. /\ Msg("ready") \in WorkerMessage /\ "ready" \in ProcPhases
          /\ Append(<<>>, Msg("ready")) = <<Msg("ready")>>
          /\ Append(<<>>, Msg("ready")) \in Seq(WorkerMessage)
      BY MsgFacts, EmptySeq, AppendProperties DEF ProcPhases
    <2>5. /\ proc' \in [Workers -> ProcPhases] /\ proc'[w] = "ready"
          /\ toParent' \in [Workers -> Seq(WorkerMessage)]
          /\ toParent'[w] = <<Msg("ready")>> /\ toWorker' = toWorker
          /\ \A v \in Workers \ {w} : proc'[v] = proc[v] /\ toParent'[v] = toParent[v]
      BY <1>1, <2>1, <2>3, <2>4
    <2>6. Line(state[w], proc'[w], toWorker'[w], toParent'[w], closed)
      <3>1. Line(state[w], "ready", toWorker[w], <<Msg("ready")>>, closed)
        BY <1>1, <2>3, <2>4, AnswerLine
      <3> QED BY <2>5, <3>1
    <2>7. \A j \in Jobs : ~Holds(toWorker'[w], toParent'[w], j)
      BY <2>3, <2>4, <2>5, AnswerHolds, MsgFacts
    <2> QED BY <1>1, <2>1, <2>5, <2>6, <2>7, WorkerFrame DEF closed
  <1>4. CASE WorkerJob(w)
    <2> DEFINE j == Head(toWorker[w]).job
               m == IF proc[w] = "ready" THEN DoneMsg(j) ELSE Msg("error")
    <2>1. /\ toWorker[w] # <<>> /\ Head(toWorker[w]).type = "job"
          /\ toWorker' = [toWorker EXCEPT ![w] = Tail(@)] /\ Reply(w, m)
          /\ UNCHANGED <<parentVars, clientVars, initOK, proc, exitSeen, crashes>>
      BY <1>4 DEF WorkerJob, Take
    <2>2. Head(toWorker[w]) \in ParentMessage
      BY <1>1, <2>1, TakeFacts
    <2>3. j \in Jobs /\ Head(toWorker[w]) = JobMsg(j)
      BY <2>1, <2>2, TypeFacts
    <2> HIDE DEF j
    <2>4. /\ m \in WorkerMessage /\ Head(toWorker[w]) # Msg("shutdown")
          /\ \A k \in Jobs : m = DoneMsg(k) => Head(toWorker[w]) = JobMsg(k)
      BY <2>3, MsgFacts
    <2> HIDE DEF m
    <2> QED BY <2>1, <2>4, ReplyStep
  <1>5. CASE WorkerShutdown(w)
    BY <1>1, <1>5, GoneStep DEF WorkerShutdown
  <1>6. CASE Crash(w)
    BY <1>1, <1>6, GoneStep DEF Crash
  <1> QED BY <1>2, <1>3, <1>4, <1>5, <1>6 DEF WorkerStep

-----------------------------------------------------------------------------
(* The theorems                                                            *)

\* The invariant holds at the start: only the init messages are under way.
LEMMA IInvInit == Init => IInv
  <1> SUFFICES ASSUME Init PROVE IInv
    OBVIOUS
  <1>1. /\ <<Msg("init")>> \in Seq(ParentMessage) /\ <<>> \in Seq(WorkerMessage)
        /\ Len(<<Msg("init")>>) = 1 /\ <<Msg("init")>>[1] = Msg("init") /\ Len(<<>>) = 0
    BY MsgFacts, EmptySeq
  <1>2. TypeOK
    BY <1>1, EmptyFacts DEF Init, TypeOK, WorkerState, ClientPhases, ProcPhases
  <1>3. LineOK
    <2>1. Plain("Initializing") # Plain("Idle")
      BY DEF Plain
    <2> QED BY <1>1, <2>1, MsgFacts DEF Init, LineOK, Line, Resting
  <1>4. TokensOK
    <2>1. \A w \in Workers, j \in Jobs : ~Held(w, j)
      BY <1>1, MsgFacts DEF Init, Held, Holds
    <2> QED BY <2>1 DEF TokensOK
  <1>5. BooksOK
    BY EmptyFacts DEF Init, BooksOK
  <1>6. RestOK
    BY DEF Init, RestOK, NobodyIdle
  <1> QED BY <1>2, <1>3, <1>4, <1>5, <1>6 DEF IInv

\* Every step keeps the invariant.
LEMMA IInvStep == IInv /\ [Next]_vars => IInv'
  <1> SUFFICES ASSUME IInv, [Next]_vars PROVE IInv'
    OBVIOUS
  <1>1. CASE \E w \in Workers : ParentStep(w) \/ WorkerStep(w) \/ Crash(w)
    BY <1>1, ReadyStep, DoneStep, ExitStep, WorkerSteps DEF ParentStep
  <1>2. CASE ClientStep
    BY <1>2, ScanStep, WaitStep DEF ClientStep
  <1>3. CASE \E jobs \in Rounds : Submit(jobs)
    BY <1>3, SubmitStep
  <1>4. CASE Shutdown
    BY <1>4, ShutdownStep
  <1>5. CASE UNCHANGED vars
    <2>1. UNCHANGED <<state, pendingJobs, results, completed, total, client, scan, asked,
                      rounds, initOK, proc, toWorker, toParent, exitSeen, crashes>>
      BY <1>5 DEF vars, parentVars, clientVars, workerVars
    <2>2. TypeOK'
      BY <2>1 DEF IInv, TypeOK
    <2>3. LineOK' /\ TokensOK'
      BY <2>1 DEF IInv, LineOK, TokensOK, Held
    <2>4. BooksOK' /\ RestOK'
      BY <2>1 DEF IInv, BooksOK, RestOK, NobodyIdle, Idle
    <2> QED BY <2>2, <2>3, <2>4 DEF IInv
  <1> QED BY <1>1, <1>2, <1>3, <1>4, <1>5 DEF Next

\* The inductive invariant: at most one message per worker, every job in one place, and
\* lists and counters that agree.
THEOREM Invariance == Spec => []IInv
  BY IInvInit, IInvStep, PTL DEF Spec

\* Every variable of the pool keeps its type.
THEOREM TypeCorrect == Spec => []TypeOK
  <1>1. IInv => TypeOK
    BY DEF IInv
  <1> QED BY <1>1, Invariance, PTL

\* No worker rests while a job waits (try_assign_job at the end of every handler).
THEOREM WorkConserving == Spec => []NobodyIdle
  <1>1. IInv => NobodyIdle
    BY DEF IInv, RestOK
  <1> QED BY <1>1, Invariance, PTL

\* The pool implements the board of jobs, whatever crashes (the handlers, submit_jobs
\* and wait_all): one result per job asked, and all of them before wait_all returns.
THEOREM Implements == Spec => BoardSpec
  <1>1. Init => Board!Init
    BY EmptyFacts DEF Init, Board!Init, WaitPhases
  <1>2. IInv /\ [Next]_vars => [Board!Next]_(Board!boardVars)
    <2> SUFFICES ASSUME IInv, [Next]_vars,
                        ~UNCHANGED <<Elements(asked), Elements(results), client \in WaitPhases>>
                 PROVE  Board!Next
      BY DEF Board!boardVars
    <2>1. ASSUME NEW w \in Workers, HandleDone(w)
          PROVE  Board!Next
      <3> DEFINE j == Head(toParent[w]).job
      <3>1. /\ j \in Jobs /\ client \in WaitPhases
            /\ j \in Elements(asked) \ Elements(results)
        BY <2>1, DoneFacts
      <3>2. results' = Append(results, j) /\ asked' = asked
            /\ (client' = "resolved" \/ client' = client)
        BY <2>1 DEF HandleDone
      <3>3. results \in Seq(Jobs)
        BY DEF IInv, TypeOK
      <3> HIDE DEF j
      <3>4. Elements(results') = Elements(results) \cup {j}
        BY <3>1, <3>2, <3>3, AppendFacts
      <3>5. (client' \in WaitPhases) = (client \in WaitPhases)
        BY <3>1, <3>2 DEF WaitPhases
      <3>6. Board!Finish(j)
        BY <3>1, <3>2, <3>4, <3>5 DEF Board!Finish
      <3> QED BY <3>1, <3>6 DEF Board!Next
    <2>2. ASSUME NEW jobs \in Rounds, Submit(jobs)
          PROVE  Board!Next
      <3>1. jobs \in Seq(Jobs)
        BY PoolAssumption DEF PoolAssumption
      <3>2. Elements(jobs) \in SUBSET Jobs
        BY <3>1, ElementsFacts
      <3>3. /\ client \notin WaitPhases /\ client' \in WaitPhases
            /\ asked' = jobs /\ Elements(results') = {}
        BY <2>2, EmptyFacts DEF Submit, WaitPhases
      <3>4. Board!Ask(Elements(jobs))
        BY <3>3 DEF Board!Ask
      <3> QED BY <3>2, <3>4 DEF Board!Next
    <2>3. CASE WaitAll \/ WaitReturn
      <3>1. /\ client \in WaitPhases /\ UNCHANGED <<asked, results>>
            /\ client' \in {"waiting", "returned"}
        BY <2>3 DEF WaitAll, WaitReturn, WaitPhases, parentVars
      <3>2. client' = "returned"
        BY <3>1 DEF WaitPhases
      <3>3. Elements(results') = Elements(asked')
        BY <2>3, <3>2, WaitStep DEF IInv, BooksOK
      <3>4. Board!Answer
        BY <3>1, <3>2, <3>3 DEF Board!Answer, WaitPhases
      <3> QED BY <3>4 DEF Board!Next
    <2>4. CASE SubmitScan
      <3>1. UNCHANGED <<asked, results>> /\ client = "submitting"
            /\ client' \in {"submitting", "submitted"}
        BY <2>4 DEF SubmitScan
      <3> QED BY <3>1 DEF WaitPhases
    <2>5. CASE Shutdown
      BY <2>5 DEF Shutdown, WaitPhases, parentVars
    <2>6. ASSUME NEW w \in Workers,
                 HandleReady(w) \/ HandleError(w) \/ HandleExit(w) \/ WorkerStep(w) \/ Crash(w)
          PROVE  FALSE
      <3>1. UNCHANGED <<asked, results, client>>
        BY <2>6 DEF HandleReady, HandleError, HandleExit, WorkerStep, WorkerInit, WorkerReady,
                    WorkerJob, WorkerShutdown, Crash, parentVars, clientVars
      <3> QED BY <3>1
    <2>7. CASE UNCHANGED vars
      BY <2>7 DEF vars, parentVars, clientVars
    <2> QED BY <2>1, <2>2, <2>3, <2>4, <2>5, <2>6, <2>7
            DEF Next, ParentStep, ClientStep
  <1> QED BY <1>1, <1>2, Invariance, PTL DEF Spec, BoardSpec, Board!Spec

-----------------------------------------------------------------------------
(* WorkerPool: no wait for nobody                                          *)

Good == ~Faulty /\ client # "closed"

\* Without a fault a worker lives, a request or an answer of a worker that is not idle is
\* under way, and jobs are sent to workers that are ready for them.
Serving(w) ==
  /\ proc[w] # "exited"
  /\ state[w] # Plain("Idle") => UnderWay(w)
  /\ proc[w] # "ready" => /\ state[w] = Plain("Initializing") /\ toParent[w] = <<>>
                          /\ \A i \in 1..Len(toWorker[w]) : toWorker[w][i].type # "job"
  /\ proc[w] = "ready" => \A i \in 1..Len(toWorker[w]) : toWorker[w][i].type # "init"

\* No job of the round is lost.
Kept ==
  \A j \in Elements(asked) :
    j \in Elements(pendingJobs) \cup Elements(results) \/ \E w \in Workers : Held(w, j)

GoingOK ==
  /\ Good => Kept /\ \A w \in Workers : Serving(w)
  /\ client = "waiting" => completed < total

\* What try_assign_job adds to the channel of its worker, and where the job goes.
LEMMA Assigned ==
  ASSUME TypeOK, NEW w \in Workers, NEW idle \in [Workers -> WorkerState],
         idle[w] = Plain("Idle"), Distinct(pendingJobs), TryAssign(w, idle)
  PROVE  /\ \A v \in Workers \ {w} : state'[v] = idle[v] /\ toWorker'[v] = toWorker[v]
         /\ state'[w] # Plain("Terminated")
         /\ \A i \in 1..Len(toWorker[w]) : i \in 1..Len(toWorker'[w]) /\ toWorker'[w][i] = toWorker[w][i]
         /\ \A i \in 1..Len(toWorker'[w]) :
              \/ toWorker'[w][i].type = "job"
              \/ i \in 1..Len(toWorker[w]) /\ toWorker'[w][i] = toWorker[w][i]
         /\ proc[w] # "exited" =>
              /\ state'[w] # Plain("Idle") => toWorker'[w] # <<>>
              /\ \A j \in Elements(pendingJobs) :
                   j \in Elements(pendingJobs') \/ \E i \in 1..Len(toWorker'[w]) : toWorker'[w][i] = JobMsg(j)
  <1>1. /\ pendingJobs \in Seq(Jobs) /\ toWorker \in [Workers -> Seq(ParentMessage)]
        /\ toWorker[w] \in Seq(ParentMessage)
        /\ Plain("Idle") # Plain("Terminated")
    BY DEF TypeOK, Plain
  <1>2. CASE pendingJobs = <<>>
    <2>1. state' = idle /\ pendingJobs' = pendingJobs /\ toWorker' = toWorker
      BY <1>2 DEF TryAssign
    <2> QED BY <1>1, <2>1
  <1>3. CASE pendingJobs # <<>>
    <2> DEFINE j0 == pendingJobs[Len(pendingJobs)]
               r == SubSeq(pendingJobs, 1, Len(pendingJobs) - 1)
    <2>1. /\ j0 \in Elements(pendingJobs) /\ j0 \in Jobs
          /\ Elements(r) = Elements(pendingJobs) \ {j0}
      BY <1>1, <1>3, LastFacts, ElementsFacts
    <2>2. pendingJobs' = r /\ state' = [idle EXCEPT ![w] = Busy(j0)] /\ toWorker' = SentTo(w, JobMsg(j0))
      BY <1>3 DEF TryAssign
    <2> HIDE DEF j0, r
    <2>3. /\ state'[w] = Busy(j0) /\ \A v \in Workers \ {w} : state'[v] = idle[v]
      BY <2>2
    <2>4. Busy(j0) # Plain("Terminated")
      BY DEF Busy, Plain
    <2>5. CASE proc[w] = "exited"
      <3>1. toWorker' = toWorker
        BY <2>2, <2>5 DEF SentTo
      <3> QED BY <1>1, <2>3, <2>4, <2>5, <3>1
    <2>6. CASE proc[w] # "exited"
      <3> DEFINE t == Append(toWorker[w], JobMsg(j0))
      <3>1. /\ toWorker'[w] = t /\ \A v \in Workers \ {w} : toWorker'[v] = toWorker[v]
        BY <1>1, <2>2, <2>6 DEF SentTo
      <3>2. JobMsg(j0) \in ParentMessage /\ JobMsg(j0).type = "job"
        BY <2>1, MsgFacts
      <3>3. /\ Len(t) = Len(toWorker[w]) + 1 /\ Len(toWorker[w]) \in Nat
            /\ \A i \in 1..Len(toWorker[w]) : t[i] = toWorker[w][i]
            /\ t[Len(toWorker[w]) + 1] = JobMsg(j0) /\ t \in Seq(ParentMessage)
        BY <1>1, <3>2, AppendProperties, LenProperties
      <3> HIDE DEF t
      <3>4. \A i \in 1..Len(t) : i \in 1..Len(toWorker[w]) \/ i = Len(toWorker[w]) + 1
        BY <3>3
      <3>5. Len(t) \in 1..Len(t) /\ t[Len(t)] = JobMsg(j0) /\ Len(t) # 0
        BY <3>3
      <3>6. t # <<>>
        BY <3>5, EmptySeq
      <3>7. \A i \in 1..Len(toWorker[w]) : i \in 1..Len(t)
        BY <3>3
      <3>8. \A j \in Elements(pendingJobs) : j \in Elements(pendingJobs') \/ \E i \in 1..Len(t) : t[i] = JobMsg(j)
        BY <2>1, <2>2, <3>5
      <3>9. \A i \in 1..Len(t) : t[i].type = "job" \/ (i \in 1..Len(toWorker[w]) /\ t[i] = toWorker[w][i])
        BY <3>2, <3>3, <3>4
      <3> QED BY <2>3, <2>4, <3>1, <3>3, <3>6, <3>7, <3>8, <3>9
    <2> QED BY <2>5, <2>6
  <1> QED BY <1>2, <1>3

\* Without a shutdown there is at most one message in a channel.
LEMMA OneMessage ==
  ASSUME IInv, client # "closed", NEW w \in Workers
  PROVE  /\ toWorker[w] \in Seq(ParentMessage) /\ toParent[w] \in Seq(WorkerMessage)
         /\ \A i \in 1..Len(toWorker[w]) : i = 1 /\ toWorker[w][i] # Msg("shutdown")
         /\ \A i \in 1..Len(toParent[w]) : i = 1
         /\ Resting(toWorker[w], client = "closed") => toWorker[w] = <<>>
  <1>1. /\ toWorker[w] \in Seq(ParentMessage) /\ toParent[w] \in Seq(WorkerMessage)
        /\ Line(state[w], proc[w], toWorker[w], toParent[w], FALSE)
    BY DEF IInv, TypeOK, LineOK
  <1>2. Len(toWorker[w]) \in Nat /\ Len(toParent[w]) \in Nat
    BY <1>1, LenProperties
  <1>3. \A i \in 1..Len(toWorker[w]) : i = 1 /\ toWorker[w][i] # Msg("shutdown")
    BY <1>1, <1>2 DEF Line
  <1>4. \A i \in 1..Len(toParent[w]) : i = 1
    BY <1>1, <1>2 DEF Line
  <1>5. ASSUME Resting(toWorker[w], client = "closed") PROVE toWorker[w] = <<>>
    <2>1. \A i \in 1..Len(toWorker[w]) : FALSE
      BY <1>5 DEF Resting
    <2>2. Len(toWorker[w]) = 0
      BY <1>2, <2>1
    <2> QED BY <1>1, <2>2, EmptySeq
  <1> QED BY <1>1, <1>3, <1>4, <1>5

\* An answer that hands out a job leaves everybody served.
LEMMA HandlerGoes ==
  ASSUME IInv, Kept, \A v \in Workers : Serving(v), client # "closed", NEW w \in Workers,
         toParent[w] # <<>>, toParent' = [toParent EXCEPT ![w] = Tail(@)],
         TryAssign(w, MarkedIdle(w)), UNCHANGED <<asked, proc>>,
         Elements(results) \subseteq Elements(results'),
         \A j \in Jobs : toParent[w][1] = DoneMsg(j) => j \in Elements(results')
  PROVE  Kept' /\ \A v \in Workers : Serving(v)'
  <1>1. /\ TypeOK /\ Distinct(pendingJobs) /\ state \in [Workers -> WorkerState]
        /\ toParent \in [Workers -> Seq(WorkerMessage)] /\ asked \in Seq(Jobs)
    BY PoolAssumption, EmptyFacts DEF IInv, BooksOK, TypeOK, PoolAssumption
  <1>2. /\ MarkedIdle(w) \in [Workers -> WorkerState] /\ MarkedIdle(w)[w] = Plain("Idle")
        /\ \A v \in Workers \ {w} : MarkedIdle(w)[v] = state[v]
    BY <1>1 DEF MarkedIdle, WorkerState
  <1>3. /\ \A v \in Workers \ {w} : state'[v] = state[v] /\ toWorker'[v] = toWorker[v]
        /\ \A i \in 1..Len(toWorker[w]) : i \in 1..Len(toWorker'[w]) /\ toWorker'[w][i] = toWorker[w][i]
        /\ \A i \in 1..Len(toWorker'[w]) :
              \/ toWorker'[w][i].type = "job"
              \/ i \in 1..Len(toWorker[w]) /\ toWorker'[w][i] = toWorker[w][i]
        /\ proc[w] # "exited" =>
              /\ state'[w] # Plain("Idle") => toWorker'[w] # <<>>
              /\ \A j \in Elements(pendingJobs) :
                   j \in Elements(pendingJobs') \/ \E i \in 1..Len(toWorker'[w]) : toWorker'[w][i] = JobMsg(j)
    BY <1>1, <1>2, Assigned
  <1>4. proc[w] = "ready" /\ proc' = proc
    BY DEF Serving
  <1>5. \A v \in Workers \ {w} : toParent'[v] = toParent[v]
    BY <1>1
  <1>6. Serving(w)'
    <2>1. \A i \in 1..Len(toWorker'[w]) : toWorker'[w][i].type # "init"
      BY <1>3, <1>4 DEF Serving
    <2> QED BY <1>3, <1>4, <2>1 DEF Serving, UnderWay
  <1>7. \A v \in Workers \ {w} : Serving(v)'
    BY <1>3, <1>4, <1>5 DEF Serving, UnderWay
  <1>8. ASSUME NEW j \in Elements(asked')
        PROVE  j \in Elements(pendingJobs') \cup Elements(results') \/ \E v \in Workers : Held(v, j)'
    <2>1. j \in Jobs
      BY <1>1, ElementsFacts
    <2>2. CASE j \in Elements(pendingJobs)
      BY <1>3, <1>4, <2>2 DEF Held, Holds
    <2>3. CASE j \in Elements(results)
      BY <2>3
    <2>4. ASSUME NEW v \in Workers, Held(v, j)
          PROVE  j \in Elements(results') \/ Held(v, j)'
      <3>1. CASE v # w
        BY <2>4, <3>1, <1>3, <1>5 DEF Held
      <3>2. CASE v = w
        <4>1. CASE \E i \in 1..Len(toWorker[w]) : toWorker[w][i] = JobMsg(j)
          BY <3>2, <4>1, <1>3 DEF Held, Holds
        <4>2. CASE \E i \in 1..Len(toParent[w]) : toParent[w][i] = DoneMsg(j)
          BY <4>2, <2>1, OneMessage
        <4> QED BY <2>4, <3>2, <4>1, <4>2 DEF Held, Holds
      <3> QED BY <3>1, <3>2
    <2> QED BY <2>2, <2>3, <2>4 DEF Kept
  <1> QED BY <1>6, <1>7, <1>8 DEF Kept

\* A step of a worker that is served after it, and loses no job.
LEMMA WorkerGoes ==
  ASSUME IInv, Kept, \A v \in Workers : Serving(v), NEW w \in Workers,
         UNCHANGED <<parentVars, clientVars>>,
         \A v \in Workers \ {w} : /\ proc'[v] = proc[v] /\ toWorker'[v] = toWorker[v]
                                  /\ toParent'[v] = toParent[v],
         Serving(w)', \A j \in Jobs : Held(w, j) => Held(w, j)'
  PROVE  Kept' /\ \A v \in Workers : Serving(v)'
  <1>1. UNCHANGED <<state, pendingJobs, results, asked>> /\ asked \in Seq(Jobs)
    BY PoolAssumption, EmptyFacts DEF parentVars, clientVars, IInv, TypeOK, PoolAssumption
  <1>2. \A v \in Workers \ {w} : Serving(v)'
    BY <1>1 DEF Serving, UnderWay
  <1>3. \A v \in Workers, j \in Jobs : Held(v, j) => Held(v, j)'
    BY DEF Held
  <1>4. Elements(asked) \subseteq Jobs
    BY <1>1, ElementsFacts
  <1>5. Kept'
    BY <1>1, <1>3, <1>4 DEF Kept
  <1> QED BY <1>2, <1>5

\* The steps of a worker; a crash is a fault.
LEMMA WorkersGo ==
  ASSUME IInv, GoingOK, Good, NEW w \in Workers, WorkerStep(w)
  PROVE  Kept' /\ \A v \in Workers : Serving(v)'
  <1>1. /\ toWorker \in [Workers -> Seq(ParentMessage)]
        /\ toParent \in [Workers -> Seq(WorkerMessage)]
        /\ proc \in [Workers -> ProcPhases] /\ crashes \in Nat
        /\ Line(state[w], proc[w], toWorker[w], toParent[w], client = "closed")
    BY DEF IInv, TypeOK, LineOK
  <1>2. /\ Kept /\ \A v \in Workers : Serving(v)
        /\ client # "closed" /\ initOK
    BY <1>1 DEF GoingOK, Good, Faulty
  <1>3. /\ toWorker[w] \in Seq(ParentMessage) /\ toParent[w] \in Seq(WorkerMessage)
        /\ \A i \in 1..Len(toWorker[w]) : i = 1 /\ toWorker[w][i] # Msg("shutdown")
        /\ \A i \in 1..Len(toParent[w]) : i = 1
        /\ Resting(toWorker[w], client = "closed") => toWorker[w] = <<>>
    BY <1>2, OneMessage
  <1>4. ASSUME toWorker[w] # <<>>
        PROVE  /\ Head(toWorker[w]) = toWorker[w][1] /\ 1 \in 1..Len(toWorker[w])
               /\ Tail(toWorker[w]) = <<>> /\ Head(toWorker[w]) \in ParentMessage
    <2>1. /\ Tail(toWorker[w]) \in Seq(ParentMessage) /\ Head(toWorker[w]) = toWorker[w][1]
          /\ Len(toWorker[w]) \in Nat /\ Len(toWorker[w]) >= 1 /\ Head(toWorker[w]) \in ParentMessage
          /\ Len(Tail(toWorker[w])) = Len(toWorker[w]) - 1
      BY <1>3, <1>4, TakeFacts
    <2>2. Len(toWorker[w]) = 1
      <3>1. Len(toWorker[w]) \in 1..Len(toWorker[w])
        BY <2>1
      <3> QED BY <3>1, <1>3
    <2>3. Tail(toWorker[w]) = <<>>
      <3>1. Len(Tail(toWorker[w])) = 0
        BY <2>1, <2>2
      <3> QED BY <2>1, <3>1, EmptySeq
    <2> QED BY <2>1, <2>2, <2>3
  <1>5. Len(<<>>) = 0 /\ \A i \in 1..0 : FALSE
    BY EmptySeq
  <1>6. CASE WorkerInit(w)
    <2>1. /\ toWorker[w] # <<>> /\ Head(toWorker[w]).type = "init" /\ proc[w] # "exited"
          /\ toWorker' = [toWorker EXCEPT ![w] = Tail(@)]
          /\ proc' = [proc EXCEPT ![w] = "initializing"] /\ toParent' = toParent
          /\ UNCHANGED <<parentVars, clientVars>>
      BY <1>2, <1>6 DEF WorkerInit, Take
    <2>2. /\ toWorker[w][1].type = "init" /\ 1 \in 1..Len(toWorker[w])
          /\ Tail(toWorker[w]) = <<>>
      BY <1>4, <2>1
    <2>3. proc[w] # "ready" /\ state[w] = Plain("Initializing") /\ toParent[w] = <<>>
      BY <1>2, <2>2 DEF Serving
    <2>4. /\ proc'[w] = "initializing" /\ toWorker'[w] = <<>> /\ toParent'[w] = <<>>
          /\ state' = state
          /\ \A v \in Workers \ {w} : /\ proc'[v] = proc[v] /\ toWorker'[v] = toWorker[v]
                                      /\ toParent'[v] = toParent[v]
      BY <1>1, <2>1, <2>2, <2>3 DEF parentVars
    <2>5. Serving(w)'
      BY <1>5, <2>3, <2>4 DEF Serving, UnderWay
    <2>6. \A j \in Jobs : ~Held(w, j)
      <3>1. \A j \in Jobs : JobMsg(j).type = "job"
        BY MsgFacts
      <3> QED BY <1>2, <1>5, <2>3, <3>1 DEF Held, Holds, Serving
    <2> QED BY <1>2, <2>1, <2>4, <2>5, <2>6, WorkerGoes
  <1>7. CASE WorkerReady(w)
    <2>1. /\ proc[w] = "initializing" /\ proc' = [proc EXCEPT ![w] = "ready"]
          /\ toParent' = [toParent EXCEPT ![w] = Append(@, Msg("ready"))]
          /\ toWorker' = toWorker
          /\ UNCHANGED <<parentVars, clientVars>>
      BY <1>7 DEF WorkerReady, Reply
    <2>2. toParent[w] = <<>> /\ toWorker[w] = <<>>
      BY <1>1, <1>3, <2>1 DEF Line
    <2>3. /\ proc'[w] = "ready" /\ toWorker'[w] = <<>> /\ toParent'[w] = <<Msg("ready")>>
          /\ \A v \in Workers \ {w} : /\ proc'[v] = proc[v] /\ toWorker'[v] = toWorker[v]
                                      /\ toParent'[v] = toParent[v]
      BY <1>1, <2>1, <2>2
    <2>4. <<Msg("ready")>> # <<>>
      OBVIOUS
    <2>5. Serving(w)'
      BY <1>5, <2>3, <2>4 DEF Serving, UnderWay
    <2>6. \A j \in Jobs : ~Held(w, j)
      BY <1>5, <2>2 DEF Held, Holds
    <2> QED BY <1>2, <2>1, <2>3, <2>5, <2>6, WorkerGoes
  <1>8. CASE WorkerJob(w)
    <2>1. /\ toWorker[w] # <<>> /\ Head(toWorker[w]).type = "job" /\ proc[w] # "exited"
          /\ toWorker' = [toWorker EXCEPT ![w] = Tail(@)]
          /\ Reply(w, IF proc[w] = "ready" THEN DoneMsg(Head(toWorker[w]).job) ELSE Msg("error"))
          /\ UNCHANGED <<parentVars, clientVars, proc>>
      BY <1>8 DEF WorkerJob, Take
    <2>2. /\ Head(toWorker[w]) = toWorker[w][1] /\ 1 \in 1..Len(toWorker[w])
          /\ Tail(toWorker[w]) = <<>> /\ Head(toWorker[w]) \in ParentMessage
      BY <1>4, <2>1
    <2>3. proc[w] = "ready"
      BY <1>2, <2>1, <2>2 DEF Serving
    <2>4. PICK j \in Jobs : j = Head(toWorker[w]).job /\ toWorker[w][1] = JobMsg(j)
      BY <2>1, <2>2, TypeFacts
    <2>5. toParent[w] = <<>>
      <3>1. ~Resting(toWorker[w], client = "closed")
        BY <1>3, <2>1
      <3> QED BY <1>1, <3>1 DEF Line
    <2>6. /\ toWorker'[w] = <<>> /\ toParent'[w] = <<DoneMsg(j)>> /\ proc' = proc
          /\ \A v \in Workers \ {w} : /\ proc'[v] = proc[v] /\ toWorker'[v] = toWorker[v]
                                      /\ toParent'[v] = toParent[v]
      BY <1>1, <2>1, <2>2, <2>3, <2>4, <2>5 DEF Reply
    <2>7. Len(<<DoneMsg(j)>>) = 1 /\ <<DoneMsg(j)>>[1] = DoneMsg(j) /\ <<DoneMsg(j)>> # <<>>
      OBVIOUS
    <2>8. Serving(w)'
      BY <1>5, <2>3, <2>6, <2>7 DEF Serving, UnderWay
    <2>9. Held(w, j)'
      <3>1. 1 \in 1..Len(toParent'[w]) /\ toParent'[w][1] = DoneMsg(j)
        BY <2>6, <2>7
      <3> QED BY <3>1 DEF Held, Holds
    <2>10. ASSUME NEW k \in Jobs, Held(w, k) PROVE k = j
      <3>1. toWorker[w][1] = JobMsg(k)
        BY <1>3, <1>5, <2>5, <2>10 DEF Held, Holds
      <3> QED BY <2>4, <3>1, MsgFacts
    <2> QED BY <1>2, <2>1, <2>6, <2>8, <2>9, <2>10, WorkerGoes
  <1>9. CASE WorkerShutdown(w)
    <2>1. toWorker[w] # <<>> /\ Head(toWorker[w]).type = "shutdown"
      BY <1>9 DEF WorkerShutdown
    <2>2. toWorker[w][1] = Msg("shutdown") /\ 1 \in 1..Len(toWorker[w])
      BY <1>4, <2>1, TypeFacts
    <2> QED BY <2>2, <1>3
  <1> QED BY <1>6, <1>7, <1>8, <1>9 DEF WorkerStep

\* The handlers of the parent; nobody exits without a fault.
LEMMA ParentGoes ==
  ASSUME IInv, GoingOK, Good, NEW w \in Workers, ParentStep(w)
  PROVE  Kept' /\ \A v \in Workers : Serving(v)'
  <1>1. /\ Kept /\ (\A v \in Workers : Serving(v)) /\ client # "closed"
        /\ results \in Seq(Jobs) /\ toParent[w] \in Seq(WorkerMessage)
    BY DEF GoingOK, Good, IInv, TypeOK
  <1>2. toParent[w] # <<>> => Head(toParent[w]) = toParent[w][1]
    BY <1>1, TakeFacts
  <1>3. CASE HandleReady(w) \/ HandleError(w)
    <2>1. /\ toParent[w] # <<>> /\ Head(toParent[w]).type \in {"ready", "error"}
          /\ toParent' = [toParent EXCEPT ![w] = Tail(@)]
          /\ TryAssign(w, MarkedIdle(w))
          /\ UNCHANGED <<results, asked, proc>>
      BY <1>3 DEF HandleReady, HandleError, Receive, clientVars
    <2>2. \A j \in Jobs : toParent[w][1] # DoneMsg(j)
      BY <1>2, <2>1, MsgFacts
    <2> QED BY <1>1, <2>1, <2>2, HandlerGoes
  <1>4. CASE HandleDone(w)
    <2> DEFINE j == Head(toParent[w]).job
    <2>1. /\ toParent[w] # <<>> /\ toParent' = [toParent EXCEPT ![w] = Tail(@)]
          /\ results' = Append(results, j) /\ completed' = completed + 1
          /\ IF AllDone(completed')
             THEN /\ state' = MarkedIdle(w)
                  /\ UNCHANGED <<pendingJobs, toWorker>>
             ELSE TryAssign(w, MarkedIdle(w))
          /\ UNCHANGED <<total, asked, proc>>
      BY <1>4 DEF HandleDone, Receive
    <2>2. /\ j \in Jobs /\ Held(w, j) /\ client \in WaitPhases
          /\ j \in Elements(asked) \ (Elements(results) \cup Elements(pendingJobs))
      BY <1>4, DoneFacts
    <2> HIDE DEF j
    <2>3. Elements(results') = Elements(results) \cup {j}
      BY <1>1, <2>1, <2>2, AppendFacts
    <2>4. AllDone(completed') => pendingJobs = <<>>
      <3>1. IInv'
        BY <1>4, DoneStep
      <3>2. AllDone(completed') => Len(results') >= Len(asked)
        <4>1. completed' = Len(results') /\ total' = Len(asked')
          BY <3>1 DEF IInv, BooksOK
        <4> QED BY <2>1, <4>1 DEF AllDone
      <3>3. /\ results' \in Seq(Jobs) /\ asked \in Seq(Jobs) /\ pendingJobs \in Seq(Jobs)
            /\ Distinct(asked) /\ Distinct(results') /\ Elements(results') \subseteq Elements(asked)
        BY <2>1, <3>1, PoolAssumption, EmptyFacts DEF IInv, TypeOK, BooksOK, PoolAssumption
      <3>4. AllDone(completed') => Elements(results') = Elements(asked)
        BY <3>2, <3>3, Covered
      <3>5. Elements(pendingJobs) \subseteq Elements(asked) \ Elements(results)
        BY DEF IInv, BooksOK
      <3>6. AllDone(completed') => Elements(pendingJobs) = {}
        BY <2>2, <2>3, <3>4, <3>5
      <3> QED BY <3>3, <3>6, NoElements
    <2>5. TryAssign(w, MarkedIdle(w))
      BY <2>1, <2>4 DEF TryAssign
    <2>6. \A k \in Jobs : toParent[w][1] = DoneMsg(k) => k \in Elements(results')
      BY <1>2, <2>1, <2>3, MsgFacts DEF j
    <2> QED BY <1>1, <2>1, <2>3, <2>5, <2>6, HandlerGoes
  <1>5. CASE HandleExit(w)
    BY <1>1, <1>5 DEF HandleExit, Serving
  <1> QED BY <1>3, <1>4, <1>5 DEF ParentStep

\* The loop of submit_jobs.
LEMMA ScanGoes ==
  ASSUME IInv, GoingOK, Good, SubmitScan
  PROVE  Kept' /\ \A v \in Workers : Serving(v)'
  <1>1. /\ Kept /\ (\A v \in Workers : Serving(v)) /\ client # "closed"
        /\ UNCHANGED <<results, asked, proc, toParent>>
    BY DEF GoingOK, Good, SubmitScan, workerVars
  <1>2. CASE UNCHANGED <<state, pendingJobs, toWorker>>
    BY <1>1, <1>2 DEF Kept, Held, Serving, UnderWay
  <1>3. ASSUME NEW w \in Workers, Idle(w), TryAssign(w, state)
        PROVE  Kept' /\ \A v \in Workers : Serving(v)'
    <2>1. /\ TypeOK /\ Distinct(pendingJobs) /\ state \in [Workers -> WorkerState]
          /\ state[w] = Plain("Idle")
      BY <1>3 DEF IInv, BooksOK, TypeOK, Idle
    <2>2. /\ \A v \in Workers \ {w} : state'[v] = state[v] /\ toWorker'[v] = toWorker[v]
          /\ \A i \in 1..Len(toWorker[w]) : i \in 1..Len(toWorker'[w]) /\ toWorker'[w][i] = toWorker[w][i]
          /\ \A i \in 1..Len(toWorker'[w]) :
                \/ toWorker'[w][i].type = "job"
                \/ i \in 1..Len(toWorker[w]) /\ toWorker'[w][i] = toWorker[w][i]
          /\ proc[w] # "exited" =>
                /\ state'[w] # Plain("Idle") => toWorker'[w] # <<>>
                /\ \A j \in Elements(pendingJobs) :
                     j \in Elements(pendingJobs') \/ \E i \in 1..Len(toWorker'[w]) : toWorker'[w][i] = JobMsg(j)
      BY <1>3, <2>1, Assigned
    <2>3. proc[w] = "ready"
      BY <1>1, <1>3, <2>1 DEF Serving, Plain
    <2>4. Serving(w)'
      <3>1. \A i \in 1..Len(toWorker'[w]) : toWorker'[w][i].type # "init"
        BY <1>1, <1>3, <2>2, <2>3 DEF Serving
      <3> QED BY <1>1, <2>2, <2>3, <3>1 DEF Serving, UnderWay
    <2>5. \A v \in Workers \ {w} : Serving(v)'
      BY <1>1, <2>2 DEF Serving, UnderWay
    <2>6. \A v \in Workers, j \in Jobs : Held(v, j) => Held(v, j)'
      <3>1. \A v \in Workers : v # w => toWorker'[v] = toWorker[v]
        BY <2>2
      <3> QED BY <1>1, <2>2, <3>1 DEF Held, Holds
    <2>7. Elements(asked) \subseteq Jobs
      <3>1. asked \in Seq(Jobs)
        BY PoolAssumption, EmptyFacts DEF IInv, TypeOK, PoolAssumption
      <3> QED BY <3>1, ElementsFacts
    <2>8. \A j \in Elements(pendingJobs) : j \in Elements(pendingJobs') \/ Held(w, j)'
      BY <2>2, <2>3 DEF Held, Holds
    <2>9. Kept'
      BY <1>1, <1>3, <2>6, <2>7, <2>8 DEF Kept
    <2> QED BY <2>4, <2>5, <2>9
  <1> QED BY <1>2, <1>3 DEF SubmitScan

\* Without a fault nothing is lost and everybody is served.
LEMMA GoingStep == IInv /\ GoingOK /\ [Next]_vars => GoingOK'
  <1> SUFFICES ASSUME IInv, GoingOK, [Next]_vars PROVE GoingOK'
    OBVIOUS
  <1>1. /\ crashes \in Nat /\ completed \in Nat /\ total \in Nat
    BY DEF IInv, TypeOK
  <1>2. ASSUME NEW w \in Workers, ParentStep(w) PROVE GoingOK'
    <2>1. Good' => Good
      <3>1. \/ UNCHANGED <<crashes, initOK>> /\ client # "closed"
            \/ UNCHANGED <<client, crashes, initOK>>
        BY <1>2, DoneFacts DEF ParentStep, HandleReady, HandleError, HandleDone, HandleExit, clientVars,
              workerVars, WaitPhases
      <3> QED BY <3>1 DEF Good, Faulty
    <2>2. client' = "waiting" => completed' < total'
      <3>1. CASE HandleDone(w)
        <4>1. completed' \in Nat /\ total' = total
          BY <1>1, <3>1 DEF HandleDone
        <4>2. client' = "waiting" => ~AllDone(completed')
          BY <3>1 DEF HandleDone
        <4> QED BY <1>1, <4>1, <4>2 DEF AllDone
      <3>2. CASE HandleReady(w) \/ HandleError(w) \/ HandleExit(w)
        BY <3>2 DEF HandleReady, HandleError, HandleExit, clientVars, GoingOK
      <3> QED BY <1>2, <3>1, <3>2 DEF ParentStep
    <2> QED BY <1>2, <2>1, <2>2, ParentGoes DEF GoingOK
  <1>3. ASSUME NEW w \in Workers, WorkerStep(w) PROVE GoingOK'
    <2>1. UNCHANGED <<client, crashes, initOK, completed, total>>
      BY <1>3 DEF WorkerStep, WorkerInit, WorkerReady, WorkerJob, WorkerShutdown, parentVars, clientVars
    <2> QED BY <1>3, <2>1, WorkersGo DEF GoingOK, Good, Faulty
  <1>4. ASSUME NEW w \in Workers, Crash(w) PROVE GoingOK'
    <2>1. crashes' > 0 /\ UNCHANGED <<client, completed, total>>
      BY <1>1, <1>4 DEF Crash, parentVars, clientVars
    <2> QED BY <2>1 DEF GoingOK, Good, Faulty
  <1>5. CASE SubmitScan
    <2>1. UNCHANGED <<crashes, initOK>> /\ client = "submitting" /\ client' \in {"submitting", "submitted"}
      BY <1>5 DEF SubmitScan, workerVars
    <2> QED BY <1>5, <2>1, ScanGoes DEF GoingOK, Good, Faulty
  <1>6. CASE WaitAll \/ WaitReturn
    <2>1. /\ UNCHANGED <<state, pendingJobs, results, completed, total, asked, proc, toParent, crashes,
                         initOK, toWorker>>
          /\ client # "closed"
          /\ client' = "waiting" => ~AllDone(completed)
      BY <1>6 DEF WaitAll, WaitReturn, parentVars, workerVars
    <2>2. Kept = Kept' /\ \A w \in Workers : Serving(w) = Serving(w)'
      BY <2>1 DEF Kept, Held, Serving, UnderWay
    <2> QED BY <1>1, <2>1, <2>2 DEF GoingOK, Good, Faulty, AllDone
  <1>7. ASSUME NEW jobs \in Rounds, Submit(jobs) PROVE GoingOK'
    <2>1. /\ UNCHANGED <<state, proc, toParent, crashes, initOK, toWorker>>
          /\ client \in {"new", "returned"} /\ client' = "submitting"
          /\ asked' = jobs /\ pendingJobs' = jobs
      BY <1>7 DEF Submit, workerVars
    <2>2. Kept' /\ \A w \in Workers : Serving(w) = Serving(w)'
      BY <2>1 DEF Kept, Serving, UnderWay
    <2> QED BY <2>1, <2>2 DEF GoingOK, Good, Faulty
  <1>8. CASE Shutdown
    <2>1. client' = "closed"
      BY <1>8 DEF Shutdown
    <2> QED BY <2>1 DEF GoingOK, Good
  <1>9. CASE UNCHANGED vars
    <2>1. UNCHANGED <<state, pendingJobs, results, completed, total, client, asked, initOK, proc,
                      toWorker, toParent, crashes>>
      BY <1>9 DEF vars, parentVars, clientVars, workerVars
    <2> QED BY <2>1 DEF GoingOK, Good, Faulty, Kept, Held, Serving, UnderWay
  <1> QED BY <1>2, <1>3, <1>4, <1>5, <1>6, <1>7, <1>8, <1>9 DEF Next, ClientStep

LEMMA GoingInit == Init => GoingOK
  <1> SUFFICES ASSUME Init PROVE GoingOK
    OBVIOUS
  <1>1. \A i \in 1..Len(<<Msg("init")>>) : <<Msg("init")>>[i] = Msg("init")
    OBVIOUS
  <1>2. <<Msg("init")>> # <<>> /\ Msg("init").type # "job"
    BY MsgFacts
  <1>3. \A w \in Workers : Serving(w)
    BY <1>1, <1>2 DEF Init, Serving, UnderWay
  <1>4. Kept
    BY EmptyFacts DEF Init, Kept
  <1>5. client # "waiting"
    BY DEF Init
  <1> QED BY <1>3, <1>4, <1>5 DEF GoingOK

\* Without a fault, wait_all never waits while nothing is under way: whatever the number of
\* workers, if there is one, a request or an answer is on its way or a worker is being
\* initialized (the handlers, submit_jobs, wait_all). With fairness this is why it returns.
THEOREM NeverStuck ==
  ASSUME NumWorkers # 0
  PROVE  Spec => []WaitsForSomebody
  <1>1. IInv /\ GoingOK => WaitsForSomebody
    <2> SUFFICES ASSUME IInv, GoingOK, client = "waiting", ~Faulty, \A w \in Workers : ~UnderWay(w)
                 PROVE  FALSE
      BY DEF WaitsForSomebody
    <2>1. /\ Kept /\ (\A w \in Workers : Serving(w)) /\ completed < total
      BY DEF GoingOK, Good
    <2>2. \A w \in Workers : Idle(w) /\ toWorker[w] = <<>> /\ toParent[w] = <<>>
      BY <2>1 DEF Serving, UnderWay, Idle
    <2>3. 1 \in Workers
      BY PoolAssumption DEF PoolAssumption, Workers
    <2>4. pendingJobs = <<>>
      BY <2>2, <2>3 DEF IInv, RestOK, NobodyIdle
    <2>5. Len(<<>>) = 0 /\ \A i \in 1..0 : FALSE
      BY EmptySeq
    <2>6. \A w \in Workers, j \in Jobs : ~Held(w, j)
      BY <2>2, <2>5 DEF Held, Holds
    <2>7. asked \in Seq(Jobs) /\ results \in Seq(Jobs) /\ Distinct(asked) /\ Distinct(results)
          /\ completed = Len(results) /\ total = Len(asked)
          /\ Elements(results) \subseteq Elements(asked)
      BY PoolAssumption, EmptyFacts DEF IInv, TypeOK, BooksOK, PoolAssumption
    <2>8. Elements(asked) \subseteq Jobs
      BY <2>7, ElementsFacts
    <2>9. Elements(results) = Elements(asked)
      BY <2>1, <2>4, <2>6, <2>7, <2>8, EmptyFacts DEF Kept
    <2>10. Len(results) = Len(asked)
      BY <2>7, <2>9, DistinctCount
    <2>11. Len(results) \in Nat
      BY <2>7, LenProperties
    <2> QED BY <2>1, <2>7, <2>10, <2>11
  <1> QED BY <1>1, IInvInit, IInvStep, GoingInit, GoingStep, PTL DEF Spec

-----------------------------------------------------------------------------
(* WorkerPool: shutdown forgets nobody                                     *)

Told(in) == \E i \in 1..Len(in) : in[i] = Msg("shutdown")

\* The parent only thinks of dead workers that they are dead, and after shutdown each
\* live one has been told.
EndOK ==
  /\ \A w \in Workers : state[w] = Plain("Terminated") => proc[w] = "exited"
  /\ client = "closed" => \A w \in Workers : proc[w] = "exited" \/ Told(toWorker[w])

\* A step that hands out a job terminates nobody and takes no message back.
LEMMA AssignEnds ==
  ASSUME IInv, EndOK, NEW w \in Workers, NEW idle \in [Workers -> WorkerState],
         idle[w] = Plain("Idle"), \A v \in Workers \ {w} : idle[v] = state[v],
         TryAssign(w, idle), proc' = proc, client' = client
  PROVE  EndOK'
  <1>1. /\ \A v \in Workers \ {w} : state'[v] = state[v] /\ toWorker'[v] = toWorker[v]
        /\ state'[w] # Plain("Terminated")
        /\ \A i \in 1..Len(toWorker[w]) : i \in 1..Len(toWorker'[w]) /\ toWorker'[w][i] = toWorker[w][i]
    BY Assigned DEF IInv, BooksOK
  <1>2. ASSUME NEW v \in Workers PROVE Told(toWorker[v]) => Told(toWorker'[v])
    BY <1>1 DEF Told
  <1> QED BY <1>1, <1>2 DEF EndOK

\* A message other than shutdown is read, or none is.
LEMMA TakeEnds ==
  ASSUME IInv, EndOK, NEW w \in Workers, UNCHANGED <<state, client>>,
         proc[w] # "exited", proc'[w] # "exited",
         \A v \in Workers \ {w} : proc'[v] = proc[v] /\ toWorker'[v] = toWorker[v],
         \/ toWorker'[w] = toWorker[w]
         \/ /\ toWorker[w] # <<>> /\ Head(toWorker[w]).type # "shutdown"
            /\ toWorker'[w] = Tail(toWorker[w])
  PROVE  EndOK'
  <1>1. Told(toWorker[w]) => Told(toWorker'[w])
    <2> SUFFICES ASSUME NEW i \in 1..Len(toWorker[w]), toWorker[w][i] = Msg("shutdown"),
                        toWorker[w] # <<>>, Head(toWorker[w]).type # "shutdown"
                 PROVE  Told(Tail(toWorker[w]))
      BY DEF Told
    <2>1. toWorker[w] \in Seq(ParentMessage)
      BY DEF IInv, TypeOK
    <2>2. /\ Len(toWorker[w]) \in Nat /\ Head(toWorker[w]) = toWorker[w][1]
          /\ Len(Tail(toWorker[w])) = Len(toWorker[w]) - 1
          /\ \A k \in 1..Len(Tail(toWorker[w])) : Tail(toWorker[w])[k] = toWorker[w][k + 1]
      BY <2>1, HeadTailProperties, LenProperties
    <2>3. i # 1
      BY <2>2 DEF Msg
    <2>4. i - 1 \in 1..Len(Tail(toWorker[w])) /\ (i - 1) + 1 = i
      BY <2>2, <2>3
    <2>5. Tail(toWorker[w])[i - 1] = Msg("shutdown")
      BY <2>2, <2>4
    <2> QED BY <2>4, <2>5 DEF Told
  <1> QED BY <1>1 DEF EndOK

LEMMA EndStep == IInv /\ EndOK /\ [Next]_vars => EndOK'
  <1> SUFFICES ASSUME IInv, EndOK, [Next]_vars PROVE EndOK'
    OBVIOUS
  <1>1. /\ state \in [Workers -> WorkerState] /\ proc \in [Workers -> ProcPhases]
        /\ toWorker \in [Workers -> Seq(ParentMessage)]
    BY DEF IInv, TypeOK
  <1>2. ASSUME NEW w \in Workers, ParentStep(w) PROVE EndOK'
    <2>1. /\ MarkedIdle(w) \in [Workers -> WorkerState] /\ MarkedIdle(w)[w] = Plain("Idle")
          /\ \A v \in Workers \ {w} : MarkedIdle(w)[v] = state[v]
          /\ Plain("Idle") # Plain("Terminated")
      BY <1>1 DEF MarkedIdle, WorkerState, Plain
    <2>2. CASE HandleReady(w) \/ HandleError(w)
      BY <2>1, <2>2, AssignEnds DEF HandleReady, HandleError, clientVars
    <2>3. CASE HandleDone(w)
      <3>1. /\ proc' = proc /\ client # "closed" /\ client' # "closed"
            /\ (TryAssign(w, MarkedIdle(w)) /\ client' = client)
               \/ (state' = MarkedIdle(w) /\ toWorker' = toWorker)
        BY <2>3, DoneFacts DEF HandleDone, WaitPhases
      <3>2. CASE TryAssign(w, MarkedIdle(w)) /\ client' = client
        BY <2>1, <3>1, <3>2, AssignEnds
      <3>3. CASE state' = MarkedIdle(w)
        BY <2>1, <3>1, <3>3 DEF EndOK
      <3> QED BY <3>1, <3>2, <3>3
    <2>4. CASE HandleExit(w)
      <3>1. /\ proc[w] = "exited" /\ UNCHANGED <<proc, toWorker, client>>
            /\ \A v \in Workers \ {w} : state'[v] = state[v]
        BY <1>1, <2>4 DEF HandleExit, clientVars, workerVars
      <3> QED BY <3>1 DEF EndOK
    <2> QED BY <1>2, <2>2, <2>3, <2>4 DEF ParentStep
  <1>3. ASSUME NEW w \in Workers, Gone(w), UNCHANGED <<state, client>> PROVE EndOK'
    <2>1. /\ proc'[w] = "exited"
          /\ \A v \in Workers \ {w} : proc'[v] = proc[v] /\ toWorker'[v] = toWorker[v]
      BY <1>1, <1>3 DEF Gone, ProcPhases
    <2> QED BY <1>3, <2>1 DEF EndOK
  <1>4. ASSUME NEW w \in Workers, WorkerStep(w) \/ Crash(w) PROVE EndOK'
    <2>1. CASE WorkerInit(w)
      <3>1. /\ UNCHANGED <<state, client>> /\ proc[w] # "exited" /\ proc'[w] # "exited"
            /\ \A v \in Workers \ {w} : proc'[v] = proc[v] /\ toWorker'[v] = toWorker[v]
            /\ toWorker[w] # <<>> /\ Head(toWorker[w]).type = "init"
            /\ toWorker'[w] = Tail(toWorker[w])
        BY <1>1, <2>1 DEF WorkerInit, Take, parentVars, clientVars
      <3> QED BY <3>1, TakeEnds
    <2>2. CASE WorkerReady(w)
      <3>1. /\ UNCHANGED <<state, client, toWorker>> /\ proc[w] # "exited" /\ proc'[w] # "exited"
            /\ \A v \in Workers \ {w} : proc'[v] = proc[v]
        BY <1>1, <2>2 DEF WorkerReady, parentVars, clientVars
      <3> QED BY <3>1, TakeEnds
    <2>3. CASE WorkerJob(w)
      <3>1. /\ UNCHANGED <<state, client, proc>> /\ proc[w] # "exited"
            /\ \A v \in Workers \ {w} : toWorker'[v] = toWorker[v]
            /\ toWorker[w] # <<>> /\ Head(toWorker[w]).type = "job"
            /\ toWorker'[w] = Tail(toWorker[w])
        BY <1>1, <2>3 DEF WorkerJob, Take, parentVars, clientVars
      <3> QED BY <3>1, TakeEnds
    <2>4. CASE WorkerShutdown(w) \/ Crash(w)
      BY <2>4, <1>3 DEF WorkerShutdown, Crash, parentVars, clientVars
    <2> QED BY <1>4, <2>1, <2>2, <2>3, <2>4 DEF WorkerStep
  <1>5. CASE SubmitScan
    <2>1. proc' = proc /\ client # "closed" /\ client' # "closed"
      BY <1>5 DEF SubmitScan, workerVars
    <2>2. CASE UNCHANGED state
      BY <2>1, <2>2 DEF EndOK
    <2>3. ASSUME NEW w \in Workers, Idle(w), TryAssign(w, state), client' = client PROVE EndOK'
      BY <1>1, <2>1, <2>3, AssignEnds DEF Idle
    <2> QED BY <1>5, <2>2, <2>3 DEF SubmitScan
  <1>6. CASE WaitAll \/ WaitReturn
    <2>1. UNCHANGED <<state, proc>> /\ client' # "closed"
      BY <1>6 DEF WaitAll, WaitReturn, parentVars, workerVars
    <2> QED BY <2>1 DEF EndOK
  <1>7. ASSUME NEW jobs \in Rounds, Submit(jobs) PROVE EndOK'
    <2>1. UNCHANGED <<state, proc>> /\ client' # "closed"
      BY <1>7 DEF Submit, workerVars
    <2> QED BY <2>1 DEF EndOK
  <1>8. CASE Shutdown
    <2>1. UNCHANGED <<state, proc>>
      BY <1>8 DEF Shutdown, parentVars, workerVars
    <2>2. ASSUME NEW w \in Workers, proc[w] # "exited" PROVE Told(toWorker'[w])
      <3> DEFINE t == Append(toWorker[w], Msg("shutdown"))
      <3>1. Listening(w)
        BY <2>2 DEF EndOK, Listening
      <3>2. toWorker'[w] = t
        BY <1>8, <2>2, <3>1 DEF Shutdown
      <3>3. Len(toWorker[w]) \in Nat /\ Len(t) = Len(toWorker[w]) + 1
            /\ t[Len(toWorker[w]) + 1] = Msg("shutdown")
        BY <1>1, MsgFacts, AppendProperties, LenProperties
      <3> HIDE DEF t
      <3>4. Len(t) \in 1..Len(t) /\ t[Len(t)] = Msg("shutdown")
        BY <3>3
      <3> QED BY <3>2, <3>4 DEF Told
    <2> QED BY <2>1, <2>2 DEF EndOK
  <1>9. CASE UNCHANGED vars
    BY <1>9 DEF vars, parentVars, clientVars, workerVars, EndOK
  <1> QED BY <1>2, <1>4, <1>5, <1>6, <1>7, <1>8, <1>9 DEF Next, ClientStep

\* Shutdown forgets nobody: whatever crashed and whatever was lost, afterwards each worker
\* process is gone or has the message that ends it on its way (shutdown, handle_worker_exit).
\* With fairness this is why no worker survives.
THEOREM ShutdownSent == Spec => []ShutdownReaches
  <1>1. Init => EndOK
    <2>1. \A w \in Workers : Plain("Initializing") # Plain("Terminated")
      BY DEF Plain
    <2> QED BY <2>1 DEF Init, EndOK
  <1>2. EndOK => ShutdownReaches
    BY DEF EndOK, ShutdownReaches, Told
  <1> QED BY <1>1, <1>2, IInvInit, IInvStep, EndStep, PTL DEF Spec

-----------------------------------------------------------------------------
(* SsgDev: the inductive invariant                                         *)

\* The page of f is up to date, if f exists.
Right(f) == content[f] # Absent => output[url[f]] = content[f]

\* What the manifest says of a document that still has the content it names.
ManifestOK ==
  manifest # Absent =>
    \A f \in Files \ astray : manifest[f] = content[f] => Right(f)

\* A build has made what it has passed, and finds what it has not.
BuildOK ==
  /\ phase \in {"build", "rebuild"} => \A f \in Files \ (astray \cup todo) : Right(f)
  /\ \A f \in todo \ astray : content[f] # Absent

\* After the first build everything is up to date.
ScanOK == phase = "scan" => \A f \in Files \ astray : Right(f)

\* While the server watches, what is not up to date has an event waiting.
WatchOK == phase = "watch" => \A f \in pages \ astray : Waiting(f) \/ Right(f)

\* The server knows the documents there are, or has an event waiting, and has made a page
\* of each.
KnownOK ==
  Watching =>
    /\ \A f \in Files : Waiting(f) \/ (f \in known <=> content[f] # Absent)
    /\ \A f \in known \ (astray \cup todo) : output[url[f]] # Absent

SsgInv == SsgTypeOK /\ ManifestOK /\ BuildOK /\ ScanOK /\ WatchOK /\ KnownOK

-----------------------------------------------------------------------------
(* Events                                                                  *)

\* Handling an event leaves the others waiting.
LEMMA HandlingFacts ==
  ASSUME SsgTypeOK, NEW e, Handling(e)
  PROVE  /\ phase = "watch" /\ todo = {}
         /\ events' \in Seq(Files \cup {Json})
         /\ \A f : f # e => (Waiting(f) => Waiting(f)')
  <1>1. /\ phase = "watch" /\ events # <<>> /\ Head(events) = e /\ events' = Tail(events)
    BY DEF Handling
  <1>2. todo = {} /\ events \in Seq(Files \cup {Json})
    BY <1>1 DEF SsgTypeOK
  <1>3. /\ Head(events) = events[1] /\ events' \in Seq(Files \cup {Json})
        /\ Len(events') = Len(events) - 1 /\ Len(events) \in Nat
        /\ \A i \in 1..Len(events') : events'[i] = events[i + 1]
    BY <1>1, <1>2, HeadTailProperties, LenProperties
  <1>4. ASSUME NEW f, f # e, Waiting(f)
        PROVE  Waiting(f)'
    <2>1. PICK i \in 1..Len(events) : events[i] = f
      BY <1>4 DEF Waiting
    <2>2. i # 1
      BY <1>1, <1>3, <1>4, <2>1
    <2>3. i - 1 \in 1..Len(events') /\ events'[i - 1] = f
      BY <1>3, <2>1, <2>2
    <2> QED BY <2>3 DEF Waiting
  <1> QED BY <1>1, <1>2, <1>3, <1>4

\* A notice adds its event, if the server watches, and takes none away.
LEMMA NotifyFacts ==
  ASSUME SsgTypeOK, NEW e \in Files \cup {Json}, Notify(e)
  PROVE  /\ events' \in Seq(Files \cup {Json})
         /\ ~Watching => events' = <<>>
         /\ Watching => Waiting(e)'
         /\ \A f : Waiting(f) => Waiting(f)'
  <1>1. events \in Seq(Files \cup {Json}) /\ (~Watching => events = <<>>)
    BY DEF SsgTypeOK
  <1>2. CASE ~Watching \/ Waiting(e)
    <2>1. events' = events
      BY <1>2 DEF Notify
    <2> QED BY <1>1, <1>2, <2>1 DEF Waiting
  <1>3. CASE Watching /\ ~Waiting(e)
    <2>1. events' = Append(events, e)
      BY <1>3 DEF Notify
    <2>2. /\ events' \in Seq(Files \cup {Json})
          /\ Len(events') = Len(events) + 1 /\ Len(events) \in Nat
          /\ events'[Len(events) + 1] = e
          /\ \A i \in 1..Len(events) : events'[i] = events[i]
      BY <1>1, <2>1, AppendProperties, LenProperties
    <2>3. Waiting(e)'
      BY <2>2 DEF Waiting
    <2>4. ASSUME NEW f, Waiting(f)
          PROVE  Waiting(f)'
      <3>1. PICK i \in 1..Len(events) : events[i] = f
        BY <2>4 DEF Waiting
      <3>2. i \in 1..Len(events') /\ events'[i] = f
        BY <2>2, <3>1
      <3> QED BY <3>2 DEF Waiting
    <2> QED BY <1>3, <2>2, <2>3, <2>4
  <1> QED BY <1>2, <1>3

-----------------------------------------------------------------------------
(* The actions                                                             *)

\* Starting, with or without a build.
LEMMA StartStep ==
  ASSUME SsgInv, Skip \/ Start \/ Watch, url' = url
  PROVE  SsgInv'
  <1>1. SsgTypeOK /\ ManifestOK /\ BuildOK /\ ScanOK
    BY DEF SsgInv
  <1>2. CASE Skip
    <2>1. /\ phase' = "scan" /\ phase = "down" /\ manifest = content
          /\ UNCHANGED <<content, output, manifest, todo, pages, known, events, astray>>
      BY <1>2 DEF Skip, UpToDate
    <2>2. manifest # Absent
      BY <1>1, <2>1, SsgDevAssumption DEF SsgTypeOK, SsgDevAssumption
    <2>3. SsgTypeOK'
      BY <1>1, <2>1 DEF SsgTypeOK, Phases, Watching
    <2>4. ManifestOK' /\ BuildOK'
      BY <1>1, <2>1 DEF ManifestOK, BuildOK, Right
    <2>5. ScanOK'
      BY <1>1, <2>1, <2>2 DEF ManifestOK, ScanOK, Right
    <2>6. WatchOK' /\ KnownOK'
      BY <2>1 DEF WatchOK, KnownOK, Watching
    <2> QED BY <2>3, <2>4, <2>5, <2>6 DEF SsgInv
  <1>3. CASE Start
    <2>1. /\ phase = "down" /\ Build("build", "scan", Outdated)
          /\ UNCHANGED <<content, output, manifest, pages, known, events>>
      BY <1>3 DEF Start
    <2>2. CASE Clash
      <3>1. todo' = {} /\ phase' = "scan" /\ astray' = astray \cup Outdated
        BY <2>1, <2>2 DEF Build
      <3>2. SsgTypeOK'
        BY <1>1, <2>1, <3>1 DEF SsgTypeOK, Phases, Watching, Outdated, Existing
      <3>3. ManifestOK' /\ BuildOK'
        BY <1>1, <2>1, <3>1 DEF ManifestOK, BuildOK, Right
      <3>4. ScanOK'
        <4> SUFFICES ASSUME NEW f \in Files \ (astray \cup Outdated), content[f] # Absent
                     PROVE  output[url[f]] = content[f]
          BY <2>1, <3>1 DEF ScanOK, Right
        <4>1. manifest # Absent /\ manifest[f] = content[f]
          BY DEF Outdated, Existing
        <4> QED BY <1>1, <4>1 DEF ManifestOK, Right
      <3>5. WatchOK' /\ KnownOK'
        BY <3>1 DEF WatchOK, KnownOK, Watching
      <3> QED BY <3>2, <3>3, <3>4, <3>5 DEF SsgInv
    <2>3. CASE ~Clash
      <3>1. /\ todo' = Existing /\ astray' = astray
            /\ phase' = IF Existing = {} THEN "scan" ELSE "build"
        BY <2>1, <2>3 DEF Build
      <3>2. SsgTypeOK'
        BY <1>1, <2>1, <3>1 DEF SsgTypeOK, Phases, Watching, Existing
      <3>3. ManifestOK' /\ BuildOK' /\ ScanOK'
        BY <1>1, <2>1, <3>1 DEF ManifestOK, BuildOK, ScanOK, Right, Existing
      <3>4. WatchOK' /\ KnownOK'
        BY <3>1 DEF WatchOK, KnownOK, Watching
      <3> QED BY <3>2, <3>3, <3>4 DEF SsgInv
    <2> QED BY <2>2, <2>3
  <1>4. CASE Watch
    <2>1. /\ phase = "scan" /\ phase' = "watch" /\ pages' = Existing /\ known' = Existing
          /\ UNCHANGED <<content, output, manifest, todo, events, astray>>
      BY <1>4 DEF Watch
    <2>2. SsgTypeOK'
      BY <1>1, <2>1 DEF SsgTypeOK, Phases, Watching, Existing
    <2>3. ManifestOK' /\ BuildOK' /\ ScanOK'
      BY <1>1, <2>1 DEF ManifestOK, BuildOK, ScanOK, Right
    <2>4. Existing \subseteq Files
      BY DEF Existing
    <2>5. WatchOK'
      BY <1>1, <2>1, <2>4 DEF WatchOK, ScanOK, Right
    <2>6. KnownOK'
      BY <1>1, <2>1, <2>4 DEF KnownOK, ScanOK, Right, Existing
    <2> QED BY <2>2, <2>3, <2>5, <2>6 DEF SsgInv
  <1> QED BY <1>2, <1>3, <1>4

\* A page that is written is right, and any other of its URL is astray.
LEMMA WriteFacts ==
  ASSUME SsgTypeOK, NEW f \in Files, content[f] # Absent, Write(f), url' = url,
         content' = content
  PROVE  /\ output' \in [Urls -> Contents \cup {Absent}] /\ astray' \subseteq Files
         /\ Right(f)'
         /\ \A g \in Files \ astray' : g # f => g \notin astray /\ (Right(g) => Right(g)')
         /\ \A u \in Urls : output[u] # Absent => output'[u] # Absent
         /\ output'[url[f]] # Absent
  <1>1. /\ output' = [output EXCEPT ![url[f]] = content[f]]
        /\ astray' = (astray \ {f}) \cup SameUrl(f)
    BY DEF Write, Page
  <1>2. /\ url \in [Files -> Urls] /\ output \in [Urls -> Contents \cup {Absent}]
        /\ content \in [Files -> Contents \cup {Absent}] /\ astray \subseteq Files
        /\ SameUrl(f) \subseteq Files
    BY DEF SsgTypeOK, SameUrl, Existing
  <1>3. /\ output' \in [Urls -> Contents \cup {Absent}] /\ output'[url[f]] = content[f]
        /\ \A u \in Urls : u # url[f] => output'[u] = output[u]
    BY <1>1, <1>2
  <1>4. ASSUME NEW g \in Files \ astray', g # f
        PROVE  g \notin astray /\ (Right(g) => Right(g)')
    <2>1. g \notin astray /\ g \notin SameUrl(f)
      BY <1>1, <1>4
    <2>2. content[g] = Absent \/ url[g] # url[f]
      BY <1>4, <2>1 DEF SameUrl, Existing
    <2> QED BY <1>2, <1>3, <2>1, <2>2 DEF Right
  <1>5. Right(f)'
    BY <1>3 DEF Right
  <1> QED BY <1>1, <1>2, <1>3, <1>4, <1>5

LEMMA GenerateStep ==
  ASSUME SsgInv, NEW f \in Files, Generate(f), url' = url
  PROVE  SsgInv'
  <1>1. SsgTypeOK /\ ManifestOK /\ BuildOK /\ ScanOK /\ WatchOK /\ KnownOK
    BY DEF SsgInv
  <1>2. /\ f \in todo /\ todo' = todo \ {f}
        /\ UNCHANGED <<content, manifest, phase, pages, known, events>>
        /\ phase \in {"build", "rebuild"}
    BY <1>1 DEF Generate, SsgTypeOK
  <1>3. CASE content[f] = Absent
    <2>1. UNCHANGED <<output, astray>> /\ f \in astray
      BY <1>1, <1>2, <1>3 DEF Generate, BuildOK
    <2>2. SsgTypeOK'
      BY <1>1, <1>2, <2>1 DEF SsgTypeOK, Watching
    <2>3. ManifestOK' /\ BuildOK'
      BY <1>1, <1>2, <2>1 DEF ManifestOK, BuildOK, Right
    <2>4. ScanOK' /\ WatchOK'
      BY <1>2 DEF ScanOK, WatchOK
    <2>5. KnownOK'
      BY <1>1, <1>2, <2>1 DEF KnownOK, Watching, Waiting
    <2> QED BY <2>2, <2>3, <2>4, <2>5 DEF SsgInv
  <1>4. CASE content[f] # Absent
    <2>1. Write(f)
      BY <1>4 DEF Generate
    <2>2. /\ output' \in [Urls -> Contents \cup {Absent}] /\ astray' \subseteq Files
          /\ Right(f)'
          /\ \A g \in Files \ astray' : g # f => g \notin astray /\ (Right(g) => Right(g)')
          /\ \A u \in Urls : output[u] # Absent => output'[u] # Absent
          /\ output'[url[f]] # Absent
      BY <1>1, <1>2, <1>4, <2>1, WriteFacts
    <2>3. SsgTypeOK'
      BY <1>1, <1>2, <2>2 DEF SsgTypeOK, Watching
    <2>4. ManifestOK'
      BY <1>1, <1>2, <2>2 DEF ManifestOK
    <2>5. BuildOK'
      <3>1. \A g \in Files \ (astray' \cup todo') : Right(g)'
        BY <1>1, <1>2, <2>2 DEF BuildOK
      <3>2. \A g \in todo' \ astray' : content'[g] # Absent
        BY <1>1, <1>2, <2>2 DEF BuildOK, SsgTypeOK
      <3> QED BY <3>1, <3>2 DEF BuildOK
    <2>6. ScanOK' /\ WatchOK'
      BY <1>2 DEF ScanOK, WatchOK
    <2>7. known \subseteq Files /\ url \in [Files -> Urls]
      BY <1>1 DEF SsgTypeOK
    <2>8. KnownOK'
      <3>1. Watching' => \A g \in Files : Waiting(g)' \/ (g \in known' <=> content'[g] # Absent)
        BY <1>1, <1>2 DEF KnownOK, Watching, Waiting
      <3>2. ASSUME Watching', NEW g \in known' \ (astray' \cup todo')
            PROVE  output'[url'[g]] # Absent
        <4>1. CASE g = f
          BY <2>2, <4>1
        <4>2. CASE g # f
          <5>1. g \in known \ (astray \cup todo) /\ url[g] \in Urls /\ Watching
            BY <1>2, <2>2, <2>7, <3>2, <4>2 DEF Watching
          <5> QED BY <1>1, <2>2, <5>1 DEF KnownOK
        <4> QED BY <4>1, <4>2
      <3> QED BY <3>1, <3>2 DEF KnownOK
    <2> QED BY <2>3, <2>4, <2>5, <2>6, <2>8 DEF SsgInv
  <1> QED BY <1>3, <1>4

\* What is saved is what has been built, but for documents that are astray.
LEMMA SaveStep ==
  ASSUME SsgInv, Save, url' = url
  PROVE  SsgInv'
  <1>1. SsgTypeOK /\ BuildOK /\ KnownOK
    BY DEF SsgInv
  <1>2. /\ phase \in {"build", "rebuild"} /\ todo = {} /\ manifest' = content
        /\ phase' = IF phase = "build" THEN "scan" ELSE "watch"
        /\ UNCHANGED <<content, output, todo, pages, known, events, astray>>
    BY DEF Save
  <1>3. \A f \in Files \ astray : Right(f)
    BY <1>1, <1>2 DEF BuildOK
  <1>4. SsgTypeOK'
    BY <1>1, <1>2 DEF SsgTypeOK, Phases, Watching
  <1>5. ManifestOK' /\ BuildOK' /\ ScanOK'
    BY <1>2, <1>3 DEF ManifestOK, BuildOK, ScanOK, Right
  <1>6. WatchOK'
    BY <1>1, <1>2, <1>3 DEF WatchOK, Right, SsgTypeOK
  <1>7. KnownOK'
    BY <1>1, <1>2 DEF KnownOK, Watching, Waiting
  <1> QED BY <1>4, <1>5, <1>6, <1>7 DEF SsgInv

\* A full rebuild that handling e has started, when the server has learned what e says: if
\* the build is refused, a document that e is about is gone or due.
LEMMA RebuildStep ==
  ASSUME SsgInv, NEW e \in Files \cup {Json}, Handling(e),
         NEW due \in SUBSET Files, Build("rebuild", "watch", due),
         known' \subseteq Files,
         e \in Files => (e \in known' <=> content[e] # Absent) /\ (e \in due \/ content[e] = Absent),
         \A f \in Files \ {e} : f \in known' <=> f \in known,
         UNCHANGED <<url, content, output, manifest, pages>>
  PROVE  SsgInv'
  <1>1. SsgTypeOK /\ ManifestOK /\ BuildOK /\ WatchOK /\ KnownOK
    BY DEF SsgInv
  <1>2. /\ phase = "watch" /\ todo = {} /\ events' \in Seq(Files \cup {Json})
        /\ \A f : f # e => (Waiting(f) => Waiting(f)')
    BY <1>1, HandlingFacts
  <1>3. /\ Clash => todo' = {} /\ phase' = "watch" /\ astray' = astray \cup due
        /\ ~Clash => /\ todo' = Existing /\ astray' = astray
                     /\ phase' = IF Existing = {} THEN "watch" ELSE "rebuild"
    BY DEF Build
  <1>4. /\ astray \subseteq astray' /\ astray' \subseteq Files
        /\ phase' \in {"watch", "rebuild"}
        /\ todo' # {} => phase' = "rebuild"
    BY <1>1, <1>3 DEF SsgTypeOK
  <1>5. SsgTypeOK'
    <2>1. todo' \subseteq Files
      BY <1>3 DEF Existing
    <2>2. Watching'
      BY <1>4 DEF Watching
    <2> QED BY <1>1, <1>2, <1>4, <2>1, <2>2 DEF SsgTypeOK, Phases
  <1>6. ManifestOK'
    BY <1>1, <1>4 DEF ManifestOK, Right
  <1>7. BuildOK' /\ ScanOK'
    <2>1. phase' = "rebuild" => todo' = Existing
      BY <1>3
    <2>2. todo' \subseteq Existing
      BY <1>3
    <2> QED BY <1>4, <2>1, <2>2 DEF BuildOK, ScanOK, Right, Existing
  <1>8. pages \subseteq Files
    BY <1>1 DEF SsgTypeOK
  <1>9. WatchOK'
    <2> SUFFICES ASSUME phase' = "watch", NEW f \in pages \ astray', content[f] # Absent,
                        ~Waiting(f)'
                 PROVE  output[url[f]] = content[f]
      BY DEF WatchOK, Right
    <2>1. Clash
      BY <1>3, <1>8 DEF Existing
    <2>2. f # e
      BY <1>3, <1>8, <2>1
    <2>3. ~Waiting(f) /\ f \in pages \ astray
      BY <1>2, <1>4, <2>2
    <2> QED BY <1>1, <1>2, <2>3 DEF WatchOK, Right
  <1>10. \A f \in Files : Waiting(f)' \/ (f \in known' <=> content'[f] # Absent)
    BY <1>1, <1>2 DEF KnownOK, Watching
  <1>11. ASSUME NEW f \in known' \ (astray' \cup todo')
         PROVE  output'[url'[f]] # Absent
    <2>1. f \in Files /\ f \notin astray
      BY <1>4, <1>11
    <2>2. f # e
      BY <1>3, <1>11, <2>1 DEF Existing
    <2>3. f \in known \ (astray \cup todo)
      BY <1>2, <1>11, <2>1, <2>2
    <2> QED BY <1>1, <1>2, <2>3 DEF KnownOK, Watching
  <1>12. KnownOK'
    BY <1>10, <1>11 DEF KnownOK
  <1> QED BY <1>5, <1>6, <1>7, <1>9, <1>12 DEF SsgInv

LEMMA ListenerStep ==
  ASSUME SsgInv, (\E f \in Files : New(f) \/ Deleted(f)) \/ JsonChanged, url' = url
  PROVE  SsgInv'
  <1>1. known \subseteq Files
    BY DEF SsgInv, SsgTypeOK
  <1>2. ASSUME NEW f \in Files, New(f)
        PROVE  SsgInv'
    <2>1. /\ Handling(f) /\ Build("rebuild", "watch", {f}) /\ content[f] # Absent
          /\ known' = known \cup {f}
          /\ UNCHANGED <<content, output, manifest, pages>>
      BY <1>2 DEF New, Appeared
    <2>2. /\ known' \subseteq Files /\ (f \in known' <=> content[f] # Absent)
          /\ \A g \in Files \ {f} : g \in known' <=> g \in known
      BY <1>1, <2>1
    <2> QED BY <2>1, <2>2, RebuildStep
  <1>3. ASSUME NEW f \in Files, Deleted(f)
        PROVE  SsgInv'
    <2>1. /\ Handling(f) /\ Build("rebuild", "watch", {}) /\ content[f] = Absent
          /\ known' = known \ {f}
          /\ UNCHANGED <<content, output, manifest, pages>>
      BY <1>3 DEF Deleted, Forgotten
    <2>2. /\ known' \subseteq Files /\ (f \in known' <=> content[f] # Absent)
          /\ \A g \in Files \ {f} : g \in known' <=> g \in known
      BY <1>1, <2>1
    <2> QED BY <2>1, <2>2, RebuildStep
  <1>4. CASE JsonChanged
    <2>1. /\ Handling(Json) /\ Build("rebuild", "watch", {}) /\ known' = known
          /\ UNCHANGED <<content, output, manifest, pages>>
      BY <1>4 DEF JsonChanged
    <2>2. Json \notin Files
      BY SsgDevAssumption DEF SsgDevAssumption
    <2>3. /\ known' \subseteq Files
          /\ \A g \in Files \ {Json} : g \in known' <=> g \in known
      BY <1>1, <2>1
    <2> QED BY <2>1, <2>2, <2>3, RebuildStep
  <1> QED BY <1>2, <1>3, <1>4

\* An event that starts no full rebuild.
LEMMA ChangedStep ==
  ASSUME SsgInv, NEW f \in Files, Changed(f) \/ Ignored(f), url' = url
  PROVE  SsgInv'
  <1>1. SsgTypeOK /\ ManifestOK /\ BuildOK /\ WatchOK /\ KnownOK
    BY DEF SsgInv
  <1>2. /\ phase = "watch" /\ todo = {} /\ events' \in Seq(Files \cup {Json})
        /\ \A g : g # f => (Waiting(g) => Waiting(g)')
    BY <1>1, HandlingFacts DEF Changed, Ignored
  <1>3. /\ UNCHANGED <<content, manifest, phase, todo, pages, known>>
        /\ f \in known <=> content[f] # Absent
    BY DEF Changed, Ignored
  <1>4. pages \subseteq Files /\ known \subseteq Files /\ astray \subseteq Files
    BY <1>1 DEF SsgTypeOK
  <1>5. CASE f \in pages /\ content[f] # Absent
    <2>1. Write(f)
      BY <1>5 DEF Changed, Ignored
    <2>2. /\ output' \in [Urls -> Contents \cup {Absent}] /\ astray' \subseteq Files
          /\ Right(f)'
          /\ \A g \in Files \ astray' : g # f => g \notin astray /\ (Right(g) => Right(g)')
          /\ \A u \in Urls : output[u] # Absent => output'[u] # Absent
          /\ output'[url[f]] # Absent
      BY <1>1, <1>3, <1>5, <2>1, WriteFacts
    <2>3. SsgTypeOK'
      BY <1>1, <1>2, <1>3, <2>2 DEF SsgTypeOK, Watching
    <2>4. ManifestOK'
      BY <1>1, <1>3, <2>2 DEF ManifestOK
    <2>5. BuildOK' /\ ScanOK'
      BY <1>2, <1>3 DEF BuildOK, ScanOK
    <2>6. WatchOK'
      <3> SUFFICES ASSUME NEW g \in pages \ astray'
                   PROVE  Waiting(g)' \/ Right(g)'
        BY <1>3 DEF WatchOK
      <3>1. CASE g = f
        BY <2>2, <3>1
      <3>2. CASE g # f
        BY <1>1, <1>2, <1>4, <2>2, <3>2 DEF WatchOK
      <3> QED BY <3>1, <3>2
    <2>7. url \in [Files -> Urls]
      BY <1>1 DEF SsgTypeOK
    <2>8. KnownOK'
      <3>1. \A g \in Files : Waiting(g)' \/ (g \in known' <=> content'[g] # Absent)
        BY <1>1, <1>2, <1>3, <1>5 DEF KnownOK, Watching
      <3>2. ASSUME NEW g \in known' \ (astray' \cup todo')
            PROVE  output'[url'[g]] # Absent
        <4>1. CASE g = f
          BY <2>2, <4>1
        <4>2. CASE g # f
          <5>1. g \in known \ (astray \cup todo) /\ url[g] \in Urls /\ Watching
            BY <1>2, <1>3, <1>4, <2>2, <2>7, <3>2, <4>2 DEF Watching
          <5> QED BY <1>1, <2>2, <5>1 DEF KnownOK
        <4> QED BY <4>1, <4>2
      <3> QED BY <3>1, <3>2 DEF KnownOK
    <2> QED BY <2>3, <2>4, <2>5, <2>6, <2>8 DEF SsgInv
  <1>6. CASE f \notin pages \/ content[f] = Absent
    <2>1. UNCHANGED <<output, astray>>
      BY <1>6 DEF Changed, Ignored
    <2>2. SsgTypeOK'
      BY <1>1, <1>2, <1>3, <2>1 DEF SsgTypeOK, Watching
    <2>3. ManifestOK' /\ BuildOK' /\ ScanOK'
      BY <1>1, <1>2, <1>3, <2>1 DEF ManifestOK, BuildOK, ScanOK, Right
    <2>4. WatchOK'
      BY <1>1, <1>2, <1>3, <1>6, <2>1 DEF WatchOK, Right
    <2>5. KnownOK'
      BY <1>1, <1>2, <1>3, <2>1 DEF KnownOK, Watching
    <2> QED BY <2>2, <2>3, <2>4, <2>5 DEF SsgInv
  <1> QED BY <1>5, <1>6

LEMMA EditStep ==
  ASSUME SsgInv, NEW f \in Files, NEW c \in Contents \cup {Absent}, Edit(f, c), url' = url
  PROVE  SsgInv'
  <1>1. SsgTypeOK /\ ManifestOK /\ BuildOK /\ ScanOK /\ WatchOK /\ KnownOK
    BY DEF SsgInv
  <1>2. /\ content' = [content EXCEPT ![f] = c] /\ Notify(f)
        /\ astray' = IF Building \/ (manifest # Absent /\ manifest[f] = c)
                     THEN astray \cup {f} ELSE astray
        /\ UNCHANGED <<output, manifest, phase, todo, pages, known>>
    BY DEF Edit
  <1>3. /\ events' \in Seq(Files \cup {Json})
        /\ ~Watching => events' = <<>>
        /\ Watching => Waiting(f)'
        /\ \A g : Waiting(g) => Waiting(g)'
    BY <1>1, <1>2, NotifyFacts
  <1>4. /\ content'[f] = c /\ \A g \in Files \ {f} : content'[g] = content[g]
    BY <1>1, <1>2 DEF SsgTypeOK
  <1>5. /\ astray \subseteq astray' /\ astray' \subseteq Files
        /\ Building => f \in astray'
        /\ manifest # Absent /\ manifest[f] = c => f \in astray'
    BY <1>1, <1>2 DEF SsgTypeOK
  <1>6. pages \subseteq Files /\ known \subseteq Files /\ todo \subseteq Files
        /\ (todo # {} => Building)
    BY <1>1 DEF SsgTypeOK, Building
  <1>7. SsgTypeOK'
    BY <1>1, <1>2, <1>3, <1>5 DEF SsgTypeOK, Watching
  <1>8. ManifestOK'
    BY <1>1, <1>2, <1>4, <1>5 DEF ManifestOK, Right
  <1>9. BuildOK'
    BY <1>1, <1>2, <1>4, <1>5, <1>6 DEF BuildOK, Right, Building
  <1>10. ScanOK'
    BY <1>1, <1>2, <1>4, <1>5 DEF ScanOK, Right, Building
  <1>11. WatchOK'
    BY <1>1, <1>2, <1>3, <1>4, <1>5, <1>6 DEF WatchOK, Right, Watching
  <1>12. KnownOK'
    BY <1>1, <1>2, <1>3, <1>4, <1>5, <1>6 DEF KnownOK, Watching
  <1> QED BY <1>7, <1>8, <1>9, <1>10, <1>11, <1>12 DEF SsgInv

LEMMA EditJsonStep ==
  ASSUME SsgInv, EditJson, url' = url
  PROVE  SsgInv'
  <1>1. SsgTypeOK /\ ManifestOK /\ BuildOK /\ ScanOK /\ WatchOK /\ KnownOK
    BY DEF SsgInv
  <1>2. /\ Watching /\ Notify(Json)
        /\ UNCHANGED <<content, output, manifest, phase, todo, pages, known, astray>>
    BY DEF EditJson
  <1>3. /\ events' \in Seq(Files \cup {Json})
        /\ \A g : Waiting(g) => Waiting(g)'
    BY <1>1, <1>2, NotifyFacts
  <1>4. SsgTypeOK'
    BY <1>1, <1>2, <1>3 DEF SsgTypeOK, Watching
  <1>5. ManifestOK' /\ BuildOK' /\ ScanOK'
    BY <1>1, <1>2 DEF ManifestOK, BuildOK, ScanOK, Right
  <1>6. WatchOK' /\ KnownOK'
    BY <1>1, <1>2, <1>3 DEF WatchOK, KnownOK, Right, Watching
  <1> QED BY <1>4, <1>5, <1>6 DEF SsgInv

LEMMA StopStep ==
  ASSUME SsgInv, Stop, url' = url
  PROVE  SsgInv'
  <1>1. SsgTypeOK /\ ManifestOK
    BY DEF SsgInv
  <1>2. /\ phase' = "down" /\ todo' = {} /\ pages' = {} /\ known' = {} /\ events' = <<>>
        /\ UNCHANGED <<content, output, manifest, astray>>
    BY DEF Stop
  <1>3. <<>> \in Seq(Files \cup {Json})
    BY EmptySeq
  <1>4. SsgTypeOK'
    BY <1>1, <1>2, <1>3 DEF SsgTypeOK, Phases, Watching
  <1>5. ManifestOK'
    BY <1>1, <1>2 DEF ManifestOK, Right
  <1>6. BuildOK' /\ ScanOK' /\ WatchOK' /\ KnownOK'
    BY <1>2 DEF BuildOK, ScanOK, WatchOK, KnownOK, Watching
  <1> QED BY <1>4, <1>5, <1>6 DEF SsgInv

-----------------------------------------------------------------------------
(* The theorems                                                            *)

LEMMA Beginning ==
  ASSUME SsgInit
  PROVE  SsgInv
  <1>1. <<>> \in Seq(Files \cup {Json})
    BY EmptySeq
  <1>2. SsgTypeOK
    BY <1>1 DEF SsgInit, SsgTypeOK, Phases, Watching
  <1>3. ManifestOK /\ BuildOK /\ ScanOK /\ WatchOK /\ KnownOK
    BY DEF SsgInit, ManifestOK, BuildOK, ScanOK, WatchOK, KnownOK, Watching
  <1> QED BY <1>2, <1>3 DEF SsgInv

\* The invariant of the development server: what its manifest, its lists and its events
\* say of the pages in each phase.
THEOREM SsgInvariance == SsgSpec => []SsgInv
  <1>1. SsgInit => SsgInv
    BY Beginning
  <1>2. SsgInv /\ [SsgNext]_ssgVars => SsgInv'
    <2> SUFFICES ASSUME SsgInv, [SsgNext]_ssgVars PROVE SsgInv'
      OBVIOUS
    <2>1. CASE (Skip \/ Start \/ Watch) /\ url' = url
      BY <2>1, StartStep
    <2>2. CASE (\E f \in Files : Generate(f)) /\ url' = url
      BY <2>2, GenerateStep
    <2>3. CASE Save /\ url' = url
      BY <2>3, SaveStep
    <2>4. CASE ((\E f \in Files : New(f) \/ Deleted(f)) \/ JsonChanged) /\ url' = url
      BY <2>4, ListenerStep
    <2>5. CASE (\E f \in Files : Changed(f) \/ Ignored(f)) /\ url' = url
      BY <2>5, ChangedStep
    <2>6. CASE (\E f \in Files, c \in Contents \cup {Absent} : Edit(f, c)) /\ url' = url
      BY <2>6, EditStep
    <2>7. CASE EditJson /\ url' = url
      BY <2>7, EditJsonStep
    <2>8. CASE Stop /\ url' = url
      BY <2>8, StopStep
    <2>9. CASE UNCHANGED ssgVars
      BY <2>9 DEF ssgVars, SsgInv, SsgTypeOK, ManifestOK, BuildOK, ScanOK, WatchOK, KnownOK, Right,
                  Waiting, Watching
    <2> QED BY <2>1, <2>2, <2>3, <2>4, <2>5, <2>6, <2>7, <2>8, <2>9 DEF SsgNext
  <1> QED BY <1>1, <1>2, PTL DEF SsgSpec

\* Every variable keeps its type, and only a watching server has events waiting.
THEOREM SsgTypeCorrect == SsgSpec => []SsgTypeOK
  <1>1. SsgInv => SsgTypeOK
    BY DEF SsgInv
  <1> QED BY <1>1, SsgInvariance, PTL

\* Nothing waits when the server is quiet.
LEMMA QuietFacts ==
  ASSUME Quiet
  PROVE  phase = "watch" /\ Watching /\ \A f : ~Waiting(f)
  <1>1. phase = "watch" /\ Len(events) = 0
    BY EmptySeq DEF Quiet
  <1> QED BY <1>1 DEF Watching, Waiting

\* With all events handled, the pages of the documents found at the start are up to date,
\* except for documents that have gone astray in one of the ways Served names.
THEOREM PagesServed == SsgSpec => []Served
  <1>1. SsgInv => Served
    <2> SUFFICES ASSUME SsgInv, Quiet, NEW f \in pages \ astray, content[f] # Absent
                 PROVE  output[url[f]] = content[f]
      BY DEF Served
    <2>1. WatchOK /\ phase = "watch" /\ ~Waiting(f)
      BY QuietFacts DEF SsgInv
    <2> QED BY <2>1 DEF WatchOK, Right
  <1> QED BY <1>1, SsgInvariance, PTL

\* Each document created since has a page, with the same exceptions.
THEOREM PagesAppear == SsgSpec => []Appears
  <1>1. SsgInv => Appears
    <2> SUFFICES ASSUME SsgInv, Quiet, NEW f \in known \ astray
                 PROVE  output[url[f]] # Absent
      BY DEF Appears
    <2>1. KnownOK /\ Watching /\ todo = {}
      BY QuietFacts DEF SsgInv, SsgTypeOK
    <2> QED BY <2>1 DEF KnownOK
  <1> QED BY <1>1, SsgInvariance, PTL

\* known_pages are the documents there are, but for events that are waiting.
THEOREM KnownPagesRight == SsgSpec => []KnownRight
  <1>1. SsgInv => KnownRight
    BY DEF SsgInv, KnownOK, KnownRight, Watching
  <1> QED BY <1>1, SsgInvariance, PTL
=============================================================================
