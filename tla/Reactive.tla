------------------------------ MODULE Reactive ------------------------------
(***************************************************************************)
(* The propagation engine of src/luna/signal: signals, memos, effects,     *)
(* batches and the deferred first run of an effect.                        *)
(*                                                                         *)
(* The engine is synchronous and re-entrant: a write runs subscribers,     *)
(* whose bodies write again, while the loops that called them are still    *)
(* half way.  The call stack is therefore explicit (variable stack), one   *)
(* frame per function activation that can be interrupted by user code:     *)
(*   first    run_effect called by render_effect, the creating call        *)
(*   body     run_effect called because something the effect read changed  *)
(*   compute  the compute function of a memo                               *)
(*   untrack  untracked(f)                                                 *)
(*   batch    batch(f), between batch_start and batch_end                  *)
(*   notify   the subscriber loop of Signal::notify or of mark_dirty       *)
(*   flush    the loop of flush_effects                                    *)
(* User code is an event handler, on an empty stack, or the function under *)
(* a first, body, compute, untrack or batch frame.  It may do, in any      *)
(* order and as often as it likes, the operations the program gives it;    *)
(* the function of a memo only reads, which is its contract.               *)
(* Values are abstracted: a write changes the signal, and the history      *)
(* variable outdated holds the computations whose last run read something  *)
(* that has changed since.  The cleanup functions of an effect, which      *)
(* run_effect and dispose also run, are not modelled here.                 *)
(* An operator named ...Fault is what a plausible bug would make of the    *)
(* operator after it; no action uses it.                                   *)
(***************************************************************************)
EXTENDS Naturals, Sequences

CONSTANTS
  Signals,        \* identities of signals
  Memos,          \* identities of memos
  Effects,        \* identities of effects
  OnceEffects,    \* the effects created by effect_once
  None,           \* no subscriber
  Programs,       \* the user code: what each function may do
  MaxWrites,      \* bound: number of writes in a behaviour
  MaxBatchDepth   \* bound: nesting of batches

Computations == Effects \cup Memos
Sources == Signals \cup Memos

\* What the function of each computation, and the event handlers (None), may read,
\* write, and create or dispose.
Program == [reads : [Computations \cup {None} -> SUBSET Sources],
            writes : [Effects \cup {None} -> SUBSET Signals],
            manages : [Effects \cup {None} -> SUBSET Effects]]

ASSUME ReactiveAssumption ==
  /\ Signals \cap Memos = {} /\ Signals \cap Effects = {} /\ Memos \cap Effects = {}
  /\ None \notin Signals \cup Memos \cup Effects
  /\ OnceEffects \subseteq Effects
  /\ Programs \subseteq Program
  /\ MaxWrites \in Nat
  /\ MaxBatchDepth \in Nat

\* The function of a memo reads memos that were there when it was written, so that among
\* any memos there is one that reads none of them.
ASSUME AcyclicAssumption ==
  \A p \in Programs, M \in SUBSET Memos : M # {} => \E m \in M : p.reads[m] \cap M = {}

VARIABLES
  program,     \* the user code, fixed
  subs,        \* subscribers of each signal and memo, in subscription order
  dirty,       \* MemoState.dirty
  status,      \* life of each effect: absent, creating, live, disposed
  subscriber,  \* reactive_context.current_subscriber
  batchDepth,  \* reactive_context.batch_depth
  pending,     \* reactive_context.pending_effects / pending_ids (always equal)
  microtasks,  \* effects whose first run was queued by queue_microtask
  stack,       \* the call stack, innermost frame last
  writes,      \* history: writes so far, for MaxWrites
  sources,     \* history: signals the last run of a computation derives from
  outdated,    \* history: computations whose last run read what changed since
  ran,         \* history: runs of each effect in the outermost flush, counted up to 2
  rewrote      \* history: an effect has written a signal in that flush

vars == <<program, subs, dirty, status, subscriber, batchDepth, pending, microtasks,
          stack, writes, sources, outdated, ran, rewrote>>
history == <<writes, sources, outdated, ran, rewrote>>

-----------------------------------------------------------------------------
(* Frames and the context they imply.                                      *)

FrameKinds == {"first", "body", "compute", "untrack", "batch", "notify", "flush"}

\* of: the effect, memo or notified source; at, last: the loop of a notify frame
\* (the array's length is read once, before the loop); prev: the subscriber in force
\* before the call, which some frames restore; depth: history, batch_depth under it.
Frame == [kind : FrameKinds, of : Sources \cup Effects \cup {None},
          at : Nat, last : Nat, prev : Computations \cup {None}, depth : Nat]

Call(kind, x) == [kind |-> kind, of |-> x, at |-> 1, last |-> 0, prev |-> subscriber,
                  depth |-> IF kind = "batch" THEN batchDepth + 1 ELSE batchDepth]
NotifyCallFault(y) == [Call("notify", y) EXCEPT !.last = Len(subs[y]) - 1]
NotifyCall(y) == [Call("notify", y) EXCEPT !.last = Len(subs[y])]

Top == stack[Len(stack)]
Running(kinds) == stack # <<>> /\ Top.kind \in kinds
Popped == SubSeq(stack, 1, Len(stack) - 1)

\* The computation whose function is being executed; None for an event handler.
Authors == {i \in DOMAIN stack : stack[i].kind \in {"first", "body", "compute"}}
Author == IF Authors = {} THEN None
          ELSE stack[CHOOSE i \in Authors : \A j \in Authors : j <= i].of

\* User code is in control, and its program lets it read y, write s, manage e.
InUserCode ==
  stack = <<>> \/ Running({"first", "body", "compute", "untrack", "batch"})
InMemo == Author \in Memos
MayRead(y) == InUserCode /\ y \in program.reads[Author]
MayWrite(s) == InUserCode /\ ~InMemo /\ s \in program.writes[Author]
MayManage(e) == InUserCode /\ ~InMemo /\ e \in program.manages[Author]

Flushing == \E i \in DOMAIN stack : stack[i].kind = "flush"
QueuedFault(x) == FALSE
Queued(x) == \E i \in DOMAIN pending : pending[i] = x
Subscribed(x, y) == \E i \in DOMAIN subs[y] : subs[y][i] = x
ActiveFault(e) == status[e] # "absent"
Active(e) == status[e] \in {"creating", "live"}

-----------------------------------------------------------------------------
Init ==
  /\ program \in Programs
  /\ subs = [y \in Sources |-> <<>>]
  /\ dirty = [m \in Memos |-> TRUE]
  /\ status = [e \in Effects |-> "absent"]
  /\ subscriber = None
  /\ batchDepth = 0
  /\ pending = <<>>
  /\ microtasks = <<>>
  /\ stack = <<>>
  /\ writes = 0
  /\ sources = [x \in Computations |-> {}]
  /\ outdated = {}
  /\ ran = [e \in Effects |-> 0]
  /\ rewrote = FALSE

-----------------------------------------------------------------------------
(* Running a subscriber; calls is the stack left below the new frame.      *)

\* A computation starts over: what it read before no longer counts.
Restart(x) ==
  /\ sources' = [sources EXCEPT ![x] = {}]
  /\ outdated' = outdated \ {x}

CountRun(e) ==
  ran' = IF Flushing /\ ran[e] < 2 THEN [ran EXCEPT ![e] = @ + 1] ELSE ran

\* run_effect does nothing once the effect is disposed.
RunEffect(e, calls) ==
  \/ /\ Active(e)
     /\ stack' = Append(calls, Call("body", e))
     /\ subscriber' = e
     /\ Restart(e)
     /\ CountRun(e)
  \/ /\ ~Active(e)
     /\ stack' = calls
     /\ UNCHANGED <<subscriber, sources, outdated, ran>>

\* mark_dirty passes on only the first mark since the last computation.
MarkDirty(m, calls) ==
  \/ /\ ~dirty[m]
     /\ dirty' = [dirty EXCEPT ![m] = TRUE]
     /\ stack' = Append(calls, NotifyCall(m))
  \/ /\ dirty[m]
     /\ stack' = calls
     /\ UNCHANGED dirty

Run(x, calls) ==
  \/ x \in Effects /\ RunEffect(x, calls) /\ UNCHANGED dirty
  \/ x \in Memos /\ MarkDirty(x, calls) /\ UNCHANGED <<subscriber, sources, outdated, ran>>

BatchingFault == batchDepth > 1
Batching == batchDepth > 0

\* schedule_effect: queue it once inside a batch, run it now outside.
Schedule(x, calls) ==
  \/ /\ Batching
     /\ pending' = IF Queued(x) THEN pending ELSE Append(pending, x)
     /\ stack' = calls
     /\ UNCHANGED <<dirty, subscriber, sources, outdated, ran>>
  \/ /\ ~Batching
     /\ Run(x, calls)
     /\ UNCHANGED pending

-----------------------------------------------------------------------------
(* Reads                                                                   *)

TrackFault(y) ==
  subs' = IF Subscribed(subscriber, y) THEN subs
          ELSE [subs EXCEPT ![y] = Append(@, subscriber)]
\* The subscriber in force is appended to the subscribers of y unless it is there.
Track(y) ==
  subs' = IF subscriber = None \/ Subscribed(subscriber, y) THEN subs
          ELSE [subs EXCEPT ![y] = Append(@, subscriber)]

\* Signal::get
Get(s) ==
  /\ MayRead(s)
  /\ Track(s)
  /\ sources' = IF subscriber = None THEN sources
                ELSE [sources EXCEPT ![subscriber] = @ \cup {s}]
  /\ UNCHANGED <<program, dirty, status, subscriber, batchDepth, pending, microtasks,
                 stack, writes, outdated, ran, rewrote>>

\* Computation c has used the value of memo m.
Absorb(c, m) ==
  IF c = None THEN UNCHANGED <<sources, outdated>>
  ELSE /\ sources' = [sources EXCEPT ![c] = @ \cup sources[m]]
       /\ outdated' = IF m \in outdated THEN outdated \cup {c} ELSE outdated

\* The getter of a memo that is clean.
GetCached(m) ==
  /\ MayRead(m)
  /\ ~dirty[m]
  /\ Track(m)
  /\ Absorb(subscriber, m)
  /\ UNCHANGED <<program, dirty, status, subscriber, batchDepth, pending, microtasks,
                 stack, writes, ran, rewrote>>

\* The getter of a dirty memo up to the call of its function ...
GetDirty(m) ==
  /\ MayRead(m)
  /\ dirty[m]
  /\ Track(m)
  /\ stack' = Append(stack, Call("compute", m))
  /\ subscriber' = m
  /\ Restart(m)
  /\ UNCHANGED <<program, dirty, status, batchDepth, pending, microtasks,
                 writes, ran, rewrote>>

\* ... and from the return of that function on.
ComputeReturn ==
  /\ Running({"compute"})
  /\ dirty' = [dirty EXCEPT ![Top.of] = FALSE]
  /\ stack' = Popped
  /\ subscriber' = Top.prev
  /\ Absorb(Top.prev, Top.of)
  /\ UNCHANGED <<program, subs, status, batchDepth, pending, microtasks,
                 writes, ran, rewrote>>

\* untracked(f), on_mount(f)
Untracked ==
  /\ Running({"first", "body"})
  /\ stack' = Append(stack, Call("untrack", None))
  /\ subscriber' = None
  /\ UNCHANGED <<program, subs, dirty, status, batchDepth, pending, microtasks,
                 history>>

UntrackedReturn ==
  /\ Running({"untrack"})
  /\ stack' = Popped
  /\ subscriber' = Top.prev
  /\ UNCHANGED <<program, subs, dirty, status, batchDepth, pending, microtasks,
                 history>>

-----------------------------------------------------------------------------
(* Writes and notification                                                 *)

\* Signal::set and Signal::update up to the subscriber loop of notify.
Set(s) ==
  /\ MayWrite(s)
  /\ writes < MaxWrites
  /\ writes' = writes + 1
  /\ outdated' = outdated \cup {x \in Computations : s \in sources[x]}
  /\ rewrote' = (rewrote \/ Flushing)
  /\ stack' = Append(stack, NotifyCall(s))
  /\ UNCHANGED <<program, subs, dirty, status, subscriber, batchDepth, pending,
                 microtasks, sources, ran>>

\* One iteration of the subscriber loop, on the array as it is now.
NotifyNext ==
  /\ Running({"notify"})
  /\ Top.at <= Top.last
  /\ Schedule(subs[Top.of][Top.at], [stack EXCEPT ![Len(stack)].at = @ + 1])
  /\ UNCHANGED <<program, subs, status, batchDepth, microtasks, writes, rewrote>>

NotifyReturn ==
  /\ Running({"notify"})
  /\ Top.at > Top.last
  /\ stack' = Popped
  /\ UNCHANGED <<program, subs, dirty, status, subscriber, batchDepth, pending,
                 microtasks, history>>

-----------------------------------------------------------------------------
(* Batches                                                                 *)

\* batch_start
BatchStart ==
  /\ InUserCode /\ ~InMemo
  /\ batchDepth < MaxBatchDepth
  /\ batchDepth' = batchDepth + 1
  /\ stack' = Append(stack, Call("batch", None))
  /\ UNCHANGED <<program, subs, dirty, status, subscriber, pending, microtasks, history>>

OutermostFault(depth) == depth < 0
Outermost(depth) == depth = 0

\* batch_end: the outermost one goes on as flush_effects.
BatchEnd ==
  /\ Running({"batch"})
  /\ batchDepth' = batchDepth - 1
  /\ stack' = IF Outermost(batchDepth')
              THEN Append(Popped, [Call("flush", None) EXCEPT !.depth = 0]) ELSE Popped
  /\ UNCHANGED <<program, subs, dirty, status, subscriber, pending, microtasks, history>>

\* One iteration of flush_effects: the oldest entry leaves both queues, then runs.
FlushNext ==
  /\ Running({"flush"})
  /\ pending # <<>>
  /\ pending' = Tail(pending)
  /\ Run(Head(pending), stack)
  /\ UNCHANGED <<program, subs, status, batchDepth, microtasks, writes, rewrote>>

\* The history of a flush ends with the outermost one.
FlushReturn ==
  /\ Running({"flush"})
  /\ pending = <<>>
  /\ stack' = Popped
  /\ IF \E i \in DOMAIN Popped : stack[i].kind = "flush"
     THEN UNCHANGED <<ran, rewrote>>
     ELSE ran' = [e \in Effects |-> 0] /\ rewrote' = FALSE
  /\ UNCHANGED <<program, subs, dirty, status, subscriber, batchDepth, pending,
                 microtasks, writes, sources, outdated>>

-----------------------------------------------------------------------------
(* The life of an effect                                                   *)

\* render_effect, and effect_once for OnceEffects: the first run is synchronous, and
\* the caller has the dispose function only when it is over.
RenderEffect(e) ==
  /\ MayManage(e)
  /\ status[e] = "absent"
  /\ status' = [status EXCEPT ![e] = "creating"]
  /\ stack' = Append(stack, Call("first", e))
  /\ subscriber' = e
  /\ CountRun(e)
  /\ UNCHANGED <<program, subs, dirty, batchDepth, pending, microtasks,
                 writes, sources, outdated, rewrote>>

FirstReturn ==
  /\ Running({"first"})
  /\ status' = [status EXCEPT ![Top.of] = "live"]
  /\ stack' = Popped
  /\ subscriber' = Top.prev
  /\ UNCHANGED <<program, subs, dirty, batchDepth, pending, microtasks, history>>

\* The function given to render_effect by effect_once ends by calling the dispose
\* function, which it only finds once render_effect has returned.
BodyReturn ==
  /\ Running({"body"})
  /\ status' = IF Top.of \in OnceEffects /\ status[Top.of] = "live"
               THEN [status EXCEPT ![Top.of] = "disposed"] ELSE status
  /\ stack' = Popped
  /\ subscriber' = Top.prev
  /\ UNCHANGED <<program, subs, dirty, batchDepth, pending, microtasks, history>>

\* effect: the first run waits for a microtask.
DeferEffect(e) ==
  /\ MayManage(e)
  /\ e \notin OnceEffects
  /\ status[e] = "absent"
  /\ status' = [status EXCEPT ![e] = "live"]
  /\ microtasks' = Append(microtasks, e)
  /\ UNCHANGED <<program, subs, dirty, subscriber, batchDepth, pending, stack, history>>

\* The event loop runs a microtask when the call stack is empty.
Microtask ==
  /\ stack = <<>>
  /\ microtasks # <<>>
  /\ microtasks' = Tail(microtasks)
  /\ RunEffect(Head(microtasks), stack)
  /\ UNCHANGED <<program, subs, dirty, status, batchDepth, pending, writes, rewrote>>

\* The dispose function of an effect: it is deactivated, but neither unsubscribed nor
\* taken out of the queues.
Dispose(e) ==
  /\ MayManage(e)
  /\ e \notin OnceEffects
  /\ status[e] = "live"
  /\ status' = [status EXCEPT ![e] = "disposed"]
  /\ UNCHANGED <<program, subs, dirty, subscriber, batchDepth, pending, microtasks,
                 stack, history>>

-----------------------------------------------------------------------------
\* A step user code decides on.
UserStep ==
  \/ \E s \in Signals : Get(s) \/ Set(s)
  \/ \E m \in Memos : GetCached(m) \/ GetDirty(m)
  \/ \E e \in Effects : RenderEffect(e) \/ DeferEffect(e) \/ Dispose(e)
  \/ BatchStart
  \/ Untracked

\* A step of the engine, or the return of user code to it.
EngineStep ==
  \/ NotifyNext \/ NotifyReturn
  \/ FlushNext \/ FlushReturn
  \/ BatchEnd
  \/ ComputeReturn \/ UntrackedReturn \/ FirstReturn \/ BodyReturn
  \/ Microtask

Next == UserStep \/ EngineStep

Spec == Init /\ [][Next]_vars
-----------------------------------------------------------------------------
(* Properties                                                              *)

\* The type of every variable; in particular only effects and memos are ever
\* subscribed, queued or installed as the current subscriber.
TypeOK ==
  /\ program \in Programs
  /\ subs \in [Sources -> Seq(Computations)]
  /\ dirty \in [Memos -> BOOLEAN]
  /\ status \in [Effects -> {"absent", "creating", "live", "disposed"}]
  /\ subscriber \in Computations \cup {None}
  /\ batchDepth \in Nat
  /\ pending \in Seq(Computations)
  /\ microtasks \in Seq(Effects)
  /\ stack \in Seq(Frame)
  /\ writes \in 0..MaxWrites
  /\ sources \in [Computations -> SUBSET Signals]
  /\ outdated \subseteq Computations
  /\ ran \in [Effects -> 0..2]
  /\ rewrote \in BOOLEAN

\* The context is restored: once no call of the library is in progress, whatever
\* calls, nested runs and batches there were, reads are untracked, no batch is open and
\* no effect is left in the queue (batch_end, flush_effects, run_with_subscriber).
Drained ==
  stack = <<>> => subscriber = None /\ batchDepth = 0 /\ pending = <<>>

\* No write inside a batch, at any nesting and from any body or loop that is still
\* running, makes an effect rerun before the outermost batch ends (schedule_effect).
NoRerunInBatch ==
  \A i \in DOMAIN stack : stack[i].kind = "body" => stack[i].depth = 0

\* Nothing stale survives a propagation: when control is back with the event loop,
\* every active effect has run since anything its last run used was written, through
\* whatever memos, and a memo that would answer from its cache answers the current
\* value (notify, mark_dirty, the memo getter and flush_effects together).
Settled ==
  stack = <<>> =>
    /\ \A e \in Effects : Active(e) => e \notin outdated
    /\ \A m \in Memos : ~dirty[m] => m \notin outdated

\* A disposed effect stays disposed, and its function is never called again, though
\* the signals it read, a loop over their subscribers, the queue of a batch and the
\* microtask queue may all still hold it (run_effect and the dispose function).
DisposedNeverRuns ==
  [][\A e \in Effects : status[e] = "disposed" =>
       /\ status'[e] = "disposed"
       /\ Len(stack') > Len(stack) => stack'[Len(stack')].of # e]_vars

\* An effect that reads no memo runs at most once in the flush that ends a batch,
\* unless an effect of that flush writes a signal (is_pending and flush_effects).
RunOncePerFlush ==
  ~rewrote =>
    \A e \in Effects : (\A m \in Memos : ~Subscribed(e, m)) => ran[e] <= 1
=============================================================================
