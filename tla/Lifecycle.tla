----------------------------- MODULE Lifecycle ------------------------------
(***************************************************************************)
(* Owners, effects and cleanup functions of src/luna/signal: which scope a *)
(* cleanup or an effect is registered with, and how disposal walks the     *)
(* tree of scopes.                                                         *)
(*                                                                         *)
(* As in Reactive the call stack is explicit, because disposal calls user  *)
(* code while it walks the arrays that this code may change:               *)
(*   root       the function of create_root, under run_with_owner          *)
(*   enter      run_with_owner or with_parent_owner on a captured owner    *)
(*   first, run the function of an effect, in the creating call or later   *)
(*   clean      run_cleanups, from run_effect before the function          *)
(*   wipe       run_cleanups, from the dispose function of an effect       *)
(*   children, disposers, cleanups   the three loops of Owner::dispose     *)
(*   call       a cleanup function                                         *)
(* Signals are abstracted: user code that writes what an effect reads is   *)
(* user code that makes the effect rerun (module Reactive says when).      *)
(* An operator named ...Fault is what a plausible bug would make of the    *)
(* operator after it; no action uses it.                                   *)
(***************************************************************************)
EXTENDS Integers, Sequences

CONSTANTS
  Owners, Effects,
  Cleanups,     \* the functions given to on_cleanup and register_owner_cleanup
  None,         \* no owner, no effect, or the code of an event handler
  Programs,     \* the user code: what each function may do
  MaxReruns,    \* bound: writes that make an effect rerun
  MaxDepth      \* bound: depth of the stack at which user code only returns

Scopes == Owners \cup Effects
Things == Scopes \cup Cleanups

\* What the function of each root, effect and cleanup, and the event handlers (None),
\* may create or register, dispose, rerun by a write, and enter as captured owners.
Program == [creates : [Things \cup {None} -> SUBSET Things],
            disposes : [Things \cup {None} -> SUBSET Scopes],
            reruns : [Things \cup {None} -> SUBSET Effects],
            enters : [Things \cup {None} -> SUBSET Owners]]

ASSUME LifecycleAssumption ==
  /\ Owners \cap Effects = {} /\ Owners \cap Cleanups = {} /\ Effects \cap Cleanups = {}
  /\ None \notin Things
  /\ Programs \subseteq Program
  /\ MaxReruns \in Nat /\ MaxDepth \in Nat

VARIABLES
  program,    \* the user code, fixed
  life,       \* of each scope: absent, creating (an effect in its first run), live,
              \* disposed (Owner.disposed, or EffectState.active false)
  parent,     \* Owner.parent; of an effect, the owner in force when it was created
  children,   \* Owner.children
  disposers,  \* Owner.disposers, as the effects they dispose
  cleanups,   \* Owner.cleanups and EffectState.cleanups
  owner,      \* reactive_context.current_owner
  tracking,   \* the effect whose cleanups are reactive_context.current_cleanups
  microtasks, \* effects whose first run was queued by queue_microtask
  stack,      \* the call stack, innermost frame last
  panicked,   \* an array was indexed past its end
  reruns,     \* history: reruns so far, for MaxReruns
  home,       \* history: the scope whose function created or registered each thing
  ran         \* history: calls of each cleanup, counted up to 2

vars == <<program, life, parent, children, disposers, cleanups, owner, tracking,
          microtasks, stack, panicked, reruns, home, ran>>
tree == <<parent, children, disposers>>
history == <<reruns, home, ran>>

-----------------------------------------------------------------------------
(* The stack                                                               *)

UserKinds == {"root", "enter", "first", "run", "call"}
Frame == [kind : UserKinds \cup {"clean", "wipe", "children", "disposers", "cleanups"},
          of : Things, at : Nat, prev : Scopes \cup {None}]

\* at: the number of elements a loop has still to visit, from the last to the first.
Call(kind, x, at, prev) == [kind |-> kind, of |-> x, at |-> at, prev |-> prev]
Push(f) == stack' = Append(stack, f)

Top == stack[Len(stack)]
\* After a panic nothing runs.
Running(kinds) == ~panicked /\ stack # <<>> /\ Top.kind \in kinds
Popped == SubSeq(stack, 1, Len(stack) - 1)
SteppedFault == [stack EXCEPT ![Len(stack)].at = @ - 2]
Stepped == [stack EXCEPT ![Len(stack)].at = @ - 1]

\* What the innermost frame of these kinds is about.
LastOf(kinds, i) ==
  stack[i].kind \in kinds /\ \A j \in i+1..Len(stack) : stack[j].kind \notin kinds
Innermost(kinds) ==
  IF \E i \in DOMAIN stack : LastOf(kinds, i)
  THEN stack[CHOOSE i \in DOMAIN stack : LastOf(kinds, i)].of ELSE None

\* Code run with a captured owner is written in the function that captured it.
Author == Innermost(UserKinds \ {"enter"})
Home == Innermost({"root", "enter", "first", "run"})

InUserCode ==
  (stack = <<>> \/ Running(UserKinds)) /\ Len(stack) < MaxDepth
MayCreate(x) == InUserCode /\ x \in program.creates[Author]
MayDispose(x) == InUserCode /\ x \in program.disposes[Author]
MayRerun(e) == InUserCode /\ e \in program.reruns[Author]
MayEnter(o) == InUserCode /\ o \in program.enters[Author]

ActiveFault(e) == life[e] # "absent"
Active(e) == life[e] \in {"creating", "live"}

-----------------------------------------------------------------------------
Init ==
  /\ program \in Programs
  /\ life = [x \in Scopes |-> "absent"]
  /\ parent = [x \in Scopes |-> None]
  /\ children = [o \in Owners |-> <<>>]
  /\ disposers = [o \in Owners |-> <<>>]
  /\ cleanups = [x \in Scopes |-> <<>>]
  /\ owner = None
  /\ tracking = None
  /\ microtasks = <<>>
  /\ stack = <<>>
  /\ panicked = FALSE
  /\ reruns = 0
  /\ home = [x \in Things |-> None]
  /\ ran = [c \in Cleanups |-> 0]

-----------------------------------------------------------------------------
(* Owners                                                                  *)

\* create_root and create_root_with_dispose: the new owner is a child of the current.
CreateRoot(o) ==
  /\ MayCreate(o)
  /\ life[o] = "absent"
  /\ life' = [life EXCEPT ![o] = "live"]
  /\ parent' = [parent EXCEPT ![o] = owner]
  /\ children' = IF owner = None THEN children
                 ELSE [children EXCEPT ![owner] = Append(@, o)]
  /\ Push(Call("root", o, 0, owner))
  /\ owner' = o
  /\ home' = [home EXCEPT ![o] = Home]
  /\ UNCHANGED <<program, disposers, cleanups, tracking, microtasks, panicked,
                 reruns, ran>>

\* run_with_owner, with_parent_owner
RunWithOwner(o) ==
  /\ MayEnter(o)
  /\ life[o] # "absent"
  /\ Push(Call("enter", o, 0, owner))
  /\ owner' = o
  /\ UNCHANGED <<program, life, tree, cleanups, tracking, microtasks, panicked, history>>

PreviousFault(f) == f.of
Previous(f) == f.prev

OwnerReturn ==
  /\ Running({"root", "enter"})
  /\ owner' = Previous(Top)
  /\ stack' = Popped
  /\ UNCHANGED <<program, life, tree, cleanups, tracking, microtasks, panicked, history>>

-----------------------------------------------------------------------------
(* Effects                                                                 *)

RegisterFault(e) == disposers' = disposers
\* register_disposer
Register(e) ==
  disposers' = IF owner = None THEN disposers
               ELSE [disposers EXCEPT ![owner] = Append(@, e)]

\* render_effect up to the call of the function: a new effect has no cleanups to run.
RenderEffect(e) ==
  /\ MayCreate(e)
  /\ life[e] = "absent"
  /\ life' = [life EXCEPT ![e] = "creating"]
  /\ parent' = [parent EXCEPT ![e] = owner]
  /\ Push(Call("first", e, 0, tracking))
  /\ tracking' = e
  /\ home' = [home EXCEPT ![e] = Home]
  /\ UNCHANGED <<program, children, disposers, cleanups, owner, microtasks, panicked,
                 reruns, ran>>

\* ... and from its return on: only now is the effect registered, and can be disposed.
FirstReturn ==
  /\ Running({"first"})
  /\ life' = [life EXCEPT ![Top.of] = "live"]
  /\ Register(Top.of)
  /\ stack' = Popped
  /\ tracking' = Previous(Top)
  /\ UNCHANGED <<program, parent, children, cleanups, owner, microtasks, panicked, history>>

\* effect: registered at once, the first run waits for a microtask.
DeferEffect(e) ==
  /\ MayCreate(e)
  /\ life[e] = "absent"
  /\ life' = [life EXCEPT ![e] = "live"]
  /\ parent' = [parent EXCEPT ![e] = owner]
  /\ Register(e)
  /\ microtasks' = Append(microtasks, e)
  /\ home' = [home EXCEPT ![e] = Home]
  /\ UNCHANGED <<program, children, cleanups, owner, tracking, stack, panicked,
                 reruns, ran>>

\* run_effect: the cleanups of the last run come first, for an active effect.
RunEffect(e) ==
  IF Active(e) THEN Push(Call("clean", e, Len(cleanups[e]), None)) ELSE stack' = stack

Microtask ==
  /\ stack = <<>>
  /\ microtasks # <<>>
  /\ RunEffect(Head(microtasks))
  /\ microtasks' = Tail(microtasks)
  /\ UNCHANGED <<program, life, tree, cleanups, owner, tracking, panicked, history>>

\* User code writes a signal that e has read, which it has not before its first run.
Rerun(e) ==
  /\ MayRerun(e)
  /\ life[e] # "absent" /\ \A i \in DOMAIN microtasks : microtasks[i] # e
  /\ reruns < MaxReruns
  /\ reruns' = reruns + 1
  /\ RunEffect(e)
  /\ UNCHANGED <<program, life, tree, cleanups, owner, tracking, microtasks, panicked,
                 home, ran>>

\* The end of run_cleanups, and the call of the function: whether the effect is still
\* active is not asked again.
RunStart ==
  /\ Running({"clean"})
  /\ Top.at = 0
  /\ cleanups' = [cleanups EXCEPT ![Top.of] = <<>>]
  /\ stack' = Append(Popped, Call("run", Top.of, 0, tracking))
  /\ tracking' = Top.of
  /\ UNCHANGED <<program, life, tree, owner, microtasks, panicked, history>>

RunReturn ==
  /\ Running({"run"})
  /\ tracking' = Previous(Top)
  /\ stack' = Popped
  /\ UNCHANGED <<program, life, tree, cleanups, owner, microtasks, panicked, history>>

-----------------------------------------------------------------------------
(* Cleanup functions                                                       *)

\* c joins the cleanups of x, if there is an x.
AddCleanup(c, x) ==
  /\ cleanups' = IF x = None THEN cleanups ELSE [cleanups EXCEPT ![x] = Append(@, c)]
  /\ home' = IF x = None THEN home ELSE [home EXCEPT ![c] = Home]
  /\ UNCHANGED <<program, life, tree, owner, tracking, microtasks, stack, panicked,
                 reruns, ran>>

\* c is in no array and never was.
Fresh(c) == home[c] = None /\ ran[c] = 0

\* on_cleanup: the effect that is running comes before the owner.
OnCleanup(c) ==
  /\ MayCreate(c) /\ Fresh(c)
  /\ AddCleanup(c, IF tracking # None THEN tracking ELSE owner)

\* register_owner_cleanup
OnOwnerCleanup(c) ==
  /\ MayCreate(c) /\ Fresh(c)
  /\ AddCleanup(c, owner)

\* An iteration of a loop of run_cleanups or of Owner::dispose over its cleanups.
CallCleanup ==
  /\ Running({"clean", "wipe", "cleanups"})
  /\ Top.at \in 1..Len(cleanups[Top.of])
  /\ LET c == cleanups[Top.of][Top.at] IN
       /\ stack' = Append(Stepped, Call("call", c, 0, None))
       /\ ran' = [ran EXCEPT ![c] = IF @ < 2 THEN @ + 1 ELSE @]
  /\ UNCHANGED <<program, life, tree, cleanups, owner, tracking, microtasks, panicked,
                 reruns, home>>

CleanupReturn ==
  /\ Running({"call"})
  /\ stack' = Popped
  /\ UNCHANGED <<program, life, tree, cleanups, owner, tracking, microtasks, panicked, history>>

-----------------------------------------------------------------------------
(* Disposal                                                                *)

\* The dispose function of an effect: it may be called again and again.
DisposeEffect(e) ==
  /\ MayDispose(e)
  /\ life[e] \in {"live", "disposed"}
  /\ life' = [life EXCEPT ![e] = "disposed"]
  /\ Push(Call("wipe", e, Len(cleanups[e]), None))
  /\ UNCHANGED <<program, tree, cleanups, owner, tracking, microtasks, panicked, history>>

WipedFault(array, x) == array
Wiped(array, x) == [array EXCEPT ![x] = <<>>]

\* The end of run_cleanups in the dispose function.
WipeReturn ==
  /\ Running({"wipe"})
  /\ Top.at = 0
  /\ cleanups' = Wiped(cleanups, Top.of)
  /\ stack' = Popped
  /\ UNCHANGED <<program, life, tree, owner, tracking, microtasks, panicked, history>>

FirstLoopFault(o) == Call("disposers", o, Len(disposers[o]), None)
\* Owner::dispose begins with the children.
FirstLoop(o) == Call("children", o, Len(children[o]), None)

\* Owner::dispose by user code.
DisposeOwner(o) ==
  /\ MayDispose(o)
  /\ life[o] = "live"
  /\ life' = [life EXCEPT ![o] = "disposed"]
  /\ Push(FirstLoop(o))
  /\ UNCHANGED <<program, tree, cleanups, owner, tracking, microtasks, panicked, history>>

\* An iteration over the children: one that is disposed already returns at once.
DisposeChild ==
  /\ Running({"children"})
  /\ Top.at \in 1..Len(children[Top.of])
  /\ LET child == children[Top.of][Top.at] IN
       IF life[child] = "live"
       THEN /\ life' = [life EXCEPT ![child] = "disposed"]
            /\ stack' = Append(Stepped, FirstLoop(child))
       ELSE life' = life /\ stack' = Stepped
  /\ UNCHANGED <<program, tree, cleanups, owner, tracking, microtasks, panicked, history>>

\* An iteration over the disposers.
CallDisposer ==
  /\ Running({"disposers"})
  /\ Top.at \in 1..Len(disposers[Top.of])
  /\ LET e == disposers[Top.of][Top.at] IN
       /\ life' = [life EXCEPT ![e] = "disposed"]
       /\ stack' = Append(Stepped, Call("wipe", e, Len(cleanups[e]), None))
  /\ UNCHANGED <<program, tree, cleanups, owner, tracking, microtasks, panicked, history>>

\* From one loop to the next, whose array is measured when it starts.
NextLoop ==
  /\ Running({"children", "disposers"})
  /\ Top.at = 0
  /\ stack' = Append(Popped,
       IF Top.kind = "children" THEN Call("disposers", Top.of, Len(disposers[Top.of]), None)
       ELSE Call("cleanups", Top.of, Len(cleanups[Top.of]), None))
  /\ UNCHANGED <<program, life, tree, cleanups, owner, tracking, microtasks, panicked, history>>

\* Array::retain, on an array that holds each owner once.
Without(array, o) ==
  LET at == CHOOSE i \in DOMAIN array : array[i] = o IN
  IF \E i \in DOMAIN array : array[i] = o
  THEN SubSeq(array, 1, at - 1) \o SubSeq(array, at + 1, Len(array)) ELSE array

\* The end of Owner::dispose: the arrays are cleared and the parent forgets the owner.
DisposeReturn ==
  /\ Running({"cleanups"})
  /\ Top.at = 0
  /\ LET o == Top.of
         p == parent[o]
         cleared == [children EXCEPT ![o] = <<>>]
     IN children' = IF p = None THEN cleared
                    ELSE [cleared EXCEPT ![p] = Without(@, o)]
  /\ disposers' = [disposers EXCEPT ![Top.of] = <<>>]
  /\ cleanups' = [cleanups EXCEPT ![Top.of] = <<>>]
  /\ stack' = Popped
  /\ UNCHANGED <<program, life, parent, owner, tracking, microtasks, panicked, history>>

\* A loop finds its array shorter than it was and indexes past the end.  The error unwinds
\* all calls, which leaves in force what they had installed; the model ends here.
OutOfRange ==
  /\ \/ Running({"clean", "wipe", "cleanups"}) /\ Top.at > Len(cleanups[Top.of])
     \/ Running({"children"}) /\ Top.at > Len(children[Top.of])
     \/ Running({"disposers"}) /\ Top.at > Len(disposers[Top.of])
  /\ panicked' = TRUE
  /\ UNCHANGED <<program, life, tree, cleanups, owner, tracking, microtasks, stack, history>>

-----------------------------------------------------------------------------
UserStep ==
  \/ \E o \in Owners : CreateRoot(o) \/ RunWithOwner(o) \/ DisposeOwner(o)
  \/ \E e \in Effects : RenderEffect(e) \/ DeferEffect(e) \/ Rerun(e) \/ DisposeEffect(e)
  \/ \E c \in Cleanups : OnCleanup(c) \/ OnOwnerCleanup(c)

EngineStep ==
  \/ OwnerReturn \/ FirstReturn \/ RunStart \/ RunReturn \/ Microtask
  \/ CallCleanup \/ CleanupReturn \/ WipeReturn
  \/ DisposeChild \/ CallDisposer \/ NextLoop \/ DisposeReturn \/ OutOfRange

Next == UserStep \/ EngineStep

Spec == Init /\ [][Next]_vars
-----------------------------------------------------------------------------
(* Properties                                                              *)

\* The type of every variable; in particular only existing scopes are ever registered,
\* current or queued.
TypeOK ==
  /\ program \in Programs
  /\ life \in [Scopes -> {"absent", "creating", "live", "disposed"}]
  /\ parent \in [Scopes -> Owners \cup {None}]
  /\ children \in [Owners -> Seq(Owners)]
  /\ disposers \in [Owners -> Seq(Effects)]
  /\ cleanups \in [Scopes -> Seq(Cleanups)]
  /\ owner \in Owners \cup {None}
  /\ tracking \in Effects \cup {None}
  /\ microtasks \in Seq(Effects)
  /\ stack \in Seq(Frame)
  /\ panicked \in BOOLEAN
  /\ reruns \in 0..MaxReruns
  /\ home \in [Things -> Scopes \cup {None}]
  /\ ran \in [Cleanups -> 0..2]

\* When control is back with the event loop no owner and no effect is in force, so that
\* what an event handler creates is registered nowhere by accident (run_with_owner and
\* run_with_cleanup_tracking).
Restored == stack = <<>> => owner = None /\ tracking = None
\* Each cleanup is called at most once, and when control is back with the event loop
\* every registered cleanup has been called or still can be: it is in the array of a
\* scope that is alive (run_cleanups, Owner::dispose).
CleanedOnce ==
  /\ \A c \in Cleanups : ran[c] <= 1
  /\ stack = <<>> =>
       \A c \in Cleanups : home[c] # None /\ ran[c] = 0 =>
         \E x \in Scopes : life[x] = "live" /\ \E i \in DOMAIN cleanups[x] : cleanups[x][i] = c

\* When control is back with the event loop nothing under a disposed owner is alive,
\* however deep (Owner::dispose and what register_disposer and Owner::new recorded).
NothingOutlives ==
  stack = <<>> =>
    \A x \in Scopes : Active(x) /\ parent[x] # None => life[parent[x]] = "live"

\* No owner runs its cleanups before everything under it is disposed, so that they
\* find no child component and no effect at work (the order of the loops of
\* Owner::dispose).
ChildrenFirst ==
  \A i \in DOMAIN stack : stack[i].kind = "cleanups" =>
    \A x \in Scopes : parent[x] = stack[i].of => ~Active(x)

\* A disposed scope stays disposed, and a disposed effect's function is not called
\* again, be it in an array that is being walked, in the microtask queue or between its
\* cleanups and its function.
DisposedStaysQuiet ==
  [][\A x \in Scopes : life[x] = "disposed" =>
       /\ life'[x] = "disposed"
       /\ stack' # stack /\ Len(stack') >= Len(stack) =>
            stack'[Len(stack')].kind \notin {"first", "run"} \/ stack'[Len(stack')].of # x]_vars

\* What on_cleanup says of components: "cleanup runs when component unmounts", that is
\* for a cleanup registered by the function of a root, once that root is disposed.
CleanupAtUnmount ==
  \A i \in DOMAIN stack :
    stack[i].kind = "call" /\ home[stack[i].of] \in Owners =>
      life[home[stack[i].of]] = "disposed"
=============================================================================
