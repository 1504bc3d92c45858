---------------------------- MODULE WebComponent ----------------------------
(***************************************************************************)
(* The Web Components runtime js/wcr: signals and effects (signal.ts) and  *)
(* the life of one element of a defined component (define.ts).  The        *)
(* component is the counter of js/wcr/examples/counter.ts: a count of its  *)
(* own that follows the attribute "initial", is shown in the page and is   *)
(* changed by clicks; and with it an effect that may itself use the        *)
(* element whenever the count changes.                                     *)
(*                                                                         *)
(* Everything is synchronous: a write calls the subscribers, which write,  *)
(* remove the element and insert it again, so the calls in progress are    *)
(* kept on a stack.  Styles, the template, bindAttr and the cleanup that   *)
(* an effect may return are left out.                                      *)
(* An operator named ...Fault is what a plausible bug would make of the    *)
(* operator after it; no action uses it.                                   *)
(***************************************************************************)
EXTENDS Integers, Sequences

CONSTANTS
  Values,       \* the numbers the attribute and the count take; 0 is one
  Default,      \* the default of the attribute
  Modes,        \* the shadow options of the definition
  None,
  MaxSetups,    \* bound: runs of setup, each with its own count
  MaxUses       \* bound: uses of the element, by the page or by the effect

ASSUME WebComponentAssumption ==
  /\ 0 \in Values /\ Default \in Values /\ None \notin Values
  /\ Modes \subseteq {"open", "closed", "none"}
  /\ MaxSetups \in Nat /\ MaxUses \in Nat

VARIABLES
  shadow, rooted,   \* the option, and whether there is a shadow root
  attribute,        \* the attribute in the document, or None
  connected,
  initial,          \* the signal of the attribute
  followers,        \* its subscribers, in their order
  count,            \* the count of each run of setup
  live,             \* the effects that are not disposed of
  handlers,         \* the runs of setup whose click handlers are attached
  dispose,          \* the run of setup whose function #dispose is; 0 if null
  text,             \* what the page shows
  stack,            \* the calls in progress, the innermost first
  uses

element == <<shadow, rooted, attribute, connected, dispose>>
vars == <<element, initial, followers, count, live, handlers, text, stack, uses>>

Setups == 1..MaxSetups
Subscribers == [kind : {"sync", "watch", "bind"}, setup : Setups]
Sub(k, n) == [kind |-> k, setup |-> n]
Notify(s) == [do |-> "notify", rest |-> s]
Body(n) == [do |-> "body", setup |-> n]
Connecting == [do |-> "connect"]
Top(do) == stack # <<>> /\ Head(stack).do = do

\* Set.add and Set.delete of the subscribers, whose order is that of the array here.
Add(subs, sub) == IF \E i \in 1..Len(subs) : subs[i] = sub THEN subs ELSE Append(subs, sub)
Without(subs, sub) ==
  LET at == CHOOSE i \in 1..Len(subs) : subs[i] = sub
  IN  IF \E i \in 1..Len(subs) : subs[i] = sub
      THEN SubSeq(subs, 1, at - 1) \o SubSeq(subs, at + 1, Len(subs)) ELSE subs

\* The effect that is running, innermost, follows what is read: currentEffect.
Running(calls) == {i \in 1..Len(calls) : calls[i].do = "body"}
Innermost(calls) == calls[CHOOSE i \in Running(calls) : \A j \in Running(calls) : i <= j].setup
Followed(calls) ==
  IF Running(calls) = {} THEN followers ELSE Add(followers, Sub("watch", Innermost(calls)))

ParseFault(v) == v
\* parseAttr for an int: the default also replaces a zero.
Parse(v) == IF v \in {None, 0} THEN Default ELSE v

\* The element is made, with an open shadow root of the server's page or without; a
\* closed one of the server may be attached once more.
Init ==
  /\ shadow \in Modes /\ rooted \in (IF shadow = "open" THEN BOOLEAN ELSE {FALSE})
  /\ attribute \in Values \cup {None}
  /\ connected = FALSE
  /\ initial = Default
  /\ followers = <<>> /\ count = <<>> /\ live = {} /\ handlers = {}
  /\ dispose = 0 /\ text = None
  /\ stack = <<>> /\ uses = 0

-----------------------------------------------------------------------------
(* Signals                                                                 *)

\* set: nothing happens if the value is the same; notify calls those who were subscribed
\* when it began.
SetInitial(v, rest) ==
  /\ initial' = v
  /\ stack' = IF v = initial THEN rest
              ELSE <<Notify(followers)>> \o rest

SetCount(n, v, rest) ==
  /\ count' = [count EXCEPT ![n] = v]
  /\ stack' = IF v = count[n] THEN rest
              ELSE <<Notify(<<Sub("watch", n), Sub("bind", n)>>)>> \o rest

RunsFault(sub) == TRUE
\* An effect that is disposed of stays subscribed and does not run; a subscription has
\* no such flag.
Runs(sub) == sub.kind = "sync" \/ sub \in live

\* The next subscriber of the innermost notify.
Step ==
  LET rest == Head(stack).rest
      sub == Head(rest)
      after == <<Notify(Tail(rest))>> \o Tail(stack)
  IN  /\ Top("notify") /\ rest # <<>>
      /\ CASE ~Runs(sub) -> stack' = after /\ UNCHANGED <<followers, count, text>>
           [] Runs(sub) /\ sub.kind = "sync" ->
                /\ SetCount(sub.setup, initial, after)
                /\ followers' = Followed(stack)
                /\ UNCHANGED text
           [] Runs(sub) /\ sub.kind = "watch" ->
                stack' = <<Body(sub.setup)>> \o after /\ UNCHANGED <<followers, count, text>>
           [] Runs(sub) /\ sub.kind = "bind" ->
                text' = count[sub.setup] /\ stack' = after /\ UNCHANGED <<followers, count>>
      /\ UNCHANGED <<element, initial, live, handlers, uses>>

\* notify, or the function of the effect, returns.
Return ==
  /\ \/ Top("notify") /\ Head(stack).rest = <<>>
     \/ Top("body")
  /\ stack' = Tail(stack)
  /\ UNCHANGED <<element, initial, followers, count, live, handlers, text, uses>>

-----------------------------------------------------------------------------
(* The element                                                             *)

\* The page uses the element, or the effect does when it runs again.
Free == stack = <<>> \/ Top("body")
Use == Free /\ uses < MaxUses /\ uses' = uses + 1

Click ==
  /\ Use
  /\ \E n \in handlers, v \in Values : SetCount(n, v, stack)
  /\ UNCHANGED <<element, initial, followers, live, handlers, text>>

\* attributeChangedCallback does nothing while the element is not connected.
Heard == connected

SetAttribute(v) ==
  /\ Use
  /\ attribute' = v
  /\ IF Heard THEN SetInitial(Parse(v), stack) ELSE UNCHANGED <<initial, stack>>
  /\ UNCHANGED <<shadow, rooted, connected, dispose, followers, count, live, handlers, text>>

UndoneFault(n) == {Sub("bind", n)}
\* What the function that setup returned disposes of, besides the subscription.
Undone(n) == {Sub("watch", n), Sub("bind", n)}

\* The element is removed: disconnectedCallback.
Remove ==
  /\ Use
  /\ connected /\ connected' = FALSE
  /\ dispose' = 0
  /\ live' = live \ Undone(dispose)
  /\ followers' = Without(followers, Sub("sync", dispose))
  /\ handlers' = handlers \ {dispose}
  /\ UNCHANGED <<shadow, rooted, attribute, initial, count, text, stack>>

\* It is inserted: connectedCallback, up to the end of syncAttributes.
Insert ==
  /\ Use
  /\ ~connected /\ connected' = TRUE
  /\ Len(count) < MaxSetups
  /\ SetInitial(Parse(attribute), <<Connecting>> \o stack)
  /\ UNCHANGED <<shadow, rooted, attribute, dispose, followers, count, live, handlers, text>>

\* The rest of it: a closed root is not found again and cannot be attached twice.
AttachFails ==
  /\ Top("connect")
  /\ shadow = "closed" /\ rooted
  /\ stack' = Tail(stack)
  /\ UNCHANGED <<element, initial, followers, count, live, handlers, text, uses>>

\* Or setup runs, and its effects with it for the first time.
Setup ==
  LET n == Len(count) + 1
  IN  /\ Top("connect")
      /\ ~(shadow = "closed" /\ rooted)
      /\ rooted' = (shadow # "none")
      /\ count' = Append(count, initial)
      /\ followers' = Append(Followed(stack), Sub("sync", n))
      /\ live' = live \cup {Sub("watch", n), Sub("bind", n)}
      /\ handlers' = handlers \cup {n}
      /\ dispose' = n
      /\ text' = initial
      /\ stack' = Tail(stack)
      /\ UNCHANGED <<shadow, attribute, connected, initial, uses>>

-----------------------------------------------------------------------------
Next ==
  \/ Step \/ Return
  \/ Click \/ (\E v \in Values \cup {None} : SetAttribute(v)) \/ Remove \/ Insert
  \/ AttachFails \/ Setup

Spec == Init /\ [][Next]_vars
-----------------------------------------------------------------------------
(* Properties                                                              *)

\* The type of every variable.
TypeOK ==
  /\ shadow \in Modes /\ rooted \in BOOLEAN
  /\ attribute \in Values \cup {None} /\ connected \in BOOLEAN
  /\ initial \in Values
  /\ followers \in Seq(Subscribers) /\ count \in Seq(Values)
  /\ live \subseteq Subscribers /\ handlers \subseteq Setups
  /\ dispose \in 0..MaxSetups /\ text \in Values \cup {None}
  /\ \A i \in 1..Len(stack) : stack[i].do \in {"notify", "body", "connect"}
  /\ uses \in 0..MaxUses

\* When nothing runs any more the page shows the count of the setup in force, and the
\* signal of the attribute has its value: whatever writes, removals and insertions were
\* made by the effects that a write calls, and although the attribute may have changed
\* while the element was not connected.
Shown ==
  stack = <<>> /\ dispose # 0 => text = count[dispose] /\ initial = Parse(attribute)

\* Nothing of a removed element is at work, and an inserted one has one setup: no effect can
\* run, no click counts, and the attribute is not followed for a setup that was disposed of.
\* Its effects may stay among the followers of a signal; they are skipped there (Runs).
Released ==
  stack = <<>> =>
    /\ dispose # 0 => connected
    /\ \A sub \in live : sub.setup = dispose
    /\ handlers \subseteq {dispose}
    /\ \A i \in 1..Len(followers) : followers[i].kind = "sync" => followers[i].setup = dispose
=============================================================================
